------------------------ MODULE MacroExecutorProofs ------------------------
(***************************************************************************)
(* Proofs about MacroExecutor: type correctness, one send at a time, the   *)
(* ownership of the compiled plan, the absence of unnoticed stuck keys and *)
(* the bound on what the unsynchronised availability latch lets through;   *)
(* then what is typed for a send and what its terminal status says of it,  *)
(* what a cancel still lets through, and that the engine fails closed.     *)
(* For every set of sends, every plan, every delay and every number of     *)
(* mutex failures.  Liveness stays with TLC.                               *)
(***************************************************************************)
EXTENDS MacroExecutor, FiniteSetTheorems, SequenceTheorems, TLAPS

USE DEF engineVars, latchVars, sendVars, workerVars, httpdVars, planVars,
        cancelVars, historyVars, sharedVars, restVars, vars

-----------------------------------------------------------------------------
(* Type correctness *)

\* A mutex section leaves a legal number of failures to come.
LEMMA LockType ==
  ASSUME TypeEngine, NEW lk \in LockOutcomes, LockStep(lk)
  PROVE  faults' \in 0 .. MaxFaults
  BY FaultAssumption DEF TypeEngine, LockStep

\* reset_terminal_flags() leaves Booleans behind, locked or not.
LEMMA ResetType ==
  ASSUME TypeEngine, NEW lk \in LockOutcomes, ResetTerminalFlags(lk)
  PROVE  busy' \in BOOLEAN /\ cancelReq' \in BOOLEAN /\ confirmReq' \in BOOLEAN
<1>1. CASE lk = "nolock"
  BY <1>1 DEF TypeEngine, ResetTerminalFlags
<1>2. CASE lk # "nolock"
  BY <1>2 DEF ResetTerminalFlags
<1> QED
  BY <1>1, <1>2

\* The worker's locals after macro_executor_engine_execute() returned.
LEMMA ReturnType == WorkerReturn => TypeWorker'
<1> SUFFICES ASSUME WorkerReturn PROVE TypeWorker'
  OBVIOUS
<1>1. widx' \in Nat \ {0} /\ wrem' \in Nat
  BY DEF WorkerReturn
<1>2. wrel' \in BOOLEAN /\ wfail' \in BOOLEAN /\ expired' \in BOOLEAN
  BY DEF WorkerReturn
<1>3. /\ wpc' = "receive" /\ wpc' \in WorkerPcs /\ wid' \in Ids \cup {NoId}
      /\ wret' = "none" /\ wres' \in Errors
  BY DEF WorkerReturn, WorkerPcs, Errors
<1> QED
  BY <1>1, <1>2, <1>3 DEF TypeWorker

\* The state after initialisation is well typed.
LEMMA InitType == Init => TypeOK
<1> SUFFICES ASSUME Init PROVE TypeOK
  OBVIOUS
<1>1. TypeEngine
  <2>1. faults \in 0 .. MaxFaults
    BY FaultAssumption DEF Init
  <2>2. /\ usbReady \in BOOLEAN /\ held \in BOOLEAN /\ busy \in BOOLEAN
        /\ cancelReq \in BOOLEAN /\ confirmReq \in BOOLEAN
        /\ unavailable \in BOOLEAN /\ releaseFault \in BOOLEAN
    BY Zenon DEF Init
  <2> QED BY <2>1, <2>2 DEF TypeEngine
<1>2. TypeStatus
  BY DEF Init, TypeStatus, StatusType, States
<1>3. TypeWorker
  <2>1. widx \in Nat \ {0} /\ wrem \in Nat
    BY DEF Init
  <2>2. wrel \in BOOLEAN /\ wfail \in BOOLEAN /\ expired \in BOOLEAN
    BY Zenon DEF Init
  <2>3. /\ wpc = "receive" /\ wpc \in WorkerPcs /\ wid \in Ids \cup {NoId}
        /\ wret = "none" /\ wres \in Errors
    BY DEF Init, WorkerPcs, Errors
  <2> QED BY <2>1, <2>2, <2>3 DEF TypeWorker
<1>4. TypeHttpd
  BY DEF Init, TypeHttpd, HttpdPcs, Replies, SubmitPcs
<1>5. TypeShared
  BY DEF Init, TypeShared, ConsolePcs
<1>6. TypeHistory
  BY DEF Init, TypeHistory
<1> QED
  BY <1>1, <1>2, <1>3, <1>4, <1>5, <1>6 DEF TypeOK

\* Every step of every task keeps the types: one case per action, one step
\* per group of variables the action changes.
LEMMA TypeStep == TypeOK /\ [Next]_vars => TypeOK'
<1> SUFFICES ASSUME TypeOK, [Next]_vars PROVE TypeOK'
  OBVIOUS
<1>1. CASE WorkerReceive
  <2>1. TypeWorker'
    BY <1>1, SliceAssumption DEF WorkerReceive, TypeShared, TypeOK,
           TypeWorker, Errors, WorkerPcs, ConfirmPcs, ActionPcs, FinishPcs
  <2>2. TypeShared'
    BY <1>1 DEF WorkerReceive, TypeOK, TypeShared, ConsolePcs
  <2>3. TypeEngine' /\ TypeStatus' /\ TypeHttpd' /\ TypeHistory'
    BY <1>1 DEF WorkerReceive, TypeOK, TypeEngine, TypeStatus, TypeHttpd,
           TypeHistory
  <2> QED BY <2>1, <2>2, <2>3 DEF TypeOK
<1>2. CASE WorkerPublishFirst
  <2>1. TypeEngine'
    BY <1>2, FaultAssumption DEF WorkerPublishFirst, PublishStatus, LockStep,
           TypeOK, TypeEngine
  <2>2. TypeStatus'
    BY <1>2 DEF WorkerPublishFirst, PublishStatus, Showing, TypeWorker,
           TypeOK, TypeStatus, StatusType, States, Terminals
  <2>3. TypeWorker'
    BY <1>2, SliceAssumption DEF WorkerPublishFirst, TypeOK, TypeWorker,
           Errors, WorkerPcs, ConfirmPcs, ActionPcs, FinishPcs
  <2>4. TypeHttpd' /\ TypeShared' /\ TypeHistory'
    BY <1>2 DEF WorkerPublishFirst, TypeOK, TypeHttpd, TypeShared,
           TypeHistory
  <2> QED BY <2>1, <2>2, <2>3, <2>4 DEF TypeOK
<1>3. CASE WorkerAwaitCancel
  <2>1. TypeEngine'
    BY <1>3, FaultAssumption DEF WorkerAwaitCancel, LockStep, TypeOK,
           TypeEngine
  <2>2. TypeWorker'
    BY <1>3, SliceAssumption DEF WorkerAwaitCancel, TypeOK, TypeWorker,
           Errors, WorkerPcs, ConfirmPcs, ActionPcs, FinishPcs
  <2>3. TypeStatus' /\ TypeHttpd' /\ TypeShared' /\ TypeHistory'
    BY <1>3 DEF WorkerAwaitCancel, TypeOK, TypeStatus, TypeHttpd, TypeShared,
           TypeHistory
  <2> QED BY <2>1, <2>2, <2>3 DEF TypeOK
<1>4. CASE WorkerAwaitConfirm
  <2>1. TypeEngine'
    BY <1>4, FaultAssumption DEF WorkerAwaitConfirm, LockStep, TypeOK,
           TypeEngine
  <2>2. TypeWorker'
    BY <1>4, SliceAssumption DEF WorkerAwaitConfirm, TypeOK, TypeWorker,
           Errors, WorkerPcs, ConfirmPcs, ActionPcs, FinishPcs
  <2>3. TypeStatus' /\ TypeHttpd' /\ TypeShared' /\ TypeHistory'
    BY <1>4 DEF WorkerAwaitConfirm, TypeOK, TypeStatus, TypeHttpd,
           TypeShared, TypeHistory
  <2> QED BY <2>1, <2>2, <2>3 DEF TypeOK
<1>5. CASE WorkerPublishRunning
  <2>1. TypeEngine'
    BY <1>5, FaultAssumption DEF WorkerPublishRunning, PublishStatus,
           LockStep, TypeOK, TypeEngine
  <2>2. TypeStatus'
    BY <1>5 DEF WorkerPublishRunning, PublishStatus, Showing, TypeWorker,
           TypeOK, TypeStatus, StatusType, States, Terminals
  <2>3. TypeWorker'
    BY <1>5, SliceAssumption DEF WorkerPublishRunning, TypeOK, TypeWorker,
           Errors, WorkerPcs, ConfirmPcs, ActionPcs, FinishPcs
  <2>4. TypeHttpd' /\ TypeShared' /\ TypeHistory'
    BY <1>5 DEF WorkerPublishRunning, TypeOK, TypeHttpd, TypeShared,
           TypeHistory
  <2> QED BY <2>1, <2>2, <2>3, <2>4 DEF TypeOK
<1>6. CASE WorkerPublishIndex
  <2>1. TypeEngine'
    BY <1>6, FaultAssumption DEF WorkerPublishIndex, PublishStatus, LockStep,
           TypeOK, TypeEngine
  <2>2. TypeStatus'
    BY <1>6 DEF WorkerPublishIndex, PublishStatus, Showing, TypeWorker,
           TypeOK, TypeStatus, StatusType, States, Terminals
  <2>3. TypeWorker'
    BY <1>6, SliceAssumption DEF WorkerPublishIndex, TypeOK, TypeWorker,
           Errors, WorkerPcs, ConfirmPcs, ActionPcs, FinishPcs
  <2>4. TypeHttpd' /\ TypeShared' /\ TypeHistory'
    BY <1>6 DEF WorkerPublishIndex, TypeOK, TypeHttpd, TypeShared,
           TypeHistory
  <2> QED BY <2>1, <2>2, <2>3, <2>4 DEF TypeOK
<1>7. CASE WorkerCheck
  <2>1. TypeEngine'
    BY <1>7, FaultAssumption DEF WorkerCheck, LockStep, TypeOK, TypeEngine
  <2>2. TypeWorker'
    BY <1>7, SliceAssumption DEF WorkerCheck, TypeOK, TypeWorker, Errors,
           WorkerPcs, ConfirmPcs, ActionPcs, FinishPcs
  <2>3. TypeStatus' /\ TypeHttpd' /\ TypeShared' /\ TypeHistory'
    BY <1>7 DEF WorkerCheck, TypeOK, TypeStatus, TypeHttpd, TypeShared,
           TypeHistory
  <2> QED BY <2>1, <2>2, <2>3 DEF TypeOK
<1>8. CASE WorkerPress
  <2>1. TypeEngine'
    BY <1>8, FaultAssumption DEF WorkerPress, TypeOK, TypeEngine
  <2>2. TypeWorker'
    BY <1>8, SliceAssumption DEF WorkerPress, UsbResults, TypeOK, TypeWorker,
           Errors, WorkerPcs, ConfirmPcs, ActionPcs, FinishPcs
  <2>3. TypeHistory'
    BY <1>8 DEF WorkerPress, TypeWorker, TypeOK, TypeHistory, Terminals
  <2>4. TypeStatus' /\ TypeHttpd' /\ TypeShared'
    BY <1>8 DEF WorkerPress, TypeOK, TypeStatus, TypeHttpd, TypeShared
  <2> QED BY <2>1, <2>2, <2>3, <2>4 DEF TypeOK
<1>9. CASE WorkerSlice
  <2>1. TypeEngine'
    BY <1>9, FaultAssumption DEF WorkerSlice, LockStep, TypeOK, TypeEngine
  <2>2. TypeWorker'
    BY <1>9, SliceAssumption DEF WorkerSlice, DelayReturn, DelayDone, TypeOK,
           TypeWorker, Errors, WorkerPcs, ConfirmPcs, ActionPcs, FinishPcs
  <2>3. TypeStatus' /\ TypeHttpd' /\ TypeShared' /\ TypeHistory'
    BY <1>9 DEF WorkerSlice, TypeOK, TypeStatus, TypeHttpd, TypeShared,
           TypeHistory
  <2> QED BY <2>1, <2>2, <2>3 DEF TypeOK
<1>10. CASE WorkerRelease
  <2>1. TypeEngine'
    BY <1>10, FaultAssumption DEF WorkerRelease, ReleaseAll, TypeOK,
           TypeEngine
  <2>2. TypeWorker'
    BY <1>10, SliceAssumption DEF WorkerRelease, UsbResults, TypeOK,
           TypeWorker, Errors, WorkerPcs, ConfirmPcs, ActionPcs, FinishPcs
  <2>3. TypeStatus' /\ TypeHttpd' /\ TypeShared' /\ TypeHistory'
    BY <1>10 DEF WorkerRelease, TypeOK, TypeStatus, TypeHttpd, TypeShared,
           TypeHistory
  <2> QED BY <2>1, <2>2, <2>3 DEF TypeOK
<1>11. CASE WorkerFree
  <2>1. TypeWorker'
    <3>1. wpc' = "finish_release" /\ widx' = 1 /\ wrem' = 0 /\ wret' = "none"
      BY <1>11 DEF WorkerFree
    <3>2. wid' \in Ids /\ wres' \in Errors
      BY <1>11 DEF WorkerFree, TypeOK, TypeWorker
    <3>3. wrel' \in BOOLEAN /\ wfail' \in BOOLEAN /\ expired' \in BOOLEAN
      BY <1>11 DEF WorkerFree, TypeOK, TypeWorker
    <3>4. wpc' \in WorkerPcs
      BY <3>1 DEF WorkerPcs, FinishPcs
    <3> QED BY <3>1, <3>2, <3>3, <3>4 DEF TypeWorker
  <2>2. TypeShared'
    BY <1>11 DEF WorkerFree, PlanFree, TypeOK, TypeShared, ConsolePcs
  <2>3. TypeEngine' /\ TypeStatus' /\ TypeHttpd' /\ TypeHistory'
    BY <1>11 DEF WorkerFree, TypeOK, TypeEngine, TypeStatus, TypeHttpd,
           TypeHistory
  <2> QED BY <2>1, <2>2, <2>3 DEF TypeOK
<1>12. CASE WorkerFinishRelease
  <2>1. TypeEngine'
    BY <1>12, FaultAssumption DEF WorkerFinishRelease, ReleaseAll, TypeOK,
           TypeEngine
  <2>2. TypeWorker'
    BY <1>12, SliceAssumption DEF WorkerFinishRelease, UsbResults, TypeOK,
           TypeWorker, Errors, WorkerPcs, ConfirmPcs, ActionPcs, FinishPcs
  <2>3. TypeStatus' /\ TypeHttpd' /\ TypeShared' /\ TypeHistory'
    BY <1>12 DEF WorkerFinishRelease, TypeOK, TypeStatus, TypeHttpd,
           TypeShared, TypeHistory
  <2> QED BY <2>1, <2>2, <2>3 DEF TypeOK
<1>13. CASE WorkerFinishPublish
  <2>1. TypeEngine'
    BY <1>13, FaultAssumption DEF WorkerFinishPublish, PublishStatus,
           LockStep, TypeOK, TypeEngine
  <2>2. TypeStatus'
    BY <1>13 DEF WorkerFinishPublish, PublishStatus, Terminal, TypeWorker,
           TypeOK, TypeStatus, StatusType, States, Terminals
  <2>3. TypeWorker'
    BY <1>13, SliceAssumption DEF WorkerFinishPublish, TypeOK, TypeWorker,
           Errors, WorkerPcs, ConfirmPcs, ActionPcs, FinishPcs
  <2>4. TypeHistory'
    BY <1>13 DEF WorkerFinishPublish, Terminal, TypeOK, TypeHistory,
           Terminals
  <2>5. TypeHttpd' /\ TypeShared'
    BY <1>13 DEF WorkerFinishPublish, TypeOK, TypeHttpd, TypeShared
  <2> QED BY <2>1, <2>2, <2>3, <2>4, <2>5 DEF TypeOK
<1>14. CASE WorkerFinishReset
  <2>1. TypeEngine'
    <3>1. PICK lk \in LockOutcomes : ResetTerminalFlags(lk)
      BY <1>14 DEF WorkerFinishReset
    <3>2. faults' \in 0 .. MaxFaults
      BY <3>1, LockType DEF ResetTerminalFlags, TypeOK
    <3> QED BY <1>14, <3>1, <3>2, ResetType DEF WorkerFinishReset, TypeOK, TypeEngine
  <2>2. TypeWorker'
    <3>1. CASE wpc' = "latch" /\ wid' = wid
      BY <1>14, <3>1 DEF WorkerFinishReset, WorkerReturn, TypeOK, TypeWorker,
             WorkerPcs
    <3>2. CASE WorkerReturn
      BY <3>2, ReturnType
    <3> QED BY <1>14, <3>1, <3>2 DEF WorkerFinishReset
  <2>3. TypeStatus' /\ TypeHttpd' /\ TypeShared' /\ TypeHistory'
    BY <1>14 DEF WorkerFinishReset, TypeOK, TypeStatus, TypeHttpd,
           TypeShared, TypeHistory
  <2> QED BY <2>1, <2>2, <2>3 DEF TypeOK
<1>15. CASE WorkerLatch
  <2>1. TypeEngine'
    BY <1>15, FaultAssumption DEF WorkerLatch, TypeOK, TypeEngine
  <2>2. TypeWorker'
    BY <1>15, ReturnType DEF WorkerLatch
  <2>3. TypeStatus' /\ TypeHttpd' /\ TypeShared' /\ TypeHistory'
    BY <1>15 DEF WorkerLatch, TypeOK, TypeStatus, TypeHttpd, TypeShared,
           TypeHistory
  <2> QED BY <2>1, <2>2, <2>3 DEF TypeOK
<1>16. CASE DeadlinePasses
  <2>1. TypeWorker'
    BY <1>16, SliceAssumption DEF DeadlinePasses, TypeOK, TypeWorker, Errors,
           WorkerPcs, ConfirmPcs, ActionPcs, FinishPcs
  <2>2. TypeEngine' /\ TypeStatus' /\ TypeHttpd' /\ TypeShared' /\ TypeHistory'
    BY <1>16 DEF DeadlinePasses, TypeOK, TypeEngine, TypeStatus, TypeHttpd,
           TypeShared, TypeHistory
  <2> QED BY <2>1, <2>2 DEF TypeOK
<1>17. ASSUME NEW id \in Ids, SendCreate(id) PROVE TypeOK'
  <2>1. TypeHttpd'
    BY <1>17 DEF SendCreate, TypeOK, TypeHttpd, Replies, HttpdPcs, SubmitPcs
  <2>2. TypeShared'
    BY <1>17 DEF SendCreate, TypeOK, TypeShared, ConsolePcs
  <2>3. TypeEngine' /\ TypeStatus' /\ TypeWorker' /\ TypeHistory'
    BY <1>17 DEF SendCreate, TypeOK, TypeEngine, TypeStatus, TypeWorker,
           TypeHistory
  <2> QED BY <2>1, <2>2, <2>3 DEF TypeOK
<1>18. CASE SubmitReadLatch
  <2>1. TypeHttpd'
    BY <1>18 DEF SubmitReadLatch, TypeOK, TypeHttpd, Replies, HttpdPcs,
           SubmitPcs
  <2>2. TypeEngine' /\ TypeStatus' /\ TypeWorker' /\ TypeShared' /\ TypeHistory'
    BY <1>18 DEF SubmitReadLatch, TypeOK, TypeEngine, TypeStatus, TypeWorker,
           TypeShared, TypeHistory
  <2> QED BY <2>1, <2>2 DEF TypeOK
<1>19. CASE SubmitReadUsb
  <2>1. TypeHttpd'
    BY <1>19 DEF SubmitReadUsb, TypeOK, TypeHttpd, Replies, HttpdPcs,
           SubmitPcs
  <2>2. TypeEngine' /\ TypeStatus' /\ TypeWorker' /\ TypeShared' /\ TypeHistory'
    BY <1>19 DEF SubmitReadUsb, TypeOK, TypeEngine, TypeStatus, TypeWorker,
           TypeShared, TypeHistory
  <2> QED BY <2>1, <2>2 DEF TypeOK
<1>20. CASE SubmitClaim
  <2>1. TypeEngine'
    <3>1. faults' \in 0 .. MaxFaults
      BY <1>20, LockType DEF SubmitClaim, CancelSection, TypeOK
    <3>2. busy' \in BOOLEAN /\ cancelReq' \in BOOLEAN /\ confirmReq' \in BOOLEAN
      BY <1>20, Zenon DEF SubmitClaim, CancelSection, TypeOK, TypeEngine
    <3> QED BY <1>20, <3>1, <3>2 DEF SubmitClaim, TypeOK, TypeEngine
  <2>2. TypeHttpd'
    BY <1>20 DEF SubmitClaim, TypeOK, TypeHttpd, Replies, HttpdPcs, SubmitPcs
  <2>3. TypeHistory'
    BY <1>20 DEF SubmitClaim, TypeHttpd, TypeOK, TypeHistory, Terminals
  <2>4. TypeStatus' /\ TypeWorker' /\ TypeShared'
    BY <1>20 DEF SubmitClaim, TypeOK, TypeStatus, TypeWorker, TypeShared
  <2> QED BY <2>1, <2>2, <2>3, <2>4 DEF TypeOK
<1>21. CASE SubmitSend
  <2>1. TypeEngine'
    BY <1>21, FaultAssumption DEF SubmitSend, TypeOK, TypeEngine
  <2>2. TypeHttpd'
    BY <1>21 DEF SubmitSend, TypeOK, TypeHttpd, Replies, HttpdPcs, SubmitPcs
  <2>3. TypeShared'
    BY <1>21, SMTT(30) DEF SubmitSend, TypeHttpd, SubmitPcs, TypeOK, TypeShared,
           ConsolePcs
  <2>4. TypeHistory'
    BY <1>21 DEF SubmitSend, TypeHttpd, SubmitPcs, TypeOK, TypeHistory,
           Terminals
  <2>5. TypeStatus' /\ TypeWorker'
    BY <1>21 DEF SubmitSend, TypeOK, TypeStatus, TypeWorker
  <2> QED BY <2>1, <2>2, <2>3, <2>4, <2>5 DEF TypeOK
<1>22. CASE UndoRelease
  <2>1. TypeEngine'
    BY <1>22, FaultAssumption DEF UndoRelease, ReleaseAll, TypeOK, TypeEngine
  <2>2. TypeHttpd'
    BY <1>22 DEF UndoRelease, TypeOK, TypeHttpd, Replies, HttpdPcs, SubmitPcs
  <2>3. TypeStatus' /\ TypeWorker' /\ TypeShared' /\ TypeHistory'
    BY <1>22 DEF UndoRelease, TypeOK, TypeStatus, TypeWorker, TypeShared,
           TypeHistory
  <2> QED BY <2>1, <2>2, <2>3 DEF TypeOK
<1>23. CASE UndoPublish
  <2>1. TypeEngine'
    BY <1>23, FaultAssumption DEF UndoPublish, PublishStatus, LockStep,
           TypeOK, TypeEngine
  <2>2. TypeStatus'
    BY <1>23 DEF UndoPublish, PublishStatus, TypeHttpd, SubmitPcs, TypeOK,
           TypeStatus, StatusType, States, Terminals
  <2>3. TypeHttpd'
    BY <1>23 DEF UndoPublish, TypeOK, TypeHttpd, Replies, HttpdPcs, SubmitPcs
  <2>4. TypeWorker' /\ TypeShared' /\ TypeHistory'
    BY <1>23 DEF UndoPublish, TypeOK, TypeWorker, TypeShared, TypeHistory
  <2> QED BY <2>1, <2>2, <2>3, <2>4 DEF TypeOK
<1>24. CASE UndoReset
  <2>1. TypeEngine'
    <3>1. PICK lk \in LockOutcomes : ResetTerminalFlags(lk)
      BY <1>24 DEF UndoReset
    <3>2. faults' \in 0 .. MaxFaults
      BY <3>1, LockType DEF ResetTerminalFlags, TypeOK
    <3> QED BY <1>24, <3>1, <3>2, ResetType DEF UndoReset, TypeOK, TypeEngine
  <2>2. TypeHttpd'
    BY <1>24 DEF UndoReset, TypeOK, TypeHttpd, Replies, HttpdPcs, SubmitPcs
  <2>3. TypeStatus' /\ TypeWorker' /\ TypeShared' /\ TypeHistory'
    BY <1>24 DEF UndoReset, TypeOK, TypeStatus, TypeWorker, TypeShared,
           TypeHistory
  <2> QED BY <2>1, <2>2, <2>3 DEF TypeOK
<1>25. CASE UndoLatch
  <2>1. TypeEngine'
    BY <1>25, FaultAssumption DEF UndoLatch, TypeOK, TypeEngine
  <2>2. TypeHttpd'
    BY <1>25 DEF UndoLatch, TypeOK, TypeHttpd, Replies, HttpdPcs, SubmitPcs
  <2>3. TypeStatus' /\ TypeWorker' /\ TypeShared' /\ TypeHistory'
    BY <1>25 DEF UndoLatch, TypeOK, TypeStatus, TypeWorker, TypeShared,
           TypeHistory
  <2> QED BY <2>1, <2>2, <2>3 DEF TypeOK
<1>26. CASE SendDrop
  <2>1. TypeHttpd'
    BY <1>26 DEF SendDrop, TypeOK, TypeHttpd, Replies, HttpdPcs, SubmitPcs
  <2>2. TypeShared'
    BY <1>26 DEF SendDrop, PlanFree, TypeOK, TypeShared, ConsolePcs
  <2>3. TypeEngine' /\ TypeStatus' /\ TypeWorker' /\ TypeHistory'
    BY <1>26 DEF SendDrop, TypeOK, TypeEngine, TypeStatus, TypeWorker,
           TypeHistory
  <2> QED BY <2>1, <2>2, <2>3 DEF TypeOK
<1>27. CASE HttpCancelStart
  <2>1. TypeHttpd'
    BY <1>27 DEF HttpCancelStart, TypeOK, TypeHttpd, Replies, HttpdPcs,
           SubmitPcs
  <2>2. TypeEngine' /\ TypeStatus' /\ TypeWorker' /\ TypeShared' /\ TypeHistory'
    BY <1>27 DEF HttpCancelStart, TypeOK, TypeEngine, TypeStatus, TypeWorker,
           TypeShared, TypeHistory
  <2> QED BY <2>1, <2>2 DEF TypeOK
<1>28. CASE HttpGetStart
  <2>1. TypeHttpd'
    BY <1>28 DEF HttpGetStart, TypeEngine, TypeOK, TypeHttpd, Replies,
           HttpdPcs, SubmitPcs
  <2>2. TypeEngine' /\ TypeStatus' /\ TypeWorker' /\ TypeShared' /\ TypeHistory'
    BY <1>28 DEF HttpGetStart, TypeOK, TypeEngine, TypeStatus, TypeWorker,
           TypeShared, TypeHistory
  <2> QED BY <2>1, <2>2 DEF TypeOK
<1>29. CASE HttpCancelStatus
  <2>1. TypeEngine'
    BY <1>29, FaultAssumption DEF HttpCancelStatus, LockStep, TypeOK,
           TypeEngine
  <2>2. TypeHttpd'
    BY <1>29 DEF HttpCancelStatus, TypeOK, TypeHttpd, Replies, HttpdPcs,
           SubmitPcs
  <2>3. TypeStatus' /\ TypeWorker' /\ TypeShared' /\ TypeHistory'
    BY <1>29 DEF HttpCancelStatus, TypeOK, TypeStatus, TypeWorker,
           TypeShared, TypeHistory
  <2> QED BY <2>1, <2>2, <2>3 DEF TypeOK
<1>30. CASE HttpCancelLatch
  <2>1. TypeHttpd'
    BY <1>30 DEF HttpCancelLatch, TypeOK, TypeHttpd, Replies, HttpdPcs,
           SubmitPcs
  <2>2. TypeEngine' /\ TypeStatus' /\ TypeWorker' /\ TypeShared' /\ TypeHistory'
    BY <1>30 DEF HttpCancelLatch, TypeOK, TypeEngine, TypeStatus, TypeWorker,
           TypeShared, TypeHistory
  <2> QED BY <2>1, <2>2 DEF TypeOK
<1>31. CASE HttpCancelLock
  <2>1. TypeEngine'
    <3>1. faults' \in 0 .. MaxFaults
      BY <1>31, LockType DEF HttpCancelLock, CancelSection, TypeOK
    <3>2. busy' \in BOOLEAN /\ cancelReq' \in BOOLEAN /\ confirmReq' \in BOOLEAN
      BY <1>31, Zenon DEF HttpCancelLock, CancelSection, TypeOK, TypeEngine
    <3> QED BY <1>31, <3>1, <3>2 DEF HttpCancelLock, TypeOK, TypeEngine
  <2>2. TypeHttpd'
    BY <1>31 DEF HttpCancelLock, TypeOK, TypeHttpd, Replies, HttpdPcs,
           SubmitPcs
  <2>3. TypeHistory'
    BY <1>31 DEF HttpCancelLock, CancelSection, TypeOK, TypeHistory,
           Terminals
  <2>4. TypeStatus' /\ TypeWorker' /\ TypeShared'
    BY <1>31 DEF HttpCancelLock, CancelSection, TypeOK, TypeStatus,
           TypeWorker, TypeShared
  <2> QED BY <2>1, <2>2, <2>3, <2>4 DEF TypeOK
<1>32. CASE HttpGetLock
  <2>1. TypeEngine'
    BY <1>32, FaultAssumption DEF HttpGetLock, LockStep, TypeOK, TypeEngine
  <2>2. TypeHttpd'
    BY <1>32 DEF HttpGetLock, TypeOK, TypeHttpd, Replies, HttpdPcs, SubmitPcs
  <2>3. TypeStatus' /\ TypeWorker' /\ TypeShared' /\ TypeHistory'
    BY <1>32 DEF HttpGetLock, TypeOK, TypeStatus, TypeWorker, TypeShared,
           TypeHistory
  <2> QED BY <2>1, <2>2, <2>3 DEF TypeOK
<1>33. CASE HttpReply
  <2>1. TypeHttpd'
    BY <1>33 DEF HttpReply, TypeOK, TypeHttpd, Replies, HttpdPcs, SubmitPcs
  <2>2. TypeEngine' /\ TypeStatus' /\ TypeWorker' /\ TypeShared' /\ TypeHistory'
    BY <1>33 DEF HttpReply, TypeOK, TypeEngine, TypeStatus, TypeWorker,
           TypeShared, TypeHistory
  <2> QED BY <2>1, <2>2 DEF TypeOK
<1>34. ASSUME NEW cmd \in {"cancel", "confirm"}, ConsoleStart(cmd)
      PROVE TypeOK'
  <2>1. TypeShared'
    BY <1>34 DEF ConsoleStart, TypeOK, TypeShared, ConsolePcs
  <2>2. TypeEngine' /\ TypeStatus' /\ TypeWorker' /\ TypeHttpd' /\ TypeHistory'
    BY <1>34 DEF ConsoleStart, TypeOK, TypeEngine, TypeStatus, TypeWorker,
           TypeHttpd, TypeHistory
  <2> QED BY <2>1, <2>2 DEF TypeOK
<1>35. CASE ConsoleCancel
  <2>1. TypeEngine'
    <3>1. faults' \in 0 .. MaxFaults
      BY <1>35, LockType DEF ConsoleCancel, CancelSection, TypeOK
    <3>2. busy' \in BOOLEAN /\ cancelReq' \in BOOLEAN /\ confirmReq' \in BOOLEAN
      BY <1>35, Zenon DEF ConsoleCancel, CancelSection, TypeOK, TypeEngine
    <3> QED BY <1>35, <3>1, <3>2 DEF ConsoleCancel, TypeOK, TypeEngine
  <2>2. TypeShared'
    BY <1>35 DEF ConsoleCancel, TypeOK, TypeShared, ConsolePcs
  <2>3. TypeHistory'
    BY <1>35 DEF ConsoleCancel, CancelSection, TypeOK, TypeHistory, Terminals
  <2>4. TypeStatus' /\ TypeWorker' /\ TypeHttpd'
    BY <1>35 DEF ConsoleCancel, CancelSection, TypeOK, TypeStatus,
           TypeWorker, TypeHttpd
  <2> QED BY <2>1, <2>2, <2>3, <2>4 DEF TypeOK
<1>36. CASE ConsoleConfirm
  <2>1. TypeEngine'
    <3>1. faults' \in 0 .. MaxFaults
      BY <1>36, LockType DEF ConsoleConfirm, CancelSection, TypeOK
    <3>2. busy' \in BOOLEAN /\ cancelReq' \in BOOLEAN /\ confirmReq' \in BOOLEAN
      BY <1>36, Zenon DEF ConsoleConfirm, CancelSection, TypeOK, TypeEngine
    <3> QED BY <1>36, <3>1, <3>2 DEF ConsoleConfirm, TypeOK, TypeEngine
  <2>2. TypeShared'
    BY <1>36 DEF ConsoleConfirm, TypeOK, TypeShared, ConsolePcs
  <2>3. TypeHistory'
    BY <1>36 DEF ConsoleConfirm, TypeStatus, StatusType, TypeOK, TypeHistory,
           Terminals
  <2>4. TypeStatus' /\ TypeWorker' /\ TypeHttpd'
    BY <1>36 DEF ConsoleConfirm, TypeOK, TypeStatus, TypeWorker, TypeHttpd
  <2> QED BY <2>1, <2>2, <2>3, <2>4 DEF TypeOK
<1>37. CASE UsbReady
  <2>1. TypeEngine'
    BY <1>37, FaultAssumption DEF UsbReady, TypeOK, TypeEngine
  <2>2. TypeStatus' /\ TypeWorker' /\ TypeHttpd' /\ TypeShared' /\ TypeHistory'
    BY <1>37 DEF UsbReady, TypeOK, TypeStatus, TypeWorker, TypeHttpd,
           TypeShared, TypeHistory
  <2> QED BY <2>1, <2>2 DEF TypeOK
<1>38. CASE UsbLost
  <2>1. TypeEngine'
    BY <1>38, FaultAssumption DEF UsbLost, TypeOK, TypeEngine
  <2>2. TypeStatus' /\ TypeWorker' /\ TypeHttpd' /\ TypeShared' /\ TypeHistory'
    BY <1>38 DEF UsbLost, TypeOK, TypeStatus, TypeWorker, TypeHttpd,
           TypeShared, TypeHistory
  <2> QED BY <2>1, <2>2 DEF TypeOK
<1>39. CASE UNCHANGED vars
  BY <1>39 DEF TypeOK, TypeEngine, TypeStatus, TypeWorker, TypeHttpd,
        TypeShared, TypeHistory
<1> QED
  BY <1>1, <1>2, <1>3, <1>4, <1>5, <1>6, <1>7, <1>8, <1>9, <1>10, <1>11,
         <1>12, <1>13, <1>14, <1>15, <1>16, <1>17, <1>18, <1>19, <1>20,
         <1>21, <1>22, <1>23, <1>24, <1>25, <1>26, <1>27, <1>28, <1>29,
         <1>30, <1>31, <1>32, <1>33, <1>34, <1>35, <1>36, <1>37, <1>38, <1>39
         DEF Next, Worker, Submit, HttpCall

\* Every variable keeps its type.
THEOREM TypeCorrect == Spec => []TypeOK
<1>1. Init => TypeOK
  BY InitType
<1>2. TypeOK /\ [Next]_vars => TypeOK'
  BY TypeStep
<1> QED
  BY <1>1, <1>2, PTL DEF Spec

-----------------------------------------------------------------------------
(* One send at a time *)

\* The claim on the engine moves from the HTTP task to the queue and to the
\* worker, and busy is set as long as one of them has it.
LEMMA OneSendStep == TypeOK /\ OneSendAtATime /\ [Next]_vars => OneSendAtATime'
<1> SUFFICES ASSUME TypeOK, OneSendAtATime, [Next]_vars PROVE OneSendAtATime'
  OBVIOUS
<1>1. CASE WorkerReceive
  BY <1>1 DEF WorkerReceive, TypeOK, TypeShared, OneSendAtATime, HttpdClaims,
         QueueClaims, WorkerClaims
<1>2. CASE WorkerPublishFirst
  BY <1>2 DEF WorkerPublishFirst, TypeOK, TypeShared, OneSendAtATime,
         HttpdClaims, QueueClaims, WorkerClaims
<1>3. CASE WorkerAwaitCancel
  BY <1>3 DEF WorkerAwaitCancel, TypeOK, TypeShared, OneSendAtATime,
         HttpdClaims, QueueClaims, WorkerClaims
<1>4. CASE WorkerAwaitConfirm
  BY <1>4 DEF WorkerAwaitConfirm, TypeOK, TypeShared, OneSendAtATime,
         HttpdClaims, QueueClaims, WorkerClaims
<1>5. CASE WorkerPublishRunning
  BY <1>5 DEF WorkerPublishRunning, TypeOK, TypeShared, OneSendAtATime,
         HttpdClaims, QueueClaims, WorkerClaims
<1>6. CASE WorkerPublishIndex
  BY <1>6 DEF WorkerPublishIndex, TypeOK, TypeShared, OneSendAtATime,
         HttpdClaims, QueueClaims, WorkerClaims
<1>7. CASE WorkerCheck
  BY <1>7 DEF WorkerCheck, TypeOK, TypeShared, OneSendAtATime, HttpdClaims,
         QueueClaims, WorkerClaims
<1>8. CASE WorkerPress
  BY <1>8 DEF WorkerPress, TypeOK, TypeShared, OneSendAtATime, HttpdClaims,
         QueueClaims, WorkerClaims
<1>9. CASE WorkerSlice
  BY <1>9 DEF WorkerSlice, DelayReturn, TypeOK, TypeShared, OneSendAtATime,
         HttpdClaims, QueueClaims, WorkerClaims
<1>10. CASE WorkerRelease
  BY <1>10 DEF WorkerRelease, TypeOK, TypeShared, OneSendAtATime,
         HttpdClaims, QueueClaims, WorkerClaims
<1>11. CASE WorkerFree
  BY <1>11 DEF WorkerFree, PlanFree, TypeOK, TypeShared, OneSendAtATime,
         HttpdClaims, QueueClaims, WorkerClaims
<1>12. CASE WorkerFinishRelease
  BY <1>12 DEF WorkerFinishRelease, TypeOK, TypeShared, OneSendAtATime,
         HttpdClaims, QueueClaims, WorkerClaims
<1>13. CASE WorkerFinishPublish
  BY <1>13 DEF WorkerFinishPublish, TypeOK, TypeShared, OneSendAtATime,
         HttpdClaims, QueueClaims, WorkerClaims
<1>14. CASE WorkerFinishReset
  BY <1>14 DEF WorkerFinishReset, ResetTerminalFlags, WorkerReturn, TypeOK,
         TypeShared, OneSendAtATime, HttpdClaims, QueueClaims, WorkerClaims
<1>15. CASE WorkerLatch
  BY <1>15 DEF WorkerLatch, WorkerReturn, TypeOK, TypeShared, OneSendAtATime,
         HttpdClaims, QueueClaims, WorkerClaims
<1>16. CASE DeadlinePasses
  BY <1>16 DEF DeadlinePasses, TypeOK, TypeShared, OneSendAtATime,
         HttpdClaims, QueueClaims, WorkerClaims
<1>17. ASSUME NEW id \in Ids, SendCreate(id) PROVE OneSendAtATime'
  BY <1>17 DEF SendCreate, TypeOK, TypeShared, OneSendAtATime, HttpdClaims,
         QueueClaims, WorkerClaims
<1>18. CASE SubmitReadLatch
  BY <1>18 DEF SubmitReadLatch, TypeOK, TypeShared, OneSendAtATime,
         HttpdClaims, QueueClaims, WorkerClaims
<1>19. CASE SubmitReadUsb
  BY <1>19 DEF SubmitReadUsb, TypeOK, TypeShared, OneSendAtATime,
         HttpdClaims, QueueClaims, WorkerClaims
<1>20. CASE SubmitClaim
  BY <1>20 DEF SubmitClaim, Claimable, TypeOK, TypeShared, OneSendAtATime,
         HttpdClaims, QueueClaims, WorkerClaims
<1>21. CASE SubmitSend
  <2>1. queue = <<>> /\ ~WorkerClaims /\ busy
    BY <1>21 DEF SubmitSend, OneSendAtATime, HttpdClaims, QueueClaims
  <2>2. CASE queue' = Append(queue, hid) /\ hpc' = "reply"
    <3>1. Len(queue') = 1
      BY <2>1, <2>2, <1>21 DEF SubmitSend, TypeOK, TypeShared, TypeHttpd
    <3> QED BY <1>21, <2>1, <2>2, <3>1 DEF SubmitSend, OneSendAtATime,
           HttpdClaims, QueueClaims, WorkerClaims
  <2>3. CASE queue' = queue /\ hpc' = "undo_release"
    BY <1>21, <2>1, <2>3 DEF SubmitSend, OneSendAtATime, HttpdClaims,
           QueueClaims, WorkerClaims
  <2> QED BY <1>21, <2>2, <2>3 DEF SubmitSend
<1>22. CASE UndoRelease
  BY <1>22 DEF UndoRelease, TypeOK, TypeShared, OneSendAtATime, HttpdClaims,
         QueueClaims, WorkerClaims
<1>23. CASE UndoPublish
  BY <1>23 DEF UndoPublish, TypeOK, TypeShared, OneSendAtATime, HttpdClaims,
         QueueClaims, WorkerClaims
<1>24. CASE UndoReset
  BY <1>24 DEF UndoReset, ResetTerminalFlags, TypeOK, TypeShared,
         OneSendAtATime, HttpdClaims, QueueClaims, WorkerClaims
<1>25. CASE UndoLatch
  BY <1>25 DEF UndoLatch, TypeOK, TypeShared, OneSendAtATime, HttpdClaims,
         QueueClaims, WorkerClaims
<1>26. CASE SendDrop
  BY <1>26 DEF SendDrop, PlanFree, TypeOK, TypeShared, OneSendAtATime,
         HttpdClaims, QueueClaims, WorkerClaims
<1>27. CASE HttpCancelStart
  BY <1>27 DEF HttpCancelStart, TypeOK, TypeShared, OneSendAtATime,
         HttpdClaims, QueueClaims, WorkerClaims
<1>28. CASE HttpGetStart
  BY <1>28 DEF HttpGetStart, TypeOK, TypeShared, OneSendAtATime, HttpdClaims,
         QueueClaims, WorkerClaims
<1>29. CASE HttpCancelStatus
  BY <1>29 DEF HttpCancelStatus, TypeOK, TypeShared, OneSendAtATime,
         HttpdClaims, QueueClaims, WorkerClaims
<1>30. CASE HttpCancelLatch
  BY <1>30 DEF HttpCancelLatch, TypeOK, TypeShared, OneSendAtATime,
         HttpdClaims, QueueClaims, WorkerClaims
<1>31. CASE HttpCancelLock
  BY <1>31 DEF HttpCancelLock, CancelSection, TypeOK, TypeShared,
         OneSendAtATime, HttpdClaims, QueueClaims, WorkerClaims
<1>32. CASE HttpGetLock
  BY <1>32 DEF HttpGetLock, TypeOK, TypeShared, OneSendAtATime, HttpdClaims,
         QueueClaims, WorkerClaims
<1>33. CASE HttpReply
  BY <1>33 DEF HttpReply, TypeOK, TypeShared, OneSendAtATime, HttpdClaims,
         QueueClaims, WorkerClaims
<1>34. ASSUME NEW cmd \in {"cancel", "confirm"}, ConsoleStart(cmd)
      PROVE OneSendAtATime'
  BY <1>34 DEF ConsoleStart, TypeOK, TypeShared, OneSendAtATime, HttpdClaims,
         QueueClaims, WorkerClaims
<1>35. CASE ConsoleCancel
  BY <1>35 DEF ConsoleCancel, CancelSection, TypeOK, TypeShared,
         OneSendAtATime, HttpdClaims, QueueClaims, WorkerClaims
<1>36. CASE ConsoleConfirm
  BY <1>36 DEF ConsoleConfirm, TypeOK, TypeShared, OneSendAtATime,
         HttpdClaims, QueueClaims, WorkerClaims
<1>37. CASE UsbReady
  BY <1>37 DEF UsbReady, TypeOK, TypeShared, OneSendAtATime, HttpdClaims,
         QueueClaims, WorkerClaims
<1>38. CASE UsbLost
  BY <1>38 DEF UsbLost, TypeOK, TypeShared, OneSendAtATime, HttpdClaims,
         QueueClaims, WorkerClaims
<1>39. CASE UNCHANGED vars
  BY <1>39 DEF TypeOK, TypeShared, OneSendAtATime, HttpdClaims, QueueClaims,
         WorkerClaims
<1> QED
  BY <1>1, <1>2, <1>3, <1>4, <1>5, <1>6, <1>7, <1>8, <1>9, <1>10, <1>11,
         <1>12, <1>13, <1>14, <1>15, <1>16, <1>17, <1>18, <1>19, <1>20,
         <1>21, <1>22, <1>23, <1>24, <1>25, <1>26, <1>27, <1>28, <1>29,
         <1>30, <1>31, <1>32, <1>33, <1>34, <1>35, <1>36, <1>37, <1>38, <1>39
         DEF Next, Worker, Submit, HttpCall

\* The engine never runs two sends, and never looks idle while it has one.
THEOREM OneSend == Spec => []OneSendAtATime
<1>1. Init => OneSendAtATime
  BY DEF Init, OneSendAtATime, HttpdClaims, QueueClaims, WorkerClaims
<1>2. TypeOK /\ OneSendAtATime /\ [Next]_vars => OneSendAtATime'
  BY OneSendStep
<1> QED
  BY <1>1, <1>2, TypeCorrect, PTL DEF Spec

-----------------------------------------------------------------------------
(* Ownership of the compiled plan *)

\* Every step either leaves a plan with its owner, hands it over, allocates
\* it or has its owner free it.
LEMMA OwnershipStep ==
  TypeOK /\ OneSendAtATime /\ PlanOwnership /\ [Next]_vars => PlanOwnership'
<1> SUFFICES ASSUME TypeOK, OneSendAtATime, PlanOwnership, [Next]_vars
             PROVE  PlanOwnership'
  OBVIOUS
<1>1. CASE WorkerReceive
  <2>1. queue \in Seq(Ids) /\ queue # <<>> /\ Len(queue) <= 1
    BY <1>1 DEF WorkerReceive, TypeOK, TypeShared, OneSendAtATime
  <2>2. Len(queue) = 1
    <3>1. Len(queue) \in Nat \ {0}
      BY <2>1, EmptySeq
    <3>2. \A n \in Nat \ {0} : n <= 1 => n = 1
      OBVIOUS
    <3> QED BY <2>1, <3>1, <3>2
  <2>3. queue[1] = Head(queue) /\ DOMAIN queue = {1}
    BY <2>1, <2>2, LenProperties
  <2>4. Tail(queue) \in Seq(Ids) /\ Len(Tail(queue)) = 0
    BY <2>1, <2>2, HeadTailProperties
  <2>5. DOMAIN Tail(queue) = {}
    <3>1. DOMAIN Tail(queue) = 1 .. 0
      BY <2>4, LenProperties
    <3>2. 1 .. 0 = {}
      OBVIOUS
    <3> QED BY <3>1, <3>2
  <2>6. \A id \in Ids : QueueOwns(id) <=> id = Head(queue)
    BY <2>3 DEF QueueOwns
  <2>7. \A id \in Ids : ~QueueOwns(id)'
    BY <1>1, <2>5 DEF WorkerReceive, QueueOwns
  <2>8. \A id \in Ids : WorkerOwns(id)' <=> id = Head(queue)
    BY <1>1 DEF WorkerReceive, WorkerOwns
  <2>9. \A id \in Ids : HttpdOwns(id)' <=> HttpdOwns(id)
    BY <1>1 DEF WorkerReceive, HttpdOwns
  <2> QED BY <1>1, <2>6, <2>7, <2>8, <2>9 DEF WorkerReceive, PlanOwnership,
             WorkerOwns, ConfirmPcs, ActionPcs
<1>2. CASE WorkerPublishFirst
  BY <1>2 DEF WorkerPublishFirst, TypeOK, TypeShared, TypeWorker,
         PlanOwnership, HttpdOwns, QueueOwns, WorkerOwns, SubmitPcs,
         ConfirmPcs, ActionPcs
<1>3. CASE WorkerAwaitCancel
  BY <1>3 DEF WorkerAwaitCancel, TypeOK, TypeShared, TypeWorker,
         PlanOwnership, HttpdOwns, QueueOwns, WorkerOwns, SubmitPcs,
         ConfirmPcs, ActionPcs
<1>4. CASE WorkerAwaitConfirm
  BY <1>4 DEF WorkerAwaitConfirm, TypeOK, TypeShared, TypeWorker,
         PlanOwnership, HttpdOwns, QueueOwns, WorkerOwns, SubmitPcs,
         ConfirmPcs, ActionPcs
<1>5. CASE WorkerPublishRunning
  BY <1>5 DEF WorkerPublishRunning, TypeOK, TypeShared, TypeWorker,
         PlanOwnership, HttpdOwns, QueueOwns, WorkerOwns, SubmitPcs,
         ConfirmPcs, ActionPcs
<1>6. CASE WorkerPublishIndex
  BY <1>6 DEF WorkerPublishIndex, TypeOK, TypeShared, TypeWorker,
         PlanOwnership, HttpdOwns, QueueOwns, WorkerOwns, SubmitPcs,
         ConfirmPcs, ActionPcs
<1>7. CASE WorkerCheck
  BY <1>7 DEF WorkerCheck, TypeOK, TypeShared, TypeWorker, PlanOwnership,
         HttpdOwns, QueueOwns, WorkerOwns, SubmitPcs, ConfirmPcs, ActionPcs
<1>8. CASE WorkerPress
  BY <1>8 DEF WorkerPress, TypeOK, TypeShared, TypeWorker, PlanOwnership,
         HttpdOwns, QueueOwns, WorkerOwns, SubmitPcs, ConfirmPcs, ActionPcs
<1>9. CASE WorkerSlice
  BY <1>9 DEF WorkerSlice, DelayReturn, TypeOK, TypeShared, TypeWorker,
         PlanOwnership, HttpdOwns, QueueOwns, WorkerOwns, SubmitPcs,
         ConfirmPcs, ActionPcs
<1>10. CASE WorkerRelease
  BY <1>10 DEF WorkerRelease, TypeOK, TypeShared, TypeWorker, PlanOwnership,
         HttpdOwns, QueueOwns, WorkerOwns, SubmitPcs, ConfirmPcs, ActionPcs
<1>11. CASE WorkerFree
  BY <1>11 DEF WorkerFree, PlanFree, TypeOK, TypeShared, TypeWorker,
         PlanOwnership, HttpdOwns, QueueOwns, WorkerOwns, SubmitPcs,
         ConfirmPcs, ActionPcs
<1>12. CASE WorkerFinishRelease
  BY <1>12 DEF WorkerFinishRelease, TypeOK, TypeShared, TypeWorker,
         PlanOwnership, HttpdOwns, QueueOwns, WorkerOwns, SubmitPcs,
         ConfirmPcs, ActionPcs
<1>13. CASE WorkerFinishPublish
  BY <1>13 DEF WorkerFinishPublish, TypeOK, TypeShared, TypeWorker,
         PlanOwnership, HttpdOwns, QueueOwns, WorkerOwns, SubmitPcs,
         ConfirmPcs, ActionPcs
<1>14. CASE WorkerFinishReset
  BY <1>14 DEF WorkerFinishReset, ResetTerminalFlags, WorkerReturn, TypeOK,
         TypeShared, TypeWorker, PlanOwnership, HttpdOwns, QueueOwns,
         WorkerOwns, SubmitPcs, ConfirmPcs, ActionPcs
<1>15. CASE WorkerLatch
  BY <1>15 DEF WorkerLatch, WorkerReturn, TypeOK, TypeShared, TypeWorker,
         PlanOwnership, HttpdOwns, QueueOwns, WorkerOwns, SubmitPcs,
         ConfirmPcs, ActionPcs
<1>16. CASE DeadlinePasses
  BY <1>16 DEF DeadlinePasses, TypeOK, TypeShared, TypeWorker, PlanOwnership,
         HttpdOwns, QueueOwns, WorkerOwns, SubmitPcs, ConfirmPcs, ActionPcs
<1>17. ASSUME NEW id \in Ids, SendCreate(id) PROVE PlanOwnership'
  BY <1>17 DEF SendCreate, TypeOK, TypeShared, TypeWorker, PlanOwnership,
         HttpdOwns, QueueOwns, WorkerOwns, SubmitPcs, ConfirmPcs, ActionPcs
<1>18. CASE SubmitReadLatch
  BY <1>18 DEF SubmitReadLatch, TypeOK, TypeShared, TypeWorker,
         PlanOwnership, HttpdOwns, QueueOwns, WorkerOwns, SubmitPcs,
         ConfirmPcs, ActionPcs
<1>19. CASE SubmitReadUsb
  BY <1>19 DEF SubmitReadUsb, TypeOK, TypeShared, TypeWorker, PlanOwnership,
         HttpdOwns, QueueOwns, WorkerOwns, SubmitPcs, ConfirmPcs, ActionPcs
<1>20. CASE SubmitClaim
  BY <1>20 DEF SubmitClaim, Claimable, TypeOK, TypeShared, TypeWorker,
         PlanOwnership, HttpdOwns, QueueOwns, WorkerOwns, SubmitPcs,
         ConfirmPcs, ActionPcs
<1>21. CASE SubmitSend
  <2>1. queue = <<>> /\ queue \in Seq(Ids) /\ hid \in Ids
    BY <1>21 DEF SubmitSend, OneSendAtATime, HttpdClaims, QueueClaims, TypeOK,
             TypeShared, TypeHttpd, SubmitPcs
  <2>2. UNCHANGED <<plan, wpc, wid, hid>>
    BY <1>21 DEF SubmitSend
  <2>3. \A id \in Ids : (WorkerOwns(id)' <=> WorkerOwns(id)) /\ ~QueueOwns(id)
    BY <2>1, <2>2 DEF WorkerOwns, QueueOwns
  <2>4. CASE queue' = Append(queue, hid) /\ hpc' = "reply"
    <3>1. DOMAIN queue' = {1} /\ queue'[1] = hid
      BY <2>1, <2>4
    <3>2. \A id \in Ids : QueueOwns(id)' <=> id = hid
      BY <2>2, <3>1 DEF QueueOwns
    <3>3. \A id \in Ids : ~HttpdOwns(id)'
      BY <2>4 DEF HttpdOwns, SubmitPcs
    <3>4. \A id \in Ids : HttpdOwns(id) <=> id = hid
      BY <1>21 DEF SubmitSend, HttpdOwns, SubmitPcs
    <3> QED BY <2>2, <2>3, <3>2, <3>3, <3>4 DEF PlanOwnership
  <2>5. CASE queue' = queue /\ hpc' = "undo_release"
    <3>1. \A id \in Ids : /\ HttpdOwns(id)' <=> HttpdOwns(id)
                          /\ QueueOwns(id)' <=> QueueOwns(id)
      BY <1>21, <2>2, <2>5 DEF SubmitSend, HttpdOwns, QueueOwns, SubmitPcs
    <3> QED BY <2>2, <2>3, <3>1 DEF PlanOwnership
  <2> QED BY <1>21, <2>4, <2>5 DEF SubmitSend
<1>22. CASE UndoRelease
  BY <1>22 DEF UndoRelease, TypeOK, TypeShared, TypeWorker, PlanOwnership,
         HttpdOwns, QueueOwns, WorkerOwns, SubmitPcs, ConfirmPcs, ActionPcs
<1>23. CASE UndoPublish
  BY <1>23 DEF UndoPublish, TypeOK, TypeShared, TypeWorker, PlanOwnership,
         HttpdOwns, QueueOwns, WorkerOwns, SubmitPcs, ConfirmPcs, ActionPcs
<1>24. CASE UndoReset
  BY <1>24 DEF UndoReset, ResetTerminalFlags, TypeOK, TypeShared, TypeWorker,
         PlanOwnership, HttpdOwns, QueueOwns, WorkerOwns, SubmitPcs,
         ConfirmPcs, ActionPcs
<1>25. CASE UndoLatch
  BY <1>25 DEF UndoLatch, TypeOK, TypeShared, TypeWorker, PlanOwnership,
         HttpdOwns, QueueOwns, WorkerOwns, SubmitPcs, ConfirmPcs, ActionPcs
<1>26. CASE SendDrop
  BY <1>26 DEF SendDrop, PlanFree, TypeOK, TypeShared, TypeWorker,
         PlanOwnership, HttpdOwns, QueueOwns, WorkerOwns, SubmitPcs,
         ConfirmPcs, ActionPcs
<1>27. CASE HttpCancelStart
  BY <1>27 DEF HttpCancelStart, TypeOK, TypeShared, TypeWorker,
         PlanOwnership, HttpdOwns, QueueOwns, WorkerOwns, SubmitPcs,
         ConfirmPcs, ActionPcs
<1>28. CASE HttpGetStart
  BY <1>28 DEF HttpGetStart, TypeOK, TypeShared, TypeWorker, PlanOwnership,
         HttpdOwns, QueueOwns, WorkerOwns, SubmitPcs, ConfirmPcs, ActionPcs
<1>29. CASE HttpCancelStatus
  BY <1>29 DEF HttpCancelStatus, TypeOK, TypeShared, TypeWorker,
         PlanOwnership, HttpdOwns, QueueOwns, WorkerOwns, SubmitPcs,
         ConfirmPcs, ActionPcs
<1>30. CASE HttpCancelLatch
  BY <1>30 DEF HttpCancelLatch, TypeOK, TypeShared, TypeWorker,
         PlanOwnership, HttpdOwns, QueueOwns, WorkerOwns, SubmitPcs,
         ConfirmPcs, ActionPcs
<1>31. CASE HttpCancelLock
  BY <1>31 DEF HttpCancelLock, CancelSection, TypeOK, TypeShared, TypeWorker,
         PlanOwnership, HttpdOwns, QueueOwns, WorkerOwns, SubmitPcs,
         ConfirmPcs, ActionPcs
<1>32. CASE HttpGetLock
  BY <1>32 DEF HttpGetLock, TypeOK, TypeShared, TypeWorker, PlanOwnership,
         HttpdOwns, QueueOwns, WorkerOwns, SubmitPcs, ConfirmPcs, ActionPcs
<1>33. CASE HttpReply
  BY <1>33 DEF HttpReply, TypeOK, TypeShared, TypeWorker, PlanOwnership,
         HttpdOwns, QueueOwns, WorkerOwns, SubmitPcs, ConfirmPcs, ActionPcs
<1>34. ASSUME NEW cmd \in {"cancel", "confirm"}, ConsoleStart(cmd)
      PROVE PlanOwnership'
  BY <1>34 DEF ConsoleStart, TypeOK, TypeShared, TypeWorker, PlanOwnership,
         HttpdOwns, QueueOwns, WorkerOwns, SubmitPcs, ConfirmPcs, ActionPcs
<1>35. CASE ConsoleCancel
  BY <1>35 DEF ConsoleCancel, CancelSection, TypeOK, TypeShared, TypeWorker,
         PlanOwnership, HttpdOwns, QueueOwns, WorkerOwns, SubmitPcs,
         ConfirmPcs, ActionPcs
<1>36. CASE ConsoleConfirm
  BY <1>36 DEF ConsoleConfirm, TypeOK, TypeShared, TypeWorker, PlanOwnership,
         HttpdOwns, QueueOwns, WorkerOwns, SubmitPcs, ConfirmPcs, ActionPcs
<1>37. CASE UsbReady
  BY <1>37 DEF UsbReady, TypeOK, TypeShared, TypeWorker, PlanOwnership,
         HttpdOwns, QueueOwns, WorkerOwns, SubmitPcs, ConfirmPcs, ActionPcs
<1>38. CASE UsbLost
  BY <1>38 DEF UsbLost, TypeOK, TypeShared, TypeWorker, PlanOwnership,
         HttpdOwns, QueueOwns, WorkerOwns, SubmitPcs, ConfirmPcs, ActionPcs
<1>39. CASE UNCHANGED vars
  BY <1>39 DEF TypeOK, TypeShared, TypeWorker, PlanOwnership, HttpdOwns,
         QueueOwns, WorkerOwns, SubmitPcs, ConfirmPcs, ActionPcs
<1> QED
  BY <1>1, <1>2, <1>3, <1>4, <1>5, <1>6, <1>7, <1>8, <1>9, <1>10, <1>11,
         <1>12, <1>13, <1>14, <1>15, <1>16, <1>17, <1>18, <1>19, <1>20,
         <1>21, <1>22, <1>23, <1>24, <1>25, <1>26, <1>27, <1>28, <1>29,
         <1>30, <1>31, <1>32, <1>33, <1>34, <1>35, <1>36, <1>37, <1>38, <1>39
         DEF Next, Worker, Submit, HttpCall

\* A plan is freed exactly once, by whoever owns it, and never used after.
THEOREM Ownership == Spec => []PlanOwnership
<1>1. Init => PlanOwnership
  BY DEF Init, PlanOwnership, HttpdOwns, QueueOwns, WorkerOwns, SubmitPcs,
         ConfirmPcs, ActionPcs
<1>2. TypeOK /\ OneSendAtATime /\ PlanOwnership /\ [Next]_vars => PlanOwnership'
  BY OwnershipStep
<1> QED
  BY <1>1, <1>2, TypeCorrect, OneSend, PTL DEF Spec

-----------------------------------------------------------------------------
(* Stuck keys *)

\* A key goes down only in WorkerPress, which leads to a release; a release
\* that fails records the fault and latches the engine.
LEMMA NoStuckKeyStep == TypeOK /\ NoStuckKey /\ [Next]_vars => NoStuckKey'
<1> SUFFICES ASSUME TypeOK, NoStuckKey, [Next]_vars PROVE NoStuckKey'
  OBVIOUS
<1>1. CASE WorkerReceive
  BY <1>1 DEF WorkerReceive, TypeOK, NoStuckKey
<1>2. CASE WorkerPublishFirst
  BY <1>2 DEF WorkerPublishFirst, TypeOK, NoStuckKey
<1>3. CASE WorkerAwaitCancel
  BY <1>3 DEF WorkerAwaitCancel, TypeOK, NoStuckKey
<1>4. CASE WorkerAwaitConfirm
  BY <1>4 DEF WorkerAwaitConfirm, TypeOK, NoStuckKey
<1>5. CASE WorkerPublishRunning
  BY <1>5 DEF WorkerPublishRunning, TypeOK, NoStuckKey
<1>6. CASE WorkerPublishIndex
  BY <1>6 DEF WorkerPublishIndex, TypeOK, NoStuckKey
<1>7. CASE WorkerCheck
  BY <1>7 DEF WorkerCheck, TypeOK, NoStuckKey
<1>8. CASE WorkerPress
  BY <1>8 DEF WorkerPress, TypeOK, NoStuckKey
<1>9. CASE WorkerSlice
  BY <1>9 DEF WorkerSlice, DelayReturn, TypeOK, NoStuckKey
<1>10. CASE WorkerRelease
  BY <1>10 DEF WorkerRelease, ReleaseAll, TypeOK, NoStuckKey
<1>11. CASE WorkerFree
  BY <1>11 DEF WorkerFree, PlanFree, TypeOK, NoStuckKey
<1>12. CASE WorkerFinishRelease
  BY <1>12 DEF WorkerFinishRelease, ReleaseAll, TypeOK, NoStuckKey
<1>13. CASE WorkerFinishPublish
  BY <1>13 DEF WorkerFinishPublish, TypeOK, NoStuckKey
<1>14. CASE WorkerFinishReset
  BY <1>14 DEF WorkerFinishReset, ResetTerminalFlags, WorkerReturn, TypeOK,
         NoStuckKey
<1>15. CASE WorkerLatch
  BY <1>15 DEF WorkerLatch, WorkerReturn, TypeOK, NoStuckKey
<1>16. CASE DeadlinePasses
  BY <1>16 DEF DeadlinePasses, TypeOK, NoStuckKey
<1>17. ASSUME NEW id \in Ids, SendCreate(id) PROVE NoStuckKey'
  BY <1>17 DEF SendCreate, TypeOK, NoStuckKey
<1>18. CASE SubmitReadLatch
  BY <1>18 DEF SubmitReadLatch, TypeOK, NoStuckKey
<1>19. CASE SubmitReadUsb
  BY <1>19 DEF SubmitReadUsb, TypeOK, NoStuckKey
<1>20. CASE SubmitClaim
  BY <1>20 DEF SubmitClaim, Claimable, TypeOK, NoStuckKey
<1>21. CASE SubmitSend
  BY <1>21 DEF SubmitSend, TypeOK, NoStuckKey
<1>22. CASE UndoRelease
  BY <1>22 DEF UndoRelease, ReleaseAll, TypeOK, NoStuckKey
<1>23. CASE UndoPublish
  BY <1>23 DEF UndoPublish, TypeOK, NoStuckKey
<1>24. CASE UndoReset
  BY <1>24 DEF UndoReset, ResetTerminalFlags, TypeOK, NoStuckKey
<1>25. CASE UndoLatch
  BY <1>25 DEF UndoLatch, TypeOK, NoStuckKey
<1>26. CASE SendDrop
  BY <1>26 DEF SendDrop, PlanFree, TypeOK, NoStuckKey
<1>27. CASE HttpCancelStart
  BY <1>27 DEF HttpCancelStart, TypeOK, NoStuckKey
<1>28. CASE HttpGetStart
  BY <1>28 DEF HttpGetStart, TypeOK, NoStuckKey
<1>29. CASE HttpCancelStatus
  BY <1>29 DEF HttpCancelStatus, TypeOK, NoStuckKey
<1>30. CASE HttpCancelLatch
  BY <1>30 DEF HttpCancelLatch, TypeOK, NoStuckKey
<1>31. CASE HttpCancelLock
  BY <1>31 DEF HttpCancelLock, CancelSection, TypeOK, NoStuckKey
<1>32. CASE HttpGetLock
  BY <1>32 DEF HttpGetLock, TypeOK, NoStuckKey
<1>33. CASE HttpReply
  BY <1>33 DEF HttpReply, TypeOK, NoStuckKey
<1>34. ASSUME NEW cmd \in {"cancel", "confirm"}, ConsoleStart(cmd)
      PROVE NoStuckKey'
  BY <1>34 DEF ConsoleStart, TypeOK, NoStuckKey
<1>35. CASE ConsoleCancel
  BY <1>35 DEF ConsoleCancel, CancelSection, TypeOK, NoStuckKey
<1>36. CASE ConsoleConfirm
  BY <1>36 DEF ConsoleConfirm, TypeOK, NoStuckKey
<1>37. CASE UsbReady
  BY <1>37 DEF UsbReady, TypeOK, NoStuckKey
<1>38. CASE UsbLost
  BY <1>38 DEF UsbLost, TypeOK, NoStuckKey
<1>39. CASE UNCHANGED vars
  BY <1>39 DEF TypeOK, NoStuckKey
<1> QED
  BY <1>1, <1>2, <1>3, <1>4, <1>5, <1>6, <1>7, <1>8, <1>9, <1>10, <1>11,
         <1>12, <1>13, <1>14, <1>15, <1>16, <1>17, <1>18, <1>19, <1>20,
         <1>21, <1>22, <1>23, <1>24, <1>25, <1>26, <1>27, <1>28, <1>29,
         <1>30, <1>31, <1>32, <1>33, <1>34, <1>35, <1>36, <1>37, <1>38, <1>39
         DEF Next, Worker, Submit, HttpCall

\* A key that stays down after its dwell is always a recorded fault.
THEOREM KeysReleased == Spec => []NoStuckKey
<1>1. Init => NoStuckKey
  BY DEF Init, NoStuckKey
<1>2. TypeOK /\ NoStuckKey /\ [Next]_vars => NoStuckKey'
  BY NoStuckKeyStep
<1> QED
  BY <1>1, <1>2, TypeCorrect, PTL DEF Spec

-----------------------------------------------------------------------------
(* The race of a submit with the latch *)

\* The latch is never released, and a request is past its check of the latch
\* without having been accepted only as long as nothing was accepted behind it.
PastLatch == hpc \in {"read_usb", "claim", "send"}

LatchInv == /\ ~unavailable => afterLatch = {}
            /\ PastLatch => afterLatch = {}
            /\ LatchAdmitsAtMostOne

\* Only SubmitSend accepts a request, and only SubmitReadLatch lets one pass.
LatchKept ==
    /\ afterLatch' = afterLatch
    /\ unavailable => unavailable'
    /\ PastLatch' => PastLatch \/ ~unavailable

LEMMA LatchKeptStep == LatchInv /\ LatchKept => LatchInv'
  BY DEF LatchInv, LatchKept, LatchAdmitsAtMostOne

LEMMA LatchStep == TypeOK /\ LatchInv /\ [Next]_vars => LatchInv'
<1> SUFFICES ASSUME TypeOK, LatchInv, [Next]_vars PROVE LatchInv'
  OBVIOUS
<1>1. CASE Worker
  <2> USE DEF LatchKept, PastLatch
  <2>1. WorkerReceive => LatchKept
    BY DEF WorkerReceive
  <2>2. WorkerPublishFirst => LatchKept
    BY DEF WorkerPublishFirst
  <2>3. WorkerAwaitCancel => LatchKept
    BY DEF WorkerAwaitCancel
  <2>4. WorkerAwaitConfirm => LatchKept
    BY DEF WorkerAwaitConfirm
  <2>5. WorkerPublishRunning => LatchKept
    BY DEF WorkerPublishRunning
  <2>6. WorkerPublishIndex => LatchKept
    BY DEF WorkerPublishIndex
  <2>7. WorkerCheck => LatchKept
    BY DEF WorkerCheck
  <2>8. WorkerPress => LatchKept
    BY DEF WorkerPress
  <2>9. WorkerSlice => LatchKept
    BY DEF WorkerSlice, DelayReturn
  <2>10. WorkerRelease => LatchKept
    BY DEF WorkerRelease, ReleaseAll
  <2>11. WorkerFree => LatchKept
    BY DEF WorkerFree
  <2>12. WorkerFinishPublish => LatchKept
    BY DEF WorkerFinishPublish
  <2>13. WorkerFinishReset => LatchKept
    BY DEF WorkerFinishReset
  <2>14. WorkerFinishRelease => LatchKept
    BY DEF WorkerFinishRelease, ReleaseAll
  <2>15. WorkerLatch => LatchKept
    BY DEF WorkerLatch
  <2> QED
    BY <1>1, LatchKeptStep, <2>1, <2>2, <2>3, <2>4, <2>5, <2>6, <2>7, <2>8, <2>9, <2>10, <2>11, <2>12, <2>13, <2>14, <2>15 DEF Worker
<1>2. CASE Submit
  <2> USE DEF LatchKept, PastLatch
  <2>1. SubmitReadLatch => LatchKept
    BY DEF SubmitReadLatch, EngineUnavailable
  <2>2. SubmitReadUsb => LatchKept
    BY DEF SubmitReadUsb
  <2>3. SubmitClaim => LatchKept
    BY DEF SubmitClaim
  <2>4. CASE SubmitSend
    <3>1. /\ afterLatch = {} /\ ~PastLatch' /\ unavailable' = unavailable
          /\ \/ afterLatch' = {}
             \/ unavailable /\ afterLatch' = {hid}
      BY <2>4 DEF SubmitSend, LatchInv
    <3> QED
      BY <3>1 DEF LatchInv, LatchAdmitsAtMostOne
  <2>5. UndoRelease => LatchKept
    BY DEF UndoRelease, ReleaseAll
  <2>6. UndoPublish => LatchKept
    BY DEF UndoPublish
  <2>7. UndoReset => LatchKept
    BY DEF UndoReset
  <2>8. UndoLatch \/ SendDrop => LatchKept
    BY DEF UndoLatch, SendDrop
  <2> QED
    BY <1>2, LatchKeptStep, <2>1, <2>2, <2>3, <2>4, <2>5, <2>6, <2>7, <2>8 DEF Submit
<1>3. CASE HttpCancelStart \/ HttpGetStart \/ HttpCall
  <2> USE DEF LatchKept, PastLatch
  <2>1. HttpCancelStart \/ HttpGetStart => LatchKept
    BY DEF HttpCancelStart, HttpGetStart
  <2>2. HttpCancelStatus => LatchKept
    BY DEF HttpCancelStatus
  <2>3. HttpCancelLatch \/ HttpCancelLock => LatchKept
    BY DEF HttpCancelLatch, HttpCancelLock
  <2>4. HttpGetLock \/ HttpReply => LatchKept
    BY DEF HttpGetLock, HttpReply
  <2> QED
    BY <1>3, LatchKeptStep, <2>1, <2>2, <2>3, <2>4 DEF HttpCall
<1>4. ASSUME NEW id \in Ids, SendCreate(id) PROVE LatchInv'
  BY <1>4, LatchKeptStep DEF SendCreate, LatchKept, PastLatch
<1>5. ASSUME NEW cmd \in {"cancel", "confirm"}, ConsoleStart(cmd) PROVE LatchInv'
  BY <1>5, LatchKeptStep DEF ConsoleStart, LatchKept, PastLatch
<1>6. CASE ConsoleCancel \/ ConsoleConfirm
  BY <1>6, LatchKeptStep DEF ConsoleCancel, ConsoleConfirm, LatchKept, PastLatch
<1>7. CASE DeadlinePasses
  BY <1>7, LatchKeptStep DEF DeadlinePasses, LatchKept, PastLatch
<1>8. CASE UsbReady \/ UsbLost
  <2>1. UsbReady => LatchKept
    BY DEF UsbReady, LatchKept, PastLatch
  <2>2. UsbLost => LatchKept
    BY DEF UsbLost, LatchKept, PastLatch
  <2> QED
    BY <1>8, <2>1, <2>2, LatchKeptStep
<1>9. CASE UNCHANGED vars
  BY <1>9, LatchKeptStep DEF LatchKept, PastLatch
<1> QED
  BY <1>1, <1>2, <1>3, <1>4, <1>5, <1>6, <1>7, <1>8, <1>9 DEF Next

\* However many sends and failures there are, at most one request is accepted
\* by an engine that is already unavailable: the one whose check of the latch
\* (macro_executor_engine.c:322) came before the failure.
THEOREM LatchLeak == Spec => []LatchAdmitsAtMostOne
<1>1. Init => LatchInv
  BY DEF Init, LatchInv, LatchAdmitsAtMostOne
<1>2. LatchInv => LatchAdmitsAtMostOne
  BY DEF LatchInv
<1> QED
  BY <1>1, <1>2, LatchStep, TypeCorrect, PTL DEF Spec

-----------------------------------------------------------------------------
(* The claim and the send it was made for *)

\* A request that has not reached the engine's mutex yet.
Unclaimed(id) ==
    \/ plan[id] = "none"
    \/ hpc \in {"read_latch", "read_usb", "claim"} /\ hid = id

\* Whoever holds the claim holds it for the send that made it.
OwnerIsKnown ==
    /\ WorkerClaims => owner = wid
    /\ \A i \in DOMAIN queue : queue[i] = owner
    /\ HttpdClaims => owner = hid

\* A cancel reaches nobody but a send that has claimed the engine.
NothingBeforeClaim ==
    \A id \in Ids : Unclaimed(id) => owner # id /\ id \notin cancelled

\* A cancel recorded for the send at work is seen until the flags are reset.
CancelIsSeen == busy /\ owner \in cancelled => cancelReq

ClaimInv == OwnerIsKnown /\ NothingBeforeClaim /\ CancelIsSeen

Base == TypeOK /\ OneSendAtATime /\ PlanOwnership

\* The owner changes only when nobody holds the claim.
LEMMA OwnerStep == Base /\ ClaimInv /\ [Next]_vars => OwnerIsKnown'
<1> SUFFICES ASSUME Base, ClaimInv, [Next]_vars
             PROVE  OwnerIsKnown'
  OBVIOUS
<1>1. CASE WorkerReceive
  BY <1>1 DEF WorkerReceive, ClaimInv, OwnerIsKnown, WorkerClaims, HttpdClaims,
         Base, OneSendAtATime, QueueClaims, TypeOK, TypeShared
<1>2. CASE WorkerPublishFirst
  BY <1>2 DEF WorkerPublishFirst, PublishStatus, LockStep, Showing, ClaimInv,
         OwnerIsKnown, WorkerClaims, HttpdClaims, Base, OneSendAtATime,
         QueueClaims, TypeOK, TypeShared
<1>3. CASE WorkerAwaitCancel \/ WorkerAwaitConfirm
  BY <1>3 DEF WorkerAwaitCancel, WorkerAwaitConfirm, LockStep,
         ReadCancellation, DeadlineExpired, ClaimInv, OwnerIsKnown,
         WorkerClaims, HttpdClaims, Base, OneSendAtATime, QueueClaims, TypeOK,
         TypeShared
<1>4. CASE WorkerPublishRunning
  BY <1>4 DEF WorkerPublishRunning, PublishStatus, LockStep, Showing, ClaimInv,
         OwnerIsKnown, WorkerClaims, HttpdClaims, Base, OneSendAtATime,
         QueueClaims, TypeOK, TypeShared
<1>5. CASE WorkerPublishIndex
  BY <1>5 DEF WorkerPublishIndex, PlanDone, PublishStatus, LockStep, Showing,
         ClaimInv, OwnerIsKnown, WorkerClaims, HttpdClaims, Base,
         OneSendAtATime, QueueClaims, TypeOK, TypeShared
<1>6. CASE WorkerCheck
  BY <1>6 DEF WorkerCheck, LockStep, ReadCancellation, DeadlineExpired,
         ClaimInv, OwnerIsKnown, WorkerClaims, HttpdClaims, Base,
         OneSendAtATime, QueueClaims, TypeOK, TypeShared
<1>7. CASE WorkerPress
  BY <1>7 DEF WorkerPress, ClaimInv, OwnerIsKnown, WorkerClaims, HttpdClaims,
         Base, OneSendAtATime, QueueClaims, TypeOK, TypeShared
<1>8. CASE WorkerSlice
  BY <1>8 DEF WorkerSlice, DelayDone, DelayReturn, LockStep, ReadCancellation,
         DeadlineExpired, ClaimInv, OwnerIsKnown, WorkerClaims, HttpdClaims,
         Base, OneSendAtATime, QueueClaims, TypeOK, TypeShared
<1>9. CASE WorkerRelease
  BY <1>9 DEF WorkerRelease, ReleaseAll, ClaimInv, OwnerIsKnown, WorkerClaims,
         HttpdClaims, Base, OneSendAtATime, QueueClaims, TypeOK, TypeShared
<1>10. CASE WorkerFree \/ WorkerFinishRelease
  BY <1>10 DEF WorkerFree, WorkerFinishRelease, PlanFree, ReleaseAll, ClaimInv,
         OwnerIsKnown, WorkerClaims, HttpdClaims, Base, OneSendAtATime,
         QueueClaims, TypeOK, TypeShared
<1>11. CASE WorkerFinishPublish
  BY <1>11 DEF WorkerFinishPublish, PublishStatus, LockStep, Terminal,
         ClaimInv, OwnerIsKnown, WorkerClaims, HttpdClaims, Base,
         OneSendAtATime, QueueClaims, TypeOK, TypeShared
<1>12. CASE WorkerFinishReset
  BY <1>12 DEF WorkerFinishReset, ResetTerminalFlags, LockStep, FinishFailed,
         WorkerReturn, ClaimInv, OwnerIsKnown, WorkerClaims, HttpdClaims, Base,
         OneSendAtATime, QueueClaims, TypeOK, TypeShared
<1>13. CASE WorkerLatch
  BY <1>13 DEF WorkerLatch, WorkerReturn, ClaimInv, OwnerIsKnown, WorkerClaims,
         HttpdClaims, Base, OneSendAtATime, QueueClaims, TypeOK, TypeShared
<1>14. CASE DeadlinePasses \/ UsbReady \/ UsbLost \/ UNCHANGED vars
  BY <1>14 DEF DeadlinePasses, UsbReady, UsbLost, ClaimInv, OwnerIsKnown,
         WorkerClaims, HttpdClaims, Base, OneSendAtATime, QueueClaims, TypeOK,
         TypeShared
<1>15. ASSUME NEW id \in Ids, SendCreate(id) PROVE OwnerIsKnown'
  BY <1>15 DEF SendCreate, ClaimInv, OwnerIsKnown, WorkerClaims, HttpdClaims,
         Base, OneSendAtATime, QueueClaims, TypeOK, TypeShared
<1>16. CASE SubmitReadLatch \/ SubmitReadUsb \/ SendDrop
  BY <1>16 DEF SubmitReadLatch, SubmitReadUsb, SendDrop, EngineUnavailable,
         PlanFree, ClaimInv, OwnerIsKnown, WorkerClaims, HttpdClaims, Base,
         OneSendAtATime, QueueClaims, TypeOK, TypeShared
<1>17. CASE SubmitClaim
  BY <1>17 DEF SubmitClaim, LockStep, Claimable, ClaimInv, OwnerIsKnown,
         WorkerClaims, HttpdClaims, Base, OneSendAtATime, QueueClaims, TypeOK,
         TypeShared
<1>18. CASE SubmitSend
  BY <1>18 DEF SubmitSend, ClaimInv, OwnerIsKnown, WorkerClaims, HttpdClaims,
         Base, OneSendAtATime, QueueClaims, TypeOK, TypeShared
<1>19. CASE UndoRelease \/ UndoPublish \/ UndoReset \/ UndoLatch
  BY <1>19 DEF UndoRelease, UndoPublish, UndoReset, UndoLatch, ReleaseAll,
         PublishStatus, LockStep, ResetTerminalFlags, ClaimInv, OwnerIsKnown,
         WorkerClaims, HttpdClaims, Base, OneSendAtATime, QueueClaims, TypeOK,
         TypeShared
<1>20. CASE HttpCancelStart \/ HttpCancelStatus \/ HttpCancelLatch \/
            HttpGetStart \/ HttpGetLock \/ HttpReply
  BY <1>20 DEF HttpCancelStart, HttpCancelStatus, HttpCancelLatch,
         HttpGetStart, HttpGetLock, HttpReply, LockStep, EngineUnavailable,
         ClaimInv, OwnerIsKnown, WorkerClaims, HttpdClaims, Base,
         OneSendAtATime, QueueClaims, TypeOK, TypeShared
<1>21. CASE HttpCancelLock \/ ConsoleCancel
  BY <1>21 DEF HttpCancelLock, ConsoleCancel, CancelSection, LockStep,
         ClaimInv, OwnerIsKnown, WorkerClaims, HttpdClaims, Base,
         OneSendAtATime, QueueClaims, TypeOK, TypeShared
<1>22. ASSUME NEW cmd \in {"cancel", "confirm"}, ConsoleStart(cmd)
      PROVE  OwnerIsKnown'
  BY <1>22 DEF ConsoleStart, ClaimInv, OwnerIsKnown, WorkerClaims, HttpdClaims,
         Base, OneSendAtATime, QueueClaims, TypeOK, TypeShared
<1>23. CASE ConsoleConfirm
  BY <1>23 DEF ConsoleConfirm, LockStep, CanConfirm, ClaimInv, OwnerIsKnown,
         WorkerClaims, HttpdClaims, Base, OneSendAtATime, QueueClaims, TypeOK,
         TypeShared
<1> QED
  BY <1>1, <1>2, <1>3, <1>4, <1>5, <1>6, <1>7, <1>8, <1>9, <1>10, <1>11, <1>12,
     <1>13, <1>14, <1>15, <1>16, <1>17, <1>18, <1>19, <1>20, <1>21, <1>22,
     <1>23 DEF Next, Worker,
     Submit, HttpCall

\* Unclaimed requests stay out of reach of a cancel until SubmitClaim.
LEMMA BeforeClaimStep ==
  Base /\ ClaimInv /\ [Next]_vars => NothingBeforeClaim'
<1> SUFFICES ASSUME Base, ClaimInv, [Next]_vars
             PROVE  NothingBeforeClaim'
  OBVIOUS
<1>1. CASE WorkerReceive
  BY <1>1 DEF WorkerReceive, ClaimInv, NothingBeforeClaim, Unclaimed, Base,
         PlanOwnership, HttpdOwns, SubmitPcs, TypeOK, TypeShared, TypeHttpd,
         OneSendAtATime, WorkerClaims
<1>2. CASE WorkerPublishFirst
  BY <1>2 DEF WorkerPublishFirst, PublishStatus, LockStep, Showing, ClaimInv,
         NothingBeforeClaim, Unclaimed, Base, PlanOwnership, HttpdOwns,
         SubmitPcs, TypeOK, TypeShared, TypeHttpd, OneSendAtATime, WorkerClaims
<1>3. CASE WorkerAwaitCancel \/ WorkerAwaitConfirm
  BY <1>3 DEF WorkerAwaitCancel, WorkerAwaitConfirm, LockStep,
         ReadCancellation, DeadlineExpired, ClaimInv, NothingBeforeClaim,
         Unclaimed, Base, PlanOwnership, HttpdOwns, SubmitPcs, TypeOK,
         TypeShared, TypeHttpd, OneSendAtATime, WorkerClaims
<1>4. CASE WorkerPublishRunning
  BY <1>4 DEF WorkerPublishRunning, PublishStatus, LockStep, Showing, ClaimInv,
         NothingBeforeClaim, Unclaimed, Base, PlanOwnership, HttpdOwns,
         SubmitPcs, TypeOK, TypeShared, TypeHttpd, OneSendAtATime, WorkerClaims
<1>5. CASE WorkerPublishIndex
  BY <1>5 DEF WorkerPublishIndex, PlanDone, PublishStatus, LockStep, Showing,
         ClaimInv, NothingBeforeClaim, Unclaimed, Base, PlanOwnership,
         HttpdOwns, SubmitPcs, TypeOK, TypeShared, TypeHttpd, OneSendAtATime,
         WorkerClaims
<1>6. CASE WorkerCheck
  BY <1>6 DEF WorkerCheck, LockStep, ReadCancellation, DeadlineExpired,
         ClaimInv, NothingBeforeClaim, Unclaimed, Base, PlanOwnership,
         HttpdOwns, SubmitPcs, TypeOK, TypeShared, TypeHttpd, OneSendAtATime,
         WorkerClaims
<1>7. CASE WorkerPress
  BY <1>7 DEF WorkerPress, ClaimInv, NothingBeforeClaim, Unclaimed, Base,
         PlanOwnership, HttpdOwns, SubmitPcs, TypeOK, TypeShared, TypeHttpd,
         OneSendAtATime, WorkerClaims
<1>8. CASE WorkerSlice
  BY <1>8 DEF WorkerSlice, DelayDone, DelayReturn, LockStep, ReadCancellation,
         DeadlineExpired, ClaimInv, NothingBeforeClaim, Unclaimed, Base,
         PlanOwnership, HttpdOwns, SubmitPcs, TypeOK, TypeShared, TypeHttpd,
         OneSendAtATime, WorkerClaims
<1>9. CASE WorkerRelease
  BY <1>9 DEF WorkerRelease, ReleaseAll, ClaimInv, NothingBeforeClaim,
         Unclaimed, Base, PlanOwnership, HttpdOwns, SubmitPcs, TypeOK,
         TypeShared, TypeHttpd, OneSendAtATime, WorkerClaims
<1>10. CASE WorkerFree \/ WorkerFinishRelease
  BY <1>10 DEF WorkerFree, WorkerFinishRelease, PlanFree, ReleaseAll, ClaimInv,
         NothingBeforeClaim, Unclaimed, Base, PlanOwnership, HttpdOwns,
         SubmitPcs, TypeOK, TypeShared, TypeHttpd, OneSendAtATime, WorkerClaims
<1>11. CASE WorkerFinishPublish
  BY <1>11 DEF WorkerFinishPublish, PublishStatus, LockStep, Terminal,
         ClaimInv, NothingBeforeClaim, Unclaimed, Base, PlanOwnership,
         HttpdOwns, SubmitPcs, TypeOK, TypeShared, TypeHttpd, OneSendAtATime,
         WorkerClaims
<1>12. CASE WorkerFinishReset
  BY <1>12 DEF WorkerFinishReset, ResetTerminalFlags, LockStep, FinishFailed,
         WorkerReturn, ClaimInv, NothingBeforeClaim, Unclaimed, Base,
         PlanOwnership, HttpdOwns, SubmitPcs, TypeOK, TypeShared, TypeHttpd,
         OneSendAtATime, WorkerClaims
<1>13. CASE WorkerLatch
  BY <1>13 DEF WorkerLatch, WorkerReturn, ClaimInv, NothingBeforeClaim,
         Unclaimed, Base, PlanOwnership, HttpdOwns, SubmitPcs, TypeOK,
         TypeShared, TypeHttpd, OneSendAtATime, WorkerClaims
<1>14. CASE DeadlinePasses \/ UsbReady \/ UsbLost \/ UNCHANGED vars
  BY <1>14 DEF DeadlinePasses, UsbReady, UsbLost, ClaimInv, NothingBeforeClaim,
         Unclaimed, Base, PlanOwnership, HttpdOwns, SubmitPcs, TypeOK,
         TypeShared, TypeHttpd, OneSendAtATime, WorkerClaims
<1>15. ASSUME NEW id \in Ids, SendCreate(id) PROVE NothingBeforeClaim'
  BY <1>15 DEF SendCreate, ClaimInv, NothingBeforeClaim, Unclaimed, Base,
         PlanOwnership, HttpdOwns, SubmitPcs, TypeOK, TypeShared, TypeHttpd,
         OneSendAtATime, WorkerClaims
<1>16. CASE SubmitReadLatch \/ SubmitReadUsb \/ SendDrop
  BY <1>16 DEF SubmitReadLatch, SubmitReadUsb, SendDrop, EngineUnavailable,
         PlanFree, ClaimInv, NothingBeforeClaim, Unclaimed, Base,
         PlanOwnership, HttpdOwns, SubmitPcs, TypeOK, TypeShared, TypeHttpd,
         OneSendAtATime, WorkerClaims
<1>17. CASE SubmitClaim
  BY <1>17 DEF SubmitClaim, LockStep, Claimable, ClaimInv, NothingBeforeClaim,
         Unclaimed, Base, PlanOwnership, HttpdOwns, SubmitPcs, TypeOK,
         TypeShared, TypeHttpd, OneSendAtATime, WorkerClaims
<1>18. CASE SubmitSend
  BY <1>18 DEF SubmitSend, ClaimInv, NothingBeforeClaim, Unclaimed, Base,
         PlanOwnership, HttpdOwns, SubmitPcs, TypeOK, TypeShared, TypeHttpd,
         OneSendAtATime, WorkerClaims
<1>19. CASE UndoRelease \/ UndoPublish \/ UndoReset \/ UndoLatch
  BY <1>19 DEF UndoRelease, UndoPublish, UndoReset, UndoLatch, ReleaseAll,
         PublishStatus, LockStep, ResetTerminalFlags, ClaimInv,
         NothingBeforeClaim, Unclaimed, Base, PlanOwnership, HttpdOwns,
         SubmitPcs, TypeOK, TypeShared, TypeHttpd, OneSendAtATime, WorkerClaims
<1>20. CASE HttpCancelStart \/ HttpCancelStatus \/ HttpCancelLatch \/
            HttpGetStart \/ HttpGetLock \/ HttpReply
  BY <1>20 DEF HttpCancelStart, HttpCancelStatus, HttpCancelLatch,
         HttpGetStart, HttpGetLock, HttpReply, LockStep, EngineUnavailable,
         ClaimInv, NothingBeforeClaim, Unclaimed, Base, PlanOwnership,
         HttpdOwns, SubmitPcs, TypeOK, TypeShared, TypeHttpd, OneSendAtATime,
         WorkerClaims
<1>21. CASE HttpCancelLock \/ ConsoleCancel
  BY <1>21 DEF HttpCancelLock, ConsoleCancel, CancelSection, LockStep,
         ClaimInv, NothingBeforeClaim, Unclaimed, Base, PlanOwnership,
         HttpdOwns, SubmitPcs, TypeOK, TypeShared, TypeHttpd, OneSendAtATime,
         WorkerClaims
<1>22. ASSUME NEW cmd \in {"cancel", "confirm"}, ConsoleStart(cmd)
      PROVE  NothingBeforeClaim'
  BY <1>22 DEF ConsoleStart, ClaimInv, NothingBeforeClaim, Unclaimed, Base,
         PlanOwnership, HttpdOwns, SubmitPcs, TypeOK, TypeShared, TypeHttpd,
         OneSendAtATime, WorkerClaims
<1>23. CASE ConsoleConfirm
  BY <1>23 DEF ConsoleConfirm, LockStep, CanConfirm, ClaimInv,
         NothingBeforeClaim, Unclaimed, Base, PlanOwnership, HttpdOwns,
         SubmitPcs, TypeOK, TypeShared, TypeHttpd, OneSendAtATime, WorkerClaims
<1> QED
  BY <1>1, <1>2, <1>3, <1>4, <1>5, <1>6, <1>7, <1>8, <1>9, <1>10, <1>11, <1>12,
     <1>13, <1>14, <1>15, <1>16, <1>17, <1>18, <1>19, <1>20, <1>21, <1>22,
     <1>23 DEF Next, Worker,
     Submit, HttpCall

\* The flag of a recorded cancel is cleared only together with busy, or by
\* the claim of another send.
LEMMA CancelSeenStep ==
  Base /\ ClaimInv /\ [Next]_vars => CancelIsSeen'
<1> SUFFICES ASSUME Base, ClaimInv, [Next]_vars
             PROVE  CancelIsSeen'
  OBVIOUS
<1>1. CASE WorkerReceive
  BY <1>1 DEF WorkerReceive, ClaimInv, CancelIsSeen
<1>2. CASE WorkerPublishFirst
  BY <1>2 DEF WorkerPublishFirst, PublishStatus, LockStep, Showing, ClaimInv,
         CancelIsSeen
<1>3. CASE WorkerAwaitCancel
  BY <1>3 DEF WorkerAwaitCancel, LockStep, ReadCancellation, ClaimInv,
         CancelIsSeen
<1>4. CASE WorkerAwaitConfirm
  BY <1>4 DEF WorkerAwaitConfirm, LockStep, DeadlineExpired, ClaimInv,
         CancelIsSeen
<1>5. CASE WorkerPublishRunning
  BY <1>5 DEF WorkerPublishRunning, PublishStatus, LockStep, Showing, ClaimInv,
         CancelIsSeen
<1>6. CASE WorkerPublishIndex
  BY <1>6 DEF WorkerPublishIndex, PlanDone, PublishStatus, LockStep, Showing,
         ClaimInv, CancelIsSeen
<1>7. CASE WorkerCheck
  BY <1>7 DEF WorkerCheck, LockStep, ReadCancellation, DeadlineExpired,
         ClaimInv, CancelIsSeen
<1>8. CASE WorkerPress
  BY <1>8 DEF WorkerPress, ClaimInv, CancelIsSeen
<1>9. CASE WorkerSlice
  BY <1>9 DEF WorkerSlice, DelayDone, DelayReturn, LockStep, ReadCancellation,
         DeadlineExpired, ClaimInv, CancelIsSeen
<1>10. CASE WorkerRelease
  BY <1>10 DEF WorkerRelease, ReleaseAll, ClaimInv, CancelIsSeen
<1>11. CASE WorkerFree
  BY <1>11 DEF WorkerFree, PlanFree, ClaimInv, CancelIsSeen
<1>12. CASE WorkerFinishRelease
  BY <1>12 DEF WorkerFinishRelease, ReleaseAll, ClaimInv, CancelIsSeen
<1>13. CASE WorkerFinishPublish
  BY <1>13 DEF WorkerFinishPublish, PublishStatus, LockStep, Terminal,
         ClaimInv, CancelIsSeen
<1>14. CASE WorkerFinishReset
  BY <1>14 DEF WorkerFinishReset, ResetTerminalFlags, LockStep, FinishFailed,
         WorkerReturn, ClaimInv, CancelIsSeen
<1>15. CASE WorkerLatch
  BY <1>15 DEF WorkerLatch, WorkerReturn, ClaimInv, CancelIsSeen
<1>16. CASE DeadlinePasses
  BY <1>16 DEF DeadlinePasses, ClaimInv, CancelIsSeen
<1>17. ASSUME NEW id \in Ids, SendCreate(id) PROVE CancelIsSeen'
  BY <1>17 DEF SendCreate, ClaimInv, CancelIsSeen
<1>18. CASE SubmitReadLatch
  BY <1>18 DEF SubmitReadLatch, EngineUnavailable, ClaimInv, CancelIsSeen
<1>19. CASE SubmitReadUsb
  BY <1>19 DEF SubmitReadUsb, ClaimInv, CancelIsSeen
<1>20. CASE SubmitClaim
  <2>1. hid \in Ids /\ hid \notin cancelled
    BY <1>20 DEF SubmitClaim, Base, TypeOK, TypeHttpd, SubmitPcs, ClaimInv,
           NothingBeforeClaim, Unclaimed
  <2>2. CASE UNCHANGED <<engineVars, owner, cancelled>>
    BY <2>2 DEF ClaimInv, CancelIsSeen
  <2>3. CASE owner' = hid /\ UNCHANGED cancelled
    BY <2>1, <2>3 DEF CancelIsSeen
  <2> QED BY <1>20, <2>2, <2>3 DEF SubmitClaim
<1>21. CASE SubmitSend
  BY <1>21 DEF SubmitSend, ClaimInv, CancelIsSeen
<1>22. CASE UndoRelease
  BY <1>22 DEF UndoRelease, ReleaseAll, ClaimInv, CancelIsSeen
<1>23. CASE UndoPublish
  BY <1>23 DEF UndoPublish, PublishStatus, LockStep, ClaimInv, CancelIsSeen
<1>24. CASE UndoReset
  BY <1>24 DEF UndoReset, ResetTerminalFlags, LockStep, ClaimInv, CancelIsSeen
<1>25. CASE UndoLatch
  BY <1>25 DEF UndoLatch, ClaimInv, CancelIsSeen
<1>26. CASE SendDrop
  BY <1>26 DEF SendDrop, PlanFree, ClaimInv, CancelIsSeen
<1>27. CASE HttpCancelStart
  BY <1>27 DEF HttpCancelStart, ClaimInv, CancelIsSeen
<1>28. CASE HttpGetStart
  BY <1>28 DEF HttpGetStart, ClaimInv, CancelIsSeen
<1>29. CASE HttpCancelStatus
  BY <1>29 DEF HttpCancelStatus, LockStep, ClaimInv, CancelIsSeen
<1>30. CASE HttpCancelLatch
  BY <1>30 DEF HttpCancelLatch, EngineUnavailable, ClaimInv, CancelIsSeen
<1>31. CASE HttpCancelLock
  BY <1>31 DEF HttpCancelLock, CancelSection, LockStep, ClaimInv, CancelIsSeen
<1>32. CASE HttpGetLock
  BY <1>32 DEF HttpGetLock, LockStep, ClaimInv, CancelIsSeen
<1>33. CASE HttpReply
  BY <1>33 DEF HttpReply, ClaimInv, CancelIsSeen
<1>34. ASSUME NEW cmd \in {"cancel", "confirm"}, ConsoleStart(cmd)
      PROVE  CancelIsSeen'
  BY <1>34 DEF ConsoleStart, ClaimInv, CancelIsSeen
<1>35. CASE ConsoleCancel
  BY <1>35 DEF ConsoleCancel, CancelSection, LockStep, ClaimInv, CancelIsSeen
<1>36. CASE ConsoleConfirm
  BY <1>36 DEF ConsoleConfirm, LockStep, CanConfirm, ClaimInv, CancelIsSeen
<1>37. CASE UsbReady
  BY <1>37 DEF UsbReady, ClaimInv, CancelIsSeen
<1>38. CASE UsbLost
  BY <1>38 DEF UsbLost, ClaimInv, CancelIsSeen
<1>39. CASE UNCHANGED vars
  BY <1>39 DEF ClaimInv, CancelIsSeen
<1> QED
  BY <1>1, <1>2, <1>3, <1>4, <1>5, <1>6, <1>7, <1>8, <1>9, <1>10, <1>11, <1>12,
     <1>13, <1>14, <1>15, <1>16, <1>17, <1>18, <1>19, <1>20, <1>21, <1>22,
     <1>23, <1>24, <1>25, <1>26, <1>27, <1>28, <1>29, <1>30, <1>31, <1>32,
     <1>33, <1>34, <1>35, <1>36, <1>37, <1>38, <1>39 DEF Next, Worker,
     Submit, HttpCall

-----------------------------------------------------------------------------
(* What has been typed *)

\* The key actions among the first n-1 actions of a plan.
KeysBefore(id, n) ==
    Cardinality({i \in DOMAIN PlanOf[id] : i < n /\ PlanOf[id][i] = "key"})

\* KeysBefore counts up to KeyCount, one for each key action passed.
LEMMA KeysCounted ==
  ASSUME NEW id \in Ids, NEW n \in Nat \ {0}
  PROVE  /\ KeysBefore(id, n) \in Nat /\ KeyCount(id) \in Nat
         /\ KeysBefore(id, n) <= KeyCount(id)
         /\ KeysBefore(id, 1) = 0
         /\ n \notin DOMAIN PlanOf[id] => KeysBefore(id, n) = KeyCount(id)
         /\ n \in DOMAIN PlanOf[id] =>
              KeysBefore(id, n + 1) =
                KeysBefore(id, n) + (IF PlanOf[id][n] = "key" THEN 1 ELSE 0)
<1> DEFINE All == {i \in DOMAIN PlanOf[id] : PlanOf[id][i] = "key"}
           Upto(m) == {i \in DOMAIN PlanOf[id] : i < m /\ PlanOf[id][i] = "key"}
<1>1. /\ DOMAIN PlanOf[id] = 1 .. Len(PlanOf[id]) /\ Len(PlanOf[id]) \in Nat
  BY PlanAssumption, LenProperties
<1>2. IsFiniteSet(All) /\ Cardinality(All) \in Nat
  <2>1. IsFiniteSet(1 .. Len(PlanOf[id]))
    BY <1>1, FS_Interval
  <2> QED BY <1>1, <2>1, FS_Subset, FS_CardinalityType
<1>3. \A m \in Nat : /\ IsFiniteSet(Upto(m)) /\ Cardinality(Upto(m)) \in Nat
                     /\ Cardinality(Upto(m)) <= Cardinality(All)
  <2> TAKE m \in Nat
  <2>1. Upto(m) \subseteq All
    OBVIOUS
  <2> QED BY <1>2, <2>1, FS_Subset, FS_CardinalityType
<1>4. Upto(1) = {} /\ Cardinality(Upto(1)) = 0
  <2>1. Upto(1) = {}
    BY <1>1
  <2> QED BY <2>1, FS_EmptySet
<1>5. ASSUME n \notin DOMAIN PlanOf[id] PROVE Upto(n) = All
  BY <1>1, <1>5
<1>6. ASSUME n \in DOMAIN PlanOf[id], PlanOf[id][n] = "key"
      PROVE  Cardinality(Upto(n + 1)) = Cardinality(Upto(n)) + 1
  <2>1. Upto(n + 1) = Upto(n) \cup {n} /\ n \notin Upto(n)
    BY <1>1, <1>6
  <2> QED BY <1>3, <2>1, FS_AddElement
<1>7. ASSUME n \in DOMAIN PlanOf[id], PlanOf[id][n] # "key"
      PROVE  Upto(n + 1) = Upto(n)
  BY <1>1, <1>7
<1> QED
  <2>1. /\ Cardinality(Upto(n)) \in Nat
        /\ Cardinality(Upto(n)) <= Cardinality(All)
    BY <1>3
  <2>2. /\ n \in DOMAIN PlanOf[id] /\ PlanOf[id][n] = "key" =>
             Cardinality(Upto(n + 1)) = Cardinality(Upto(n)) + 1
        /\ n \in DOMAIN PlanOf[id] /\ PlanOf[id][n] # "key" =>
             Cardinality(Upto(n + 1)) = Cardinality(Upto(n))
        /\ n \notin DOMAIN PlanOf[id] =>
             Cardinality(Upto(n)) = Cardinality(All)
    BY <1>5, <1>6, <1>7
  <2>3. /\ \A m : KeysBefore(id, m) = Cardinality(Upto(m))
        /\ KeyCount(id) = Cardinality(All)
    BY DEF KeysBefore, KeyCount
  <2> HIDE DEF All, Upto
  <2> QED BY <1>2, <1>4, <2>1, <2>2, <2>3

\* The queue only loses a request by WorkerReceive, and gets one by SubmitSend.
LEMMA QueueMoves ==
  ASSUME TypeOK, NEW id \in Ids, QueueOwns(id)'
  PROVE  /\ WorkerReceive => QueueOwns(id)
         /\ SubmitSend => QueueOwns(id) \/ (id = hid /\ hpc = "send")
<1> PICK i \in DOMAIN queue' : queue'[i] = id
  BY DEF QueueOwns
<1>1. queue \in Seq(Ids)
  BY DEF TypeOK, TypeShared
<1>2. WorkerReceive => QueueOwns(id)
  <2> SUFFICES ASSUME queue # <<>>, queue' = Tail(queue) PROVE QueueOwns(id)
    BY DEF WorkerReceive
  <2>1. i + 1 \in DOMAIN queue /\ queue[i + 1] = id
    BY <1>1, HeadTailProperties, LenProperties
  <2> QED BY <2>1 DEF QueueOwns
<1>3. ASSUME SubmitSend PROVE QueueOwns(id) \/ (id = hid /\ hpc = "send")
  <2>1. CASE queue' = queue
    BY <1>3, <2>1 DEF SubmitSend, QueueOwns
  <2>2. CASE queue' = Append(queue, hid)
    <3>1. hid \in Ids
      BY <1>3 DEF SubmitSend, TypeOK, TypeHttpd, SubmitPcs
    <3>2. (i \in DOMAIN queue /\ queue[i] = id) \/ id = hid
      BY <1>1, <2>2, <3>1, AppendProperties, LenProperties
    <3> QED BY <1>3, <3>2 DEF SubmitSend, QueueOwns
  <2> QED BY <1>3, <2>1, <2>2 DEF SubmitSend
<1> QED BY <1>2, <1>3

\* The queue holds the one request it gives away next.
LEMMA QueueHolds ==
  ASSUME TypeOK, OneSendAtATime, NEW id \in Ids, QueueOwns(id)
  PROVE  queue # <<>> /\ Head(queue) = id
<1>1. /\ queue \in Seq(Ids) /\ Len(queue) <= 1
      /\ Len(queue) \in Nat /\ DOMAIN queue = 1 .. Len(queue)
  BY LenProperties DEF TypeOK, TypeShared, OneSendAtATime
<1>2. PICK i \in DOMAIN queue : queue[i] = id
  BY DEF QueueOwns
<1>3. i = 1 /\ Len(queue) = 1
  BY <1>1, <1>2
<1>4. queue # <<>>
  BY <1>3
<1> QED BY <1>1, <1>2, <1>3, <1>4

\* A send that no task has started on has typed nothing.
Untouched(id) == plan[id] = "none" \/ HttpdOwns(id) \/ QueueOwns(id)

UntouchedIsNew ==
    \A id \in Ids : Untouched(id) =>
        typed[id] = 0 /\ late[id] = 0 /\ outcome[id] = "none"

\* The worker keeps the id of the send to itself, and publishes its outcome
\* last.
WorkedOn ==
    /\ wpc \in FinishPcs => plan[wid] = "freed"
    /\ wpc \notin {"receive", "latch", "finish_reset"} => outcome[wid] = "none"

FreshInv == UntouchedIsNew /\ WorkedOn

\* Only the worker counts keys and outcomes, and only for the send it has.
LEMMA UntouchedStep ==
  Base /\ FreshInv /\ [Next]_vars => UntouchedIsNew'
<1> SUFFICES ASSUME Base, FreshInv, [Next]_vars
             PROVE  UntouchedIsNew'
  OBVIOUS
<1>1. CASE WorkerReceive
  <2>1. \A id \in Ids : Untouched(id)' => Untouched(id)
    BY <1>1, QueueMoves DEF WorkerReceive, Untouched, HttpdOwns, Base
  <2> QED BY <1>1, <2>1 DEF WorkerReceive, FreshInv, UntouchedIsNew
<1>2. CASE WorkerPublishFirst
  BY <1>2, SMTT(30) DEF WorkerPublishFirst, PublishStatus, LockStep, Showing, FreshInv,
         WorkedOn, UntouchedIsNew, Untouched, Base, TypeOK, TypeShared,
         TypeWorker, TypeHttpd, TypeHistory, PlanOwnership, HttpdOwns,
         QueueOwns, WorkerOwns, SubmitPcs, ConfirmPcs, ActionPcs, FinishPcs
<1>3. CASE WorkerAwaitCancel \/ WorkerAwaitConfirm
  BY <1>3 DEF WorkerAwaitCancel, WorkerAwaitConfirm, LockStep,
         ReadCancellation, DeadlineExpired, FreshInv, WorkedOn, UntouchedIsNew,
         Untouched, Base, TypeOK, TypeShared, TypeWorker, TypeHttpd,
         TypeHistory, PlanOwnership, HttpdOwns, QueueOwns, WorkerOwns,
         SubmitPcs, ConfirmPcs, ActionPcs, FinishPcs
<1>4. CASE WorkerPublishRunning
  BY <1>4, SMTT(30) DEF WorkerPublishRunning, PublishStatus, LockStep, Showing, FreshInv,
         WorkedOn, UntouchedIsNew, Untouched, Base, TypeOK, TypeShared,
         TypeWorker, TypeHttpd, TypeHistory, PlanOwnership, HttpdOwns,
         QueueOwns, WorkerOwns, SubmitPcs, ConfirmPcs, ActionPcs, FinishPcs
<1>5. CASE WorkerPublishIndex
  BY <1>5, SMTT(30) DEF WorkerPublishIndex, PlanDone, PublishStatus, LockStep, Showing,
         FreshInv, WorkedOn, UntouchedIsNew, Untouched, Base, TypeOK,
         TypeShared, TypeWorker, TypeHttpd, TypeHistory, PlanOwnership,
         HttpdOwns, QueueOwns, WorkerOwns, SubmitPcs, ConfirmPcs, ActionPcs,
         FinishPcs
<1>6. CASE WorkerCheck
  BY <1>6, SMTT(30) DEF WorkerCheck, LockStep, ReadCancellation, DeadlineExpired,
         FreshInv, WorkedOn, UntouchedIsNew, Untouched, Base, TypeOK,
         TypeShared, TypeWorker, TypeHttpd, TypeHistory, PlanOwnership,
         HttpdOwns, QueueOwns, WorkerOwns, SubmitPcs, ConfirmPcs, ActionPcs,
         FinishPcs
<1>7. CASE WorkerPress
  BY <1>7, SMTT(30) DEF WorkerPress, FreshInv, WorkedOn, UntouchedIsNew, Untouched, Base,
         TypeOK, TypeShared, TypeWorker, TypeHttpd, TypeHistory, PlanOwnership,
         HttpdOwns, QueueOwns, WorkerOwns, SubmitPcs, ConfirmPcs, ActionPcs,
         FinishPcs
<1>8. CASE WorkerSlice
  BY <1>8, ZenonT(30) DEF WorkerSlice, DelayDone, DelayReturn, LockStep, ReadCancellation,
         DeadlineExpired, FreshInv, WorkedOn, UntouchedIsNew, Untouched, Base,
         TypeOK, TypeShared, TypeWorker, TypeHttpd, TypeHistory, PlanOwnership,
         HttpdOwns, QueueOwns, WorkerOwns, SubmitPcs, ConfirmPcs, ActionPcs,
         FinishPcs
<1>9. CASE WorkerRelease
  BY <1>9, SMTT(30) DEF WorkerRelease, ReleaseAll, FreshInv, WorkedOn, UntouchedIsNew,
         Untouched, Base, TypeOK, TypeShared, TypeWorker, TypeHttpd,
         TypeHistory, PlanOwnership, HttpdOwns, QueueOwns, WorkerOwns,
         SubmitPcs, ConfirmPcs, ActionPcs, FinishPcs
<1>10. CASE WorkerFree
  BY <1>10, SMTT(30) DEF WorkerFree, PlanFree, FreshInv, WorkedOn, UntouchedIsNew,
         Untouched, Base, TypeOK, TypeShared, TypeWorker, TypeHttpd,
         TypeHistory, PlanOwnership, HttpdOwns, QueueOwns, WorkerOwns,
         SubmitPcs, ConfirmPcs, ActionPcs, FinishPcs
<1>11. CASE WorkerFinishRelease
  BY <1>11, SMTT(30) DEF WorkerFinishRelease, ReleaseAll, FreshInv, WorkedOn,
         UntouchedIsNew, Untouched, Base, TypeOK, TypeShared, TypeWorker,
         TypeHttpd, TypeHistory, PlanOwnership, HttpdOwns, QueueOwns,
         WorkerOwns, SubmitPcs, ConfirmPcs, ActionPcs, FinishPcs
<1>12. CASE WorkerFinishPublish
  BY <1>12, SMTT(30) DEF WorkerFinishPublish, PublishStatus, LockStep, Terminal,
         FreshInv, WorkedOn, UntouchedIsNew, Untouched, Base, TypeOK,
         TypeShared, TypeWorker, TypeHttpd, TypeHistory, PlanOwnership,
         HttpdOwns, QueueOwns, WorkerOwns, SubmitPcs, ConfirmPcs, ActionPcs,
         FinishPcs
<1>13. CASE WorkerFinishReset
  BY <1>13, SMTT(30) DEF WorkerFinishReset, ResetTerminalFlags, LockStep, FinishFailed,
         WorkerReturn, FreshInv, WorkedOn, UntouchedIsNew, Untouched, Base,
         TypeOK, TypeShared, TypeWorker, TypeHttpd, TypeHistory, PlanOwnership,
         HttpdOwns, QueueOwns, WorkerOwns, SubmitPcs, ConfirmPcs, ActionPcs,
         FinishPcs
<1>14. CASE WorkerLatch
  BY <1>14, SMTT(30) DEF WorkerLatch, WorkerReturn, FreshInv, WorkedOn, UntouchedIsNew,
         Untouched, Base, TypeOK, TypeShared, TypeWorker, TypeHttpd,
         TypeHistory, PlanOwnership, HttpdOwns, QueueOwns, WorkerOwns,
         SubmitPcs, ConfirmPcs, ActionPcs, FinishPcs
<1>15. CASE DeadlinePasses
  BY <1>15, SMTT(30) DEF DeadlinePasses, FreshInv, WorkedOn, UntouchedIsNew, Untouched,
         Base, TypeOK, TypeShared, TypeWorker, TypeHttpd, TypeHistory,
         PlanOwnership, HttpdOwns, QueueOwns, WorkerOwns, SubmitPcs,
         ConfirmPcs, ActionPcs, FinishPcs
<1>16. ASSUME NEW id \in Ids, SendCreate(id) PROVE UntouchedIsNew'
  BY <1>16 DEF SendCreate, FreshInv, WorkedOn, UntouchedIsNew, Untouched, Base,
         TypeOK, TypeShared, TypeWorker, TypeHttpd, TypeHistory, PlanOwnership,
         HttpdOwns, QueueOwns, WorkerOwns, SubmitPcs, ConfirmPcs, ActionPcs,
         FinishPcs
<1>17. CASE SubmitReadLatch \/ SubmitReadUsb \/ SendDrop
  BY <1>17, SMTT(30) DEF SubmitReadLatch, SubmitReadUsb, SendDrop, EngineUnavailable,
         PlanFree, FreshInv, WorkedOn, UntouchedIsNew, Untouched, Base, TypeOK,
         TypeShared, TypeWorker, TypeHttpd, TypeHistory, PlanOwnership,
         HttpdOwns, QueueOwns, WorkerOwns, SubmitPcs, ConfirmPcs, ActionPcs,
         FinishPcs
<1>18. CASE SubmitClaim
  BY <1>18 DEF SubmitClaim, LockStep, Claimable, FreshInv, WorkedOn,
         UntouchedIsNew, Untouched, Base, TypeOK, TypeShared, TypeWorker,
         TypeHttpd, TypeHistory, PlanOwnership, HttpdOwns, QueueOwns,
         WorkerOwns, SubmitPcs, ConfirmPcs, ActionPcs, FinishPcs
<1>19. CASE SubmitSend
  <2>1. \A id \in Ids : Untouched(id)' => Untouched(id)
    BY <1>19, QueueMoves DEF SubmitSend, Untouched, HttpdOwns, SubmitPcs, Base
  <2> QED BY <1>19, <2>1 DEF SubmitSend, FreshInv, UntouchedIsNew
<1>20. CASE UndoRelease
  BY <1>20 DEF UndoRelease, ReleaseAll, FreshInv, WorkedOn, UntouchedIsNew,
         Untouched, Base, TypeOK, TypeShared, TypeWorker, TypeHttpd,
         TypeHistory, PlanOwnership, HttpdOwns, QueueOwns, WorkerOwns,
         SubmitPcs, ConfirmPcs, ActionPcs, FinishPcs
<1>21. CASE UndoPublish
  BY <1>21 DEF UndoPublish, PublishStatus, LockStep, FreshInv, WorkedOn,
         UntouchedIsNew, Untouched, Base, TypeOK, TypeShared, TypeWorker,
         TypeHttpd, TypeHistory, PlanOwnership, HttpdOwns, QueueOwns,
         WorkerOwns, SubmitPcs, ConfirmPcs, ActionPcs, FinishPcs
<1>22. CASE UndoReset
  BY <1>22 DEF UndoReset, ResetTerminalFlags, LockStep, FreshInv, WorkedOn,
         UntouchedIsNew, Untouched, Base, TypeOK, TypeShared, TypeWorker,
         TypeHttpd, TypeHistory, PlanOwnership, HttpdOwns, QueueOwns,
         WorkerOwns, SubmitPcs, ConfirmPcs, ActionPcs, FinishPcs
<1>23. CASE UndoLatch
  BY <1>23 DEF UndoLatch, FreshInv, WorkedOn, UntouchedIsNew, Untouched, Base,
         TypeOK, TypeShared, TypeWorker, TypeHttpd, TypeHistory, PlanOwnership,
         HttpdOwns, QueueOwns, WorkerOwns, SubmitPcs, ConfirmPcs, ActionPcs,
         FinishPcs
<1>24. CASE HttpCancelStart \/ HttpCancelStatus \/ HttpCancelLatch \/
            HttpGetStart \/ HttpGetLock \/ HttpReply
  BY <1>24 DEF HttpCancelStart, HttpCancelStatus, HttpCancelLatch,
         HttpGetStart, HttpGetLock, HttpReply, LockStep, EngineUnavailable,
         FreshInv, WorkedOn, UntouchedIsNew, Untouched, Base, TypeOK,
         TypeShared, TypeWorker, TypeHttpd, TypeHistory, PlanOwnership,
         HttpdOwns, QueueOwns, WorkerOwns, SubmitPcs, ConfirmPcs, ActionPcs,
         FinishPcs
<1>25. CASE HttpCancelLock \/ ConsoleCancel
  BY <1>25, SMTT(30) DEF HttpCancelLock, ConsoleCancel, CancelSection, LockStep,
         FreshInv, WorkedOn, UntouchedIsNew, Untouched, Base, TypeOK,
         TypeShared, TypeWorker, TypeHttpd, TypeHistory, PlanOwnership,
         HttpdOwns, QueueOwns, WorkerOwns, SubmitPcs, ConfirmPcs, ActionPcs,
         FinishPcs
<1>26. ASSUME NEW cmd \in {"cancel", "confirm"}, ConsoleStart(cmd)
      PROVE  UntouchedIsNew'
  BY <1>26, SMTT(30) DEF ConsoleStart, FreshInv, WorkedOn, UntouchedIsNew, Untouched,
         Base, TypeOK, TypeShared, TypeWorker, TypeHttpd, TypeHistory,
         PlanOwnership, HttpdOwns, QueueOwns, WorkerOwns, SubmitPcs,
         ConfirmPcs, ActionPcs, FinishPcs
<1>27. CASE ConsoleConfirm
  BY <1>27, SMTT(30) DEF ConsoleConfirm, LockStep, CanConfirm, FreshInv, WorkedOn,
         UntouchedIsNew, Untouched, Base, TypeOK, TypeShared, TypeWorker,
         TypeHttpd, TypeHistory, PlanOwnership, HttpdOwns, QueueOwns,
         WorkerOwns, SubmitPcs, ConfirmPcs, ActionPcs, FinishPcs
<1>28. CASE UsbReady
  BY <1>28, SMTT(30) DEF UsbReady, FreshInv, WorkedOn, UntouchedIsNew, Untouched, Base,
         TypeOK, TypeShared, TypeWorker, TypeHttpd, TypeHistory, PlanOwnership,
         HttpdOwns, QueueOwns, WorkerOwns, SubmitPcs, ConfirmPcs, ActionPcs,
         FinishPcs
<1>29. CASE UsbLost
  BY <1>29, SMTT(30) DEF UsbLost, FreshInv, WorkedOn, UntouchedIsNew, Untouched, Base,
         TypeOK, TypeShared, TypeWorker, TypeHttpd, TypeHistory, PlanOwnership,
         HttpdOwns, QueueOwns, WorkerOwns, SubmitPcs, ConfirmPcs, ActionPcs,
         FinishPcs
<1>30. CASE UNCHANGED vars
  BY <1>30, SMTT(30) DEF FreshInv, WorkedOn, UntouchedIsNew, Untouched, Base, TypeOK,
         TypeShared, TypeWorker, TypeHttpd, TypeHistory, PlanOwnership,
         HttpdOwns, QueueOwns, WorkerOwns, SubmitPcs, ConfirmPcs, ActionPcs,
         FinishPcs
<1> QED
  BY <1>1, <1>2, <1>3, <1>4, <1>5, <1>6, <1>7, <1>8, <1>9, <1>10, <1>11, <1>12,
     <1>13, <1>14, <1>15, <1>16, <1>17, <1>18, <1>19, <1>20, <1>21, <1>22,
     <1>23, <1>24, <1>25, <1>26, <1>27, <1>28, <1>29, <1>30 DEF Next, Worker,
     Submit, HttpCall

\* The outcome comes last, and the plan is gone before it.
LEMMA WorkedOnStep ==
  Base /\ FreshInv /\ [Next]_vars => WorkedOn'
<1> SUFFICES ASSUME Base, FreshInv, [Next]_vars
             PROVE  WorkedOn'
  OBVIOUS
<1>1. CASE WorkerReceive
  BY <1>1 DEF WorkerReceive, FreshInv, WorkedOn, UntouchedIsNew, Untouched,
         Base, TypeOK, TypeShared, TypeWorker, TypeHttpd, TypeHistory,
         PlanOwnership, HttpdOwns, QueueOwns, WorkerOwns, SubmitPcs,
         ConfirmPcs, ActionPcs, FinishPcs
<1>2. CASE WorkerPublishFirst
  BY <1>2 DEF WorkerPublishFirst, PublishStatus, LockStep, Showing, FreshInv,
         WorkedOn, UntouchedIsNew, Untouched, Base, TypeOK, TypeShared,
         TypeWorker, TypeHttpd, TypeHistory, PlanOwnership, HttpdOwns,
         QueueOwns, WorkerOwns, SubmitPcs, ConfirmPcs, ActionPcs, FinishPcs
<1>3. CASE WorkerAwaitCancel \/ WorkerAwaitConfirm
  BY <1>3 DEF WorkerAwaitCancel, WorkerAwaitConfirm, LockStep,
         ReadCancellation, DeadlineExpired, FreshInv, WorkedOn, UntouchedIsNew,
         Untouched, Base, TypeOK, TypeShared, TypeWorker, TypeHttpd,
         TypeHistory, PlanOwnership, HttpdOwns, QueueOwns, WorkerOwns,
         SubmitPcs, ConfirmPcs, ActionPcs, FinishPcs
<1>4. CASE WorkerPublishRunning
  BY <1>4 DEF WorkerPublishRunning, PublishStatus, LockStep, Showing, FreshInv,
         WorkedOn, UntouchedIsNew, Untouched, Base, TypeOK, TypeShared,
         TypeWorker, TypeHttpd, TypeHistory, PlanOwnership, HttpdOwns,
         QueueOwns, WorkerOwns, SubmitPcs, ConfirmPcs, ActionPcs, FinishPcs
<1>5. CASE WorkerPublishIndex
  BY <1>5 DEF WorkerPublishIndex, PlanDone, PublishStatus, LockStep, Showing,
         FreshInv, WorkedOn, UntouchedIsNew, Untouched, Base, TypeOK,
         TypeShared, TypeWorker, TypeHttpd, TypeHistory, PlanOwnership,
         HttpdOwns, QueueOwns, WorkerOwns, SubmitPcs, ConfirmPcs, ActionPcs,
         FinishPcs
<1>6. CASE WorkerCheck
  BY <1>6 DEF WorkerCheck, LockStep, ReadCancellation, DeadlineExpired,
         FreshInv, WorkedOn, UntouchedIsNew, Untouched, Base, TypeOK,
         TypeShared, TypeWorker, TypeHttpd, TypeHistory, PlanOwnership,
         HttpdOwns, QueueOwns, WorkerOwns, SubmitPcs, ConfirmPcs, ActionPcs,
         FinishPcs
<1>7. CASE WorkerPress
  BY <1>7 DEF WorkerPress, FreshInv, WorkedOn, UntouchedIsNew, Untouched, Base,
         TypeOK, TypeShared, TypeWorker, TypeHttpd, TypeHistory, PlanOwnership,
         HttpdOwns, QueueOwns, WorkerOwns, SubmitPcs, ConfirmPcs, ActionPcs,
         FinishPcs
<1>8. CASE WorkerSlice
  BY <1>8 DEF WorkerSlice, DelayDone, DelayReturn, LockStep, ReadCancellation,
         DeadlineExpired, FreshInv, WorkedOn, UntouchedIsNew, Untouched, Base,
         TypeOK, TypeShared, TypeWorker, TypeHttpd, TypeHistory, PlanOwnership,
         HttpdOwns, QueueOwns, WorkerOwns, SubmitPcs, ConfirmPcs, ActionPcs,
         FinishPcs
<1>9. CASE WorkerRelease
  BY <1>9 DEF WorkerRelease, ReleaseAll, FreshInv, WorkedOn, UntouchedIsNew,
         Untouched, Base, TypeOK, TypeShared, TypeWorker, TypeHttpd,
         TypeHistory, PlanOwnership, HttpdOwns, QueueOwns, WorkerOwns,
         SubmitPcs, ConfirmPcs, ActionPcs, FinishPcs
<1>10. CASE WorkerFree
  BY <1>10 DEF WorkerFree, PlanFree, FreshInv, WorkedOn, UntouchedIsNew,
         Untouched, Base, TypeOK, TypeShared, TypeWorker, TypeHttpd,
         TypeHistory, PlanOwnership, HttpdOwns, QueueOwns, WorkerOwns,
         SubmitPcs, ConfirmPcs, ActionPcs, FinishPcs
<1>11. CASE WorkerFinishRelease
  BY <1>11 DEF WorkerFinishRelease, ReleaseAll, FreshInv, WorkedOn,
         UntouchedIsNew, Untouched, Base, TypeOK, TypeShared, TypeWorker,
         TypeHttpd, TypeHistory, PlanOwnership, HttpdOwns, QueueOwns,
         WorkerOwns, SubmitPcs, ConfirmPcs, ActionPcs, FinishPcs
<1>12. CASE WorkerFinishPublish
  BY <1>12 DEF WorkerFinishPublish, PublishStatus, LockStep, Terminal,
         FreshInv, WorkedOn, UntouchedIsNew, Untouched, Base, TypeOK,
         TypeShared, TypeWorker, TypeHttpd, TypeHistory, PlanOwnership,
         HttpdOwns, QueueOwns, WorkerOwns, SubmitPcs, ConfirmPcs, ActionPcs,
         FinishPcs
<1>13. CASE WorkerFinishReset
  BY <1>13 DEF WorkerFinishReset, ResetTerminalFlags, LockStep, FinishFailed,
         WorkerReturn, FreshInv, WorkedOn, UntouchedIsNew, Untouched, Base,
         TypeOK, TypeShared, TypeWorker, TypeHttpd, TypeHistory, PlanOwnership,
         HttpdOwns, QueueOwns, WorkerOwns, SubmitPcs, ConfirmPcs, ActionPcs,
         FinishPcs
<1>14. CASE WorkerLatch
  BY <1>14 DEF WorkerLatch, WorkerReturn, FreshInv, WorkedOn, UntouchedIsNew,
         Untouched, Base, TypeOK, TypeShared, TypeWorker, TypeHttpd,
         TypeHistory, PlanOwnership, HttpdOwns, QueueOwns, WorkerOwns,
         SubmitPcs, ConfirmPcs, ActionPcs, FinishPcs
<1>15. CASE DeadlinePasses \/ UsbReady \/ UsbLost \/ UNCHANGED vars
  BY <1>15 DEF DeadlinePasses, UsbReady, UsbLost, FreshInv, WorkedOn,
         UntouchedIsNew, Untouched, Base, TypeOK, TypeShared, TypeWorker,
         TypeHttpd, TypeHistory, PlanOwnership, HttpdOwns, QueueOwns,
         WorkerOwns, SubmitPcs, ConfirmPcs, ActionPcs, FinishPcs
<1>16. ASSUME NEW id \in Ids, SendCreate(id) PROVE WorkedOn'
  BY <1>16 DEF SendCreate, FreshInv, WorkedOn, UntouchedIsNew, Untouched, Base,
         TypeOK, TypeShared, TypeWorker, TypeHttpd, TypeHistory, PlanOwnership,
         HttpdOwns, QueueOwns, WorkerOwns, SubmitPcs, ConfirmPcs, ActionPcs,
         FinishPcs
<1>17. CASE SubmitReadLatch \/ SubmitReadUsb \/ SendDrop
  BY <1>17 DEF SubmitReadLatch, SubmitReadUsb, SendDrop, EngineUnavailable,
         PlanFree, FreshInv, WorkedOn, UntouchedIsNew, Untouched, Base, TypeOK,
         TypeShared, TypeWorker, TypeHttpd, TypeHistory, PlanOwnership,
         HttpdOwns, QueueOwns, WorkerOwns, SubmitPcs, ConfirmPcs, ActionPcs,
         FinishPcs
<1>18. CASE SubmitClaim
  BY <1>18 DEF SubmitClaim, LockStep, Claimable, FreshInv, WorkedOn,
         UntouchedIsNew, Untouched, Base, TypeOK, TypeShared, TypeWorker,
         TypeHttpd, TypeHistory, PlanOwnership, HttpdOwns, QueueOwns,
         WorkerOwns, SubmitPcs, ConfirmPcs, ActionPcs, FinishPcs
<1>19. CASE SubmitSend
  BY <1>19 DEF SubmitSend, FreshInv, WorkedOn, UntouchedIsNew, Untouched, Base,
         TypeOK, TypeShared, TypeWorker, TypeHttpd, TypeHistory, PlanOwnership,
         HttpdOwns, QueueOwns, WorkerOwns, SubmitPcs, ConfirmPcs, ActionPcs,
         FinishPcs
<1>20. CASE UndoRelease \/ UndoPublish \/ UndoReset \/ UndoLatch
  BY <1>20 DEF UndoRelease, UndoPublish, UndoReset, UndoLatch, ReleaseAll,
         PublishStatus, LockStep, ResetTerminalFlags, FreshInv, WorkedOn,
         UntouchedIsNew, Untouched, Base, TypeOK, TypeShared, TypeWorker,
         TypeHttpd, TypeHistory, PlanOwnership, HttpdOwns, QueueOwns,
         WorkerOwns, SubmitPcs, ConfirmPcs, ActionPcs, FinishPcs
<1>21. CASE HttpCancelStart \/ HttpCancelStatus \/ HttpCancelLatch \/
            HttpGetStart \/ HttpGetLock \/ HttpReply
  BY <1>21 DEF HttpCancelStart, HttpCancelStatus, HttpCancelLatch,
         HttpGetStart, HttpGetLock, HttpReply, LockStep, EngineUnavailable,
         FreshInv, WorkedOn, UntouchedIsNew, Untouched, Base, TypeOK,
         TypeShared, TypeWorker, TypeHttpd, TypeHistory, PlanOwnership,
         HttpdOwns, QueueOwns, WorkerOwns, SubmitPcs, ConfirmPcs, ActionPcs,
         FinishPcs
<1>22. CASE HttpCancelLock \/ ConsoleCancel
  BY <1>22 DEF HttpCancelLock, ConsoleCancel, CancelSection, LockStep,
         FreshInv, WorkedOn, UntouchedIsNew, Untouched, Base, TypeOK,
         TypeShared, TypeWorker, TypeHttpd, TypeHistory, PlanOwnership,
         HttpdOwns, QueueOwns, WorkerOwns, SubmitPcs, ConfirmPcs, ActionPcs,
         FinishPcs
<1>23. ASSUME NEW cmd \in {"cancel", "confirm"}, ConsoleStart(cmd)
      PROVE  WorkedOn'
  BY <1>23 DEF ConsoleStart, FreshInv, WorkedOn, UntouchedIsNew, Untouched,
         Base, TypeOK, TypeShared, TypeWorker, TypeHttpd, TypeHistory,
         PlanOwnership, HttpdOwns, QueueOwns, WorkerOwns, SubmitPcs,
         ConfirmPcs, ActionPcs, FinishPcs
<1>24. CASE ConsoleConfirm
  BY <1>24 DEF ConsoleConfirm, LockStep, CanConfirm, FreshInv, WorkedOn,
         UntouchedIsNew, Untouched, Base, TypeOK, TypeShared, TypeWorker,
         TypeHttpd, TypeHistory, PlanOwnership, HttpdOwns, QueueOwns,
         WorkerOwns, SubmitPcs, ConfirmPcs, ActionPcs, FinishPcs
<1> QED
  BY <1>1, <1>2, <1>3, <1>4, <1>5, <1>6, <1>7, <1>8, <1>9, <1>10, <1>11, <1>12,
     <1>13, <1>14, <1>15, <1>16, <1>17, <1>18, <1>19, <1>20, <1>21, <1>22,
     <1>23, <1>24 DEF Next, Worker,
     Submit, HttpCall

-----------------------------------------------------------------------------
(* How far the worker is in the plan *)

\* Before the first action.
Starting ==
    /\ wpc = "receive" => widx = 1
    /\ wpc \in {"publish_first"} \cup ConfirmPcs => widx = 1 /\ typed[wid] = 0

\* Inside an action, the one the index names.
Acting ==
    /\ wpc \in {"check", "press", "slice", "release"} =>
         widx \in DOMAIN PlanOf[wid]
    /\ wpc \in {"press", "release"} \/ (wpc = "slice" /\ wret = "release") =>
         PlanOf[wid][widx] = "key"

\* What has been typed: the key actions before the index, and the one of the
\* index once it was pressed; everything when the result is a success.
Typing ==
    /\ wpc = "publish" => wres = "none"
    /\ wpc \in {"publish", "check", "press"} =>
         typed[wid] = KeysBefore(wid, widx)
    /\ wpc = "slice" \/ (wpc = "release" /\ wres = "none") =>
         typed[wid] = KeysBefore(wid, widx + 1)
    /\ wpc \in {"free"} \cup FinishPcs /\ wres = "none" =>
         typed[wid] = KeyCount(wid)

Progress == Starting /\ Acting /\ Typing

\* The facts about KeysBefore and KeyCount where the worker is.
LEMMA KeysHere ==
  ASSUME TypeOK, wpc # "receive"
  PROVE  /\ wid \in Ids /\ typed[wid] \in Nat
         /\ KeysBefore(wid, widx) \in Nat /\ KeyCount(wid) \in Nat
         /\ KeysBefore(wid, widx) <= KeyCount(wid)
         /\ KeysBefore(wid, 1) = 0
         /\ widx > Len(PlanOf[wid]) =>
              KeysBefore(wid, widx) = KeyCount(wid)
         /\ widx > Len(PlanOf[wid]) \/ widx \in DOMAIN PlanOf[wid]
         /\ widx \in DOMAIN PlanOf[wid] =>
              KeysBefore(wid, widx + 1) = KeysBefore(wid, widx)
                + (IF PlanOf[wid][widx] = "key" THEN 1 ELSE 0)
<1>1. wid \in Ids /\ widx \in Nat \ {0} /\ typed[wid] \in Nat
  BY DEF TypeOK, TypeWorker, TypeHistory
<1>2. /\ DOMAIN PlanOf[wid] = 1 .. Len(PlanOf[wid])
      /\ Len(PlanOf[wid]) \in Nat
  BY <1>1, PlanAssumption, LenProperties
<1>3. /\ widx > Len(PlanOf[wid]) => widx \notin DOMAIN PlanOf[wid]
      /\ widx <= Len(PlanOf[wid]) => widx \in DOMAIN PlanOf[wid]
  BY <1>1, <1>2
<1> QED BY <1>1, <1>3, KeysCounted

\* Every send starts at its first action.
LEMMA StartingStep ==
  Base /\ FreshInv /\ Progress /\ [Next]_vars => Starting'
<1> SUFFICES ASSUME Base, FreshInv, Progress, [Next]_vars
             PROVE  Starting'
  OBVIOUS
<1>1. CASE WorkerReceive
  BY <1>1 DEF WorkerReceive, Base, TypeOK, TypeShared, FreshInv,
         UntouchedIsNew, Untouched, QueueOwns, Progress, Starting, ConfirmPcs
<1>2. CASE WorkerPublishFirst
  BY <1>2 DEF WorkerPublishFirst, PublishStatus, LockStep, Showing, Progress,
         Starting, ConfirmPcs
<1>3. CASE WorkerAwaitCancel \/ WorkerAwaitConfirm
  BY <1>3 DEF WorkerAwaitCancel, WorkerAwaitConfirm, LockStep,
         ReadCancellation, DeadlineExpired, Progress, Starting, ConfirmPcs
<1>4. CASE WorkerPublishRunning
  BY <1>4 DEF WorkerPublishRunning, PublishStatus, LockStep, Showing, Progress,
         Starting, ConfirmPcs
<1>5. CASE WorkerPublishIndex
  BY <1>5 DEF WorkerPublishIndex, PlanDone, PublishStatus, LockStep, Showing,
         Progress, Starting, ConfirmPcs
<1>6. CASE WorkerCheck
  BY <1>6 DEF WorkerCheck, LockStep, ReadCancellation, DeadlineExpired,
         Progress, Starting, ConfirmPcs
<1>7. CASE WorkerPress
  BY <1>7 DEF WorkerPress, Progress, Starting, ConfirmPcs
<1>8. CASE WorkerSlice
  BY <1>8 DEF WorkerSlice, DelayDone, DelayReturn, LockStep, ReadCancellation,
         DeadlineExpired, Progress, Starting, ConfirmPcs
<1>9. CASE WorkerRelease
  BY <1>9 DEF WorkerRelease, ReleaseAll, Progress, Starting, ConfirmPcs
<1>10. CASE WorkerFree \/ WorkerFinishRelease
  BY <1>10 DEF WorkerFree, WorkerFinishRelease, PlanFree, ReleaseAll, Progress,
         Starting, ConfirmPcs
<1>11. CASE WorkerFinishPublish
  BY <1>11 DEF WorkerFinishPublish, PublishStatus, LockStep, Terminal,
         Progress, Starting, ConfirmPcs
<1>12. CASE WorkerFinishReset
  BY <1>12 DEF WorkerFinishReset, ResetTerminalFlags, LockStep, FinishFailed,
         WorkerReturn, Progress, Starting, ConfirmPcs
<1>13. CASE WorkerLatch
  BY <1>13 DEF WorkerLatch, WorkerReturn, Progress, Starting, ConfirmPcs
<1>14. CASE DeadlinePasses \/ UsbReady \/ UsbLost \/ UNCHANGED vars
  BY <1>14 DEF DeadlinePasses, UsbReady, UsbLost, Progress, Starting,
         ConfirmPcs
<1>15. ASSUME NEW id \in Ids, SendCreate(id) PROVE Starting'
  BY <1>15 DEF SendCreate, Progress, Starting, ConfirmPcs
<1>16. CASE SubmitReadLatch \/ SubmitReadUsb \/ SendDrop
  BY <1>16 DEF SubmitReadLatch, SubmitReadUsb, SendDrop, EngineUnavailable,
         PlanFree, Progress, Starting, ConfirmPcs
<1>17. CASE SubmitClaim
  BY <1>17 DEF SubmitClaim, LockStep, Claimable, Progress, Starting, ConfirmPcs
<1>18. CASE SubmitSend
  BY <1>18 DEF SubmitSend, Progress, Starting, ConfirmPcs
<1>19. CASE UndoRelease \/ UndoPublish \/ UndoReset \/ UndoLatch
  BY <1>19 DEF UndoRelease, UndoPublish, UndoReset, UndoLatch, ReleaseAll,
         PublishStatus, LockStep, ResetTerminalFlags, Progress, Starting,
         ConfirmPcs
<1>20. CASE HttpCancelStart \/ HttpCancelStatus \/ HttpCancelLatch \/
            HttpGetStart \/ HttpGetLock \/ HttpReply
  BY <1>20 DEF HttpCancelStart, HttpCancelStatus, HttpCancelLatch,
         HttpGetStart, HttpGetLock, HttpReply, LockStep, EngineUnavailable,
         Progress, Starting, ConfirmPcs
<1>21. CASE HttpCancelLock \/ ConsoleCancel
  BY <1>21 DEF HttpCancelLock, ConsoleCancel, CancelSection, LockStep,
         Progress, Starting, ConfirmPcs
<1>22. ASSUME NEW cmd \in {"cancel", "confirm"}, ConsoleStart(cmd)
      PROVE  Starting'
  BY <1>22 DEF ConsoleStart, Progress, Starting, ConfirmPcs
<1>23. CASE ConsoleConfirm
  BY <1>23 DEF ConsoleConfirm, LockStep, CanConfirm, Progress, Starting,
         ConfirmPcs
<1> QED
  BY <1>1, <1>2, <1>3, <1>4, <1>5, <1>6, <1>7, <1>8, <1>9, <1>10, <1>11, <1>12,
     <1>13, <1>14, <1>15, <1>16, <1>17, <1>18, <1>19, <1>20, <1>21, <1>22,
     <1>23 DEF Next, Worker,
     Submit, HttpCall

\* The index stays inside the plan while an action is under way.
LEMMA ActingStep == Base /\ Progress /\ [Next]_vars => Acting'
<1> SUFFICES ASSUME Base, Progress, [Next]_vars
             PROVE  Acting'
  OBVIOUS
<1>1. CASE WorkerReceive
  BY <1>1 DEF WorkerReceive, Progress, Acting
<1>2. CASE WorkerPublishFirst
  BY <1>2 DEF WorkerPublishFirst, PublishStatus, LockStep, Showing, Progress,
         Acting
<1>3. CASE WorkerAwaitCancel \/ WorkerAwaitConfirm
  BY <1>3 DEF WorkerAwaitCancel, WorkerAwaitConfirm, LockStep,
         ReadCancellation, DeadlineExpired, Progress, Acting
<1>4. CASE WorkerPublishRunning
  BY <1>4 DEF WorkerPublishRunning, PublishStatus, LockStep, Showing, Progress,
         Acting
<1>5. CASE WorkerPublishIndex
  BY <1>5, KeysHere DEF WorkerPublishIndex, PlanDone, Base, Acting
<1>6. CASE WorkerCheck
  BY <1>6 DEF WorkerCheck, LockStep, ReadCancellation, DeadlineExpired,
         Progress, Acting
<1>7. CASE WorkerPress
  BY <1>7 DEF WorkerPress, Progress, Acting
<1>8. CASE WorkerSlice
  BY <1>8 DEF WorkerSlice, DelayDone, DelayReturn, LockStep, ReadCancellation,
         DeadlineExpired, Progress, Acting
<1>9. CASE WorkerRelease
  BY <1>9 DEF WorkerRelease, ReleaseAll, Progress, Acting
<1>10. CASE WorkerFree \/ WorkerFinishRelease
  BY <1>10 DEF WorkerFree, WorkerFinishRelease, PlanFree, ReleaseAll, Progress,
         Acting
<1>11. CASE WorkerFinishPublish
  BY <1>11 DEF WorkerFinishPublish, PublishStatus, LockStep, Terminal,
         Progress, Acting
<1>12. CASE WorkerFinishReset
  BY <1>12 DEF WorkerFinishReset, ResetTerminalFlags, LockStep, FinishFailed,
         WorkerReturn, Progress, Acting
<1>13. CASE WorkerLatch
  BY <1>13 DEF WorkerLatch, WorkerReturn, Progress, Acting
<1>14. CASE DeadlinePasses \/ UsbReady \/ UsbLost \/ UNCHANGED vars
  BY <1>14 DEF DeadlinePasses, UsbReady, UsbLost, Progress, Acting
<1>15. ASSUME NEW id \in Ids, SendCreate(id) PROVE Acting'
  BY <1>15 DEF SendCreate, Progress, Acting
<1>16. CASE SubmitReadLatch \/ SubmitReadUsb \/ SendDrop
  BY <1>16 DEF SubmitReadLatch, SubmitReadUsb, SendDrop, EngineUnavailable,
         PlanFree, Progress, Acting
<1>17. CASE SubmitClaim
  BY <1>17 DEF SubmitClaim, LockStep, Claimable, Progress, Acting
<1>18. CASE SubmitSend
  BY <1>18 DEF SubmitSend, Progress, Acting
<1>19. CASE UndoRelease \/ UndoPublish \/ UndoReset \/ UndoLatch
  BY <1>19 DEF UndoRelease, UndoPublish, UndoReset, UndoLatch, ReleaseAll,
         PublishStatus, LockStep, ResetTerminalFlags, Progress, Acting
<1>20. CASE HttpCancelStart \/ HttpCancelStatus \/ HttpCancelLatch \/
            HttpGetStart \/ HttpGetLock \/ HttpReply
  BY <1>20 DEF HttpCancelStart, HttpCancelStatus, HttpCancelLatch,
         HttpGetStart, HttpGetLock, HttpReply, LockStep, EngineUnavailable,
         Progress, Acting
<1>21. CASE HttpCancelLock \/ ConsoleCancel
  BY <1>21 DEF HttpCancelLock, ConsoleCancel, CancelSection, LockStep,
         Progress, Acting
<1>22. ASSUME NEW cmd \in {"cancel", "confirm"}, ConsoleStart(cmd)
      PROVE  Acting'
  BY <1>22 DEF ConsoleStart, Progress, Acting
<1>23. CASE ConsoleConfirm
  BY <1>23 DEF ConsoleConfirm, LockStep, CanConfirm, Progress, Acting
<1> QED
  BY <1>1, <1>2, <1>3, <1>4, <1>5, <1>6, <1>7, <1>8, <1>9, <1>10, <1>11, <1>12,
     <1>13, <1>14, <1>15, <1>16, <1>17, <1>18, <1>19, <1>20, <1>21, <1>22,
     <1>23 DEF Next, Worker,
     Submit, HttpCall

\* The count of keys keeps up with the index, one step per action.
LEMMA TypingStep == Base /\ Progress /\ [Next]_vars => Typing'
<1> SUFFICES ASSUME Base, Progress, [Next]_vars
             PROVE  Typing'
  OBVIOUS
<1>1. CASE WorkerReceive
  BY <1>1 DEF WorkerReceive, Progress, Typing, FinishPcs
<1>2. CASE WorkerPublishFirst
  BY <1>2, KeysHere DEF WorkerPublishFirst, Base, Progress, Starting, Typing,
     FinishPcs
<1>3. CASE WorkerAwaitCancel \/ WorkerAwaitConfirm
  BY <1>3 DEF WorkerAwaitCancel, WorkerAwaitConfirm, LockStep,
         ReadCancellation, DeadlineExpired, Progress, Typing, FinishPcs
<1>4. CASE WorkerPublishRunning
  BY <1>4, KeysHere DEF WorkerPublishRunning, Base, Progress, Starting, Typing,
     FinishPcs, ConfirmPcs
<1>5. CASE WorkerPublishIndex
  BY <1>5, KeysHere DEF WorkerPublishIndex, PlanDone, Base, Progress, Typing,
     FinishPcs
<1>6. CASE WorkerCheck
  <2>1. PlanOf[wid][widx] # "key" =>
          KeysBefore(wid, widx + 1) = KeysBefore(wid, widx)
    BY <1>6, KeysHere DEF WorkerCheck, Base, Progress, Acting
  <2>2. typed[wid] = KeysBefore(wid, widx) /\ UNCHANGED <<typed, wid, widx>>
    BY <1>6 DEF WorkerCheck, Progress, Typing
  <2> QED BY <1>6, <2>1, <2>2 DEF WorkerCheck, Typing, FinishPcs
<1>7. CASE WorkerPress
  <2>1. /\ KeysBefore(wid, widx + 1) = KeysBefore(wid, widx) + 1
        /\ typed[wid] = KeysBefore(wid, widx)
        /\ wid \in Ids /\ typed \in [Ids -> Nat]
    BY <1>7, KeysHere DEF WorkerPress, Base, TypeOK, TypeHistory, Progress,
       Acting, Typing
  <2>2. wpc' = "slice" \/ wres' = "none" => typed'[wid] = typed[wid] + 1
    BY <1>7, <2>1 DEF WorkerPress, UsbResults
  <2>3. wpc' \in {"slice", "release"} /\ UNCHANGED <<wid, widx>>
    BY <1>7 DEF WorkerPress
  <2> QED BY <2>1, <2>2, <2>3 DEF Typing, FinishPcs
<1>8. CASE WorkerSlice
  BY <1>8 DEF WorkerSlice, DelayDone, DelayReturn, LockStep, ReadCancellation,
         DeadlineExpired, Progress, Typing, FinishPcs
<1>9. CASE WorkerRelease
  BY <1>9 DEF WorkerRelease, ReleaseAll, Progress, Typing, FinishPcs
<1>10. CASE WorkerFree \/ WorkerFinishRelease
  BY <1>10 DEF WorkerFree, WorkerFinishRelease, PlanFree, ReleaseAll, Progress,
         Typing, FinishPcs
<1>11. CASE WorkerFinishPublish
  BY <1>11 DEF WorkerFinishPublish, PublishStatus, LockStep, Terminal,
         Progress, Typing, FinishPcs
<1>12. CASE WorkerFinishReset
  BY <1>12 DEF WorkerFinishReset, ResetTerminalFlags, LockStep, FinishFailed,
         WorkerReturn, Progress, Typing, FinishPcs
<1>13. CASE WorkerLatch
  BY <1>13 DEF WorkerLatch, WorkerReturn, Progress, Typing, FinishPcs
<1>14. CASE DeadlinePasses \/ UsbReady \/ UsbLost \/ UNCHANGED vars
  BY <1>14 DEF DeadlinePasses, UsbReady, UsbLost, Progress, Typing, FinishPcs
<1>15. ASSUME NEW id \in Ids, SendCreate(id) PROVE Typing'
  BY <1>15 DEF SendCreate, Progress, Typing, FinishPcs
<1>16. CASE SubmitReadLatch \/ SubmitReadUsb \/ SendDrop
  BY <1>16 DEF SubmitReadLatch, SubmitReadUsb, SendDrop, EngineUnavailable,
         PlanFree, Progress, Typing, FinishPcs
<1>17. CASE SubmitClaim
  BY <1>17 DEF SubmitClaim, LockStep, Claimable, Progress, Typing, FinishPcs
<1>18. CASE SubmitSend
  BY <1>18 DEF SubmitSend, Progress, Typing, FinishPcs
<1>19. CASE UndoRelease \/ UndoPublish \/ UndoReset \/ UndoLatch
  BY <1>19 DEF UndoRelease, UndoPublish, UndoReset, UndoLatch, ReleaseAll,
         PublishStatus, LockStep, ResetTerminalFlags, Progress, Typing,
         FinishPcs
<1>20. CASE HttpCancelStart \/ HttpCancelStatus \/ HttpCancelLatch \/
            HttpGetStart \/ HttpGetLock \/ HttpReply
  BY <1>20 DEF HttpCancelStart, HttpCancelStatus, HttpCancelLatch,
         HttpGetStart, HttpGetLock, HttpReply, LockStep, EngineUnavailable,
         Progress, Typing, FinishPcs
<1>21. CASE HttpCancelLock \/ ConsoleCancel
  BY <1>21 DEF HttpCancelLock, ConsoleCancel, CancelSection, LockStep,
         Progress, Typing, FinishPcs
<1>22. ASSUME NEW cmd \in {"cancel", "confirm"}, ConsoleStart(cmd)
      PROVE  Typing'
  BY <1>22 DEF ConsoleStart, Progress, Typing, FinishPcs
<1>23. CASE ConsoleConfirm
  BY <1>23 DEF ConsoleConfirm, LockStep, CanConfirm, Progress, Typing,
         FinishPcs
<1> QED
  BY <1>1, <1>2, <1>3, <1>4, <1>5, <1>6, <1>7, <1>8, <1>9, <1>10, <1>11, <1>12,
     <1>13, <1>14, <1>15, <1>16, <1>17, <1>18, <1>19, <1>20, <1>21, <1>22,
     <1>23 DEF Next, Worker,
     Submit, HttpCall

\* Only a press counts a key, and only the last publication an outcome.
LEMMA HistoryMoves ==
  ASSUME [Next]_vars
  PROVE  /\ WorkerPress \/ UNCHANGED <<typed, late>>
         /\ WorkerFinishPublish \/ UNCHANGED outcome
<1>1. CASE WorkerPress
  BY <1>1 DEF WorkerPress
<1>2. CASE WorkerFinishPublish
  BY <1>2 DEF WorkerFinishPublish
<1>3. CASE WorkerReceive \/ WorkerPublishFirst \/ WorkerAwaitCancel \/
           WorkerAwaitConfirm \/ WorkerPublishRunning \/ WorkerPublishIndex \/
           WorkerCheck \/ WorkerSlice \/ WorkerRelease \/ WorkerFree \/
           WorkerFinishRelease \/ WorkerFinishReset \/ WorkerLatch
  BY <1>3 DEF WorkerReceive, WorkerPublishFirst, WorkerAwaitCancel,
         WorkerAwaitConfirm, WorkerPublishRunning, WorkerPublishIndex,
         WorkerCheck, WorkerSlice, WorkerRelease, WorkerFree,
         WorkerFinishRelease, WorkerFinishReset, WorkerLatch, DelayReturn,
         WorkerReturn
<1>4. CASE SubmitReadLatch \/ SubmitReadUsb \/ SubmitClaim \/ SubmitSend \/
           UndoRelease \/ UndoPublish \/ UndoReset \/ UndoLatch \/ SendDrop
  BY <1>4 DEF SubmitReadLatch, SubmitReadUsb, SubmitClaim, SubmitSend,
         UndoRelease, UndoPublish, UndoReset, UndoLatch, SendDrop
<1>5. CASE HttpCancelStatus \/ HttpCancelLatch \/ HttpCancelLock \/ HttpGetLock
           \/ HttpReply
  BY <1>5 DEF HttpCancelStatus, HttpCancelLatch, HttpCancelLock, HttpGetLock,
         HttpReply
<1>6. CASE HttpCancelStart \/ HttpGetStart \/ ConsoleCancel \/ ConsoleConfirm
  BY <1>6 DEF HttpCancelStart, HttpGetStart, ConsoleCancel, ConsoleConfirm
<1>7. CASE DeadlinePasses \/ UsbReady \/ UsbLost
  BY <1>7 DEF DeadlinePasses, UsbReady, UsbLost
<1>8. ASSUME NEW id \in Ids, SendCreate(id)
      PROVE  UNCHANGED <<typed, late, outcome>>
  BY <1>8 DEF SendCreate
<1>9. ASSUME NEW cmd \in {"cancel", "confirm"}, ConsoleStart(cmd)
      PROVE  UNCHANGED <<typed, late, outcome>>
  BY <1>9 DEF ConsoleStart
<1>10. CASE UNCHANGED vars
  BY <1>10
<1> QED
  BY <1>1, <1>2, <1>3, <1>4, <1>5, <1>6, <1>7, <1>8, <1>9, <1>10 DEF Next,
     Worker, Submit, HttpCall

\* A press adds the one key the index names, and COMPLETED needs them all.
LEMMA CompletedStep ==
  Base /\ Progress /\ CompletedMeansTyped /\ FreshInv /\ [Next]_vars
    => CompletedMeansTyped'
<1> SUFFICES ASSUME Base, Progress, CompletedMeansTyped, FreshInv, [Next]_vars
             PROVE  CompletedMeansTyped'
  OBVIOUS
<1>1. CASE WorkerPress
  <2>1. /\ typed[wid] = KeysBefore(wid, widx) /\ typed \in [Ids -> Nat]
        /\ widx \in DOMAIN PlanOf[wid] /\ PlanOf[wid][widx] = "key"
        /\ outcome[wid] = "none" /\ wid \in Ids
    BY <1>1 DEF WorkerPress, Progress, Typing, Acting, FreshInv, WorkedOn,
       Base, TypeOK, TypeHistory, TypeWorker
  <2>2. typed[wid] + 1 <= KeyCount(wid) /\ KeyCount(wid) \in Nat
    <3>1. widx \in Nat \ {0}
      BY <1>1 DEF WorkerPress, Base, TypeOK, TypeWorker
    <3>2. /\ KeysBefore(wid, widx + 1) = KeysBefore(wid, widx) + 1
          /\ KeysBefore(wid, widx + 1) <= KeyCount(wid)
          /\ KeyCount(wid) \in Nat
      BY <2>1, <3>1, KeysCounted
    <3> QED BY <2>1, <3>2
  <2>3. \A id \in Ids : typed'[id] = typed[id]
                        \/ (id = wid /\ typed'[id] = typed[id] + 1)
    BY <1>1, <2>1 DEF WorkerPress
  <2>4. UNCHANGED outcome
    BY <1>1 DEF WorkerPress
  <2> QED BY <2>1, <2>2, <2>3, <2>4 DEF CompletedMeansTyped
<1>2. CASE WorkerFinishPublish
  <2>1. wid \in Ids /\ (wres = "none" => typed[wid] = KeyCount(wid))
    BY <1>2 DEF WorkerFinishPublish, Progress, Typing, FinishPcs, Base,
       TypeOK, TypeWorker
  <2>2. UNCHANGED typed /\ \A id \in Ids :
          outcome'[id] = "completed" =>
            outcome[id] = "completed" \/ (id = wid /\ wres = "none")
    BY <1>2 DEF WorkerFinishPublish, Terminal, Base, TypeOK, TypeHistory
  <2> QED BY <2>1, <2>2 DEF CompletedMeansTyped
<1>3. CASE UNCHANGED <<typed, outcome>>
  BY <1>3 DEF CompletedMeansTyped
<1> QED BY <1>1, <1>2, <1>3, HistoryMoves DEF WorkerPress, WorkerFinishPublish

-----------------------------------------------------------------------------
(* What a cancel lets through *)

\* One key may go down after the cancel; then the worker meets the flag.
LateInv ==
    /\ CancelStopsTyping
    /\ wpc \in ActionPcs /\ late[wid] # 0 => cancelReq /\ wpc # "press"
    /\ wpc \in {"publish_first"} \cup ConfirmPcs => late[wid] = 0

\* The flag stops the worker at its next check.
LEMMA LateStep ==
  Base /\ ClaimInv /\ FreshInv /\ LateInv /\ [Next]_vars => LateInv'
<1> SUFFICES ASSUME Base, ClaimInv, FreshInv, LateInv, [Next]_vars
             PROVE  LateInv'
  OBVIOUS
<1>1. CASE WorkerReceive
  BY <1>1 DEF WorkerReceive, Base, TypeOK, TypeShared, FreshInv,
         UntouchedIsNew, Untouched, QueueOwns, LateInv, ActionPcs, ConfirmPcs,
         CancelStopsTyping
<1>2. CASE WorkerPublishFirst
  BY <1>2 DEF WorkerPublishFirst, PublishStatus, LockStep, Showing, LateInv,
         ActionPcs, ConfirmPcs, CancelStopsTyping
<1>3. CASE WorkerAwaitCancel \/ WorkerAwaitConfirm
  BY <1>3 DEF WorkerAwaitCancel, WorkerAwaitConfirm, LockStep,
         ReadCancellation, DeadlineExpired, LateInv, ActionPcs, ConfirmPcs,
         CancelStopsTyping
<1>4. CASE WorkerPublishRunning
  BY <1>4 DEF WorkerPublishRunning, PublishStatus, LockStep, Showing, LateInv,
         ActionPcs, ConfirmPcs, CancelStopsTyping
<1>5. CASE WorkerPublishIndex
  BY <1>5 DEF WorkerPublishIndex, PlanDone, PublishStatus, LockStep, Showing,
         LateInv, ActionPcs, ConfirmPcs, CancelStopsTyping
<1>6. CASE WorkerCheck
  BY <1>6 DEF WorkerCheck, LockStep, ReadCancellation, DeadlineExpired,
         LateInv, ActionPcs, ConfirmPcs, CancelStopsTyping
<1>7. CASE WorkerPress
  <2>1. late[wid] = 0 /\ wid \in Ids /\ late \in [Ids -> Nat]
    BY <1>7 DEF WorkerPress, LateInv, ActionPcs, Base, TypeOK, TypeHistory,
       TypeWorker
  <2>2. wid \in cancelled => cancelReq
    BY <1>7 DEF WorkerPress, ClaimInv, OwnerIsKnown, CancelIsSeen,
       WorkerClaims, Base, OneSendAtATime
  <2>3. \/ UNCHANGED late
        \/ wid \in cancelled /\ late' = [late EXCEPT ![wid] = 1]
    BY <1>7, <2>1 DEF WorkerPress
  <2>4. UNCHANGED <<cancelReq, wid>> /\ wpc' \in {"slice", "release"}
    BY <1>7 DEF WorkerPress
  <2> QED BY <2>1, <2>2, <2>3, <2>4 DEF LateInv, CancelStopsTyping,
             ActionPcs, ConfirmPcs
<1>8. CASE WorkerSlice
  BY <1>8 DEF WorkerSlice, DelayDone, DelayReturn, LockStep, ReadCancellation,
         DeadlineExpired, LateInv, ActionPcs, ConfirmPcs, CancelStopsTyping
<1>9. CASE WorkerRelease
  BY <1>9 DEF WorkerRelease, ReleaseAll, LateInv, ActionPcs, ConfirmPcs,
         CancelStopsTyping
<1>10. CASE WorkerFree \/ WorkerFinishRelease
  BY <1>10 DEF WorkerFree, WorkerFinishRelease, PlanFree, ReleaseAll, LateInv,
         ActionPcs, ConfirmPcs, CancelStopsTyping
<1>11. CASE WorkerFinishPublish
  BY <1>11 DEF WorkerFinishPublish, PublishStatus, LockStep, Terminal, LateInv,
         ActionPcs, ConfirmPcs, CancelStopsTyping
<1>12. CASE WorkerFinishReset
  BY <1>12 DEF WorkerFinishReset, ResetTerminalFlags, LockStep, FinishFailed,
         WorkerReturn, LateInv, ActionPcs, ConfirmPcs, CancelStopsTyping
<1>13. CASE WorkerLatch
  BY <1>13 DEF WorkerLatch, WorkerReturn, LateInv, ActionPcs, ConfirmPcs,
         CancelStopsTyping
<1>14. CASE DeadlinePasses \/ UsbReady \/ UsbLost \/ UNCHANGED vars
  BY <1>14 DEF DeadlinePasses, UsbReady, UsbLost, LateInv, ActionPcs,
         ConfirmPcs, CancelStopsTyping
<1>15. ASSUME NEW id \in Ids, SendCreate(id) PROVE LateInv'
  BY <1>15 DEF SendCreate, LateInv, ActionPcs, ConfirmPcs, CancelStopsTyping
<1>16. CASE SubmitReadLatch \/ SubmitReadUsb \/ SendDrop
  BY <1>16 DEF SubmitReadLatch, SubmitReadUsb, SendDrop, EngineUnavailable,
         PlanFree, LateInv, ActionPcs, ConfirmPcs, CancelStopsTyping
<1>17. CASE SubmitClaim
  BY <1>17 DEF SubmitClaim, LockStep, Claimable, Base, OneSendAtATime,
         WorkerClaims, LateInv, ActionPcs, ConfirmPcs, CancelStopsTyping
<1>18. CASE SubmitSend
  BY <1>18 DEF SubmitSend, LateInv, ActionPcs, ConfirmPcs, CancelStopsTyping
<1>19. CASE UndoRelease \/ UndoPublish \/ UndoLatch
  BY <1>19 DEF UndoRelease, UndoPublish, UndoLatch, ReleaseAll, PublishStatus,
         LockStep, LateInv, ActionPcs, ConfirmPcs, CancelStopsTyping
<1>20. CASE UndoReset
  BY <1>20 DEF UndoReset, ResetTerminalFlags, LockStep, Base, OneSendAtATime,
         WorkerClaims, HttpdClaims, LateInv, ActionPcs, ConfirmPcs,
         CancelStopsTyping
<1>21. CASE HttpCancelStart \/ HttpCancelStatus \/ HttpCancelLatch \/
            HttpGetStart \/ HttpGetLock \/ HttpReply
  BY <1>21 DEF HttpCancelStart, HttpCancelStatus, HttpCancelLatch,
         HttpGetStart, HttpGetLock, HttpReply, LockStep, EngineUnavailable,
         LateInv, ActionPcs, ConfirmPcs, CancelStopsTyping
<1>22. CASE HttpCancelLock \/ ConsoleCancel
  BY <1>22 DEF HttpCancelLock, ConsoleCancel, CancelSection, LockStep, LateInv,
         ActionPcs, ConfirmPcs, CancelStopsTyping
<1>23. ASSUME NEW cmd \in {"cancel", "confirm"}, ConsoleStart(cmd)
      PROVE  LateInv'
  BY <1>23 DEF ConsoleStart, LateInv, ActionPcs, ConfirmPcs, CancelStopsTyping
<1>24. CASE ConsoleConfirm
  BY <1>24 DEF ConsoleConfirm, LockStep, CanConfirm, LateInv, ActionPcs,
         ConfirmPcs, CancelStopsTyping
<1> QED
  BY <1>1, <1>2, <1>3, <1>4, <1>5, <1>6, <1>7, <1>8, <1>9, <1>10, <1>11, <1>12,
     <1>13, <1>14, <1>15, <1>16, <1>17, <1>18, <1>19, <1>20, <1>21, <1>22,
     <1>23, <1>24 DEF Next, Worker,
     Submit, HttpCall

-----------------------------------------------------------------------------
(* Fail closed *)

\* Whoever is still responsible for a send without an outcome, and for busy.
Responsible ==
    /\ \A id \in accepted : outcome[id] = "none" =>
         unavailable \/ QueueOwns(id) \/ (wid = id /\ wpc # "receive")
    /\ wpc = "finish_reset" /\ outcome[wid] = "none" => wfail
    /\ busy => \/ unavailable \/ HttpdClaims \/ hpc = "undo_latch"
               \/ QueueClaims \/ wpc # "receive"

\* The responsibility for a send and for busy is handed on, never dropped.
LEMMA ResponsibleStep ==
  Base /\ FreshInv /\ Responsible /\ [Next]_vars => Responsible'
<1> SUFFICES ASSUME Base, FreshInv, Responsible, [Next]_vars
             PROVE  Responsible'
  OBVIOUS
<1>1. CASE WorkerReceive
  <2>1. \A id \in Ids : QueueOwns(id) => id = wid'
    BY <1>1, QueueHolds DEF WorkerReceive, Base
  <2>2. accepted \subseteq Ids
    BY DEF Base, TypeOK, TypeHistory
  <2> QED BY <1>1, <2>1, <2>2 DEF WorkerReceive, Responsible, HttpdClaims
<1>2. CASE WorkerPublishFirst
  BY <1>2 DEF WorkerPublishFirst, PublishStatus, LockStep, Showing,
         Responsible, QueueOwns, HttpdClaims, QueueClaims
<1>3. CASE WorkerAwaitCancel \/ WorkerAwaitConfirm
  BY <1>3 DEF WorkerAwaitCancel, WorkerAwaitConfirm, LockStep,
         ReadCancellation, DeadlineExpired, Responsible, QueueOwns,
         HttpdClaims, QueueClaims
<1>4. CASE WorkerPublishRunning
  BY <1>4 DEF WorkerPublishRunning, PublishStatus, LockStep, Showing,
         Responsible, QueueOwns, HttpdClaims, QueueClaims
<1>5. CASE WorkerPublishIndex
  BY <1>5 DEF WorkerPublishIndex, PlanDone, PublishStatus, LockStep, Showing,
         Responsible, QueueOwns, HttpdClaims, QueueClaims
<1>6. CASE WorkerCheck
  BY <1>6 DEF WorkerCheck, LockStep, ReadCancellation, DeadlineExpired,
         Responsible, QueueOwns, HttpdClaims, QueueClaims
<1>7. CASE WorkerPress
  BY <1>7 DEF WorkerPress, Responsible, QueueOwns, HttpdClaims, QueueClaims
<1>8. CASE WorkerSlice
  BY <1>8 DEF WorkerSlice, DelayDone, DelayReturn, LockStep, ReadCancellation,
         DeadlineExpired, Responsible, QueueOwns, HttpdClaims, QueueClaims
<1>9. CASE WorkerRelease
  BY <1>9 DEF WorkerRelease, ReleaseAll, Responsible, QueueOwns, HttpdClaims,
         QueueClaims
<1>10. CASE WorkerFree
  BY <1>10 DEF WorkerFree, PlanFree, Responsible, QueueOwns, HttpdClaims,
         QueueClaims
<1>11. CASE WorkerFinishRelease
  BY <1>11 DEF WorkerFinishRelease, ReleaseAll, Responsible, QueueOwns,
         HttpdClaims, QueueClaims
<1>12. CASE WorkerFinishPublish
  BY <1>12 DEF WorkerFinishPublish, PublishStatus, LockStep, Terminal, Base,
         TypeOK, TypeHistory, TypeWorker, Responsible, QueueOwns, HttpdClaims,
         QueueClaims
<1>13. CASE WorkerFinishReset
  BY <1>13 DEF WorkerFinishReset, ResetTerminalFlags, LockStep, FinishFailed,
         WorkerReturn, Responsible, QueueOwns, HttpdClaims, QueueClaims
<1>14. CASE WorkerLatch
  BY <1>14 DEF WorkerLatch, WorkerReturn, Responsible, QueueOwns, HttpdClaims,
         QueueClaims
<1>15. CASE DeadlinePasses
  BY <1>15 DEF DeadlinePasses, Responsible, QueueOwns, HttpdClaims, QueueClaims
<1>16. ASSUME NEW id \in Ids, SendCreate(id) PROVE Responsible'
  BY <1>16 DEF SendCreate, Responsible, QueueOwns, HttpdClaims, QueueClaims
<1>17. CASE SubmitReadLatch \/ SubmitReadUsb \/ SendDrop
  BY <1>17 DEF SubmitReadLatch, SubmitReadUsb, SendDrop, EngineUnavailable,
         PlanFree, Responsible, QueueOwns, HttpdClaims, QueueClaims
<1>18. CASE SubmitClaim
  BY <1>18 DEF SubmitClaim, LockStep, Claimable, Responsible, QueueOwns,
         HttpdClaims, QueueClaims
<1>19. CASE SubmitSend
  BY <1>19 DEF SubmitSend, Responsible, QueueOwns, HttpdClaims, QueueClaims
<1>20. CASE UndoRelease
  BY <1>20 DEF UndoRelease, ReleaseAll, Responsible, QueueOwns, HttpdClaims,
         QueueClaims
<1>21. CASE UndoPublish
  BY <1>21 DEF UndoPublish, PublishStatus, LockStep, Responsible, QueueOwns,
         HttpdClaims, QueueClaims
<1>22. CASE UndoReset
  BY <1>22 DEF UndoReset, ResetTerminalFlags, LockStep, Responsible, QueueOwns,
         HttpdClaims, QueueClaims
<1>23. CASE UndoLatch
  BY <1>23 DEF UndoLatch, Responsible, QueueOwns, HttpdClaims, QueueClaims
<1>24. CASE HttpCancelStart \/ HttpCancelStatus \/ HttpCancelLatch \/
            HttpGetStart \/ HttpGetLock \/ HttpReply
  BY <1>24 DEF HttpCancelStart, HttpCancelStatus, HttpCancelLatch,
         HttpGetStart, HttpGetLock, HttpReply, LockStep, EngineUnavailable,
         Responsible, QueueOwns, HttpdClaims, QueueClaims
<1>25. CASE HttpCancelLock \/ ConsoleCancel
  BY <1>25 DEF HttpCancelLock, ConsoleCancel, CancelSection, LockStep,
         Responsible, QueueOwns, HttpdClaims, QueueClaims
<1>26. ASSUME NEW cmd \in {"cancel", "confirm"}, ConsoleStart(cmd)
      PROVE  Responsible'
  BY <1>26 DEF ConsoleStart, Responsible, QueueOwns, HttpdClaims, QueueClaims
<1>27. CASE ConsoleConfirm
  BY <1>27 DEF ConsoleConfirm, LockStep, CanConfirm, Responsible, QueueOwns,
         HttpdClaims, QueueClaims
<1>28. CASE UsbReady
  BY <1>28 DEF UsbReady, Responsible, QueueOwns, HttpdClaims, QueueClaims
<1>29. CASE UsbLost
  BY <1>29 DEF UsbLost, Responsible, QueueOwns, HttpdClaims, QueueClaims
<1>30. CASE UNCHANGED vars
  BY <1>30 DEF Responsible, QueueOwns, HttpdClaims, QueueClaims
<1> QED
  BY <1>1, <1>2, <1>3, <1>4, <1>5, <1>6, <1>7, <1>8, <1>9, <1>10, <1>11, <1>12,
     <1>13, <1>14, <1>15, <1>16, <1>17, <1>18, <1>19, <1>20, <1>21, <1>22,
     <1>23, <1>24, <1>25, <1>26, <1>27, <1>28, <1>29, <1>30 DEF Next, Worker,
     Submit, HttpCall

-----------------------------------------------------------------------------
(* A cancel during the confirmation, as long as the mutex has not failed *)

\* The prompt is on display only while the worker waits or gives up waiting,
\* and nothing has been typed by then.
Prompt ==
    faults = MaxFaults /\ status.state = "awaiting" =>
        /\ wpc \in ConfirmPcs \cup {"free", "finish_release", "finish_publish"}
        /\ typed[wid] = 0

\* A send cancelled during its confirmation does not reach its keys.
Withheld ==
    /\ waitCancelled \subseteq cancelled
    /\ faults = MaxFaults /\ wid \in waitCancelled =>
         wpc \notin {"press", "slice", "release"}

WaitInv == Prompt /\ Withheld /\ CancelWhileAwaitingTypesNothing

\* The prompt goes with RUNNING or with the terminal status.
LEMMA PromptStep ==
  Base /\ Progress /\ WaitInv /\ [Next]_vars => Prompt'
<1> SUFFICES ASSUME Base, Progress, WaitInv, [Next]_vars
             PROVE  Prompt'
  OBVIOUS
<1>1. CASE WorkerReceive
  BY <1>1 DEF WorkerReceive, WaitInv, Prompt, ConfirmPcs
<1>2. CASE WorkerPublishFirst
  BY <1>2, FaultAssumption DEF WorkerPublishFirst, PublishStatus, LockStep,
         Showing, Progress, Starting, TypeWorker, TypeStatus, StatusType,
         WaitInv, Prompt, ConfirmPcs, Base, TypeOK, TypeEngine
<1>3. CASE WorkerAwaitCancel \/ WorkerAwaitConfirm
  BY <1>3, FaultAssumption DEF WorkerAwaitCancel, WorkerAwaitConfirm, LockStep,
         ReadCancellation, DeadlineExpired, WaitInv, Prompt, ConfirmPcs, Base,
         TypeOK, TypeEngine
<1>4. CASE WorkerPublishRunning
  BY <1>4, FaultAssumption DEF WorkerPublishRunning, PublishStatus, LockStep,
         Showing, WaitInv, Prompt, ConfirmPcs, Base, TypeOK, TypeEngine
<1>5. CASE WorkerPublishIndex
  BY <1>5, FaultAssumption DEF WorkerPublishIndex, PlanDone, PublishStatus,
         LockStep, Showing, WaitInv, Prompt, ConfirmPcs, Base, TypeOK,
         TypeEngine
<1>6. CASE WorkerCheck
  BY <1>6, FaultAssumption DEF WorkerCheck, LockStep, ReadCancellation,
         DeadlineExpired, WaitInv, Prompt, ConfirmPcs, Base, TypeOK, TypeEngine
<1>7. CASE WorkerPress
  BY <1>7 DEF WorkerPress, WaitInv, Prompt, ConfirmPcs
<1>8. CASE WorkerSlice
  BY <1>8, FaultAssumption DEF WorkerSlice, DelayDone, DelayReturn, LockStep,
         ReadCancellation, DeadlineExpired, WaitInv, Prompt, ConfirmPcs, Base,
         TypeOK, TypeEngine
<1>9. CASE WorkerRelease
  BY <1>9 DEF WorkerRelease, ReleaseAll, WaitInv, Prompt, ConfirmPcs
<1>10. CASE WorkerFree \/ WorkerFinishRelease
  BY <1>10 DEF WorkerFree, WorkerFinishRelease, PlanFree, ReleaseAll, WaitInv,
         Prompt, ConfirmPcs
<1>11. CASE WorkerFinishPublish
  BY <1>11, FaultAssumption DEF WorkerFinishPublish, PublishStatus, LockStep,
         Terminal, WaitInv, Prompt, ConfirmPcs, Base, TypeOK, TypeEngine
<1>12. CASE WorkerFinishReset
  BY <1>12, FaultAssumption DEF WorkerFinishReset, ResetTerminalFlags,
         LockStep, FinishFailed, WorkerReturn, WaitInv, Prompt, ConfirmPcs,
         Base, TypeOK, TypeEngine
<1>13. CASE WorkerLatch
  BY <1>13 DEF WorkerLatch, WorkerReturn, WaitInv, Prompt, ConfirmPcs
<1>14. CASE DeadlinePasses \/ UsbReady \/ UsbLost \/ UNCHANGED vars
  BY <1>14 DEF DeadlinePasses, UsbReady, UsbLost, WaitInv, Prompt, ConfirmPcs
<1>15. ASSUME NEW id \in Ids, SendCreate(id) PROVE Prompt'
  BY <1>15 DEF SendCreate, WaitInv, Prompt, ConfirmPcs
<1>16. CASE SubmitReadLatch \/ SubmitReadUsb \/ SendDrop
  BY <1>16 DEF SubmitReadLatch, SubmitReadUsb, SendDrop, EngineUnavailable,
         PlanFree, WaitInv, Prompt, ConfirmPcs
<1>17. CASE SubmitClaim
  BY <1>17, FaultAssumption DEF SubmitClaim, LockStep, Claimable, WaitInv,
         Prompt, ConfirmPcs, Base, TypeOK, TypeEngine
<1>18. CASE SubmitSend
  BY <1>18, FaultAssumption DEF SubmitSend, WaitInv, Prompt, ConfirmPcs, Base,
         TypeOK, TypeEngine
<1>19. CASE UndoRelease
  BY <1>19 DEF UndoRelease, ReleaseAll, WaitInv, Prompt, ConfirmPcs
<1>20. CASE UndoPublish
  BY <1>20, FaultAssumption DEF UndoPublish, PublishStatus, LockStep,
         TypeStatus, StatusType, WaitInv, Prompt, ConfirmPcs, Base, TypeOK,
         TypeEngine
<1>21. CASE UndoReset
  BY <1>21, FaultAssumption DEF UndoReset, ResetTerminalFlags, LockStep,
         WaitInv, Prompt, ConfirmPcs, Base, TypeOK, TypeEngine
<1>22. CASE UndoLatch
  BY <1>22 DEF UndoLatch, WaitInv, Prompt, ConfirmPcs
<1>23. CASE HttpCancelStart \/ HttpCancelStatus \/ HttpCancelLatch \/
            HttpGetStart \/ HttpGetLock \/ HttpReply
  BY <1>23, FaultAssumption DEF HttpCancelStart, HttpCancelStatus,
         HttpCancelLatch, HttpGetStart, HttpGetLock, HttpReply, LockStep,
         EngineUnavailable, WaitInv, Prompt, ConfirmPcs, Base, TypeOK,
         TypeEngine
<1>24. CASE HttpCancelLock \/ ConsoleCancel
  BY <1>24, FaultAssumption DEF HttpCancelLock, ConsoleCancel, CancelSection,
         LockStep, WaitInv, Prompt, ConfirmPcs, Base, TypeOK, TypeEngine
<1>25. ASSUME NEW cmd \in {"cancel", "confirm"}, ConsoleStart(cmd)
      PROVE  Prompt'
  BY <1>25 DEF ConsoleStart, WaitInv, Prompt, ConfirmPcs
<1>26. CASE ConsoleConfirm
  BY <1>26, FaultAssumption DEF ConsoleConfirm, LockStep, CanConfirm, WaitInv,
         Prompt, ConfirmPcs, Base, TypeOK, TypeEngine
<1> QED
  BY <1>1, <1>2, <1>3, <1>4, <1>5, <1>6, <1>7, <1>8, <1>9, <1>10, <1>11, <1>12,
     <1>13, <1>14, <1>15, <1>16, <1>17, <1>18, <1>19, <1>20, <1>21, <1>22,
     <1>23, <1>24, <1>25, <1>26 DEF Next, Worker,
     Submit, HttpCall

\* The check before the first key meets the flag.
LEMMA WithheldStep ==
  Base /\ ClaimInv /\ WaitInv /\ [Next]_vars => Withheld'
<1> SUFFICES ASSUME Base, ClaimInv, WaitInv, [Next]_vars
             PROVE  Withheld'
  OBVIOUS
<1>1. CASE WorkerReceive
  BY <1>1 DEF WorkerReceive, WaitInv, Withheld
<1>2. CASE WorkerPublishFirst
  BY <1>2, FaultAssumption DEF WorkerPublishFirst, PublishStatus, LockStep,
         Showing, WaitInv, Withheld, Base, TypeOK, TypeEngine
<1>3. CASE WorkerAwaitCancel \/ WorkerAwaitConfirm
  BY <1>3, FaultAssumption DEF WorkerAwaitCancel, WorkerAwaitConfirm, LockStep,
         ReadCancellation, DeadlineExpired, WaitInv, Withheld, Base, TypeOK,
         TypeEngine
<1>4. CASE WorkerPublishRunning
  BY <1>4, FaultAssumption DEF WorkerPublishRunning, PublishStatus, LockStep,
         Showing, WaitInv, Withheld, Base, TypeOK, TypeEngine
<1>5. CASE WorkerPublishIndex
  BY <1>5, FaultAssumption DEF WorkerPublishIndex, PlanDone, PublishStatus,
         LockStep, Showing, WaitInv, Withheld, Base, TypeOK, TypeEngine
<1>6. CASE WorkerCheck
  BY <1>6, FaultAssumption DEF WorkerCheck, LockStep, ReadCancellation,
         DeadlineExpired, ClaimInv, OwnerIsKnown, CancelIsSeen, WorkerClaims,
         OneSendAtATime, WaitInv, Withheld, Base, TypeOK, TypeEngine
<1>7. CASE WorkerPress
  BY <1>7 DEF WorkerPress, WaitInv, Withheld
<1>8. CASE WorkerSlice
  BY <1>8, FaultAssumption DEF WorkerSlice, DelayDone, DelayReturn, LockStep,
         ReadCancellation, DeadlineExpired, WaitInv, Withheld, Base, TypeOK,
         TypeEngine
<1>9. CASE WorkerRelease
  BY <1>9 DEF WorkerRelease, ReleaseAll, WaitInv, Withheld
<1>10. CASE WorkerFree \/ WorkerFinishRelease
  BY <1>10 DEF WorkerFree, WorkerFinishRelease, PlanFree, ReleaseAll, WaitInv,
         Withheld
<1>11. CASE WorkerFinishPublish
  BY <1>11, FaultAssumption DEF WorkerFinishPublish, PublishStatus, LockStep,
         Terminal, WaitInv, Withheld, Base, TypeOK, TypeEngine
<1>12. CASE WorkerFinishReset
  BY <1>12, FaultAssumption DEF WorkerFinishReset, ResetTerminalFlags,
         LockStep, FinishFailed, WorkerReturn, WaitInv, Withheld, Base, TypeOK,
         TypeEngine
<1>13. CASE WorkerLatch
  BY <1>13 DEF WorkerLatch, WorkerReturn, WaitInv, Withheld
<1>14. CASE DeadlinePasses \/ UsbReady \/ UsbLost \/ UNCHANGED vars
  BY <1>14 DEF DeadlinePasses, UsbReady, UsbLost, WaitInv, Withheld
<1>15. ASSUME NEW id \in Ids, SendCreate(id) PROVE Withheld'
  BY <1>15 DEF SendCreate, WaitInv, Withheld
<1>16. CASE SubmitReadLatch \/ SubmitReadUsb \/ SendDrop
  BY <1>16 DEF SubmitReadLatch, SubmitReadUsb, SendDrop, EngineUnavailable,
         PlanFree, WaitInv, Withheld
<1>17. CASE SubmitClaim
  BY <1>17, FaultAssumption DEF SubmitClaim, LockStep, Claimable, WaitInv,
         Withheld, Base, TypeOK, TypeEngine
<1>18. CASE SubmitSend
  BY <1>18, FaultAssumption DEF SubmitSend, WaitInv, Withheld, Base, TypeOK,
         TypeEngine
<1>19. CASE UndoRelease
  BY <1>19 DEF UndoRelease, ReleaseAll, WaitInv, Withheld
<1>20. CASE UndoPublish
  BY <1>20, FaultAssumption DEF UndoPublish, PublishStatus, LockStep, WaitInv,
         Withheld, Base, TypeOK, TypeEngine
<1>21. CASE UndoReset
  BY <1>21, FaultAssumption DEF UndoReset, ResetTerminalFlags, LockStep,
         WaitInv, Withheld, Base, TypeOK, TypeEngine
<1>22. CASE UndoLatch
  BY <1>22 DEF UndoLatch, WaitInv, Withheld
<1>23. CASE HttpCancelStart \/ HttpCancelStatus \/ HttpCancelLatch \/
            HttpGetStart \/ HttpGetLock \/ HttpReply
  BY <1>23, FaultAssumption DEF HttpCancelStart, HttpCancelStatus,
         HttpCancelLatch, HttpGetStart, HttpGetLock, HttpReply, LockStep,
         EngineUnavailable, WaitInv, Withheld, Base, TypeOK, TypeEngine
<1>24. CASE HttpCancelLock \/ ConsoleCancel
  BY <1>24, FaultAssumption DEF HttpCancelLock, ConsoleCancel, CancelSection,
         LockStep, Prompt, ConfirmPcs, WaitInv, Withheld, Base, TypeOK,
         TypeEngine
<1>25. ASSUME NEW cmd \in {"cancel", "confirm"}, ConsoleStart(cmd)
      PROVE  Withheld'
  BY <1>25 DEF ConsoleStart, WaitInv, Withheld
<1>26. CASE ConsoleConfirm
  BY <1>26, FaultAssumption DEF ConsoleConfirm, LockStep, CanConfirm, WaitInv,
         Withheld, Base, TypeOK, TypeEngine
<1> QED
  BY <1>1, <1>2, <1>3, <1>4, <1>5, <1>6, <1>7, <1>8, <1>9, <1>10, <1>11, <1>12,
     <1>13, <1>14, <1>15, <1>16, <1>17, <1>18, <1>19, <1>20, <1>21, <1>22,
     <1>23, <1>24, <1>25, <1>26 DEF Next, Worker,
     Submit, HttpCall

\* So nothing is typed for such a send.
LEMMA WaitStep ==
  Base /\ ClaimInv /\ WaitInv /\ [Next]_vars
    => CancelWhileAwaitingTypesNothing'
<1> SUFFICES ASSUME Base, ClaimInv, WaitInv, [Next]_vars
             PROVE  CancelWhileAwaitingTypesNothing'
  OBVIOUS
<1>1. CASE WorkerReceive
  BY <1>1 DEF WorkerReceive, WaitInv, CancelWhileAwaitingTypesNothing
<1>2. CASE WorkerPublishFirst
  BY <1>2, FaultAssumption DEF WorkerPublishFirst, PublishStatus, LockStep,
         Showing, WaitInv, CancelWhileAwaitingTypesNothing, Base, TypeOK,
         TypeEngine
<1>3. CASE WorkerAwaitCancel \/ WorkerAwaitConfirm
  BY <1>3, FaultAssumption DEF WorkerAwaitCancel, WorkerAwaitConfirm, LockStep,
         ReadCancellation, DeadlineExpired, WaitInv,
         CancelWhileAwaitingTypesNothing, Base, TypeOK, TypeEngine
<1>4. CASE WorkerPublishRunning
  BY <1>4, FaultAssumption DEF WorkerPublishRunning, PublishStatus, LockStep,
         Showing, WaitInv, CancelWhileAwaitingTypesNothing, Base, TypeOK,
         TypeEngine
<1>5. CASE WorkerPublishIndex
  BY <1>5, FaultAssumption DEF WorkerPublishIndex, PlanDone, PublishStatus,
         LockStep, Showing, WaitInv, CancelWhileAwaitingTypesNothing, Base,
         TypeOK, TypeEngine
<1>6. CASE WorkerCheck
  BY <1>6, FaultAssumption DEF WorkerCheck, LockStep, ReadCancellation,
         DeadlineExpired, WaitInv, CancelWhileAwaitingTypesNothing, Base,
         TypeOK, TypeEngine
<1>7. CASE WorkerPress
  BY <1>7 DEF WorkerPress, Withheld, Base, TypeOK, TypeHistory, TypeWorker,
         WaitInv, CancelWhileAwaitingTypesNothing
<1>8. CASE WorkerSlice
  BY <1>8, FaultAssumption DEF WorkerSlice, DelayDone, DelayReturn, LockStep,
         ReadCancellation, DeadlineExpired, WaitInv,
         CancelWhileAwaitingTypesNothing, Base, TypeOK, TypeEngine
<1>9. CASE WorkerRelease
  BY <1>9 DEF WorkerRelease, ReleaseAll, WaitInv,
         CancelWhileAwaitingTypesNothing
<1>10. CASE WorkerFree \/ WorkerFinishRelease
  BY <1>10 DEF WorkerFree, WorkerFinishRelease, PlanFree, ReleaseAll, WaitInv,
         CancelWhileAwaitingTypesNothing
<1>11. CASE WorkerFinishPublish
  BY <1>11, FaultAssumption DEF WorkerFinishPublish, PublishStatus, LockStep,
         Terminal, WaitInv, CancelWhileAwaitingTypesNothing, Base, TypeOK,
         TypeEngine
<1>12. CASE WorkerFinishReset
  BY <1>12, FaultAssumption DEF WorkerFinishReset, ResetTerminalFlags,
         LockStep, FinishFailed, WorkerReturn, WaitInv,
         CancelWhileAwaitingTypesNothing, Base, TypeOK, TypeEngine
<1>13. CASE WorkerLatch
  BY <1>13 DEF WorkerLatch, WorkerReturn, WaitInv,
         CancelWhileAwaitingTypesNothing
<1>14. CASE DeadlinePasses \/ UsbReady \/ UsbLost \/ UNCHANGED vars
  BY <1>14 DEF DeadlinePasses, UsbReady, UsbLost, WaitInv,
         CancelWhileAwaitingTypesNothing
<1>15. ASSUME NEW id \in Ids, SendCreate(id)
      PROVE  CancelWhileAwaitingTypesNothing'
  BY <1>15 DEF SendCreate, WaitInv, CancelWhileAwaitingTypesNothing
<1>16. CASE SubmitReadLatch \/ SubmitReadUsb \/ SendDrop
  BY <1>16 DEF SubmitReadLatch, SubmitReadUsb, SendDrop, EngineUnavailable,
         PlanFree, WaitInv, CancelWhileAwaitingTypesNothing
<1>17. CASE SubmitClaim
  BY <1>17, FaultAssumption DEF SubmitClaim, LockStep, Claimable, WaitInv,
         CancelWhileAwaitingTypesNothing, Base, TypeOK, TypeEngine
<1>18. CASE SubmitSend
  BY <1>18, FaultAssumption DEF SubmitSend, WaitInv,
         CancelWhileAwaitingTypesNothing, Base, TypeOK, TypeEngine
<1>19. CASE UndoRelease
  BY <1>19 DEF UndoRelease, ReleaseAll, WaitInv,
         CancelWhileAwaitingTypesNothing
<1>20. CASE UndoPublish
  BY <1>20, FaultAssumption DEF UndoPublish, PublishStatus, LockStep, WaitInv,
         CancelWhileAwaitingTypesNothing, Base, TypeOK, TypeEngine
<1>21. CASE UndoReset
  BY <1>21, FaultAssumption DEF UndoReset, ResetTerminalFlags, LockStep,
         WaitInv, CancelWhileAwaitingTypesNothing, Base, TypeOK, TypeEngine
<1>22. CASE UndoLatch
  BY <1>22 DEF UndoLatch, WaitInv, CancelWhileAwaitingTypesNothing
<1>23. CASE HttpCancelStart \/ HttpCancelStatus \/ HttpCancelLatch \/
            HttpGetStart \/ HttpGetLock \/ HttpReply
  BY <1>23, FaultAssumption DEF HttpCancelStart, HttpCancelStatus,
         HttpCancelLatch, HttpGetStart, HttpGetLock, HttpReply, LockStep,
         EngineUnavailable, WaitInv, CancelWhileAwaitingTypesNothing, Base,
         TypeOK, TypeEngine
<1>24. CASE HttpCancelLock \/ ConsoleCancel
  BY <1>24, FaultAssumption DEF HttpCancelLock, ConsoleCancel, CancelSection,
         LockStep, Prompt, ConfirmPcs, ClaimInv, OwnerIsKnown, WorkerClaims,
         WaitInv, CancelWhileAwaitingTypesNothing, Base, TypeOK, TypeEngine
<1>25. ASSUME NEW cmd \in {"cancel", "confirm"}, ConsoleStart(cmd)
      PROVE  CancelWhileAwaitingTypesNothing'
  BY <1>25 DEF ConsoleStart, WaitInv, CancelWhileAwaitingTypesNothing
<1>26. CASE ConsoleConfirm
  BY <1>26, FaultAssumption DEF ConsoleConfirm, LockStep, CanConfirm, WaitInv,
         CancelWhileAwaitingTypesNothing, Base, TypeOK, TypeEngine
<1> QED
  BY <1>1, <1>2, <1>3, <1>4, <1>5, <1>6, <1>7, <1>8, <1>9, <1>10, <1>11, <1>12,
     <1>13, <1>14, <1>15, <1>16, <1>17, <1>18, <1>19, <1>20, <1>21, <1>22,
     <1>23, <1>24, <1>25, <1>26 DEF Next, Worker,
     Submit, HttpCall

-----------------------------------------------------------------------------
(* The theorems *)

Inv == /\ Base /\ ClaimInv /\ FreshInv /\ Progress
       /\ CompletedMeansTyped /\ LateInv /\ Responsible /\ WaitInv

\* All of it holds when the executor starts.
LEMMA InvInit == Init => Inv
<1> SUFFICES ASSUME Init PROVE Inv
  OBVIOUS
<1>1. /\ wpc = "receive" /\ hpc = "idle" /\ widx = 1 /\ queue = <<>>
      /\ owner = NoId /\ accepted = {} /\ cancelled = {} /\ waitCancelled = {}
      /\ busy = FALSE /\ status.state = "idle"
      /\ plan = [id \in Ids |-> "none"] /\ typed = [id \in Ids |-> 0]
      /\ late = [id \in Ids |-> 0] /\ outcome = [id \in Ids |-> "none"]
  BY DEF Init
<1>2. Base
  BY <1>1, InitType, IdsAssumption DEF Base, OneSendAtATime, HttpdClaims,
     QueueClaims, WorkerClaims, PlanOwnership, HttpdOwns, QueueOwns,
     WorkerOwns, SubmitPcs, ConfirmPcs, ActionPcs
<1>3. ClaimInv
  BY <1>1, IdsAssumption DEF ClaimInv, OwnerIsKnown, WorkerClaims,
     HttpdClaims, NothingBeforeClaim, CancelIsSeen
<1>4. FreshInv
  BY <1>1 DEF FreshInv, UntouchedIsNew, WorkedOn, FinishPcs
<1>5. Progress
  BY <1>1 DEF Progress, Starting, Acting, Typing, ConfirmPcs, FinishPcs
<1>6. CompletedMeansTyped
  <2>1. \A id \in Ids : KeyCount(id) \in Nat
    BY KeysCounted
  <2> QED BY <1>1, <2>1 DEF CompletedMeansTyped
<1>7. LateInv
  BY <1>1 DEF LateInv, CancelStopsTyping, ActionPcs, ConfirmPcs
<1>8. Responsible
  BY <1>1 DEF Responsible
<1>9. WaitInv
  BY <1>1 DEF WaitInv, Prompt, Withheld, CancelWhileAwaitingTypesNothing
<1> QED
  BY <1>2, <1>3, <1>4, <1>5, <1>6, <1>7, <1>8, <1>9 DEF Inv

\* Each part follows from the others in every step.
LEMMA InvStep == Inv /\ [Next]_vars => Inv'
<1> SUFFICES ASSUME Inv, [Next]_vars PROVE Inv'
  OBVIOUS
<1>1. Base'
  BY TypeStep, OneSendStep, OwnershipStep DEF Inv, Base
<1>2. ClaimInv'
  BY OwnerStep, BeforeClaimStep, CancelSeenStep DEF Inv, ClaimInv
<1>3. FreshInv'
  BY UntouchedStep, WorkedOnStep DEF Inv, FreshInv
<1>4. Progress'
  BY StartingStep, ActingStep, TypingStep DEF Inv, Progress
<1>5. CompletedMeansTyped' /\ LateInv' /\ Responsible'
  BY CompletedStep, LateStep, ResponsibleStep DEF Inv
<1>6. WaitInv'
  BY PromptStep, WithheldStep, WaitStep DEF Inv, WaitInv
<1> QED
  BY <1>1, <1>2, <1>3, <1>4, <1>5, <1>6 DEF Inv

\* The inductive invariant: the executor keeps all of it in every step.
THEOREM SafetyInvariant == Spec => []Inv
  BY InvInit, InvStep, PTL DEF Spec

\* finish_execution() publishes COMPLETED only after every key action of the
\* plan was pressed exactly once, in spite of USB errors, cancels, deadlines
\* and failures of the mutex.
THEOREM CompletedIsTrue == Spec => []CompletedMeansTyped
<1>1. Inv => CompletedMeansTyped
  BY DEF Inv
<1> QED BY <1>1, SafetyInvariant, PTL

\* After a recorded cancel at most one more key goes down.
THEOREM CancelIsPrompt == Spec => []CancelStopsTyping
<1>1. Inv => CancelStopsTyping
  BY DEF Inv, LateInv
<1> QED BY <1>1, SafetyInvariant, PTL

\* With a mutex that works, a send cancelled on its prompt types nothing, even
\* when the confirmation is read in the same slice.
THEOREM CancelledPromptTypesNothing == Spec => []CancelWhileAwaitingTypesNothing
<1>1. Inv => CancelWhileAwaitingTypesNothing
  BY DEF Inv, WaitInv
<1> QED BY <1>1, SafetyInvariant, PTL

\* finish_execution() and finish_submission_failure() latch the engine whenever
\* they lose the terminal status or leave busy behind.
THEOREM FailsClosed == Spec => []FailClosed
<1>1. Inv => FailClosed
  <2> SUFFICES ASSUME Inv, wpc = "receive", ~QueueClaims
               PROVE  /\ \A id \in accepted :
                           outcome[id] = "none" => unavailable
                      /\ busy /\ ~HttpdClaims /\ hpc # "undo_latch"
                           => unavailable
    BY DEF FailClosed
  <2>1. \A id \in Ids : ~QueueOwns(id)
    BY QueueHolds DEF Inv, Base, QueueClaims
  <2>2. accepted \subseteq Ids
    BY DEF Inv, Base, TypeOK, TypeHistory
  <2> QED BY <2>1, <2>2 DEF Inv, Responsible
<1> QED BY <1>1, SafetyInvariant, PTL

=============================================================================
