-------------------------- MODULE CredentialProofs --------------------------
(***************************************************************************)
(* Proofs about CredentialStore, for every session table, every bound and  *)
(* every number of faults: type correctness, the record cache, the gate,   *)
(* the agreement of verifier and record, and the one way an older password *)
(* can come back.                                                          *)
(*                                                                         *)
(* The invariant the proofs rest on is IInv.  To know that a change writes *)
(* a password newer than the record's, one needs that no other change can  *)
(* write between its read and its replace (OneTransition), that a settings *)
(* PUT holds a record older than the derived password (Newer), and that    *)
(* the console's network commands write back the record in NVS             *)
(* (CacheIsDurable).  FInv adds what a failed change leaves behind: its    *)
(* password is nowhere it could be written to the record from.  SInv counts *)
(* the sessions of an older password: while a login that was verified      *)
(* before the change is still to come, there is none.                      *)
(***************************************************************************)
EXTENDS CredentialStore, FiniteSetTheorems, TLAPS

\* A change that is about to replace the record derived a password newer than
\* every one that is, or is about to be, in it.
Newer ==
    /\ nvs.pw < nextPw
    /\ task["http"].pc = "put_replace" => task["http"].base.pw < nextPw
    /\ \A t \in Tasks : task[t].pc = "change_replace" =>
         /\ nvs.pw < task[t].pw /\ task[t].pw < nextPw
         /\ task["http"].pc = "put_replace" => task["http"].base.pw < task[t].pw

\* The verifier lags behind the record exactly between the commit and the
\* activation.
Lag ==
    /\ \A t \in Tasks : task[t].pc = "change_activate" =>
         task[t].pw = nvs.pw \/ unsure \/ clobbered
    /\ (\A t \in Tasks : task[t].pc # "change_activate") =>
         active = nvs.pw \/ unsure \/ clobbered

IInv == /\ TypeStore /\ TypeTask /\ CacheIsDurable /\ OneTransition
        /\ Newer /\ Lag

-----------------------------------------------------------------------------
\* device_settings_core_load() returns the record in NVS.
LEMMA LoadedIsDurable ==
    ASSUME TypeStore, CacheIsDurable
    PROVE  Loaded = nvs /\ Loaded \in Record
  BY DEF TypeStore, CacheIsDurable, Loaded

\* What device_settings_core_replace() does, whatever fails in it: the record
\* stays or becomes the candidate, the cache is the record or invalid, and a
\* change of the record that was not reported as done is an uncertain one.
LEMMA ReplaceEffect ==
    ASSUME TypeStore, TypeTask, CacheIsDurable, NEW candidate \in Record,
           NEW res, ReplaceRecord(candidate, res)
    PROVE  /\ nvs' \in {nvs, candidate}
           /\ cache' \in Record \cup {Unloaded}
           /\ cache' # Unloaded => cache' = nvs'
           /\ faults' \in 0 .. FaultBudget /\ handle' \in BOOLEAN
           /\ res = "ok" => nvs' = candidate
           /\ res = "failed" => nvs' = nvs
           /\ res = "uncertain" => unsure'
           /\ unsure => unsure'
  <1>1. CASE res = "ok" /\ Committed(candidate)
    BY <1>1 DEF TypeStore, TypeTask, Committed
  <1>2. CASE res = "failed" /\ NotCommitted(candidate)
    <2>1. faults' \in 0 .. FaultBudget
      BY <1>2, BoundAssumption DEF NotCommitted, WriteFails, LoadFails, Fault, TypeTask
    <2>2. cache' \in {cache, nvs}
      BY <1>2, LoadedIsDurable DEF NotCommitted, WriteFails, LoadFails
    <2>3. handle' \in BOOLEAN
      BY <1>2 DEF NotCommitted, WriteFails, TypeStore
    <2>4. nvs' = nvs /\ (unsure => unsure')
      BY <1>2 DEF NotCommitted
    <2> QED
      BY <1>2, <2>1, <2>2, <2>3, <2>4 DEF TypeStore, CacheIsDurable
  <1>3. CASE res = "uncertain" /\ CommitUncertain(candidate)
    <2>1. faults' \in 0 .. FaultBudget
      BY <1>3, BoundAssumption DEF CommitUncertain, Fault, TypeTask
    <2>2. unsure' /\ handle' \in BOOLEAN
      BY <1>3 DEF CommitUncertain
    <2> QED
      BY <1>3, <2>1, <2>2 DEF CommitUncertain, AfterUncertain
  <1> QED
    BY <1>1, <1>2, <1>3 DEF ReplaceRecord

-----------------------------------------------------------------------------
LEMMA IdleType == Idle \in Local
  BY NetAssumption, BoundAssumption DEF Idle, Local, Record, Passwords, Results

LEMMA InitIInv == Init => IInv
  <1> SUFFICES ASSUME Init PROVE IInv
    OBVIOUS
  <1>1. nvs \in Record /\ cache = nvs /\ active = 0 /\ active \in Passwords
    BY NetAssumption, BoundAssumption DEF Init, Record, Passwords
  <1>3. TypeStore
    BY <1>1 DEF Init, TypeStore
  <1>4. TypeTask
    BY IdleType, BoundAssumption DEF Init, TypeTask
  <1>5. \A t \in Tasks : task[t].pc = "idle"
    BY DEF Init, Idle
  <1>6. CacheIsDurable /\ OneTransition
    BY <1>1, <1>5 DEF CacheIsDurable, OneTransition, Changing, ChangePcs, Tasks
  <1>7. Newer /\ Lag
    BY <1>1, <1>5 DEF Init, Newer, Lag, Tasks
  <1> QED
    BY <1>3, <1>4, <1>6, <1>7 DEF IInv

-----------------------------------------------------------------------------
(* Every step preserves IInv                                                *)

\* The parts of IInv that only the record, the verifier and the program
\* counters matter to are kept by a step that leaves all of them alone.
LEMMA QuietStep ==
    ASSUME IInv, UNCHANGED <<nvs, active, gate, nextPw, unsure, clobbered>>,
           CacheIsDurable',
           task' \in [Tasks -> Local],
           \A t \in Tasks : task'[t].pc \in ChangePcs \cup {"put_replace"} =>
                task'[t] = task[t],
           \A t \in Tasks : task'[t].pc \notin ChangePcs =>
                task[t].pc \notin ChangePcs
    PROVE  /\ CacheIsDurable' /\ OneTransition' /\ Newer' /\ Lag'
  <1> USE DEF IInv
  <1>2. OneTransition'
    BY DEF OneTransition, Changing, Tasks, ChangePcs
  <1>3. Newer'
    BY DEF Newer, Tasks, ChangePcs
  <1>4. Lag'
    BY DEF Lag, Tasks, ChangePcs
  <1> QED
    BY <1>2, <1>3, <1>4

\* Login and the end of a session touch the session table and the HTTP task's
\* program counter only.
LEMMA LoginStep ==
    ASSUME IInv, LoginSnapshot \/ LoginCreate \/ LoginAnswer \/ SessionEnds
    PROVE  IInv'
  <1> USE DEF IInv
  <1> task["http"] \in Local /\ "http" \in Tasks
    BY DEF TypeTask, Tasks
  <1>1. CASE LoginSnapshot
    <2>1. task' \in [Tasks -> Local]
      BY <1>1 DEF LoginSnapshot, TypeTask, TypeStore, Local, HttpPcs
    <2>2. \A t \in Tasks : t # "http" => task'[t] = task[t]
      BY <1>1 DEF LoginSnapshot, TypeTask
    <2>3. task["http"].pc = "idle" /\ task'["http"].pc = "login_create"
      BY <1>1 DEF LoginSnapshot, TypeTask, Local
    <2>4. CacheIsDurable' /\ OneTransition' /\ Newer' /\ Lag'
      BY <1>1, <2>1, <2>2, <2>3, QuietStep DEF LoginSnapshot, CacheIsDurable, historyVars,
         ChangePcs
    <2> QED
      BY <1>1, <2>1, <2>4 DEF LoginSnapshot, TypeStore, TypeTask
  <1>2. CASE LoginCreate
    <2>1. task["http"].pc = "login_create" /\ task["http"].pw \in Passwords
      BY <1>2 DEF LoginCreate, Local
    <2>2. task' = [task EXCEPT !["http"] = Idle] \/ Go("http", "login_answer")
      BY <1>2 DEF LoginCreate
    <2>3. /\ task' \in [Tasks -> Local]
          /\ \A t \in Tasks : t # "http" => task'[t] = task[t]
          /\ task'["http"].pc \in {"idle", "login_answer"}
      BY <2>2, IdleType DEF Go, TypeTask, Local, HttpPcs, Idle
    <2>4. CacheIsDurable' /\ OneTransition' /\ Newer' /\ Lag'
      BY <1>2, <2>1, <2>3, QuietStep DEF LoginCreate, CacheIsDurable, historyVars, ChangePcs
    <2>5. sessions' \in [Slots -> Passwords \cup {NoSession}]
      BY <1>2, <2>1 DEF LoginCreate, TypeStore
    <2>6. faults' \in 0 .. FaultBudget
      BY <1>2, BoundAssumption DEF LoginCreate, Fault, TypeTask
    <2> QED
      BY <1>2, <2>3, <2>4, <2>5, <2>6 DEF LoginCreate, TypeStore, TypeTask
  <1>3. CASE LoginAnswer
    <2>1. /\ task' \in [Tasks -> Local]
          /\ \A t \in Tasks : t # "http" => task'[t] = task[t]
          /\ task'["http"].pc = "idle" /\ task["http"].pc = "login_answer"
      BY <1>3, IdleType DEF LoginAnswer, TypeTask, Idle
    <2>2. CacheIsDurable' /\ OneTransition' /\ Newer' /\ Lag'
      BY <1>3, <2>1, QuietStep DEF LoginAnswer, CacheIsDurable, historyVars, ChangePcs
    <2>3. sessions' \in [Slots -> Passwords \cup {NoSession}]
      BY <1>3 DEF LoginAnswer, TypeStore
    <2> QED
      BY <1>3, <2>1, <2>2, <2>3 DEF LoginAnswer, TypeStore, TypeTask
  <1>4. CASE SessionEnds
    <2>1. CacheIsDurable' /\ OneTransition' /\ Newer' /\ Lag'
      BY <1>4, QuietStep DEF SessionEnds, CacheIsDurable, historyVars, TypeTask
    <2>2. sessions' \in [Slots -> Passwords \cup {NoSession}]
      BY <1>4 DEF SessionEnds, TypeStore
    <2> QED
      BY <1>4, <2>1, <2>2 DEF SessionEnds, TypeStore, TypeTask
  <1> QED
    BY <1>1, <1>2, <1>3, <1>4

\* A transition begins only while no other task is inside one.
LEMMA BeginStep ==
    ASSUME IInv, NEW t \in Tasks, ChangeBegin(t)
    PROVE  IInv'
  <1> USE DEF IInv
  <1>1. /\ task' \in [Tasks -> Local]
        /\ task'[t].pc = "change_read"
        /\ \A u \in Tasks : u # t => task'[u] = task[u]
    BY DEF ChangeBegin, Go, TypeTask, Local, ChangePcs
  <1>2. \A u \in Tasks : task[u].pc \notin ChangePcs
    BY DEF ChangeBegin, GateOpen, OneTransition, Changing
  <1>3. CacheIsDurable'
    BY DEF ChangeBegin, CacheIsDurable
  <1>4. OneTransition'
    BY <1>1, <1>2 DEF ChangeBegin, OneTransition, Changing, Tasks
  <1>5. Newer' /\ Lag'
    BY <1>1, <1>2 DEF ChangeBegin, Newer, Lag, Tasks, ChangePcs, historyVars
  <1> QED
    BY <1>1, <1>3, <1>4, <1>5 DEF ChangeBegin, TypeStore, TypeTask

\* The change reads the record and derives a password newer than everything.
LEMMA ReadStep ==
    ASSUME IInv, NEW t \in Tasks, ChangeRead(t)
    PROVE  IInv'
  <1> USE DEF IInv
  <1>1. Loaded = nvs /\ Loaded \in Record
    BY LoadedIsDurable
  <1>2. task[t] \in Local /\ task[t].pc = "change_read"
    BY DEF ChangeRead, TypeTask
  <1>3. /\ \A u \in Tasks : u # t => task'[u] = task[u]
        /\ task' \in [Tasks -> Local]
        /\ nextPw' \in Nat \ {0}
        /\ \/ /\ task'[t].pc = "change_end" /\ nextPw' = nextPw
           \/ /\ task'[t].pc = "change_replace" /\ nextPw' = nextPw + 1
              /\ task'[t].pw = nextPw
    <2>1. CASE Rejected(t) /\ UNCHANGED nextPw
      BY <1>2, <2>1 DEF Rejected, TypeTask, Local, ChangePcs, Results
    <2>2. CASE /\ nextPw <= MaxPassword
               /\ task' = [task EXCEPT ![t] = [pc |-> "change_replace", base |-> Loaded,
                                               pw |-> nextPw, result |-> "none"]]
               /\ nextPw' = nextPw + 1
      <3>1. nextPw \in Passwords
        BY <2>2, BoundAssumption DEF TypeTask, Passwords
      <3>2. [pc |-> "change_replace", base |-> Loaded, pw |-> nextPw,
             result |-> "none"] \in Local
        BY <1>1, <3>1 DEF Local, ChangePcs, Results
      <3> QED
        BY <2>2, <3>2 DEF TypeTask
    <2> QED
      BY <2>1, <2>2 DEF ChangeRead
  <1>4. cache' \in {cache, nvs} /\ faults' \in 0 .. FaultBudget
    BY <1>1, BoundAssumption DEF ChangeRead, LoadFails, Fault, TypeTask
  <1>5. CacheIsDurable' /\ TypeStore'
    BY <1>4 DEF ChangeRead, CacheIsDurable, TypeStore
  <1>6. OneTransition'
    BY <1>2, <1>3 DEF ChangeRead, OneTransition, Changing, Tasks, ChangePcs
  <1>7. Newer'
    BY <1>2, <1>3 DEF ChangeRead, OneTransition, Changing, Newer, Tasks, ChangePcs,
       TypeTask, TypeStore, Record, Passwords, Local
  <1>8. Lag'
    BY <1>2, <1>3 DEF ChangeRead, Lag, Tasks, historyVars
  <1> QED
    BY <1>3, <1>4, <1>5, <1>6, <1>7, <1>8 DEF TypeTask

\* The commit: the verifier is now behind the record until it is activated.
LEMMA ReplaceStep ==
    ASSUME IInv, NEW t \in Tasks, ChangeReplace(t)
    PROVE  IInv'
  <1> USE DEF IInv
  <1> DEFINE new == [task[t].base EXCEPT !.pw = task[t].pw]
  <1>1. task[t] \in Local /\ task[t].pc = "change_replace" /\ new \in Record
    BY DEF ChangeReplace, TypeTask, Local, Record
  <1>2. PICK res \in {"ok", "failed", "uncertain"} :
          /\ ReplaceRecord(new, res)
          /\ task' = [task EXCEPT ![t].pc = AfterReplace(res), ![t].result = Answer(res)]
    BY DEF ChangeReplace
  <1>3. /\ nvs' \in {nvs, new} /\ nvs' \in Record
        /\ cache' \in Record \cup {Unloaded}
        /\ cache' # Unloaded => cache' = nvs'
        /\ faults' \in 0 .. FaultBudget /\ handle' \in BOOLEAN
        /\ res = "ok" => nvs' = new
        /\ res = "failed" => nvs' = nvs
        /\ res = "uncertain" => unsure'
        /\ unsure => unsure'
    BY <1>1, <1>2, ReplaceEffect DEF TypeStore
  <1>4. /\ UNCHANGED <<active, gate, sessions, nextPw, clobbered>>
        /\ new.pw = task[t].pw
    BY <1>1 DEF ChangeReplace, Local, Record
  <1>5. /\ task' \in [Tasks -> Local]
        /\ \A u \in Tasks : u # t => task'[u] = task[u]
        /\ task'[t].pc = AfterReplace(res) /\ task'[t].pw = task[t].pw
        /\ AfterReplace(res) \in {"change_activate", "change_end"}
        /\ AfterReplace(res) = "change_activate" <=> res = "ok"
    BY <1>1, <1>2 DEF AfterReplace, Answer, TypeTask, Local, ChangePcs, Results
  <1>6. TypeStore' /\ TypeTask' /\ CacheIsDurable'
    BY <1>3, <1>4, <1>5 DEF TypeStore, TypeTask, CacheIsDurable
  <1>7. OneTransition'
    BY <1>1, <1>4, <1>5 DEF OneTransition, Changing, Tasks, ChangePcs
  <1>8. \A u \in Tasks : u # t => task[u].pc \notin ChangePcs
    BY <1>1 DEF OneTransition, Changing, Tasks, ChangePcs
  <1>9. Newer'
    <2>1. nvs'.pw \in {nvs.pw, task[t].pw}
      BY <1>3, <1>4
    <2>2. nvs'.pw < nextPw'
      BY <1>1, <1>4, <2>1 DEF Newer
    <2>3. task'["http"].pc = "put_replace" =>
            task["http"].pc = "put_replace" /\ task'["http"] = task["http"]
      BY <1>5 DEF Tasks
    <2>4. \A u \in Tasks : task'[u].pc # "change_replace"
      BY <1>5, <1>8 DEF ChangePcs
    <2> QED
      BY <1>4, <2>2, <2>3, <2>4 DEF Newer
  <1>10. Lag'
    <2>1. \A u \in Tasks : task[u].pc # "change_activate"
      BY <1>1, <1>8 DEF ChangePcs
    <2>2. active = nvs.pw \/ unsure \/ clobbered
      BY <2>1 DEF Lag
    <2>3. CASE res = "ok"
      BY <1>3, <1>4, <1>5, <2>1, <2>3 DEF Lag
    <2>4. CASE res = "failed"
      BY <1>3, <1>4, <1>5, <2>1, <2>2, <2>4 DEF Lag
    <2>5. CASE res = "uncertain"
      BY <1>3, <1>4, <1>5, <2>1, <2>5 DEF Lag
    <2> QED
      BY <1>2, <2>3, <2>4, <2>5
  <1> QED
    BY <1>6, <1>7, <1>9, <1>10

\* Activation makes the verifier the password that was committed.
LEMMA ActivateStep ==
    ASSUME IInv, NEW t \in Tasks, ChangeActivate(t)
    PROVE  IInv'
  <1> USE DEF IInv
  <1>1. task[t] \in Local /\ task[t].pc = "change_activate" /\ task[t].pw \in Passwords
    BY DEF ChangeActivate, TypeTask, Local
  <1>2. /\ task' \in [Tasks -> Local]
        /\ \A u \in Tasks : u # t => task'[u] = task[u]
        /\ task'[t].pc = "change_invalidate" /\ task'[t].pw = task[t].pw
    BY <1>1 DEF ChangeActivate, Go, TypeTask, Local, ChangePcs
  <1>3. TypeStore' /\ TypeTask' /\ CacheIsDurable'
    BY <1>1, <1>2 DEF ChangeActivate, TypeStore, TypeTask, CacheIsDurable
  <1>4. OneTransition'
    BY <1>1, <1>2 DEF ChangeActivate, OneTransition, Changing, Tasks, ChangePcs
  <1>5. Newer'
    BY <1>1, <1>2 DEF ChangeActivate, Newer, Tasks
  <1>6. Lag'
    BY <1>1, <1>2 DEF ChangeActivate, Lag, Tasks, historyVars, OneTransition, Changing,
       ChangePcs
  <1> QED
    BY <1>3, <1>4, <1>5, <1>6

\* The invalidation of the sessions.
LEMMA InvalidateStep ==
    ASSUME IInv, NEW t \in Tasks, ChangeInvalidate(t)
    PROVE  IInv'
  <1> USE DEF IInv
  <1>1. task[t] \in Local /\ task[t].pc = "change_invalidate"
    BY DEF ChangeInvalidate, TypeTask
  <1>2. /\ task' \in [Tasks -> Local]
        /\ \A u \in Tasks : u # t => task'[u] = task[u]
        /\ task'[t].pc = "change_end"
    BY <1>1 DEF ChangeInvalidate, TypeTask, Local, ChangePcs, Results
  <1>3. sessions' \in [Slots -> Passwords \cup {NoSession}]
    BY DEF ChangeInvalidate, LogoutAll, TypeStore
  <1>4. faults' \in 0 .. FaultBudget
    BY BoundAssumption DEF ChangeInvalidate, Fault, TypeTask
  <1>5. TypeStore' /\ TypeTask' /\ CacheIsDurable'
    BY <1>2, <1>3, <1>4 DEF ChangeInvalidate, TypeStore, TypeTask, CacheIsDurable
  <1>6. OneTransition'
    BY <1>1, <1>2 DEF ChangeInvalidate, OneTransition, Changing, Tasks, ChangePcs
  <1>7. Newer'
    BY <1>1, <1>2 DEF ChangeInvalidate, Newer, Tasks
  <1>8. Lag'
    BY <1>1, <1>2 DEF ChangeInvalidate, Lag, Tasks
  <1> QED
    BY <1>5, <1>6, <1>7, <1>8

\* The gate opens when its only holder leaves.
LEMMA EndStep ==
    ASSUME IInv, NEW t \in Tasks, ChangeEnd(t)
    PROVE  IInv'
  <1> USE DEF IInv
  <1>1. task[t].pc = "change_end"
    BY DEF ChangeEnd
  <1>2. /\ task' \in [Tasks -> Local]
        /\ \A u \in Tasks : u # t => task'[u] = task[u]
        /\ task'[t].pc = "idle"
    BY IdleType DEF ChangeEnd, TypeTask, Idle
  <1>3. TypeStore' /\ TypeTask' /\ CacheIsDurable'
    BY <1>2 DEF ChangeEnd, TypeStore, TypeTask, CacheIsDurable
  <1>4. OneTransition'
    BY <1>1, <1>2 DEF ChangeEnd, OneTransition, Changing, Tasks, ChangePcs
  <1>5. Newer'
    BY <1>1, <1>2 DEF ChangeEnd, Newer, Tasks
  <1>6. Lag'
    BY <1>1, <1>2 DEF ChangeEnd, Lag, Tasks
  <1> QED
    BY <1>3, <1>4, <1>5, <1>6

\* A settings PUT reads the record ...
LEMMA PutReadStep ==
    ASSUME IInv, PutRead
    PROVE  IInv'
  <1> USE DEF IInv
  <1>1. /\ Loaded = nvs /\ nvs \in Record /\ "http" \in Tasks
        /\ task["http"] \in Local /\ task["http"].pc = "idle"
    BY LoadedIsDurable DEF PutRead, TypeTask, Tasks
  <1>2. /\ task' \in [Tasks -> Local]
        /\ \A u \in Tasks : u # "http" => task'[u] = task[u]
        /\ \/ task' = task
           \/ task'["http"].pc = "put_replace" /\ task'["http"].base = nvs
    BY <1>1 DEF PutRead, TypeTask, Local, HttpPcs
  <1>3. cache' \in {cache, nvs} /\ faults' \in 0 .. FaultBudget
    BY <1>1, BoundAssumption DEF PutRead, LoadFails, Fault, TypeTask
  <1>4. TypeStore' /\ TypeTask' /\ CacheIsDurable'
    BY <1>2, <1>3 DEF PutRead, TypeStore, TypeTask, CacheIsDurable
  <1>5. OneTransition'
    BY <1>1, <1>2 DEF PutRead, OneTransition, Changing, Tasks, ChangePcs
  <1>6. Newer'
    BY <1>1, <1>2 DEF PutRead, Newer, Tasks
  <1>7. Lag'
    BY <1>1, <1>2 DEF PutRead, Lag, Tasks, historyVars
  <1> QED
    BY <1>4, <1>5, <1>6, <1>7

\* ... and replaces it: an older password can come back, and is noticed.
LEMMA PutReplaceStep ==
    ASSUME IInv, PutReplace
    PROVE  IInv'
  <1> USE DEF IInv
  <1>1. /\ "http" \in Tasks /\ task["http"] \in Local
        /\ task["http"].pc = "put_replace" /\ task["http"].base \in Record
    BY DEF PutReplace, TypeTask, Tasks, Local
  <1>2. PICK net \in Nets, res \in {"ok", "failed", "uncertain"} :
          ReplaceRecord([task["http"].base EXCEPT !.net = net], res)
    BY DEF PutReplace
  <1> DEFINE new == [task["http"].base EXCEPT !.net = net]
  <1>3. new \in Record /\ new.pw = task["http"].base.pw
    BY <1>1 DEF Record
  <1>4. /\ nvs' \in {nvs, new} /\ nvs' \in Record
        /\ cache' \in Record \cup {Unloaded}
        /\ cache' # Unloaded => cache' = nvs'
        /\ faults' \in 0 .. FaultBudget /\ handle' \in BOOLEAN
        /\ unsure => unsure'
    BY <1>2, <1>3, ReplaceEffect DEF TypeStore
  <1>5. /\ task' \in [Tasks -> Local]
        /\ \A u \in Tasks : u # "http" => task'[u] = task[u]
        /\ task'["http"].pc = "idle"
    BY <1>1, IdleType DEF PutReplace, TypeTask, Idle
  <1>6. UNCHANGED <<active, gate, sessions, nextPw>>
    BY DEF PutReplace
  <1>7. TypeStore' /\ TypeTask' /\ CacheIsDurable'
    BY <1>4, <1>5, <1>6 DEF TypeStore, TypeTask, CacheIsDurable
  <1>8. OneTransition'
    BY <1>1, <1>5, <1>6 DEF OneTransition, Changing, Tasks, ChangePcs
  <1>9. Newer'
    <2>1. nvs'.pw \in {nvs.pw, task["http"].base.pw}
      BY <1>3, <1>4
    <2> QED
      BY <1>1, <1>5, <1>6, <2>1 DEF Newer, Tasks
  <1>10. (clobbered => clobbered') /\ (nvs'.pw # nvs.pw => clobbered')
    BY Zenon DEF PutReplace
  <1>11. Lag'
    BY <1>1, <1>4, <1>5, <1>6, <1>10 DEF Lag, Tasks
  <1> QED
    BY <1>7, <1>8, <1>9, <1>11

\* The console's network commands keep the password that is in the record.
LEMMA ConsoleStep ==
    ASSUME IInv, ConsoleSetNetwork
    PROVE  IInv' /\ nvs'.pw = nvs.pw
  <1> USE DEF IInv
  <1>1. Loaded = nvs /\ nvs \in Record
    BY LoadedIsDurable
  <1>2. PICK net \in Nets, res \in {"ok", "failed", "uncertain"} :
          ReplaceRecord([Loaded EXCEPT !.net = net], res)
    BY DEF ConsoleSetNetwork
  <1> DEFINE new == [Loaded EXCEPT !.net = net]
  <1>3. new \in Record /\ new.pw = nvs.pw
    BY <1>1 DEF Record
  <1>4. /\ nvs' \in {nvs, new} /\ nvs' \in Record
        /\ cache' \in Record \cup {Unloaded}
        /\ cache' # Unloaded => cache' = nvs'
        /\ faults' \in 0 .. FaultBudget /\ handle' \in BOOLEAN
        /\ unsure => unsure'
    BY <1>2, <1>3, ReplaceEffect DEF TypeStore
  <1>5. nvs'.pw = nvs.pw
    BY <1>3, <1>4
  <1>6. UNCHANGED <<active, gate, sessions, task, nextPw, clobbered>>
    BY DEF ConsoleSetNetwork
  <1>7. TypeStore' /\ TypeTask' /\ CacheIsDurable'
    BY <1>4, <1>6 DEF TypeStore, TypeTask, CacheIsDurable
  <1>8. OneTransition'
    BY <1>6 DEF OneTransition, Changing
  <1>9. Newer'
    BY <1>5, <1>6 DEF Newer
  <1>10. Lag'
    BY <1>4, <1>5, <1>6 DEF Lag
  <1> QED
    BY <1>5, <1>7, <1>8, <1>9, <1>10

\* A restart loads cache and verifier from the record.
LEMMA RebootStep ==
    ASSUME IInv, Reboot
    PROVE  IInv'
  <1> USE DEF IInv
  <1>1. /\ task' \in [Tasks -> Local]
        /\ \A t \in Tasks : task'[t].pc = "idle"
    BY IdleType DEF Reboot, Idle
  <1>2. nvs.pw \in Passwords
    BY DEF TypeStore, Record
  <1>3. TypeStore' /\ TypeTask' /\ CacheIsDurable'
    BY <1>1, <1>2 DEF Reboot, LogoutAll, TypeStore, TypeTask, CacheIsDurable
  <1>4. OneTransition' /\ Newer' /\ Lag'
    BY <1>1 DEF Reboot, OneTransition, Changing, ChangePcs, Newer, Lag, Tasks
  <1> QED
    BY <1>3, <1>4

LEMMA StutterStep == IInv /\ UNCHANGED vars => IInv'
  BY DEF IInv, vars, historyVars, TypeStore, TypeTask, CacheIsDurable, OneTransition,
     Changing, Newer, Lag

LEMMA NextIInv == IInv /\ [Next]_vars => IInv'
  <1> SUFFICES ASSUME IInv, [Next]_vars PROVE IInv'
    OBVIOUS
  <1>1. CASE LoginSnapshot \/ LoginCreate \/ LoginAnswer \/ SessionEnds
    BY <1>1, LoginStep
  <1>2. CASE \E t \in Tasks : ChangeBegin(t) \/ Change(t)
    BY <1>2, BeginStep, ReadStep, ReplaceStep, ActivateStep, InvalidateStep, EndStep
       DEF Change
  <1>3. CASE PutRead \/ PutReplace \/ ConsoleSetNetwork \/ Reboot
    BY <1>3, PutReadStep, PutReplaceStep, ConsoleStep, RebootStep
  <1>4. CASE UNCHANGED vars
    BY <1>4, StutterStep
  <1> QED
    BY <1>1, <1>2, <1>3, <1>4 DEF Next

\* IInv is an invariant of the specification.
THEOREM Invariant == Spec => []IInv
  BY InitIInv, NextIInv, PTL DEF Spec

LEMMA NextTypeHistory == IInv /\ TypeHistory /\ [Next]_vars => TypeHistory'
  <1> SUFFICES ASSUME IInv, TypeHistory, [Next]_vars PROVE TypeHistory'
    OBVIOUS
  <1>1. CASE UNCHANGED historyVars
    BY <1>1 DEF historyVars, TypeHistory
  <1>2. LoginSnapshot \/ LoginCreate \/ LoginAnswer \/ SessionEnds \/ PutRead
          => UNCHANGED historyVars
    BY DEF LoginSnapshot, LoginCreate, LoginAnswer, SessionEnds, PutRead
  <1>3. \A t \in Tasks : ChangeBegin(t) \/ ChangeRead(t) \/ ChangeActivate(t)
          => UNCHANGED historyVars
    BY DEF ChangeBegin, ChangeRead, ChangeActivate
  <1>4. \A candidate, res : ReplaceRecord(candidate, res) => unsure' \in BOOLEAN
    BY DEF ReplaceRecord, Committed, NotCommitted, CommitUncertain, TypeHistory
  <1>5. ASSUME NEW t \in Tasks, ChangeReplace(t) PROVE TypeHistory'
    BY <1>4, <1>5 DEF ChangeReplace, TypeHistory
  <1>6. ASSUME NEW t \in Tasks, ChangeInvalidate(t) PROVE TypeHistory'
    BY <1>6 DEF ChangeInvalidate, TypeHistory
  <1>7. ASSUME NEW t \in Tasks, ChangeEnd(t) PROVE TypeHistory'
    BY <1>7 DEF ChangeEnd, TypeHistory, IInv, TypeTask, Local
  <1>8. CASE PutReplace
    BY <1>4, <1>8 DEF PutReplace, TypeHistory
  <1>9. CASE ConsoleSetNetwork
    BY <1>4, <1>9 DEF ConsoleSetNetwork, TypeHistory
  <1>10. CASE Reboot
    BY <1>10 DEF Reboot, TypeHistory
  <1>11. UNCHANGED vars => UNCHANGED historyVars
    BY DEF vars
  <1> QED
    BY <1>1, <1>2, <1>3, <1>5, <1>6, <1>7, <1>8, <1>9, <1>10, <1>11 DEF Next, Change

\* Every variable keeps the type the code declares for it.
THEOREM TypeCorrect == Spec => []TypeOK
  <1>1. Init => TypeHistory
    BY DEF Init, TypeHistory
  <1>2. IInv /\ TypeHistory => TypeOK
    BY DEF IInv, TypeOK
  <1> QED
    BY <1>1, <1>2, NextTypeHistory, Invariant, PTL DEF Spec

-----------------------------------------------------------------------------
(* What follows from IInv                                                   *)

\* The record cache is the record in NVS or invalid, for every sequence of
\* uncertain commits (device_settings_core.c).
THEOREM CacheNeverLies == Spec => []CacheIsDurable
  <1>1. IInv => CacheIsDurable
    BY DEF IInv
  <1> QED
    BY <1>1, Invariant, PTL

\* Two credential transactions never overlap, and the gate is closed during
\* each (web_server_password_transition_begin()).
THEOREM Serialized == Spec => []OneTransition
  <1>1. IInv => OneTransition
    BY DEF IInv
  <1> QED
    BY <1>1, Invariant, PTL

\* Outside a transition the verifier logins are checked against is the one in
\* the record, unless a commit was uncertain or a PUT wrote an old record.
THEOREM VerifierAgrees == Spec => []VerifierMatchesRecord
  <1>1. IInv => VerifierMatchesRecord
    BY DEF IInv, OneTransition, Changing, ChangePcs, Lag, VerifierMatchesRecord
  <1> QED
    BY <1>1, Invariant, PTL

\* A step that is not a settings PUT never takes the record to an older
\* password.
LEMMA NotReverted ==
    ASSUME IInv, [Next]_vars, nvs'.pw < nvs.pw
    PROVE  task["http"].pc = "put_replace"
  <1> SUFFICES ASSUME task["http"].pc # "put_replace" PROVE nvs.pw <= nvs'.pw
    <2>1. nvs.pw \in Nat /\ IInv'
      BY NextIInv, BoundAssumption DEF IInv, TypeStore, Record, Passwords
    <2>2. nvs'.pw \in Nat
      BY <2>1, BoundAssumption DEF IInv, TypeStore, Record, Passwords
    <2> QED
      BY <2>1, <2>2
  <1> USE DEF IInv
  <1>0. nvs.pw \in Nat
    BY BoundAssumption DEF TypeStore, Record, Passwords
  <1>1. CASE nvs' = nvs
    BY <1>0, <1>1
  <1>2. ASSUME NEW t \in Tasks, ChangeReplace(t) PROVE nvs.pw <= nvs'.pw
    <2> DEFINE new == [task[t].base EXCEPT !.pw = task[t].pw]
    <2>1. task[t] \in Local /\ task[t].pc = "change_replace" /\ new \in Record
      BY <1>2 DEF ChangeReplace, TypeTask, Local, Record
    <2>2. PICK res : ReplaceRecord(new, res)
      BY <1>2 DEF ChangeReplace
    <2>3. nvs' \in {nvs, new}
      BY <2>1, <2>2, ReplaceEffect
    <2>4. new.pw = task[t].pw /\ task[t].pw \in Nat /\ nvs.pw < task[t].pw
      BY <2>1, BoundAssumption DEF Newer, Local, Record, Passwords
    <2>5. nvs'.pw = nvs.pw \/ nvs'.pw = task[t].pw
      BY <2>3, <2>4
    <2> HIDE DEF new
    <2> QED
      BY <1>0, <2>4, <2>5
  <1>3. CASE ConsoleSetNetwork
    BY <1>0, <1>3, ConsoleStep
  <1>4. CASE LoginSnapshot \/ LoginCreate \/ LoginAnswer \/ SessionEnds \/ PutRead \/ Reboot
    <2>1. LoginSnapshot => nvs' = nvs
      BY DEF LoginSnapshot
    <2>2. LoginCreate \/ LoginAnswer \/ SessionEnds => nvs' = nvs
      BY DEF LoginCreate, LoginAnswer, SessionEnds
    <2>3. PutRead \/ Reboot => nvs' = nvs
      BY DEF PutRead, Reboot
    <2> QED
      BY <1>1, <1>4, <2>1, <2>2, <2>3
  <1>5. ASSUME NEW t \in Tasks, ChangeBegin(t) \/ ChangeRead(t) \/ ChangeActivate(t)
                                 \/ ChangeInvalidate(t) \/ ChangeEnd(t)
        PROVE  nvs.pw <= nvs'.pw
    BY <1>1, <1>5 DEF ChangeBegin, ChangeRead, ChangeActivate, ChangeInvalidate, ChangeEnd
  <1>6. CASE PutReplace
    BY <1>6 DEF PutReplace
  <1>7. CASE UNCHANGED vars
    BY <1>1, <1>7 DEF vars
  <1> QED
    BY <1>2, <1>3, <1>4, <1>5, <1>6, <1>7 DEF Next, Change

\* Changes of the password never overwrite each other; the older password
\* comes back only from a settings PUT that read the record before a change.
THEOREM OnlyPutReverts == Spec => RevertedOnlyByPut
  <1>1. IInv /\ [Next]_vars => [nvs'.pw < nvs.pw => task["http"].pc = "put_replace"]_vars
    BY NotReverted
  <1> QED
    BY <1>1, Invariant, PTL DEF Spec, RevertedOnlyByPut

-----------------------------------------------------------------------------
(* A change answered as failed has not taken place                          *)

\* Neither the record nor anything that may still be written to it holds a
\* password whose change was, or is about to be, answered as failed.
Unwritten(p) == /\ p < nextPw /\ p # nvs.pw
                /\ task["http"].pc = "put_replace" => task["http"].base.pw # p
                /\ \A t \in Tasks : task[t].pc = "change_replace" => task[t].pw # p

FInv == /\ \A p \in failed : p \in Passwords /\ Unwritten(p)
        /\ \A t \in Tasks : task[t].pc = "change_end" /\ task[t].result = "failed"
             => Unwritten(task[t].pw)

\* A password that cannot come back stays one: every write of the record is of
\* the record's own password, of one a task was already about to write, or of
\* a new one.
LEMMA UnwrittenStays ==
    ASSUME IInv, [Next]_vars, NEW p \in Passwords, Unwritten(p)
    PROVE  Unwritten(p)'
  <1> USE DEF IInv
  <1>0. /\ p \in Nat /\ nvs.pw \in Nat /\ nextPw \in Nat
        /\ \A t \in Tasks : task[t] \in Local
        /\ "http" \in Tasks
    BY BoundAssumption DEF TypeStore, TypeTask, Record, Passwords, Tasks
  <1> DEFINE Kept == \A u \in Tasks : task'[u].pc \in {"change_replace", "put_replace"}
                                        => task'[u] = task[u]
  <1>a. ASSUME nvs' = nvs, nextPw' = nextPw, Kept PROVE Unwritten(p)'
    BY <1>0, <1>a DEF Unwritten
  <1>1. CASE LoginSnapshot \/ LoginCreate \/ LoginAnswer \/ SessionEnds
    <2>1. LoginSnapshot => Kept
      BY DEF LoginSnapshot, TypeTask
    <2>2. LoginCreate => Kept
      <3>1. LoginCreate => /\ task'["http"].pc \in {"idle", "login_answer"}
                           /\ task' = [task EXCEPT !["http"] = task'["http"]]
        BY <1>0 DEF LoginCreate, TypeTask, Local, Idle, Go
      <3> QED
        BY <1>0, <3>1 DEF TypeTask
    <2>3. LoginAnswer => Kept
      BY DEF LoginAnswer, TypeTask, Idle
    <2>4. SessionEnds => Kept
      BY DEF SessionEnds
    <2>5. nvs' = nvs /\ nextPw' = nextPw
      BY <1>1 DEF LoginSnapshot, LoginCreate, LoginAnswer, SessionEnds
    <2> HIDE DEF Kept
    <2> QED
      BY <1>a, <1>1, <2>1, <2>2, <2>3, <2>4, <2>5
  <1>2. ASSUME NEW t \in Tasks, ChangeBegin(t) \/ ChangeActivate(t)
                                 \/ ChangeInvalidate(t) \/ ChangeEnd(t)
        PROVE  Unwritten(p)'
    <2>1. ChangeBegin(t) => Kept
      BY DEF ChangeBegin, TypeTask, Go
    <2>2. ChangeActivate(t) => Kept
      BY DEF ChangeActivate, TypeTask, Go
    <2>3. ChangeInvalidate(t) => Kept
      <3>1. ChangeInvalidate(t) => /\ task'[t].pc = "change_end"
                                   /\ task' = [task EXCEPT ![t] = task'[t]]
        BY <1>0 DEF ChangeInvalidate, TypeTask, Local
      <3> QED
        BY <1>0, <3>1 DEF TypeTask
    <2>4. ChangeEnd(t) => Kept
      BY DEF ChangeEnd, TypeTask, Idle
    <2>5. nvs' = nvs /\ nextPw' = nextPw
      BY <1>2 DEF ChangeBegin, ChangeActivate, ChangeInvalidate, ChangeEnd
    <2> HIDE DEF Kept
    <2> QED
      BY <1>a, <1>2, <2>1, <2>2, <2>3, <2>4, <2>5
  <1>3. ASSUME NEW t \in Tasks, ChangeRead(t) PROVE Unwritten(p)'
    <2>1. nvs' = nvs /\ nextPw' \in {nextPw, nextPw + 1}
      BY <1>3 DEF ChangeRead
    <2>2. \A u \in Tasks : u # t => task'[u] = task[u]
      BY <1>3 DEF ChangeRead, Rejected, TypeTask
    <2>3. CASE Rejected(t)
      <3>1. task'[t].pc = "change_end"
        BY <2>3 DEF Rejected, TypeTask, Local
      <3> QED
        BY <1>0, <2>1, <2>2, <3>1 DEF Unwritten
    <2>4. CASE task' = [task EXCEPT ![t] = [pc |-> "change_replace", base |-> Loaded,
                                            pw |-> nextPw, result |-> "none"]]
      <3>1. task'[t].pc = "change_replace" /\ task'[t].pw = nextPw
        BY <2>4 DEF TypeTask
      <3>2. p < nextPw' /\ p # nextPw
        BY <1>0, <2>1 DEF Unwritten
      <3> QED
        BY <1>0, <2>1, <2>2, <3>1, <3>2 DEF Unwritten
    <2> QED
      BY <1>3, <2>3, <2>4 DEF ChangeRead
  <1>4. ASSUME NEW t \in Tasks, ChangeReplace(t) PROVE Unwritten(p)'
    <2> DEFINE new == [task[t].base EXCEPT !.pw = task[t].pw]
    <2>1. task[t].pc = "change_replace" /\ new \in Record /\ new.pw = task[t].pw
      BY <1>0, <1>4 DEF ChangeReplace, Local, Record
    <2>2. PICK res \in {"ok", "failed", "uncertain"} : ReplaceRecord(new, res)
      BY <1>4 DEF ChangeReplace
    <2>3. nvs' \in {nvs, new}
      BY <2>1, <2>2, ReplaceEffect
    <2>4. nvs'.pw \in {nvs.pw, task[t].pw}
      BY <2>1, <2>3
    <2>5. nextPw' = nextPw
      BY <1>4 DEF ChangeReplace
    <2>6. \A u \in Tasks : task'[u].pc \in {"change_replace", "put_replace"}
                              => task'[u] = task[u]
      BY <1>4 DEF ChangeReplace, AfterReplace, TypeTask
    <2> QED
      BY <1>0, <2>1, <2>4, <2>5, <2>6 DEF Unwritten
  <1>5. CASE PutRead
    <2>1. nvs' = nvs /\ nextPw' = nextPw /\ Loaded = nvs
      BY <1>5, LoadedIsDurable DEF PutRead
    <2>2. \A u \in Tasks : u # "http" => task'[u] = task[u]
      BY <1>5 DEF PutRead, TypeTask
    <2>3. task' = task \/ (task'["http"].pc = "put_replace" /\ task'["http"].base = nvs)
      BY <1>0, <1>5, <2>1 DEF PutRead, TypeTask, Local
    <2> QED
      BY <1>0, <2>1, <2>2, <2>3 DEF Unwritten
  <1>6. CASE PutReplace
    <2>1. task["http"].pc = "put_replace" /\ task["http"].base \in Record
      BY <1>0, <1>6 DEF PutReplace, Local
    <2>2. PICK net \in Nets, res \in {"ok", "failed", "uncertain"} :
            ReplaceRecord([task["http"].base EXCEPT !.net = net], res)
      BY <1>6 DEF PutReplace
    <2> DEFINE new == [task["http"].base EXCEPT !.net = net]
    <2>3. new \in Record /\ new.pw = task["http"].base.pw
      BY <2>1 DEF Record
    <2>4. nvs' \in {nvs, new}
      BY <2>2, <2>3, ReplaceEffect
    <2>5. nvs'.pw \in {nvs.pw, task["http"].base.pw}
      BY <2>3, <2>4
    <2>6. /\ nextPw' = nextPw /\ task'["http"].pc = "idle"
          /\ \A u \in Tasks : u # "http" => task'[u] = task[u]
      BY <1>0, <1>6 DEF PutReplace, TypeTask, Idle
    <2> QED
      BY <1>0, <2>1, <2>5, <2>6 DEF Unwritten
  <1>7. CASE ConsoleSetNetwork
    <2>1. nvs'.pw = nvs.pw
      BY <1>7, ConsoleStep
    <2>2. UNCHANGED <<task, nextPw>>
      BY <1>7 DEF ConsoleSetNetwork
    <2> QED
      BY <2>1, <2>2 DEF Unwritten
  <1>8. CASE Reboot
    BY <1>0, <1>8 DEF Reboot, Unwritten, Idle
  <1>9. CASE UNCHANGED vars
    BY <1>9 DEF vars, Unwritten
  <1> QED
    BY <1>1, <1>2, <1>3, <1>4, <1>5, <1>6, <1>7, <1>8, <1>9 DEF Next, Change

\* A change is about to be answered as failed only after its own replace.
LEMMA FailureArises ==
    ASSUME IInv, [Next]_vars, NEW u \in Tasks,
           task'[u].pc = "change_end", task'[u].result = "failed"
    PROVE  task'[u] = task[u] \/ ChangeReplace(u)
  <1> USE DEF IInv
  <1>0. "http" \in Tasks /\ \A t \in Tasks : task[t] \in Local
    BY DEF TypeTask, Tasks
  <1>1. CASE LoginSnapshot \/ SessionEnds \/ PutRead
    <2>1. LoginSnapshot => task'[u] = task[u] \/ task'[u].pc = "login_create"
      BY <1>0 DEF LoginSnapshot, TypeTask, Local
    <2>2. SessionEnds => task'[u] = task[u]
      BY DEF SessionEnds
    <2>3. PutRead => task'[u] = task[u] \/ task'[u].pc = "put_replace"
      BY <1>0 DEF PutRead, TypeTask, Local
    <2> QED
      BY <1>1, <2>1, <2>2, <2>3
  <1>2. CASE LoginCreate \/ LoginAnswer \/ PutReplace
    <2>1. LoginCreate => task'[u] = task[u] \/ task'[u].pc \in {"idle", "login_answer"}
      BY <1>0 DEF LoginCreate, TypeTask, Local, Idle, Go
    <2>2. LoginAnswer => task'[u] = task[u] \/ task'[u].pc = "idle"
      BY <1>0 DEF LoginAnswer, TypeTask, Idle
    <2>3. PutReplace => task'[u] = task[u] \/ task'[u].pc = "idle"
      BY <1>0 DEF PutReplace, TypeTask, Idle
    <2> QED
      BY <1>2, <2>1, <2>2, <2>3
  <1>3. ASSUME NEW t \in Tasks, ChangeBegin(t) \/ ChangeActivate(t) \/ ChangeEnd(t)
        PROVE  task'[u] = task[u]
    <2>1. ChangeBegin(t) => task'[u] = task[u] \/ task'[u].pc = "change_read"
      BY <1>0 DEF ChangeBegin, TypeTask, Local, Go
    <2>2. ChangeActivate(t) => task'[u] = task[u] \/ task'[u].pc = "change_invalidate"
      BY <1>0 DEF ChangeActivate, TypeTask, Local, Go
    <2>3. ChangeEnd(t) => task'[u] = task[u] \/ task'[u].pc = "idle"
      BY <1>0 DEF ChangeEnd, TypeTask, Idle
    <2> QED
      BY <1>3, <2>1, <2>2, <2>3
  <1>4. ASSUME NEW t \in Tasks, ChangeRead(t) PROVE task'[u] = task[u]
    <2>1. Rejected(t) => task'[u] = task[u] \/ task'[u].result = "rejected"
      BY <1>0 DEF Rejected, TypeTask, Local
    <2>2. task' = [task EXCEPT ![t] = [pc |-> "change_replace", base |-> Loaded,
                                       pw |-> nextPw, result |-> "none"]]
            => task'[u] = task[u] \/ task'[u].pc = "change_replace"
      BY <1>0 DEF TypeTask
    <2> QED
      BY <1>4, <2>1, <2>2 DEF ChangeRead
  <1>5. ASSUME NEW t \in Tasks, ChangeInvalidate(t) PROVE task'[u] = task[u]
    <2>1. task' = [task EXCEPT ![t].pc = "change_end", ![t].result = "ok"]
            => task'[u] = task[u] \/ task'[u].result = "ok"
      BY <1>0 DEF TypeTask, Local
    <2>2. task' = [task EXCEPT ![t].pc = "change_end", ![t].result = "incomplete"]
            => task'[u] = task[u] \/ task'[u].result = "incomplete"
      BY <1>0 DEF TypeTask, Local
    <2> QED
      BY <1>5, <2>1, <2>2 DEF ChangeInvalidate
  <1>6. ASSUME NEW t \in Tasks, ChangeReplace(t), t # u PROVE task'[u] = task[u]
    BY <1>6 DEF ChangeReplace, TypeTask
  <1>7. CASE ConsoleSetNetwork \/ UNCHANGED vars
    BY <1>7 DEF ConsoleSetNetwork, vars
  <1>8. CASE Reboot
    BY <1>8 DEF Reboot, Idle
  <1> QED
    BY <1>1, <1>2, <1>3, <1>4, <1>5, <1>6, <1>7, <1>8 DEF Next, Change

\* A replace that failed without an effect leaves the derived password nowhere
\* but in the transaction that is about to report the failure.
LEMMA FailedReplace ==
    ASSUME IInv, NEW t \in Tasks, ChangeReplace(t), task'[t].result = "failed"
    PROVE  Unwritten(task[t].pw)' /\ task'[t].pw = task[t].pw
  <1> USE DEF IInv
  <1> DEFINE new == [task[t].base EXCEPT !.pw = task[t].pw]
  <1>1. /\ task[t] \in Local /\ task[t].pc = "change_replace" /\ new \in Record
        /\ task[t].pw \in Nat /\ nvs.pw \in Nat /\ nextPw \in Nat
        /\ "http" \in Tasks /\ "console" \in Tasks
    BY BoundAssumption DEF ChangeReplace, TypeTask, TypeStore, Local, Record, Passwords, Tasks
  <1>2. PICK res \in {"ok", "failed", "uncertain"} :
          /\ ReplaceRecord(new, res)
          /\ task' = [task EXCEPT ![t].pc = AfterReplace(res), ![t].result = Answer(res)]
    BY DEF ChangeReplace
  <1>3. /\ task'[t].result = Answer(res) /\ task'[t].pc = AfterReplace(res)
        /\ task'[t].pw = task[t].pw
        /\ \A u \in Tasks : u # t => task'[u] = task[u]
    BY <1>1, <1>2 DEF TypeTask, Local
  <1>4. res = "failed"
    BY <1>2, <1>3 DEF Answer
  <1>5. nvs' = nvs /\ task'[t].pc = "change_end" /\ nextPw' = nextPw
    BY <1>1, <1>2, <1>3, <1>4, ReplaceEffect DEF AfterReplace, ChangeReplace
  <1>6. task[t].pw < nextPw /\ task[t].pw # nvs.pw
    BY <1>1 DEF Newer
  <1>7. task["http"].pc = "put_replace" => task["http"].base.pw # task[t].pw
    <2>1. "http" \in Tasks /\ (task["http"].pc = "put_replace" => task["http"].base.pw \in Nat)
      BY <1>1, BoundAssumption DEF TypeTask, Local, Record, Passwords
    <2> QED
      BY <1>1, <2>1 DEF Newer
  <1>8. \A u \in Tasks : u # t => task[u].pc # "change_replace"
    BY <1>1 DEF OneTransition, Changing, ChangePcs, Tasks
  <1> HIDE DEF new
  <1>9. task'["http"].pc = "put_replace" => task'["http"].base.pw # task[t].pw
    BY <1>1, <1>3, <1>5, <1>7
  <1> QED
    BY <1>3, <1>5, <1>6, <1>8, <1>9 DEF Unwritten

LEMMA NextFInv == IInv /\ FInv /\ [Next]_vars => FInv'
  <1> SUFFICES ASSUME IInv, FInv, [Next]_vars PROVE FInv'
    OBVIOUS
  <1>0. \A u \in Tasks : task[u].pw \in Passwords
    BY DEF IInv, TypeTask, Local
  <1>1. ASSUME NEW p \in failed' PROVE p \in Passwords /\ Unwritten(p)'
    <2>1. CASE p \in failed
      BY <2>1, UnwrittenStays DEF FInv
    <2>2. CASE p \notin failed
      <3>1. PICK t \in Tasks : ChangeEnd(t)
        BY <2>2 DEF Next, Change, vars, historyVars, LoginSnapshot, LoginCreate, LoginAnswer,
           SessionEnds, ChangeBegin, ChangeRead, ChangeReplace, ChangeActivate,
           ChangeInvalidate, PutRead, PutReplace, ConsoleSetNetwork, Reboot
      <3>2. p = task[t].pw /\ task[t].pc = "change_end" /\ task[t].result = "failed"
        BY <2>2, <3>1 DEF ChangeEnd
      <3> QED
        BY <1>0, <3>2, UnwrittenStays DEF FInv
    <2> QED
      BY <2>1, <2>2
  <1>2. ASSUME NEW u \in Tasks, task'[u].pc = "change_end", task'[u].result = "failed",
               NEW p, p = task'[u].pw
        PROVE  Unwritten(p)'
    <2>1. CASE task'[u] = task[u]
      <3>1. p \in Passwords /\ Unwritten(p)
        BY <1>0, <1>2, <2>1 DEF FInv
      <3> QED
        BY <3>1, UnwrittenStays
    <2>2. CASE ChangeReplace(u)
      <3>1. Unwritten(task[u].pw)'
        BY <1>2, <2>2, FailedReplace
      <3> QED
        BY <1>2, <3>1 DEF Unwritten
    <2> QED
      BY <1>2, <2>1, <2>2, FailureArises
  <1> QED
    BY <1>1, <1>2 DEF FInv, Unwritten

\* A change answered with a plain failure has not taken place, and nothing a
\* task still holds can make it take place later.
THEOREM FailureIsFinal == Spec => []FailedChangeIsInvisible
  <1>1. Init => FInv
    BY DEF Init, FInv, Idle
  <1>2. FInv => FailedChangeIsInvisible
    BY DEF FInv, Unwritten, FailedChangeIsInvisible
  <1> QED
    BY <1>1, <1>2, NextFInv, Invariant, PTL DEF Spec
-----------------------------------------------------------------------------
(* Sessions of an older password                                            *)

\* A change has replaced the verifier and not yet dropped the sessions.
Activated == \E t \in Tasks : task[t].pc = "change_invalidate"

\* A login was verified against a password that is no longer the verifier's.
Pending == task["http"].pc = "login_create" /\ task["http"].pw # active

SInv == complete /\ ~Activated =>
          /\ \A r, s \in Stale : r = s
          /\ Pending => Stale = {}

\* A step that neither drops sessions nor replaces the verifier and makes no
\* session leaves SInv alone.
LEMMA StaleKept ==
    ASSUME SInv, complete' => complete, Activated => Activated',
           UNCHANGED active, Pending' => Pending, Stale' \subseteq Stale
    PROVE  SInv'
  BY DEF SInv

\* Removing sessions removes stale ones only.
LEMMA StaleShrinks ==
    ASSUME TypeStore, NEW s \in Slots, UNCHANGED active,
           sessions' = [sessions EXCEPT ![s] = NoSession]
    PROVE  Stale' \subseteq Stale
  BY DEF TypeStore, Stale

\* After all sessions were dropped there is none of an older password.
LEMMA NoneLeft == sessions' = LogoutAll => Stale' = {}
  BY DEF LogoutAll, Stale

LEMMA CreateStep == IInv /\ SInv /\ LoginCreate => SInv'
  <1> SUFFICES ASSUME IInv, SInv, LoginCreate PROVE SInv'
    OBVIOUS
  <1>1. /\ UNCHANGED <<active, complete>> /\ task["http"].pc = "login_create"
        /\ TypeStore /\ TypeTask
    BY DEF LoginCreate, historyVars, IInv
  <1>2. task' = [task EXCEPT !["http"] = Idle]
          \/ task' = [task EXCEPT !["http"].pc = "login_answer"]
    BY DEF LoginCreate, Go
  <1>3. ~Pending' /\ (Activated => Activated')
    BY <1>1, <1>2 DEF TypeTask, Local, Tasks, Pending, Activated, Idle
  <1>4. CASE UNCHANGED sessions
    BY <1>1, <1>3, <1>4, StaleKept DEF Stale
  <1>5. ASSUME NEW s \in Slots, sessions' = [sessions EXCEPT ![s] = task["http"].pw]
        PROVE  SInv'
    <2>1. CASE task["http"].pw = active
      <3>1. Stale' \subseteq Stale
        BY <1>1, <1>5, <2>1 DEF TypeStore, Stale
      <3> QED
        BY <1>1, <1>3, <3>1, StaleKept
    <2>2. CASE task["http"].pw # active
      <3>1. Stale' \subseteq Stale \cup {s}
        BY <1>1, <1>5 DEF TypeStore, Stale
      <3>2. complete /\ ~Activated => Stale = {}
        BY <1>1, <2>2 DEF SInv, Pending
      <3> QED
        BY <1>1, <1>3, <3>1, <3>2 DEF SInv
    <2> QED
      BY <2>1, <2>2
  <1> QED
    BY <1>4, <1>5 DEF LoginCreate

LEMMA DropStep == ASSUME IInv, SInv, NEW t \in Tasks, ChangeInvalidate(t) PROVE SInv'
  <1>1. CASE sessions' = LogoutAll
    BY <1>1, NoneLeft DEF SInv
  <1>2. CASE complete' = FALSE
    BY <1>2 DEF SInv
  <1> QED
    BY <1>1, <1>2 DEF ChangeInvalidate

LEMMA SnapshotStep == IInv /\ SInv /\ LoginSnapshot => SInv'
  <1> SUFFICES ASSUME IInv, SInv, LoginSnapshot PROVE SInv'
    OBVIOUS
  <1>1. /\ UNCHANGED <<active, sessions, complete>> /\ TypeTask
        /\ task' = [task EXCEPT !["http"].pc = "login_create", !["http"].pw = active]
        /\ task["http"].pc = "idle"
    BY DEF LoginSnapshot, historyVars, IInv
  <1>2. ~Pending' /\ (Activated => Activated')
    BY <1>1 DEF TypeTask, Local, Tasks, Pending, Activated
  <1> QED
    BY <1>1, <1>2, StaleKept DEF Stale

\* The step that replaces the verifier is the only one that makes sessions
\* stale; it leaves the change in change_invalidate.
LEMMA ActivatedStep == ASSUME IInv, NEW t \in Tasks, ChangeActivate(t) PROVE SInv'
  <1>1. task'[t].pc = "change_invalidate"
    BY DEF ChangeActivate, Go, IInv, TypeTask, Local
  <1> QED
    BY <1>1 DEF SInv, Activated

\* The other steps of a task keep verifier, sessions and history, and do not
\* lead out of change_invalidate or into login_create.
LEMMA OtherStep ==
    ASSUME IInv, SInv, UNCHANGED <<active, sessions, complete>>,
           NEW t \in Tasks, task[t].pc # "change_invalidate",
           \A u \in Tasks : u # t => task'[u] = task[u],
           task'[t].pc # "login_create" \/ task' = task
    PROVE  SInv'
  <1>1. Pending' => Pending
    BY DEF Pending, Tasks
  <1>2. Activated => Activated'
    BY DEF Activated
  <1> QED
    BY <1>1, <1>2, StaleKept DEF Stale

LEMMA NextSInv == IInv /\ SInv /\ [Next]_vars => SInv'
  <1> SUFFICES ASSUME IInv, SInv, [Next]_vars PROVE SInv'
    OBVIOUS
  <1>0. TypeStore /\ TypeTask /\ "http" \in Tasks /\ "console" \in Tasks
    BY DEF IInv, Tasks
  <1>1. CASE LoginAnswer \/ SessionEnds
    <2>1. UNCHANGED <<active, complete>> /\ Stale' \subseteq Stale
      BY <1>0, <1>1, StaleShrinks DEF LoginAnswer, SessionEnds, historyVars, Stale
    <2>2. ~Pending' \/ task' = task
      BY <1>0, <1>1 DEF LoginAnswer, SessionEnds, Pending, TypeTask, Idle
    <2>3. Activated => Activated'
      BY <1>0, <1>1 DEF LoginAnswer, SessionEnds, Activated, TypeTask, Idle, Local
    <2>4. Pending' => Pending
      BY <2>1, <2>2 DEF Pending
    <2> QED
      BY <2>1, <2>3, <2>4, StaleKept
  <1>2. ASSUME NEW t \in Tasks, ChangeBegin(t) PROVE SInv'
    <2>1. /\ task' = [task EXCEPT ![t].pc = "change_read"] /\ task[t].pc = "idle"
          /\ UNCHANGED <<active, sessions, complete>>
      BY <1>2 DEF ChangeBegin, Go, historyVars
    <2> QED
      BY <1>0, <1>2, <2>1, OtherStep DEF TypeTask, Local
  <1>3. ASSUME NEW t \in Tasks, ChangeRead(t) PROVE SInv'
    <2>1. /\ task[t].pc = "change_read" /\ UNCHANGED <<active, sessions, complete>>
      BY <1>3 DEF ChangeRead, historyVars
    <2>2. /\ \A u \in Tasks : u # t => task'[u] = task[u]
          /\ task'[t].pc # "login_create"
      BY <1>0, <1>3 DEF ChangeRead, Rejected, TypeTask, Local
    <2> QED
      BY <1>3, <2>1, <2>2, OtherStep
  <1>4. ASSUME NEW t \in Tasks, ChangeReplace(t) PROVE SInv'
    <2>1. /\ task[t].pc = "change_replace" /\ UNCHANGED <<active, sessions, complete>>
      BY <1>4 DEF ChangeReplace
    <2>2. /\ \A u \in Tasks : u # t => task'[u] = task[u]
          /\ task'[t].pc # "login_create"
      BY <1>0, <1>4 DEF ChangeReplace, AfterReplace, TypeTask, Local
    <2> QED
      BY <1>4, <2>1, <2>2, OtherStep
  <1>5. ASSUME NEW t \in Tasks, ChangeEnd(t) PROVE SInv'
    <2>1. /\ task[t].pc = "change_end" /\ UNCHANGED <<active, sessions, complete>>
          /\ task' = [task EXCEPT ![t] = Idle]
      BY <1>5 DEF ChangeEnd
    <2>2. /\ \A u \in Tasks : u # t => task'[u] = task[u]
          /\ task'[t].pc # "login_create"
      BY <1>0, <2>1 DEF TypeTask, Idle
    <2> QED
      BY <1>5, <2>1, <2>2, OtherStep
  <1>6. CASE PutRead
    <2>1. /\ task["http"].pc = "idle" /\ UNCHANGED <<active, sessions, complete>>
      BY <1>6 DEF PutRead, historyVars
    <2>2. /\ \A u \in Tasks : u # "http" => task'[u] = task[u]
          /\ task'["http"].pc # "login_create" \/ task' = task
      BY <1>0, <1>6 DEF PutRead, TypeTask, Local
    <2> QED
      BY <1>0, <2>1, <2>2, OtherStep
  <1>7. CASE PutReplace
    <2>1. /\ task["http"].pc = "put_replace" /\ UNCHANGED <<active, sessions, complete>>
          /\ task' = [task EXCEPT !["http"] = Idle]
      BY <1>7 DEF PutReplace
    <2>2. /\ \A u \in Tasks : u # "http" => task'[u] = task[u]
          /\ task'["http"].pc # "login_create"
      BY <1>0, <2>1 DEF TypeTask, Idle
    <2> QED
      BY <1>0, <2>1, <2>2, OtherStep
  <1>8. CASE ConsoleSetNetwork \/ UNCHANGED vars
    <2>1. UNCHANGED <<active, sessions, task, complete>>
      BY <1>8 DEF ConsoleSetNetwork, vars, historyVars
    <2> QED
      BY <2>1, StaleKept DEF Stale, Pending, Activated
  <1>9. CASE Reboot
    <2>1. sessions' = LogoutAll
      BY <1>9 DEF Reboot
    <2> QED
      BY <2>1, NoneLeft DEF SInv
  <1> QED
    BY <1>1, <1>2, <1>3, <1>4, <1>5, <1>6, <1>7, <1>8, <1>9, CreateStep, DropStep,
       SnapshotStep, ActivatedStep DEF Next, Change

\* When a change was answered as complete, at most one session of an older
\* password can appear, whatever the size of the session table.
THEOREM OneStaleSession == Spec => []AtMostOneStaleSession
  <1>1. Init => SInv
    BY DEF Init, SInv, Stale, Pending, Idle
  <1>2. IInv /\ SInv => AtMostOneStaleSession
    <2> SUFFICES ASSUME IInv, SInv, ~gate, complete PROVE Cardinality(Stale) <= 1
      BY DEF AtMostOneStaleSession
    <2>1. \A r, s \in Stale : r = s
      BY DEF IInv, OneTransition, Changing, ChangePcs, SInv, Activated
    <2>2. CASE Stale = {}
      BY <2>2, FS_EmptySet
    <2>3. ASSUME NEW s \in Stale PROVE Cardinality(Stale) <= 1
      <3>1. Stale = {s}
        BY <2>1, <2>3
      <3> QED
        BY <3>1, FS_Singleton
    <2> QED
      BY <2>2, <2>3
  <1> QED
    BY <1>1, <1>2, NextSInv, Invariant, PTL DEF Spec
=============================================================================
