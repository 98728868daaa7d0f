-------------------------- MODULE RepositoryProofs --------------------------
(***************************************************************************)
(* Proofs about RepositoryStore, for every number of ids, set of payloads, *)
(* number of I/O errors and of power cuts: the types, the owner of a reset *)
(* that is pending, the ids that are never used twice, what a reset has    *)
(* done when it is over, and that the store implements BlobService.        *)
(*                                                                         *)
(* The invariant is IInv.  An id is new because the counter in NVS and the *)
(* one in RAM stay above whatever was published (Above): the first moves   *)
(* before the rename, the second only after it.  A reset may clear its     *)
(* marker because what it has found is listed, or gone with a directory    *)
(* sync still to come, at each of its stages (Doing).  BInv adds to it     *)
(* that what was answered is on the medium (Durable) and that an upload    *)
(* renames onto no blob (Free).                                            *)
(***************************************************************************)
EXTENDS RepositoryStore, WellFoundedInduction, TLAPS

\* A bounded set of numbers has a largest one.
LEMMA MaxIn ==
    ASSUME NEW n \in Nat, NEW S \in SUBSET (0 .. n), S # {}
    PROVE  Max(S) \in S /\ \A y \in S : Max(S) >= y
  <1> DEFINE T == {n - x : x \in S}
             R == OpToRel(<, Nat)
  <1>1. PICK t \in T : \A y \in T : <<y, t>> \notin R
    <2>1. T \subseteq Nat
      OBVIOUS
    <2>2. PICK x \in S : TRUE
      OBVIOUS
    <2>3. n - x \in T
      BY <2>2
    <2>4. T # {}
      BY <2>3
    <2> QED  BY <2>1, <2>4, NatLessThanWellFounded, WFMin
  <1>2. PICK x \in S : t = n - x
    BY <1>1
  <1>3. \A y \in S : x >= y
    <2> SUFFICES ASSUME NEW y \in S, ~(x >= y) PROVE FALSE
      OBVIOUS
    <2>1. n - y < t /\ n - y \in Nat /\ t \in Nat
      BY <1>2
    <2>2. <<n - y, t>> \in R
      BY <2>1 DEF OpToRel
    <2> QED  BY <1>1, <2>2
  <1> QED  BY <1>2, <1>3 DEF Max

\* storage_blob_derive_next_id() gives an id in range that is not below the counter.
LEMMA DeriveNextBounds ==
    ASSUME NEW counter \in 0 .. LastId, NEW dir
    PROVE  DeriveNext(counter, dir) \in 1 .. LastId /\ DeriveNext(counter, dir) >= counter
  <1> DEFINE S == {1, counter} \cup {id + 1 : id \in Present(dir)}
  <1>1. S \in SUBSET (0 .. LastId) /\ 1 \in S /\ counter \in S
    BY StoreAssumption DEF Present, Ids
  <1>2. Max(S) \in S /\ \A y \in S : Max(S) >= y
    BY <1>1, MaxIn, StoreAssumption
  <1> QED  BY <1>1, <1>2, StoreAssumption DEF DeriveNext

-----------------------------------------------------------------------------
(* Types.                                                                   *)

\* An upload renames a whole payload.
Whole == http.pc \in {"close", "persist", "rename"} => temps[http.id] # Partial

TInv == TypeOK /\ Whole

HttpRecords  == [pc : HttpPcs, id : Ids, payload : Payloads \cup {None}]
ResetRecords == [pc : ResetPcs, todo : SUBSET Ids, deleted : BOOLEAN, error : BOOLEAN,
                 answer : {"none", "accepted", "refused"}]
Dirs         == [Ids -> Payloads \cup {None}]
TempDirs     == [Ids -> Payloads \cup {None, Partial}]

\* The idle tasks and the empty directory.
LEMMA NothingTypes ==
    /\ NoHttp \in HttpRecords /\ NoReset \in ResetRecords
    /\ NoDir \in Dirs /\ NoDir \in TempDirs
    /\ \A r \in ResetRecords : [NoReset EXCEPT !.answer = r.answer] \in ResetRecords
  <1>1. 1 \in Ids
    BY StoreAssumption DEF Ids
  <1>2. NoHttp \in HttpRecords
    BY <1>1 DEF NoHttp, HttpRecords, HttpPcs
  <1>3. NoReset \in ResetRecords
    BY DEF NoReset, ResetRecords, ResetPcs
  <1>4. NoDir \in Dirs /\ NoDir \in TempDirs
    BY DEF NoDir, Dirs, TempDirs
  <1>5. \A r \in ResetRecords : [NoReset EXCEPT !.answer = r.answer] \in ResetRecords
    BY DEF NoReset, ResetRecords, ResetPcs
  <1> QED  BY <1>2, <1>3, <1>4, <1>5

\* A power cut or a restart.
LEMMA PowerLossKeeps ==
    ASSUME TInv, PowerLoss, faults' \in Int, crashes' \in Int
    PROVE  TInv'
  <1>1. files' \in Dirs /\ disk' \in Dirs
    BY DEF TInv, TypeOK, PowerLoss, Dirs
  <1>2. http' \in HttpRecords /\ reset' \in ResetRecords /\ http'.pc = "idle"
    BY NothingTypes DEF PowerLoss, NoHttp
  <1>3. scanNext' \in 1 .. LastId
    BY StoreAssumption DEF PowerLoss
  <1>4. TypeOK'
    BY <1>1, <1>2, <1>3 DEF TInv, TypeOK, PowerLoss, nvsVars, histVars, Dirs, HttpRecords, ResetRecords
  <1> QED
    BY <1>2, <1>4 DEF TInv, Whole

\* The counts of failures and power cuts.
LEMMA BudgetTypes ==
    ASSUME TypeOK
    PROVE  /\ Ok \/ Fault => faults' \in Int
           /\ Spend(crashes) \in Int
  BY DEF TypeOK, Ok, Fault, Spend

\* The steps around power, setup, login and console.
LEMMA PowerStepsKeep ==
    ASSUME TInv,
           \/ Crash \/ PowerCycle \/ TimerFires \/ PowerOn \/ BootMount
           \/ Provision \/ Login \/ EditRead \/ EditReplace
    PROVE  TInv'
  <1>1. CASE Crash
    BY <1>1, BudgetTypes, PowerLossKeeps DEF Crash, TInv
  <1>2. CASE PowerCycle
    BY <1>2, BudgetTypes, PowerLossKeeps DEF PowerCycle, TInv, TypeOK
  <1>3. CASE TimerFires
    BY <1>3, BudgetTypes, PowerLossKeeps DEF TimerFires, TInv, TypeOK
  <1>4. CASE PowerOn
    BY <1>4, BudgetTypes
       DEF PowerOn, EntryStage, TInv, TypeOK, Whole, NoReset, ResetPcs, fsVars, nvsVars, histVars
  <1>5. CASE BootMount
    <2>1. scanNext' \in 1 .. LastId
      BY <1>5, DeriveNextBounds DEF BootMount, TInv, TypeOK
    <2>2. /\ temps' \in [Ids -> Payloads \cup {None, Partial}]
          /\ (\A id \in Ids : temps'[id] \in {None, temps[id]})
      BY <1>5 DEF BootMount, Leftovers, TInv, TypeOK, NoDir
    <2>3. reset' \in ResetRecords
      <3>1. reset \in ResetRecords
        BY DEF TInv, TypeOK, ResetRecords
      <3> QED  BY <1>5, <3>1, NothingTypes DEF BootMount, Halt
    <2>4. Whole'
      BY <1>5, <2>2, StoreAssumption DEF BootMount, TInv, TypeOK, Whole
    <2> QED
      BY <1>5, <2>1, <2>2, <2>3, <2>4, BudgetTypes
         DEF BootMount, TInv, TypeOK, Halt, ResetRecords, dirVars, nvsVars, histVars
  <1>6. CASE Provision
    BY <1>6, BudgetTypes, ZenonT(30) DEF Provision, TInv, TypeOK, Whole, fsVars, histVars
  <1>7. CASE Login
    BY <1>7, BudgetTypes DEF Login, TInv, TypeOK, Whole, fsVars, nvsVars, histVars
  <1>8. CASE EditRead
    BY <1>8, BudgetTypes DEF EditRead, TInv, TypeOK, Whole, fsVars, nvsVars, histVars
  <1>9. CASE EditReplace
    BY <1>9, StoreAssumption, BudgetTypes, ZenonT(30) DEF EditReplace, TInv, TypeOK, Whole, fsVars, histVars
  <1> QED BY <1>1, <1>2, <1>3, <1>4, <1>5, <1>6, <1>7, <1>8, <1>9

\* What a step of the HTTP task leaves alone, and what it must keep.
LEMMA HttpKeeps ==
    ASSUME TInv, HttpFrame, faults' \in Int,
           {files', disk'} \subseteq Dirs, temps' \in TempDirs,
           nextId' \in 0 .. LastId, scanNext' \in 1 .. LastId,
           http' \in HttpRecords, acked' \subseteq Ids, published' \subseteq Ids
    PROVE  TypeOK'
  BY DEF TInv, TypeOK, HttpFrame, Dirs, TempDirs, HttpRecords

\* The type invariant, part by part.
LEMMA HttpTypes ==
    ASSUME TypeOK
    PROVE  /\ files \in Dirs /\ disk \in Dirs /\ temps \in TempDirs
           /\ http \in HttpRecords /\ http.id \in Ids /\ http.payload \in Payloads \cup {None}
           /\ reset \in ResetRecords
           /\ nextId \in 0 .. LastId /\ scanNext \in 1 .. LastId
           /\ acked \subseteq Ids /\ published \subseteq Ids
  BY DEF TypeOK, Dirs, TempDirs, HttpRecords, ResetRecords

\* The id after one in use.
LEMMA NextIdType ==
    ASSUME NEW id \in Ids
    PROVE  id + 1 \in 1 .. LastId
  BY StoreAssumption DEF Ids

\* Where a step of the HTTP task leads.
LEMMA HttpMoves ==
    ASSUME TypeOK
    PROVE  /\ \A pc \in HttpPcs : HttpGoto(pc) =>
                  http' \in HttpRecords /\ http'.pc = pc /\ http'.id = http.id
           /\ HttpDone => http' \in HttpRecords /\ http'.pc = "idle"
  <1>1. http \in HttpRecords
    BY HttpTypes
  <1>2. NoHttp.pc = "idle"
    BY DEF NoHttp
  <1> QED  BY <1>1, <1>2, NothingTypes DEF HttpGoto, HttpDone, HttpRecords

\* A change of the directory.
LEMMA DirMoves ==
    ASSUME TypeOK, NEW dir \in Dirs
    PROVE  /\ SetFiles(dir) => files' \in Dirs /\ disk' \in Dirs
           /\ SyncOk \/ SyncFailed => disk' \in {disk, files} /\ disk' \in Dirs /\ faults' \in Int
  BY HttpTypes, BudgetTypes DEF SetFiles, SyncOk, SyncFailed

\* The steps of the HTTP task.
LEMMA HttpStepKeeps ==
    ASSUME TInv, HttpStep
    PROVE  TInv'
  <1>0. TypeOK /\ Whole
    BY DEF TInv
  <1>a. HttpPcs = {"idle", "begin", "stream", "close", "persist", "rename", "sync", "cleanup",
                   "abort", "unlink", "synclast"}
    BY DEF HttpPcs
  <1>b. /\ \A pc \in HttpPcs : HttpGoto(pc) =>
                  http' \in HttpRecords /\ http'.pc = pc /\ http'.id = http.id
        /\ HttpDone => http' \in HttpRecords /\ http'.pc = "idle"
    BY <1>0, HttpMoves
  <1>c. Ok \/ Fault => faults' \in Int
    BY <1>0, BudgetTypes
  <1>1. ASSUME NEW p \in Payloads, UploadAdmit(p) PROVE TInv'
    <2>1. http' \in HttpRecords /\ http'.pc = "begin"
      BY <1>1, NothingTypes DEF UploadAdmit, HttpPcs, HttpRecords, NoHttp
    <2>2. TypeOK'
      BY <1>0, <1>1, <1>c, <2>1, HttpKeeps, HttpTypes DEF UploadAdmit, fsVars
    <2> QED  BY <2>1, <2>2 DEF TInv, Whole
  <1>2. CASE UploadBegin
    <2>1. http' \in HttpRecords /\ http'.pc \in {"stream", "idle"} /\ temps' \in TempDirs
      <3>1. CASE http' = NoHttp /\ UNCHANGED temps
        BY <1>0, <1>b, <3>1, HttpTypes DEF HttpDone
      <3>2. CASE /\ scanNext < LastId /\ http' = [http EXCEPT !.pc = "stream", !.id = scanNext]
                 /\ temps' = [temps EXCEPT ![scanNext] = Partial]
        <4>1. scanNext \in Ids
          BY <1>0, <3>2, StoreAssumption, HttpTypes DEF Ids
        <4>2. temps' \in TempDirs
          BY <1>0, <3>2, <4>1, HttpTypes DEF TempDirs
        <4> QED  BY <1>0, <1>a, <3>2, <4>1, <4>2, HttpTypes DEF HttpRecords
      <3> QED  BY <1>2, <3>1, <3>2 DEF UploadBegin, HttpDone
    <2>2. TypeOK'
      BY <1>0, <1>2, <1>c, <2>1, HttpKeeps, HttpTypes DEF UploadBegin, dirVars
    <2> QED  BY <2>1, <2>2 DEF TInv, Whole
  <1>3. CASE UploadStreamed
    <2>1. http' \in HttpRecords /\ http'.id = http.id
      BY <1>3, <1>a, <1>b DEF UploadStreamed
    <2>2. temps' \in TempDirs /\ temps'[http.id] # Partial
      BY <1>0, <1>3, StoreAssumption, HttpTypes DEF UploadStreamed, TempDirs
    <2>3. TypeOK'
      BY <1>0, <1>3, <1>c, <2>1, <2>2, HttpKeeps, HttpTypes DEF UploadStreamed, dirVars
    <2> QED  BY <2>1, <2>2, <2>3 DEF TInv, Whole
  <1>4. CASE UploadBroken
    <2>1. http' \in HttpRecords /\ http'.pc = "abort"
      BY <1>4, <1>a, <1>b DEF UploadBroken, AfterBreak
    <2>2. TypeOK'
      BY <1>0, <1>4, <1>c, <2>1, HttpKeeps, HttpTypes DEF UploadBroken, fsVars
    <2> QED  BY <2>1, <2>2 DEF TInv, Whole
  <1>5. CASE CommitClose
    <2>1. http' \in HttpRecords /\ http'.id = http.id
      BY <1>5, <1>a, <1>b DEF CommitClose
    <2>2. TypeOK'
      BY <1>0, <1>5, <1>c, <2>1, HttpKeeps, HttpTypes DEF CommitClose, fsVars
    <2> QED  BY <1>0, <1>5, <2>1, <2>2 DEF TInv, Whole, CommitClose, HttpAt, fsVars
  <1>6. CASE CommitPersist
    <2>1. http' \in HttpRecords /\ http'.id = http.id
      BY <1>6, <1>a, <1>b DEF CommitPersist
    <2>2. nextId' \in 0 .. LastId
      BY <1>0, <1>6, HttpTypes, NextIdType DEF CommitPersist
    <2>3. TypeOK'
      BY <1>0, <1>6, <1>c, <2>1, <2>2, HttpKeeps, HttpTypes DEF CommitPersist, fsVars
    <2> QED  BY <1>0, <1>6, <2>1, <2>3 DEF TInv, Whole, CommitPersist, HttpAt, fsVars
  <1>7. CASE CommitRename
    <2>1. http' \in HttpRecords /\ http'.pc \in {"sync", "cleanup"}
      BY <1>7, <1>a, <1>b DEF CommitRename
    <2>2. [files EXCEPT ![http.id] = temps[http.id]] \in Dirs
      BY <1>0, <1>7, HttpTypes DEF CommitRename, HttpAt, Whole, TempDirs, Dirs
    <2>3. files' \in Dirs /\ disk' \in Dirs /\ temps' \in TempDirs
      <3>1. [temps EXCEPT ![http.id] = None] \in TempDirs
        BY <1>0, HttpTypes DEF TempDirs
      <3> QED  BY <1>0, <1>7, <2>2, <3>1, DirMoves, HttpTypes DEF CommitRename, fsVars
    <2>4. published' \subseteq Ids
      BY <1>0, <1>7, HttpTypes DEF CommitRename
    <2>5. TypeOK'
      BY <1>0, <1>7, <1>c, <2>1, <2>3, <2>4, HttpKeeps, HttpTypes DEF CommitRename
    <2> QED  BY <2>1, <2>5 DEF TInv, Whole
  <1>8. CASE CommitSync
    <2>1. http' \in HttpRecords /\ http'.pc = "idle"
      BY <1>8, <1>b DEF CommitSync
    <2>2. disk' \in Dirs /\ faults' \in Int
      BY <1>0, <1>8, HttpTypes, DirMoves DEF CommitSync
    <2>3. scanNext' \in 1 .. LastId /\ acked' \subseteq Ids
      BY <1>0, <1>8, HttpTypes, NextIdType DEF CommitSync
    <2>4. TypeOK'
      BY <1>0, <1>8, <2>1, <2>2, <2>3, HttpKeeps, HttpTypes DEF CommitSync
    <2> QED  BY <2>1, <2>4 DEF TInv, Whole
  <1>9. CASE UploadUnlink
    <2>1. http' \in HttpRecords /\ http'.pc \in {"abort", "idle"}
      BY <1>9, <1>a, <1>b DEF UploadUnlink
    <2>2. temps' \in TempDirs /\ faults' \in Int
      BY <1>0, <1>9, <1>c, HttpTypes DEF UploadUnlink, TempDirs
    <2>3. TypeOK'
      BY <1>0, <1>9, <2>1, <2>2, HttpKeeps, HttpTypes DEF UploadUnlink, dirVars
    <2> QED  BY <2>1, <2>3 DEF TInv, Whole
  <1>10. ASSUME NEW id \in Ids, DeleteBegin(id) PROVE TInv'
    <2>1. http' \in HttpRecords /\ http'.pc = "unlink"
      BY <1>10, <1>a, NothingTypes DEF DeleteBegin, HttpRecords, NoHttp
    <2>2. TypeOK'
      BY <1>0, <1>10, <1>c, <2>1, HttpKeeps, HttpTypes DEF DeleteBegin, fsVars
    <2> QED  BY <2>1, <2>2 DEF TInv, Whole
  <1>11. CASE DeleteUnlink
    <2>1. http' \in HttpRecords /\ http'.pc \in {"synclast", "idle"}
      BY <1>11, <1>a, <1>b DEF DeleteUnlink
    <2>2. [files EXCEPT ![http.id] = None] \in Dirs
      BY <1>0, HttpTypes DEF Dirs
    <2>3. files' \in Dirs /\ disk' \in Dirs /\ acked' \subseteq Ids
      BY <1>0, <1>11, <2>2, DirMoves, HttpTypes DEF DeleteUnlink, dirVars
    <2>4. TypeOK'
      BY <1>0, <1>11, <1>c, <2>1, <2>3, HttpKeeps, HttpTypes DEF DeleteUnlink
    <2> QED  BY <2>1, <2>4 DEF TInv, Whole
  <1>12. CASE DeleteSync
    <2>1. http' \in HttpRecords /\ http'.pc = "idle"
      BY <1>12, <1>b DEF DeleteSync
    <2>2. disk' \in Dirs /\ faults' \in Int
      BY <1>0, <1>12, HttpTypes, DirMoves DEF DeleteSync
    <2>3. TypeOK'
      BY <1>0, <1>12, <2>1, <2>2, HttpKeeps, HttpTypes DEF DeleteSync
    <2> QED  BY <2>1, <2>3 DEF TInv, Whole
  <1>13. CASE ListBlobs
    <2>1. scanNext' \in 1 .. LastId
      BY <1>0, <1>13, DeriveNextBounds, HttpTypes DEF ListBlobs
    <2>2. TypeOK'
      BY <1>0, <1>13, <1>c, <2>1, HttpKeeps, HttpTypes DEF ListBlobs, fsVars
    <2> QED  BY <1>0, <1>13, <2>2 DEF TInv, Whole, ListBlobs, fsVars
  <1> QED
    BY <1>1, <1>2, <1>3, <1>4, <1>5, <1>6, <1>7, <1>8, <1>9, <1>10, <1>11, <1>12, <1>13 DEF HttpStep

\* What a stage of the reset leaves alone, and what it must keep.
LEMMA ResetKeeps ==
    ASSUME TInv, ResetFrame, faults' \in Int, files' \in Dirs, disk' \in Dirs,
           temps' \in Leftovers \cup {temps, NoDir}, settings' \in {"provisioned", "erased"},
           power' \in {"off", "recovery", "boot", "up", "halted"},
           marker' \in BOOLEAN, session' \in BOOLEAN, timer' \in BOOLEAN, wiped' \in BOOLEAN,
           reset' \in ResetRecords, acked' \subseteq Ids, doomed' \subseteq Ids
    PROVE  TInv'
  <1>1. temps' \in TempDirs /\ \A id \in Ids : temps'[id] \in {temps[id], None}
    BY HttpTypes, NothingTypes DEF TInv, NoDir, Leftovers, TempDirs
  <1>2. TypeOK'
    BY <1>1 DEF TInv, TypeOK, ResetFrame, Dirs, TempDirs, ResetRecords
  <1>3. Whole'
    BY <1>1, HttpTypes, StoreAssumption DEF TInv, Whole, ResetFrame
  <1> QED  BY <1>2, <1>3 DEF TInv

\* The rest of the type invariant.
LEMMA ResetTypes ==
    ASSUME TypeOK
    PROVE  /\ settings \in {"provisioned", "erased"}
           /\ power \in {"off", "recovery", "boot", "up", "halted"}
           /\ marker \in BOOLEAN /\ session \in BOOLEAN /\ timer \in BOOLEAN /\ wiped \in BOOLEAN
           /\ doomed \subseteq Ids /\ crashes \in Int
  BY DEF TypeOK

\* Where a stage of the reset leads.
LEMMA ResetMoves ==
    ASSUME TypeOK
    PROVE  /\ \A pc \in ResetPcs :
                 /\ ResetGoto(pc) => reset' \in ResetRecords /\ reset'.pc = pc
                        /\ reset'.error = reset.error /\ reset'.answer = reset.answer
                 /\ ResetGotoError(pc) => reset' \in ResetRecords /\ reset'.pc = pc
                        /\ reset'.error /\ reset'.answer = reset.answer
           /\ ResetOver => reset' \in ResetRecords /\ reset'.pc = "idle"
                             /\ reset'.answer = reset.answer
           /\ Halt => reset' \in ResetRecords /\ reset'.pc = "idle" /\ power' = "halted"
  <1>1. reset \in ResetRecords
    BY HttpTypes
  <1>2. \A pc \in ResetPcs : ResetGoto(pc) => reset' \in ResetRecords /\ reset'.pc = pc
                        /\ reset'.error = reset.error /\ reset'.answer = reset.answer
    BY <1>1 DEF ResetGoto, ResetRecords
  <1>3. \A pc \in ResetPcs : ResetGotoError(pc) => reset' \in ResetRecords /\ reset'.pc = pc
                        /\ reset'.error /\ reset'.answer = reset.answer
    BY <1>1 DEF ResetGotoError, ResetRecords
  <1>4. ResetOver => reset' \in ResetRecords /\ reset'.pc = "idle" /\ reset'.answer = reset.answer
    BY <1>1, NothingTypes DEF ResetOver, NoReset, ResetRecords
  <1>5. Halt => reset' \in ResetRecords /\ reset'.pc = "idle" /\ power' = "halted"
    BY NothingTypes DEF Halt, NoReset
  <1> QED  BY <1>2, <1>3, <1>4, <1>5

\* storage_blob_delete_all() takes the newest of the ids it has listed.
LEMMA NewestIsListed ==
    ASSUME NEW S \in SUBSET Ids, S # {}
    PROVE  Max(S) \in S
  <1>1. S \in SUBSET (0 .. LastId)
    BY StoreAssumption DEF Ids
  <1> QED  BY <1>1, MaxIn, StoreAssumption

\* The stages of the reset.
LEMMA ResetStepKeeps ==
    ASSUME TInv, ResetStep
    PROVE  TInv'
  <1>0. TypeOK /\ Whole
    BY DEF TInv
  <1>a. ResetPcs = {"idle", "mark", "erase", "mount", "sessions", "scan", "delete", "cleanup",
                    "fail", "schedule", "clear"}
    BY DEF ResetPcs
  <1>b. \A pc \in ResetPcs : ResetGoto(pc) \/ ResetGotoError(pc) => reset' \in ResetRecords
    BY <1>0, ResetMoves
  <1>c. ResetOver \/ Halt => reset' \in ResetRecords
    BY <1>0, ResetMoves
  <1>d. Ok \/ Fault => faults' \in Int
    BY <1>0, BudgetTypes
  <1>e. Halt => power' = "halted"
    BY DEF Halt
  <1>1. CASE ResetMark
    <2>1. reset' \in ResetRecords
      <3>1. [reset EXCEPT !.pc = "erase", !.answer = "accepted"] \in ResetRecords
        BY <1>0, HttpTypes DEF ResetRecords, ResetPcs
      <3>2. [NoReset EXCEPT !.answer = "refused"] \in ResetRecords
        BY NothingTypes DEF ResetRecords
      <3> QED  BY <1>1, <3>1, <3>2 DEF ResetMark
    <2>2. doomed' \subseteq Ids
      BY <1>0, <1>1, ResetTypes DEF ResetMark, Present
    <2>3. wiped' \in BOOLEAN /\ marker' \in BOOLEAN
      BY <1>0, <1>1, ResetTypes DEF ResetMark
    <2> QED
      BY <1>0, <1>1, <1>d, <2>1, <2>2, <2>3, ResetKeeps, ResetTypes, HttpTypes DEF ResetMark, fsVars
  <1>2. CASE ResetErase
    BY <1>0, <1>2, <1>a, <1>b, <1>c, <1>d, <1>e, ResetKeeps, ResetTypes, HttpTypes DEF ResetErase, fsVars
  <1>3. CASE ResetSessions
    BY <1>0, <1>3, <1>a, <1>b, <1>d, ResetKeeps, ResetTypes, HttpTypes DEF ResetSessions, fsVars
  <1>4. CASE RecoveryMount
    BY <1>0, <1>4, <1>a, <1>b, <1>c, <1>d, <1>e, ResetKeeps, ResetTypes, HttpTypes
       DEF RecoveryMount, dirVars
  <1>5. CASE ResetScan
    <2>1. [reset EXCEPT !.pc = "delete", !.todo = Present(files)] \in ResetRecords
      BY <1>0, HttpTypes DEF ResetRecords, ResetPcs, Present
    <2> QED
      BY <1>0, <1>5, <1>a, <1>b, <1>d, <2>1, ResetKeeps, ResetTypes, HttpTypes DEF ResetScan, fsVars
  <1>6. CASE ResetDelete
    <2> DEFINE id == Max(reset.todo)
               rest == [reset EXCEPT !.todo = @ \ {id}]
    <2>1. id \in Ids /\ rest \in ResetRecords /\ [rest EXCEPT !.deleted = TRUE] \in ResetRecords
          /\ [rest EXCEPT !.error = TRUE] \in ResetRecords
      BY <1>0, <1>6, NewestIsListed, HttpTypes DEF ResetDelete, ResetRecords
    <2> HIDE DEF id, rest
    <2>2. reset' \in ResetRecords
      BY <1>6, <2>1 DEF ResetDelete, id, rest
    <2>3. [files EXCEPT ![id] = None] \in Dirs
      BY <1>0, HttpTypes DEF Dirs
    <2>4. files' \in Dirs /\ disk' \in Dirs /\ acked' \subseteq Ids /\ faults' \in Int
      <3>1. CASE SetFiles([files EXCEPT ![id] = None]) /\ acked' = acked \ {id} /\ Ok
        BY <1>0, <1>d, <2>3, <3>1, DirMoves, HttpTypes
      <3>2. CASE UNCHANGED <<dirVars, acked>> /\ (Ok \/ Fault)
        BY <1>0, <1>d, <3>2, HttpTypes DEF dirVars
      <3> QED  BY <1>6, <3>1, <3>2 DEF ResetDelete, id, rest
    <2> QED
      BY <1>0, <1>6, <2>2, <2>4, ResetKeeps, ResetTypes DEF ResetDelete
  <1>7. CASE ResetDeleteSync
    <2>1. reset' \in ResetRecords
      BY <1>7, <1>a, <1>b DEF ResetDeleteSync
    <2>2. disk' \in Dirs /\ faults' \in Int
      BY <1>0, <1>7, <1>d, DirMoves, HttpTypes DEF ResetDeleteSync
    <2> QED
      BY <1>0, <1>7, <2>1, <2>2, ResetKeeps, ResetTypes, HttpTypes DEF ResetDeleteSync
  <1>8. CASE ResetCleanup
    <2>1. reset' \in ResetRecords
      BY <1>8, <1>a, <1>b, <1>c DEF ResetCleanup
    <2>2. disk' \in Dirs /\ faults' \in Int
      BY <1>0, <1>8, <1>d, DirMoves, HttpTypes DEF ResetCleanup
    <2>3. power' \in {power, "halted"} /\ temps' \in Leftovers \cup {NoDir}
      BY <1>8, <1>e DEF ResetCleanup
    <2> QED
      BY <1>0, <1>8, <2>1, <2>2, <2>3, ResetKeeps, ResetTypes, HttpTypes DEF ResetCleanup
  <1>9. CASE RecoveryFailed
    BY <1>0, <1>9, <1>c, <1>d, <1>e, ResetKeeps, ResetTypes, HttpTypes DEF RecoveryFailed, fsVars
  <1>10. CASE ResetSchedule
    <2>1. CASE ScheduleFailed
      BY <1>0, <1>10, <1>d, <2>1, PowerLossKeeps, ResetTypes DEF ResetSchedule, ScheduleFailed
    <2>2. CASE ~ScheduleFailed
      <3>1. reset' \in ResetRecords /\ timer' = TRUE /\ faults' \in Int
        BY <1>10, <1>a, <1>b, <1>c, <1>d, <2>2 DEF ResetSchedule
      <3>2. UNCHANGED <<fsVars, nvsVars, power, mode, scanNext, session, http, edit, histVars, crashes>>
        BY <1>10, <2>2 DEF ResetSchedule
      <3> QED
        BY <1>0, <3>1, <3>2 DEF TInv, TypeOK, Whole, ResetRecords, fsVars, nvsVars, histVars
    <2> QED  BY <2>1, <2>2
  <1>11. CASE ResetClear
    <2>1. reset' \in ResetRecords /\ marker' \in BOOLEAN /\ faults' \in Int
      BY <1>0, <1>11, <1>c, <1>d, ResetTypes DEF ResetClear
    <2>2. power' \in {power, "up", "boot", "halted"}
      BY <1>11, <1>e DEF ResetClear
    <2> QED
      BY <1>0, <1>11, <2>1, <2>2, ResetKeeps, ResetTypes, HttpTypes DEF ResetClear, fsVars
  <1> QED
    BY <1>1, <1>2, <1>3, <1>4, <1>5, <1>6, <1>7, <1>8, <1>9, <1>10, <1>11 DEF ResetStep

\* The requests for a restart and for a reset.
LEMMA RequestsKeep ==
    ASSUME TInv, RestartRequest \/ ResetStart
    PROVE  TInv'
  <1>0. TypeOK /\ Whole
    BY DEF TInv
  <1>1. CASE RestartRequest
    <2>1. CASE PowerLoss /\ Fault
      BY <1>0, <1>1, <2>1, BudgetTypes, PowerLossKeeps, ResetTypes DEF RestartRequest
    <2>2. CASE /\ Ok /\ timer' = TRUE
               /\ UNCHANGED <<fsVars, nvsVars, power, mode, scanNext, session, http, reset, edit,
                              histVars>>
      BY <1>0, <1>1, <2>2, BudgetTypes DEF RestartRequest, TInv, TypeOK, Whole, fsVars, nvsVars, histVars
    <2> QED  BY <1>1, <2>1, <2>2 DEF RestartRequest
  <1>2. CASE ResetStart
    <2>1. reset' \in ResetRecords
      BY <1>0, <1>2, ResetMoves DEF ResetStart, ResetPcs
    <2> QED
      BY <1>0, <1>2, <2>1, BudgetTypes, ResetKeeps, ResetTypes, HttpTypes DEF ResetStart, fsVars
  <1> QED  BY <1>1, <1>2

\* Every step keeps the types.
LEMMA TypesKeep ==
    ASSUME TInv, [Next]_vars
    PROVE  TInv'
  <1>1. CASE UNCHANGED vars
    BY <1>1 DEF vars, TInv, TypeOK, Whole
  <1> QED
    BY <1>1, PowerStepsKeep, HttpStepKeeps, ResetStepKeeps, RequestsKeep DEF Next, BootStep

-----------------------------------------------------------------------------
(* Who owns the reset.                                                      *)

\* Requests and resets run only where their task does, and the directory is durable but
\* for what waits for a parent sync.
Placed ==
    /\ http.pc # "idle" => power = "up"
    /\ reset.pc \in {"mount", "fail"} => power = "recovery"
    /\ power = "boot" => reset.pc = "idle" /\ ~marker
    /\ power = "off" \/ ~ParentSync => files = disk

\* A reset past its marker was accepted, and its restart is armed before it may clear it.
Accepted ==
    power = "up" => /\ reset.pc \notin {"idle", "mark"} => reset.answer = "accepted"
                    /\ reset.pc = "clear" => timer

CInv == Placed /\ Accepted /\ PendingIsOwned

\* A power cut leaves no request and no reset.
LEMMA PowerLossControls ==
    ASSUME PowerLoss
    PROVE  CInv'
  BY SMTT(30) DEF PowerLoss, CInv, Placed, Accepted, PendingIsOwned, NoHttp, NoReset

\* Requests are served by a device that is up, and leave the reset alone.
LEMMA HttpFrames ==
    ASSUME HttpStep
    PROVE  HttpFrame /\ power = "up"
  BY DEF HttpStep, UploadAdmit, UploadBegin, UploadStreamed, UploadBroken, CommitClose, CommitPersist,
         CommitRename, CommitSync, UploadUnlink, DeleteBegin, DeleteUnlink, DeleteSync, ListBlobs,
         HttpFree, Serving, HttpAt

\* Without parent syncs each of its changes of the directory is durable at once.
LEMMA HttpDurable ==
    ASSUME HttpStep, ~ParentSync, files = disk
    PROVE  files' = disk'
  <1>1. CASE CommitRename
    BY <1>1 DEF CommitRename, SetFiles, fsVars
  <1>2. CASE CommitSync \/ DeleteSync
    BY <1>2 DEF CommitSync, DeleteSync, SyncOk, SyncFailed
  <1>3. CASE DeleteUnlink
    BY <1>3 DEF DeleteUnlink, SetFiles, dirVars
  <1>4. CASE ~CommitRename /\ ~CommitSync /\ ~DeleteSync /\ ~DeleteUnlink
    <2>1. UNCHANGED <<files, disk>>
      BY <1>4 DEF HttpStep, UploadAdmit, UploadBegin, UploadStreamed, UploadBroken, CommitClose,
                  CommitPersist, UploadUnlink, DeleteBegin, ListBlobs, fsVars, dirVars
    <2> QED  BY <2>1
  <1> QED  BY <1>1, <1>2, <1>3, <1>4

\* Every step keeps the ownership of the reset.
LEMMA ControlKeeps ==
    ASSUME TInv, CInv, [Next]_vars
    PROVE  CInv'
  <1>0. TypeOK
    BY DEF TInv
  <1>a. ResetPcs = {"idle", "mark", "erase", "mount", "sessions", "scan", "delete", "cleanup",
                    "fail", "schedule", "clear"}
    BY DEF ResetPcs
  <1>b. \A pc \in ResetPcs : ResetGoto(pc) \/ ResetGotoError(pc) =>
              reset'.pc = pc /\ reset'.answer = reset.answer
    BY <1>0, ResetMoves
  <1>c. /\ ResetOver => reset'.pc = "idle" /\ reset'.answer = reset.answer
        /\ Halt => reset'.pc = "idle" /\ power' = "halted"
    BY <1>0, ResetMoves
  <1>d. reset \in ResetRecords
    BY <1>0, HttpTypes
  <1>1. CASE PowerLoss
    BY <1>1, PowerLossControls
  <1>2. CASE PowerOn
    <2>1. /\ power = "off" /\ power' = EntryStage /\ UNCHANGED <<files, disk, marker, http>>
          /\ reset'.pc = IF EntryStage = "recovery" THEN "erase" ELSE "idle"
      BY <1>2 DEF PowerOn, NoReset, fsVars, nvsVars
    <2> QED  BY <2>1 DEF CInv, Placed, Accepted, PendingIsOwned, EntryStage
  <1>3. CASE BootMount
    <2>1. power = "boot" /\ UNCHANGED <<files, disk, marker, http>>
      BY <1>3 DEF BootMount, dirVars, nvsVars
    <2>2. \/ power' = "up" /\ UNCHANGED reset
          \/ power' = "halted" /\ reset'.pc = "idle"
      BY <1>3, <1>c DEF BootMount
    <2> QED  BY <2>1, <2>2 DEF CInv, Placed, Accepted, PendingIsOwned
  <1>4. CASE Provision \/ Login \/ EditRead \/ EditReplace
    <2>1. UNCHANGED <<files, disk, marker, http, reset, power>> /\ timer' \in {timer, TRUE}
      BY <1>4 DEF Provision, Login, EditRead, EditReplace, fsVars, nvsVars
    <2> QED  BY <2>1, <1>0, ResetTypes DEF CInv, Placed, Accepted, PendingIsOwned
  <1>5. CASE HttpStep
    <2>1. UNCHANGED <<marker, power, reset, timer>> /\ power = "up"
      BY <1>5, HttpFrames DEF HttpFrame
    <2>2. ~ParentSync => files' = disk'
      BY <1>5, HttpDurable DEF CInv, Placed
    <2> QED  BY <2>1, <2>2 DEF CInv, Placed, Accepted, PendingIsOwned
  <1>6. CASE RestartRequest /\ ~PowerLoss
    <2>1. UNCHANGED <<files, disk, marker, http, reset, power>> /\ timer' = TRUE
      BY <1>6 DEF RestartRequest, fsVars, nvsVars
    <2> QED  BY <2>1 DEF CInv, Placed, Accepted, PendingIsOwned
  <1>7. CASE ResetStart
    <2>1. /\ UNCHANGED <<files, disk, marker, http, power, timer>> /\ reset'.pc = "mark"
          /\ power = "up"
      BY <1>7, <1>a, <1>b DEF ResetStart, AdminFree, Serving, ResetFrame, fsVars
    <2> QED  BY <2>1 DEF CInv, Placed, Accepted, PendingIsOwned
  <1>8. CASE ResetMark
    <2>1. /\ UNCHANGED <<files, disk, http, power, timer>> /\ power \in {"up", "recovery"}
          /\ \/ reset'.pc = "erase" /\ reset'.answer = "accepted"
             \/ reset'.pc = "idle" /\ reset'.answer = "refused"
      BY <1>8, <1>d DEF ResetMark, ResetAt, ResetFrame, fsVars, ResetRecords, NoReset
    <2> QED  BY <2>1 DEF CInv, Placed, Accepted, PendingIsOwned
  <1>9. CASE ResetErase \/ ResetSessions \/ RecoveryMount \/ ResetScan \/ RecoveryFailed
    <2>1. UNCHANGED <<files, disk, http, timer, marker>> /\ reset.pc \notin {"idle", "mark"}
      BY <1>9 DEF ResetErase, ResetSessions, RecoveryMount, ResetScan, RecoveryFailed, ResetFrame,
                  ResetAt, fsVars, dirVars
    <2>2. \/ power = "recovery" /\ Halt
          \/ /\ UNCHANGED power /\ power \in {"up", "recovery"} /\ reset'.answer = reset.answer
             /\ reset'.pc \in {"sessions", "mount", "schedule", "scan", "delete", "cleanup"}
             /\ reset'.pc = "mount" => power = "recovery"
      <3>1. CASE ResetErase
        BY <3>1, <1>a, <1>b DEF ResetErase, ResetAt
      <3>2. CASE ResetSessions
        BY <3>2, <1>a, <1>b DEF ResetSessions, ResetAt
      <3>3. CASE RecoveryMount
        BY <3>3, <1>a, <1>b DEF RecoveryMount, ResetAt, CInv, Placed
      <3>4. CASE ResetScan
        BY <3>4, <1>a, <1>b, <1>d DEF ResetScan, ResetAt, ResetRecords
      <3>5. CASE RecoveryFailed
        BY <3>5 DEF RecoveryFailed, ResetAt, CInv, Placed
      <3> QED  BY <1>9, <3>1, <3>2, <3>3, <3>4, <3>5
    <2> QED  BY <1>c, <2>1, <2>2 DEF CInv, Placed, Accepted, PendingIsOwned
  <1>10. CASE ResetDelete \/ ResetDeleteSync \/ ResetCleanup
    <2>1. UNCHANGED <<http, timer, marker>> /\ reset.pc \notin {"idle", "mark"}
      BY <1>10 DEF ResetDelete, ResetDeleteSync, ResetCleanup, ResetFrame, ResetAt
    <2>2. ~ParentSync /\ files = disk => files' = disk'
      BY <1>10 DEF ResetDelete, ResetDeleteSync, ResetCleanup, SetFiles, SyncOk, SyncFailed, dirVars
    <2>3. \/ power = "recovery" /\ Halt
          \/ /\ UNCHANGED power /\ power \in {"up", "recovery"} /\ reset'.answer = reset.answer
             /\ reset'.pc \in {"delete", "cleanup", "schedule", "fail", "clear"}
             /\ reset'.pc \in {"fail", "clear"} => power = "recovery"
      <3>1. CASE ResetDelete
        BY <3>1, <1>d DEF ResetDelete, ResetAt, ResetRecords
      <3>2. CASE ResetDeleteSync
        BY <3>2, <1>a, <1>b DEF ResetDeleteSync, ResetAt
      <3>3. CASE ResetCleanup
        BY <3>3, <1>a, <1>b DEF ResetCleanup, ResetAt
      <3> QED  BY <1>10, <3>1, <3>2, <3>3
    <2> QED  BY <1>c, <2>1, <2>2, <2>3 DEF CInv, Placed, Accepted, PendingIsOwned
  <1>11. CASE ResetSchedule /\ ~PowerLoss
    <2>1. /\ UNCHANGED <<files, disk, http, marker, power>> /\ reset.pc = "schedule" /\ timer' = TRUE
          /\ reset'.pc \in {"clear", "idle"} /\ reset'.answer = reset.answer
      BY <1>11, <1>a, <1>b, <1>c DEF ResetSchedule, ScheduleFailed, ResetAt, fsVars, nvsVars
    <2> QED  BY <2>1 DEF CInv, Placed, Accepted, PendingIsOwned
  <1>12. CASE ResetClear
    <2>1. UNCHANGED <<files, disk, http, timer>> /\ reset.pc = "clear" /\ power \in {"up", "recovery"}
      BY <1>12 DEF ResetClear, ResetFrame, ResetAt, fsVars
    <2>2. \/ ResetOver /\ marker' = FALSE /\ power' = IF power = "up" THEN "up" ELSE "boot"
          \/ power = "up" /\ ResetOver /\ UNCHANGED power
          \/ power = "recovery" /\ Halt
      BY <1>12, <2>1 DEF ResetClear
    <2> QED  BY <1>c, <2>1, <2>2 DEF CInv, Placed, Accepted, PendingIsOwned
  <1>13. CASE UNCHANGED vars
    BY <1>13 DEF vars, CInv, Placed, Accepted, PendingIsOwned
  <1> QED
    BY <1>1, <1>2, <1>3, <1>4, <1>5, <1>6, <1>7, <1>8, <1>9, <1>10, <1>11, <1>12, <1>13
       DEF Next, BootStep, Crash, PowerCycle, TimerFires, ResetStep

-----------------------------------------------------------------------------
(* What the next id stays above.                                            *)

\* Whatever exists, or existed when a reset began, was published.
Known == Present(files) \cup Present(disk) \cup doomed \subseteq published

\* The next ids are above what was published, that of an upload in progress too.
Above ==
    /\ \A p \in published : p < nextId
    /\ http.pc = "rename" => http.id < nextId
    /\ power = "up" /\ http.pc # "sync" => \A p \in published : p < scanNext
    /\ http.pc \in {"stream", "close", "persist", "rename"} => \A p \in published : p < http.id
    /\ http.pc = "sync" => \A p \in published : p <= http.id

\* Only a rename makes a blob, and it publishes it.
LEMMA KnownKeeps ==
    ASSUME TInv, CInv, Known, [Next]_vars
    PROVE  Known'
  <1>0. TypeOK
    BY DEF TInv
  <1>1. CASE PowerLoss
    <2>1. \A id \in Ids : disk'[id] \in {files[id], disk[id]}
      BY <1>1 DEF PowerLoss
    <2> QED  BY <1>1, <2>1 DEF PowerLoss, Known, Present, histVars
  <1>2. CASE /\ UNCHANGED <<files, published>>
             /\ disk' \in {disk, files} /\ doomed' \in {doomed, Present(files)}
    BY <1>2 DEF Known, Present
  <1>3. CASE CommitRename
    <2>1. CASE /\ SetFiles([files EXCEPT ![http.id] = temps[http.id]])
               /\ published' = published \cup {http.id}
      <3>1. \A id \in Ids \ {http.id} : files'[id] = files[id] /\ disk'[id] \in {disk[id], files[id]}
        BY <1>0, <2>1, HttpTypes DEF SetFiles, Dirs
      <3> QED  BY <1>3, <2>1, <3>1 DEF CommitRename, HttpFrame, Known, Present
    <2>2. CASE UNCHANGED <<fsVars, published>>
      BY <1>3, <1>2, <2>2 DEF CommitRename, HttpFrame, fsVars
    <2> QED  BY <1>3, <2>1, <2>2 DEF CommitRename
  <1>4. ASSUME NEW id \in Ids, SetFiles([files EXCEPT ![id] = None]), UNCHANGED <<published, doomed>>
        PROVE  Known'
    <2>1. \A other \in Ids :
             files'[other] \in {files[other], None} /\ disk'[other] \in {disk[other], files[other], None}
      BY <1>0, <1>4, HttpTypes DEF SetFiles, Dirs
    <2> QED  BY <1>4, <2>1 DEF Known, Present
  <1>5. CASE DeleteUnlink
    <2>1. http.id \in Ids /\ UNCHANGED <<published, doomed>>
      BY <1>0, <1>5, HttpTypes DEF DeleteUnlink, HttpFrame
    <2> QED  BY <1>2, <1>4, <1>5, <2>1 DEF DeleteUnlink, dirVars
  <1>6. CASE ResetDelete
    <2>1. Max(reset.todo) \in Ids /\ UNCHANGED <<published, doomed>>
      BY <1>0, <1>6, NewestIsListed, HttpTypes DEF ResetDelete, ResetFrame, ResetRecords
    <2> QED  BY <1>2, <1>4, <1>6, <2>1 DEF ResetDelete, dirVars
  <1>7. CASE CommitSync \/ DeleteSync \/ ResetDeleteSync \/ ResetCleanup
    BY <1>2, <1>7
       DEF CommitSync, DeleteSync, ResetDeleteSync, ResetCleanup, SyncOk, SyncFailed, HttpFrame, ResetFrame
  <1>8. CASE PowerOn \/ BootMount \/ Provision \/ Login \/ EditRead \/ EditReplace
    BY <1>2, <1>8
       DEF PowerOn, BootMount, Provision, Login, EditRead, EditReplace, fsVars, dirVars, histVars
  <1>9. CASE HttpStep /\ ~CommitRename /\ ~CommitSync /\ ~DeleteSync /\ ~DeleteUnlink
    <2>1. UNCHANGED <<files, disk, published, doomed>>
      BY <1>9 DEF HttpStep, UploadAdmit, UploadBegin, UploadStreamed, UploadBroken, CommitClose,
                  CommitPersist, UploadUnlink, DeleteBegin, ListBlobs, fsVars, dirVars, HttpFrame
    <2> QED  BY <1>2, <2>1
  <1>10. CASE (RestartRequest \/ ResetSchedule) /\ ~PowerLoss
    BY <1>2, <1>10 DEF RestartRequest, ResetSchedule, ScheduleFailed, fsVars, histVars
  <1>11. CASE \/ ResetStart \/ ResetMark \/ ResetErase \/ ResetSessions
              \/ RecoveryMount \/ ResetScan \/ RecoveryFailed \/ ResetClear
    <2>1. UNCHANGED <<files, disk, published>>
      BY <1>11 DEF ResetStart, ResetMark, ResetErase, ResetSessions, RecoveryMount, ResetScan,
                   RecoveryFailed, ResetClear, fsVars, dirVars, ResetFrame
    <2>2. doomed' \in {doomed, Present(files)}
      BY <1>11 DEF ResetStart, ResetMark, ResetErase, ResetSessions, RecoveryMount, ResetScan,
                   RecoveryFailed, ResetClear
    <2> QED  BY <1>2, <2>1, <2>2
  <1>12. CASE UNCHANGED vars
    BY <1>2, <1>12 DEF vars
  <1> QED
    BY <1>1, <1>3, <1>5, <1>6, <1>7, <1>8, <1>9, <1>10, <1>11, <1>12
       DEF Next, BootStep, Crash, PowerCycle, TimerFires, ResetStep

\* Only the HTTP task, a power cut and a boot touch what Above is about.
LEMMA AboveKeeps ==
    ASSUME ~ParentSync, TInv, CInv, Above, [Next]_vars
    PROVE  Above'
  <1>0. TypeOK /\ published \subseteq Nat /\ nextId \in Nat /\ scanNext \in Nat /\ http.id \in Nat
    BY HttpTypes DEF TInv, Ids
  <1>a. HttpPcs = {"idle", "begin", "stream", "close", "persist", "rename", "sync", "cleanup",
                   "abort", "unlink", "synclast"}
    BY DEF HttpPcs
  <1>b. /\ \A pc \in HttpPcs : HttpGoto(pc) => http'.pc = pc /\ http'.id = http.id
        /\ HttpDone => http'.pc = "idle"
    BY <1>0, HttpMoves
  <1>1. CASE PowerLoss
    BY <1>1 DEF PowerLoss, Above, NoHttp, nvsVars, histVars
  <1>2. CASE BootMount
    <2>1. http.pc = "idle" /\ UNCHANGED <<http, nextId, published>>
      BY <1>2 DEF BootMount, CInv, Placed, nvsVars, histVars
    <2>2. power' = "up" => scanNext' \in Nat /\ scanNext' >= nextId
      BY <1>0, <1>2, DeriveNextBounds, HttpTypes DEF BootMount, Halt
    <2> QED  BY <1>0, <2>1, <2>2 DEF Above
  <1>3. CASE UNCHANGED <<http, nextId, scanNext, published>> /\ (power' = "up" => power = "up")
    BY <1>3 DEF Above
  <1>4. CASE HttpStep
    <2>0. power = "up" /\ power' = "up"
      BY <1>4, HttpFrames DEF HttpFrame
    <2>1. ASSUME NEW p \in Payloads, UploadAdmit(p) PROVE Above'
      BY <2>0, <2>1 DEF UploadAdmit, HttpFree, Above, NoHttp
    <2>2. CASE UploadBegin
      <3>1. http.pc = "begin" /\ UNCHANGED <<nextId, scanNext, published>>
        BY <2>2 DEF UploadBegin, HttpAt
      <3>2. http'.pc = "idle" \/ (http'.pc = "stream" /\ http'.id = scanNext)
        BY <1>0, <1>b, <2>2, HttpTypes DEF UploadBegin, HttpRecords
      <3> QED  BY <2>0, <3>1, <3>2 DEF Above
    <2>3. CASE UploadStreamed \/ UploadBroken \/ CommitClose
      <3>1. http.pc \in {"stream", "close"} /\ UNCHANGED <<nextId, scanNext, published>>
        BY <2>3 DEF UploadStreamed, UploadBroken, CommitClose, HttpAt
      <3>2. http'.pc \in {"close", "abort", "persist", "cleanup"} /\ http'.id = http.id
        BY <1>a, <1>b, <2>3 DEF UploadStreamed, UploadBroken, CommitClose, AfterBreak
      <3> QED  BY <2>0, <3>1, <3>2 DEF Above
    <2>4. CASE CommitPersist
      <3>1. http.pc = "persist" /\ UNCHANGED <<scanNext, published>> /\ http'.id = http.id
            /\ \/ http'.pc = "rename" /\ nextId' = http.id + 1
               \/ http'.pc = "cleanup" /\ nextId' \in {nextId, http.id + 1}
        BY <1>a, <1>b, <2>4 DEF CommitPersist, HttpAt
      <3> QED  BY <1>0, <2>0, <3>1 DEF Above
    <2>5. CASE CommitRename
      <3>1. http.pc = "rename" /\ UNCHANGED <<nextId, scanNext>> /\ http'.id = http.id
            /\ \/ http'.pc = "sync" /\ published' = published \cup {http.id}
               \/ http'.pc = "cleanup" /\ UNCHANGED published
        BY <1>a, <1>b, <2>5 DEF CommitRename, HttpAt
      <3>2. CASE UNCHANGED published /\ http'.pc = "cleanup"
        BY <2>0, <3>1, <3>2 DEF Above
      <3>3. CASE published' = published \cup {http.id} /\ http'.pc = "sync"
        BY <1>0, <2>0, <3>1, <3>3 DEF Above
      <3> QED  BY <3>1, <3>2, <3>3
    <2>6. CASE CommitSync
      <3>1. http.pc = "sync" /\ UNCHANGED <<nextId, published>> /\ http'.pc = "idle"
            /\ scanNext' = http.id + 1
        BY <1>b, <2>6 DEF CommitSync, HttpAt, SyncFailed
      <3> QED  BY <1>0, <2>0, <3>1 DEF Above
    <2>7. CASE UploadUnlink
      <3>1. http.pc \in {"cleanup", "abort"} /\ UNCHANGED <<nextId, scanNext, published>>
            /\ http'.pc \in {"abort", "idle"}
        BY <1>a, <1>b, <2>7 DEF UploadUnlink
      <3> QED  BY <2>0, <3>1 DEF Above
    <2>8. ASSUME NEW id \in Ids, DeleteBegin(id) PROVE Above'
      BY <2>0, <2>8 DEF DeleteBegin, HttpFree, Above, NoHttp
    <2>9. CASE DeleteUnlink \/ DeleteSync
      <3>1. http.pc \in {"unlink", "synclast"} /\ UNCHANGED <<nextId, scanNext, published>>
            /\ http'.pc \in {"synclast", "idle"}
        BY <1>a, <1>b, <2>9 DEF DeleteUnlink, DeleteSync, HttpAt
      <3> QED  BY <2>0, <3>1 DEF Above
    <2>10. CASE ListBlobs
      <3>1. http.pc = "idle" /\ UNCHANGED <<nextId, http, published>>
        BY <2>10 DEF ListBlobs, HttpFree
      <3>2. scanNext' \in Nat /\ scanNext' >= scanNext
        BY <1>0, <2>10, DeriveNextBounds, HttpTypes DEF ListBlobs
      <3> QED  BY <1>0, <2>0, <3>1, <3>2 DEF Above
    <2> QED  BY <1>4, <2>1, <2>2, <2>3, <2>4, <2>5, <2>6, <2>7, <2>8, <2>9, <2>10 DEF HttpStep
  <1>5. CASE PowerOn \/ Provision \/ Login \/ EditRead \/ EditReplace
    BY <1>3, <1>5
       DEF PowerOn, EntryStage, Provision, Login, EditRead, EditReplace, fsVars, nvsVars, histVars
  <1>6. CASE (RestartRequest \/ ResetSchedule) /\ ~PowerLoss
    BY <1>3, <1>6 DEF RestartRequest, ResetSchedule, ScheduleFailed, nvsVars, histVars
  <1>7. CASE ResetStart \/ ResetMark \/ ResetErase \/ ResetSessions \/ RecoveryMount \/ ResetScan
             \/ ResetDelete \/ ResetDeleteSync \/ ResetCleanup \/ RecoveryFailed \/ ResetClear
    <2>1. UNCHANGED <<http, nextId, scanNext, published>>
      BY <1>7 DEF ResetStart, ResetMark, ResetErase, ResetSessions, RecoveryMount, ResetScan,
                  ResetDelete, ResetDeleteSync, ResetCleanup, RecoveryFailed, ResetClear, ResetFrame
    <2>2. power' = "up" => power = "up"
      BY <1>7 DEF ResetStart, ResetMark, ResetErase, ResetSessions, RecoveryMount, ResetScan, Halt,
                  ResetDelete, ResetDeleteSync, ResetCleanup, RecoveryFailed, ResetClear
    <2> QED  BY <1>3, <2>1, <2>2
  <1>8. CASE UNCHANGED vars
    BY <1>3, <1>8 DEF vars
  <1> QED
    BY <1>1, <1>2, <1>4, <1>5, <1>6, <1>7, <1>8
       DEF Next, BootStep, Crash, PowerCycle, TimerFires, ResetStep

-----------------------------------------------------------------------------
(* What a reset has done.                                                   *)

\* Either renames are durable at once, or the reset runs on the HTTP task.
Careful == ~ParentSync \/ ~ResetOnWorker

\* The settings are erased before the reset goes on.
Wiped ==
    /\ reset.pc \in {"mount", "sessions", "scan", "delete", "cleanup", "clear", "fail"} => wiped
    /\ reset.pc = "schedule" /\ ~reset.error => wiped
    /\ reset.pc = "clear" => ~reset.error

\* What the medium still holds of a blob.
Gone(id)    == files[id] = None /\ disk[id] = None
Unsynced(id) == files[id] = None /\ disk[id] # None

\* The reset has listed what it has found, or removed it, or has met an error.
Doing ==
    /\ ~ResetOnWorker /\ reset.pc # "idle" => http.pc = "idle"
    /\ reset.pc \in {"erase", "mount", "sessions", "scan"} => \A id \in doomed : ~Unsynced(id)
    /\ reset.pc = "delete" /\ ~reset.error => \A id \in doomed :
          (files[id] # None => id \in reset.todo) /\ (Unsynced(id) => reset.deleted)
    /\ reset.pc \in {"cleanup", "schedule", "clear"} /\ ~reset.error => \A id \in doomed : Gone(id)

\* A failed erase keeps its error to the end.
LEMMA WipedKeeps ==
    ASSUME TInv, Wiped, [Next]_vars
    PROVE  Wiped'
  <1>0. TypeOK /\ reset \in ResetRecords
    BY HttpTypes DEF TInv
  <1>a. ResetPcs = {"idle", "mark", "erase", "mount", "sessions", "scan", "delete", "cleanup",
                    "fail", "schedule", "clear"}
    BY DEF ResetPcs
  <1>b. /\ \A pc \in ResetPcs : ResetGoto(pc) => reset'.pc = pc /\ reset'.error = reset.error
        /\ \A pc \in ResetPcs : ResetGotoError(pc) => reset'.pc = pc /\ reset'.error
    BY <1>0, ResetMoves
  <1>c. ResetOver \/ Halt => reset'.pc = "idle"
    BY <1>0, ResetMoves
  <1>1. CASE reset'.pc \in {"idle", "mark", "erase"}
    BY <1>1 DEF Wiped
  <1>2. CASE UNCHANGED <<reset, wiped>>
    BY <1>2 DEF Wiped
  <1>3. CASE PowerLoss
    BY <1>1, <1>3 DEF PowerLoss, NoReset
  <1>4. CASE PowerOn
    BY <1>1, <1>4 DEF PowerOn, NoReset
  <1>5. CASE BootMount
    BY <1>1, <1>2, <1>5, <1>c DEF BootMount, histVars
  <1>6. CASE Provision \/ Login \/ EditRead \/ EditReplace
    BY <1>2, <1>6 DEF Provision, Login, EditRead, EditReplace, histVars
  <1>7. CASE HttpStep
    BY <1>2, <1>7, HttpFrames DEF HttpFrame
  <1>8. CASE RestartRequest /\ ~PowerLoss
    BY <1>2, <1>8 DEF RestartRequest, histVars
  <1>9. CASE ResetStart
    BY <1>1, <1>9, <1>a, <1>b DEF ResetStart
  <1>10. CASE ResetMark
    <2>1. reset'.pc \in {"idle", "erase"}
      BY <1>0, <1>10 DEF ResetMark, ResetRecords, NoReset
    <2> QED  BY <1>1, <2>1
  <1>11. CASE ResetErase
    <2>1. \/ wiped' /\ reset'.pc \in {"sessions", "mount"}
          \/ reset'.pc = "schedule" /\ reset'.error
          \/ reset'.pc = "idle"
      BY <1>11, <1>a, <1>b, <1>c DEF ResetErase
    <2> QED  BY <2>1 DEF Wiped
  <1>12. CASE ResetSessions \/ RecoveryMount \/ ResetScan
    <2>1. wiped /\ UNCHANGED wiped
      BY <1>12 DEF ResetSessions, RecoveryMount, ResetScan, ResetAt, Wiped
    <2>2. reset'.pc \in {"scan", "delete", "cleanup", "idle"}
      BY <1>0, <1>12, <1>a, <1>b, <1>c DEF ResetSessions, RecoveryMount, ResetScan, ResetRecords
    <2> QED  BY <2>1, <2>2 DEF Wiped
  <1>13. CASE ResetDelete \/ ResetDeleteSync
    <2>1. wiped /\ UNCHANGED wiped
      BY <1>13 DEF ResetDelete, ResetDeleteSync, ResetAt, Wiped
    <2>2. reset'.pc \in {"delete", "cleanup"}
      BY <1>0, <1>13, <1>a, <1>b DEF ResetDelete, ResetDeleteSync, ResetAt, ResetRecords
    <2> QED  BY <2>1, <2>2 DEF Wiped
  <1>14. CASE ResetCleanup
    <2>1. wiped /\ UNCHANGED wiped
      BY <1>14 DEF ResetCleanup, ResetAt, Wiped
    <2>2. \/ reset'.pc \in {"schedule", "idle", "fail"}
          \/ reset'.pc = "clear" /\ ~reset'.error
      BY <1>14, <1>a, <1>b, <1>c DEF ResetCleanup
    <2> QED  BY <2>1, <2>2 DEF Wiped
  <1>15. CASE RecoveryFailed \/ ResetClear
    BY <1>1, <1>15, <1>c DEF RecoveryFailed, ResetClear
  <1>16. CASE ResetSchedule /\ ~PowerLoss
    <2>1. UNCHANGED wiped /\ reset.pc = "schedule"
          /\ (reset'.pc = "idle" \/ (reset'.pc = "clear" /\ ~reset.error /\ ~reset'.error))
      BY <1>16, <1>a, <1>b, <1>c DEF ResetSchedule, ScheduleFailed, ResetAt, MayClear, histVars
    <2> QED  BY <2>1 DEF Wiped
  <1>17. CASE UNCHANGED vars
    BY <1>2, <1>17 DEF vars
  <1> QED
    BY <1>3, <1>4, <1>5, <1>6, <1>7, <1>8, <1>9, <1>10, <1>11, <1>12, <1>13, <1>14, <1>15, <1>16, <1>17
       DEF Next, BootStep, Crash, PowerCycle, TimerFires, ResetStep

\* A request of the HTTP task brings nothing back that the reset has found.
LEMMA HttpLeavesDoomed ==
    ASSUME TInv, CInv, Known, ~ParentSync => Above, Doing, Careful, HttpStep,
           reset.pc # "idle", NEW id \in doomed
    PROVE  /\ files'[id] \in {files[id], None} /\ ~ParentSync
           /\ disk'[id] = files'[id] /\ disk[id] = files[id]
  <1>0. TypeOK /\ id \in Ids /\ files \in Dirs /\ http.id \in Ids /\ published \subseteq Ids
    BY HttpTypes, ResetTypes DEF TInv
  <1>1. ResetOnWorker /\ ~ParentSync
    <2>1. CASE ~ResetOnWorker
      BY <2>1 DEF Doing, HttpStep, UploadAdmit, UploadBegin, UploadStreamed, UploadBroken, CommitClose,
                  CommitPersist, CommitRename, CommitSync, UploadUnlink, DeleteBegin, DeleteUnlink,
                  DeleteSync, ListBlobs, HttpFree, HttpAt
    <2> QED  BY <2>1 DEF Careful
  <1>2. files = disk /\ files' = disk'
    BY <1>1, HttpDurable DEF CInv, Placed
  <1>3. files'[id] \in {files[id], None}
    <2>1. CASE CommitRename
      <3>1. http.id # id
        BY <1>0, <1>1, <2>1 DEF CommitRename, HttpAt, Above, Known, Ids
      <3> QED  BY <1>0, <2>1, <3>1 DEF CommitRename, SetFiles, Dirs, fsVars
    <2>2. CASE DeleteUnlink
      BY <1>0, <2>2 DEF DeleteUnlink, SetFiles, Dirs, dirVars
    <2>3. CASE ~CommitRename /\ ~DeleteUnlink
      BY <2>3 DEF HttpStep, UploadAdmit, UploadBegin, UploadStreamed, UploadBroken, CommitClose,
                  CommitPersist, CommitSync, UploadUnlink, DeleteBegin, DeleteSync, ListBlobs,
                  fsVars, dirVars
    <2> QED  BY <2>1, <2>2, <2>3
  <1> QED  BY <1>1, <1>2, <1>3

\* Every step keeps what the reset has done.
LEMMA DoingKeeps ==
    ASSUME Careful, TInv, CInv, Known, ~ParentSync => Above, Doing, [Next]_vars
    PROVE  Doing'
  <1>0. TypeOK /\ reset \in ResetRecords /\ files \in Dirs /\ disk \in Dirs /\ doomed \subseteq Ids
    BY HttpTypes, ResetTypes DEF TInv
  <1>a. ResetPcs = {"idle", "mark", "erase", "mount", "sessions", "scan", "delete", "cleanup",
                    "fail", "schedule", "clear"}
    BY DEF ResetPcs
  <1>b. /\ \A pc \in ResetPcs : ResetGoto(pc) => reset'.pc = pc /\ reset'.error = reset.error
        /\ \A pc \in ResetPcs : ResetGotoError(pc) => reset'.pc = pc /\ reset'.error
    BY <1>0, ResetMoves
  <1>c. ResetOver \/ Halt => reset'.pc = "idle"
    BY <1>0, ResetMoves
  <1>1. CASE reset'.pc = "idle"
    BY <1>1 DEF Doing
  <1>2. CASE UNCHANGED <<files, disk, reset, doomed, http>>
    BY <1>2 DEF Doing, Gone, Unsynced
  <1>3. CASE PowerLoss
    BY <1>1, <1>3 DEF PowerLoss, NoReset
  <1>4. CASE PowerOn
    <2>1. files = disk /\ http.pc = "idle" /\ UNCHANGED <<files, disk, http, doomed>>
          /\ reset'.pc \in {"erase", "idle"}
      BY <1>4 DEF PowerOn, NoReset, CInv, Placed, fsVars, histVars
    <2> QED  BY <2>1 DEF Doing, Unsynced
  <1>5. CASE BootMount
    BY <1>1, <1>2, <1>5, <1>c DEF BootMount, dirVars, histVars
  <1>6. CASE Provision \/ Login \/ EditRead \/ EditReplace
    BY <1>2, <1>6 DEF Provision, Login, EditRead, EditReplace, fsVars, histVars
  <1>7. CASE HttpStep
    <2>1. UNCHANGED <<reset, doomed>>
      BY <1>7, HttpFrames DEF HttpFrame
    <2>2. CASE reset.pc = "idle"
      BY <1>1, <2>1, <2>2
    <2>3. CASE reset.pc # "idle"
      <3>1. \A id \in doomed : /\ files'[id] \in {files[id], None} /\ disk'[id] = files'[id]
                               /\ disk[id] = files[id]
        BY <1>7, <2>3, HttpLeavesDoomed
      <3>2. ResetOnWorker
        BY <1>7, <2>3 DEF Doing, HttpStep, UploadAdmit, UploadBegin, UploadStreamed, UploadBroken,
                  CommitClose, CommitPersist, CommitRename, CommitSync, UploadUnlink, DeleteBegin,
                  DeleteUnlink, DeleteSync, ListBlobs, HttpFree, HttpAt
      <3> QED  BY <2>1, <3>1, <3>2 DEF Doing, Gone, Unsynced
    <2> QED  BY <2>2, <2>3
  <1>8. CASE RestartRequest /\ ~PowerLoss
    BY <1>2, <1>8 DEF RestartRequest, fsVars, histVars
  <1>9. CASE ResetStart
    <2>1. reset'.pc = "mark" /\ UNCHANGED http /\ (ResetOnWorker \/ http.pc = "idle")
      BY <1>9, <1>a, <1>b DEF ResetStart, ResetFrame, AdminFree
    <2> QED  BY <2>1 DEF Doing
  <1>10. CASE ResetMark
    <2>1. reset.pc = "mark" /\ UNCHANGED <<files, disk, http>>
          /\ (reset'.pc = "idle" \/ (reset'.pc = "erase" /\ doomed' = Present(files)))
      BY <1>0, <1>10 DEF ResetMark, ResetAt, ResetRecords, NoReset, ResetFrame, fsVars
    <2> QED  BY <2>1 DEF Doing, Unsynced, Present
  <1>11. CASE ResetErase \/ ResetSessions \/ RecoveryMount
    <2>1. reset.pc \in {"erase", "sessions", "mount"} /\ UNCHANGED <<files, disk, http, doomed>>
      BY <1>11 DEF ResetErase, ResetSessions, RecoveryMount, ResetAt, ResetFrame, fsVars, dirVars
    <2>2. reset'.pc \in {"idle", "sessions", "mount", "scan"} \/ (reset'.pc = "schedule" /\ reset'.error)
      BY <1>11, <1>a, <1>b, <1>c DEF ResetErase, ResetSessions, RecoveryMount
    <2> QED  BY <2>1, <2>2 DEF Doing, Gone, Unsynced
  <1>12. CASE ResetScan
    <2>1. reset.pc = "scan" /\ UNCHANGED <<files, disk, http, doomed>>
      BY <1>12 DEF ResetScan, ResetAt, ResetFrame, fsVars
    <2>2. \/ (reset'.pc = "delete" /\ reset'.todo = Present(files))
          \/ (reset'.pc = "cleanup" /\ reset'.error)
      BY <1>0, <1>12, <1>a, <1>b DEF ResetScan, ResetRecords
    <2> QED  BY <1>0, <2>1, <2>2 DEF Doing, Gone, Unsynced, Present
  <1>13. CASE ResetDelete
    <2>1. reset.pc = "delete" /\ UNCHANGED <<http, doomed>> /\ reset'.pc = "delete"
      BY <1>0, <1>13 DEF ResetDelete, ResetAt, ResetFrame, ResetRecords
    <2>2. CASE reset'.error
      BY <2>1, <2>2 DEF Doing
    <2>3. CASE ~reset'.error
      <3>1. /\ SetFiles([files EXCEPT ![Max(reset.todo)] = None])
            /\ reset'.todo = reset.todo \ {Max(reset.todo)} /\ reset'.deleted /\ ~reset.error
        BY <1>0, <1>13, <2>3 DEF ResetDelete, ResetRecords
      <3>2. \A id \in doomed : files'[id] = IF id = Max(reset.todo) THEN None ELSE files[id]
        BY <1>0, <3>1 DEF SetFiles, Dirs
      <3> QED  BY <2>1, <3>1, <3>2 DEF Doing, Unsynced
    <2> QED  BY <2>2, <2>3
  <1>14. CASE ResetDeleteSync
    <2>1. reset.pc = "delete" /\ reset.todo = {} /\ UNCHANGED <<files, http, doomed>>
      BY <1>14 DEF ResetDeleteSync, ResetAt, ResetFrame
    <2>2. reset'.pc = "cleanup"
      BY <1>14, <1>a, <1>b DEF ResetDeleteSync
    <2>3. CASE reset'.error
      BY <2>1, <2>2, <2>3 DEF Doing
    <2>4. CASE ~reset'.error
      <3>1. ~reset.error /\ (disk' = files \/ (~reset.deleted /\ UNCHANGED disk))
        BY <1>14, <1>a, <1>b, <2>4 DEF ResetDeleteSync, SyncOk
      <3> QED  BY <2>1, <2>2, <3>1 DEF Doing, Gone, Unsynced
    <2> QED  BY <2>3, <2>4
  <1>15. CASE ResetCleanup
    <2>1. reset.pc = "cleanup" /\ UNCHANGED <<files, http, doomed>>
          /\ disk' \in {disk, files}
      BY <1>15 DEF ResetCleanup, ResetAt, ResetFrame, SyncOk, SyncFailed
    <2>2. /\ reset'.pc \in {"schedule", "fail", "clear", "idle"}
          /\ (~reset'.error /\ reset'.pc # "idle" => ~reset.error)
      BY <1>15, <1>a, <1>b, <1>c DEF ResetCleanup
    <2> QED  BY <2>1, <2>2 DEF Doing, Gone
  <1>16. CASE RecoveryFailed \/ ResetClear
    BY <1>1, <1>16, <1>c DEF RecoveryFailed, ResetClear
  <1>17. CASE ResetSchedule /\ ~PowerLoss
    <2>1. reset.pc = "schedule" /\ UNCHANGED <<files, disk, http, doomed>>
          /\ (reset'.pc = "idle" \/ (reset'.pc = "clear" /\ reset'.error = reset.error))
      BY <1>17, <1>a, <1>b, <1>c DEF ResetSchedule, ScheduleFailed, ResetAt, fsVars, histVars
    <2> QED  BY <2>1 DEF Doing, Gone
  <1>18. CASE UNCHANGED vars
    BY <1>2, <1>18 DEF vars
  <1> QED
    BY <1>3, <1>4, <1>5, <1>6, <1>7, <1>8, <1>9, <1>10, <1>11, <1>12, <1>13, <1>14, <1>15, <1>16, <1>17,
       <1>18 DEF Next, BootStep, Crash, PowerCycle, TimerFires, ResetStep

-----------------------------------------------------------------------------
(* The theorems.                                                            *)

\* The inductive invariant.
IInv == /\ TInv /\ CInv /\ Known /\ Wiped
        /\ ~ParentSync => Above
        /\ Careful => Doing

\* A new device.
LEMMA InitHolds == Init => IInv
  <1> SUFFICES ASSUME Init PROVE IInv
    OBVIOUS
  <1>1. http.pc = "idle" /\ http \in HttpRecords /\ reset.pc = "idle" /\ reset \in ResetRecords
    BY NothingTypes DEF Init, NoHttp, NoReset
  <1>2. files \in Dirs /\ disk \in Dirs /\ temps \in TempDirs
    BY NothingTypes DEF Init
  <1>3. scanNext \in 1 .. LastId /\ nextId \in 0 .. LastId
    BY StoreAssumption DEF Init
  <1>4. faults \in Int /\ crashes \in Int
    BY StoreAssumption DEF Init
  <1>5. TInv
    BY <1>1, <1>2, <1>3, <1>4 DEF Init, TInv, TypeOK, Whole, Dirs, TempDirs, HttpRecords, ResetRecords
  <1>6. CInv /\ Wiped /\ Above /\ Doing
    BY <1>1 DEF Init, CInv, Placed, Accepted, PendingIsOwned, Wiped, Above, Doing
  <1>7. Known
    BY DEF Init, Known, Present, NoDir
  <1> QED  BY <1>5, <1>6, <1>7 DEF IInv

\* The strengthening of the theorems below is an invariant.
THEOREM Invariant == Spec => []IInv
  <1>1. IInv /\ [Next]_vars => IInv'
    BY TypesKeep, ControlKeeps, KnownKeeps, WipedKeeps, AboveKeeps, DoingKeeps DEF IInv
  <1> QED  BY <1>1, InitHolds, PTL DEF Spec

\* Every variable keeps its type; a temporary file that is renamed is whole
\* (storage_blob_upload_core.c).
THEOREM TypeCorrect == Spec => []TypeOK
  <1>1. IInv => TypeOK
    BY DEF IInv, TInv
  <1> QED  BY <1>1, Invariant, PTL

\* While PENDING is stored on a running device, a task or the restart timer owns the reset
\* (device_controls_reset.c).
THEOREM ResetHasOwner == Spec => []PendingIsOwned
  <1>1. IInv => PendingIsOwned
    BY DEF IInv, CInv
  <1> QED  BY <1>1, Invariant, PTL

\* On LittleFS the id of a blob never comes to name another one (storage_blob_upload_core.c).
THEOREM IdsStayUnique == ~ParentSync => (Spec => IdNeverReused)
  <1> SUFFICES ASSUME ~ParentSync PROVE Spec => IdNeverReused
    OBVIOUS
  <1> DEFINE Step == \A id \in published : files[id] = None => files'[id] = None
  <1>1. IInv /\ [Next]_vars => [Step]_vars
    <2> SUFFICES ASSUME IInv, Next, NEW id \in published, files[id] = None
                 PROVE  files'[id] = None
      BY DEF IInv
    <2>1. /\ TypeOK /\ id \in Ids /\ files \in Dirs /\ files = disk /\ http.id \in Ids
          /\ Above /\ reset \in ResetRecords
      BY HttpTypes DEF IInv, TInv, CInv, Placed
    <2>2. CASE PowerLoss
      BY <2>1, <2>2 DEF PowerLoss
    <2>3. CASE CommitRename
      <3>1. http.id # id
        BY <2>1, <2>3 DEF CommitRename, HttpAt, Above, Ids
      <3> QED  BY <2>1, <2>3, <3>1 DEF CommitRename, SetFiles, Dirs, fsVars
    <2>4. CASE DeleteUnlink
      BY <2>1, <2>4 DEF DeleteUnlink, SetFiles, Dirs, dirVars
    <2>5. CASE ResetDelete
      <3>1. Max(reset.todo) \in Ids
        BY <2>1, <2>5, NewestIsListed DEF ResetDelete, ResetRecords
      <3> QED  BY <2>1, <2>5, <3>1 DEF ResetDelete, SetFiles, Dirs, dirVars
    <2>6. CASE UNCHANGED files
      BY <2>6
    <2>7. CASE HttpStep /\ ~CommitRename /\ ~DeleteUnlink
      <3>1. UNCHANGED files
        BY <2>7 DEF HttpStep, UploadAdmit, UploadBegin, UploadStreamed, UploadBroken, CommitClose,
                    CommitPersist, CommitSync, UploadUnlink, DeleteBegin, DeleteSync, ListBlobs,
                    fsVars, dirVars
      <3> QED  BY <2>6, <3>1
    <2>8. CASE PowerOn \/ BootMount \/ Provision \/ Login \/ EditRead \/ EditReplace
      <3>1. UNCHANGED files
        BY <2>8 DEF PowerOn, BootMount, Provision, Login, EditRead, EditReplace, fsVars, dirVars
      <3> QED  BY <2>6, <3>1
    <2>9. CASE (RestartRequest \/ ResetSchedule) /\ ~PowerLoss
      <3>1. UNCHANGED files
        BY <2>9 DEF RestartRequest, ResetSchedule, ScheduleFailed, fsVars
      <3> QED  BY <2>6, <3>1
    <2>10. CASE ResetStart \/ ResetMark \/ ResetErase \/ ResetSessions \/ RecoveryMount \/ ResetScan
                \/ ResetDeleteSync \/ ResetCleanup \/ RecoveryFailed \/ ResetClear
      <3>1. UNCHANGED files
        BY <2>10 DEF ResetStart, ResetMark, ResetErase, ResetSessions, RecoveryMount, ResetScan,
                     ResetDeleteSync, ResetCleanup, RecoveryFailed, ResetClear, fsVars, dirVars
      <3> QED  BY <2>6, <3>1
    <2> QED
      BY <2>2, <2>3, <2>4, <2>5, <2>7, <2>8, <2>9, <2>10
         DEF Next, BootStep, Crash, PowerCycle, TimerFires, ResetStep
  <1> QED  BY <1>1, Invariant, PTL DEF Spec, IdNeverReused

\* PENDING is cleared only when the settings are erased, what the reset has found is durably
\* gone and the restart is armed (device_controls_reset.c, factory_reset_recovery_engine.c):
\* on LittleFS, or if the reset runs on the HTTP task.
THEOREM ClearedWhenDone == Careful => (Spec => ClearOnlyWhenDone)
  <1> SUFFICES ASSUME Careful PROVE Spec => ClearOnlyWhenDone
    OBVIOUS
  <1> DEFINE Step == marker /\ ~marker' =>
                        /\ wiped
                        /\ \A id \in doomed : files[id] = None /\ disk[id] = None
                        /\ timer \/ power = "recovery"
  <1>1. IInv /\ [Next]_vars => [Step]_vars
    <2> SUFFICES ASSUME IInv, Next, marker, ~marker'
                 PROVE  /\ wiped
                        /\ \A id \in doomed : files[id] = None /\ disk[id] = None
                        /\ timer \/ power = "recovery"
      OBVIOUS
    <2>1. ResetClear
      <3>1. ~PowerLoss /\ ~HttpStep
        BY HttpFrames DEF PowerLoss, HttpFrame, nvsVars
      <3>2. ~(PowerOn \/ BootMount \/ Provision \/ Login \/ EditRead \/ EditReplace)
        BY DEF PowerOn, BootMount, Provision, Login, EditRead, EditReplace, nvsVars
      <3>3. ~(ResetStart \/ ResetMark \/ ResetErase \/ ResetSessions \/ RecoveryMount \/ ResetScan
              \/ ResetDelete \/ ResetDeleteSync \/ ResetCleanup \/ RecoveryFailed)
        BY DEF ResetStart, ResetMark, ResetErase, ResetSessions, RecoveryMount, ResetScan,
               ResetDelete, ResetDeleteSync, ResetCleanup, RecoveryFailed
      <3>4. ~RestartRequest /\ ~ResetSchedule
        BY <3>1 DEF RestartRequest, ResetSchedule, ScheduleFailed, nvsVars
      <3> QED
        BY <3>1, <3>2, <3>3, <3>4 DEF Next, BootStep, Crash, PowerCycle, TimerFires, ResetStep
    <2>2. reset.pc = "clear" /\ power \in {"up", "recovery"}
      BY <2>1 DEF ResetClear, ResetAt
    <2> QED  BY <2>2 DEF IInv, Wiped, Doing, Gone, CInv, Accepted
  <1> QED  BY <1>1, Invariant, PTL DEF Spec, ClearOnlyWhenDone
-----------------------------------------------------------------------------
(* The refinement of BlobService.                                           *)

\* What was answered with 201 is on the medium; the id of an upload that is about to be
\* renamed is still free.
Durable == \A id \in acked : files[id] # None /\ disk[id] = files[id]
Free    == http.pc \in {"persist", "rename"} => files[http.id] = None
BInv    == Durable /\ Free

\* The steps that leave the directory, and what was answered, alone.
Quiet == UNCHANGED <<files, disk, acked>>

\* Which steps those are.
LEMMA Changes ==
    ASSUME Next
    PROVE  \/ PowerLoss \/ CommitRename \/ CommitSync \/ DeleteUnlink \/ ResetDelete
           \/ DeleteSync \/ ResetDeleteSync \/ ResetCleanup
           \/ Quiet /\ (HttpStep \/ UNCHANGED http)
  <1>1. CASE HttpStep
    <2>1. CASE CommitRename \/ CommitSync \/ DeleteUnlink \/ DeleteSync
      BY <2>1
    <2>2. ASSUME NEW p \in Payloads, UploadAdmit(p)
          PROVE  Quiet
      BY <2>2 DEF Quiet, UploadAdmit, fsVars, dirVars
    <2>3. ASSUME NEW id \in Ids, DeleteBegin(id)
          PROVE  Quiet
      BY <2>3 DEF Quiet, DeleteBegin, fsVars, dirVars
    <2>4. CASE UploadBegin \/ UploadStreamed \/ UploadBroken \/ UploadUnlink
      BY <1>1, <2>4 DEF Quiet, UploadBegin, UploadStreamed, UploadBroken, UploadUnlink, fsVars, dirVars
    <2>5. CASE CommitClose \/ CommitPersist \/ ListBlobs
      BY <1>1, <2>5 DEF Quiet, CommitClose, CommitPersist, ListBlobs, fsVars, dirVars
    <2> QED  BY <1>1, <2>1, <2>2, <2>3, <2>4, <2>5 DEF HttpStep
  <1>2. CASE PowerOn \/ BootMount \/ Provision \/ Login \/ EditRead \/ EditReplace
    BY <1>2 DEF Quiet, PowerOn, BootMount, Provision, Login, EditRead, EditReplace, fsVars, dirVars,
                histVars
  <1>3. CASE (RestartRequest \/ ResetSchedule) /\ ~PowerLoss
    BY <1>3 DEF Quiet, RestartRequest, ResetSchedule, ScheduleFailed, fsVars, histVars
  <1>4. CASE ResetStart \/ ResetMark \/ ResetErase \/ ResetSessions \/ RecoveryMount \/ ResetScan
             \/ RecoveryFailed \/ ResetClear
    BY <1>4 DEF Quiet, ResetFrame, ResetStart, ResetMark, ResetErase, ResetSessions, RecoveryMount,
                ResetScan, RecoveryFailed, ResetClear, fsVars, dirVars
  <1> QED
    BY <1>1, <1>2, <1>3, <1>4 DEF Next, BootStep, Crash, PowerCycle, TimerFires, ResetStep

\* A directory sync makes the medium agree with the files, or does nothing.
LEMMA Syncs ==
    ASSUME DeleteSync \/ ResetDeleteSync \/ ResetCleanup
    PROVE  /\ UNCHANGED <<files, acked>> /\ disk' \in {disk, files}
           /\ http' = http \/ http'.pc = "idle"
  <1>1. NoHttp.pc = "idle"
    BY DEF NoHttp
  <1>2. CASE DeleteSync
    BY <1>1, <1>2 DEF DeleteSync, SyncOk, SyncFailed, HttpDone
  <1>3. CASE ResetDeleteSync
    BY <1>3 DEF ResetDeleteSync, SyncOk, SyncFailed, ResetFrame
  <1>4. CASE ResetCleanup
    BY <1>4 DEF ResetCleanup, SyncOk, SyncFailed, ResetFrame
  <1> QED  BY <1>2, <1>3, <1>4

\* A reset deletes a blob it has listed.
LEMMA ResetDeletes ==
    ASSUME TInv, ResetDelete
    PROVE  \/ Quiet /\ UNCHANGED http
           \/ \E id \in Ids : /\ SetFiles([files EXCEPT ![id] = None])
                              /\ acked' = acked \ {id} /\ UNCHANGED http
  <1>1. Max(reset.todo) \in Ids
    BY HttpTypes, NewestIsListed DEF TInv, ResetDelete, ResetRecords
  <1> QED  BY <1>1 DEF ResetDelete, ResetFrame, Quiet, dirVars

\* Each of the steps above is one of the service, or a stutter.
LEMMA BlobStep ==
    ASSUME IInv, BInv, [Next]_vars
    PROVE  BInv' /\ [BlobPromises!Next]_(BlobPromises!vars)
  <1>0. /\ TInv /\ TypeOK /\ files \in Dirs /\ disk \in Dirs /\ http \in HttpRecords /\ http.id \in Ids
        /\ acked \subseteq Ids /\ temps \in TempDirs
    BY HttpTypes DEF IInv, TInv
  <1>1. CASE PowerLoss
    <2>1. files' = disk' /\ disk' \in Dirs /\ acked' = acked /\ http'.pc = "idle"
      BY <1>0, <1>1 DEF PowerLoss, histVars, Dirs, NoHttp
    <2>2. \A id \in Ids : files[id] = disk[id] => disk'[id] = disk[id]
      BY <1>0, <1>1 DEF PowerLoss, Dirs
    <2>3. \A id \in acked : files'[id] = files[id]
      BY <1>0, <2>1, <2>2 DEF BInv, Durable
    <2>4. BlobPromises!PowerCut
      BY <2>1, <2>3 DEF BlobPromises!PowerCut, Dirs
    <2> QED  BY <2>1, <2>3, <2>4 DEF BInv, Durable, Free, BlobPromises!Next
  <1>2. CASE CommitRename
    <2>1. CASE temps[http.id] # None /\ SetFiles([files EXCEPT ![http.id] = temps[http.id]])
      <3>1. /\ http.pc = "rename" /\ http'.pc \notin {"persist", "rename"} /\ acked' = acked
            /\ files[http.id] = None /\ http.id \notin acked
        BY <1>0, <1>2, <2>1 DEF CommitRename, HttpAt, HttpGoto, HttpRecords, BInv, Free, Durable
      <3>2. temps[http.id] \in Payloads
        BY <1>0, <2>1, <3>1 DEF IInv, TInv, Whole, TempDirs
      <3>3. /\ files' = [files EXCEPT ![http.id] = temps[http.id]]
            /\ disk' \in {disk, files'}
        BY <2>1 DEF SetFiles
      <3>4. BInv'
        BY <1>0, <3>1, <3>3 DEF BInv, Durable, Free, Dirs
      <3>5. BlobPromises!Publish(http.id, temps[http.id])
        BY <3>1, <3>3 DEF BlobPromises!Publish
      <3> QED  BY <1>0, <3>2, <3>4, <3>5 DEF BlobPromises!Next
    <2>2. CASE Quiet /\ http'.pc = "cleanup"
      BY <2>2 DEF Quiet, BInv, Durable, Free, BlobPromises!vars
    <2>3. \/ temps[http.id] # None /\ SetFiles([files EXCEPT ![http.id] = temps[http.id]])
          \/ HttpGoto("cleanup") /\ UNCHANGED fsVars /\ acked' = acked
      BY <1>2 DEF CommitRename
    <2>4. HttpGoto("cleanup") => http'.pc = "cleanup"
      BY <1>0, HttpMoves DEF HttpPcs
    <2>5. UNCHANGED fsVars /\ acked' = acked => Quiet
      BY DEF Quiet, fsVars, dirVars
    <2> QED  BY <2>1, <2>2, <2>3, <2>4, <2>5
  <1>3. CASE CommitSync
    <2>1. http'.pc = "idle" /\ files' = files
      BY <1>3 DEF CommitSync, HttpDone, NoHttp
    <2>2. CASE acked' = acked /\ disk' \in {disk, files}
      BY <2>1, <2>2 DEF BInv, Durable, Free, BlobPromises!vars
    <2>3. CASE files[http.id] # None /\ acked' = acked \cup {http.id} /\ disk' = files
      <3>1. BlobPromises!Acknowledge(http.id)
        BY <2>1, <2>3 DEF BlobPromises!Acknowledge
      <3> QED  BY <1>0, <2>1, <2>3, <3>1 DEF BInv, Durable, Free, BlobPromises!Next
    <2> QED  BY <1>3, <2>2, <2>3 DEF CommitSync, SyncOk, SyncFailed
  <1>4. ASSUME NEW id \in Ids, SetFiles([files EXCEPT ![id] = None]), acked' = acked \ {id},
               http'.pc \notin {"persist", "rename"} \/ http' = http
        PROVE  BInv' /\ [BlobPromises!Next]_(BlobPromises!vars)
    <2>1. files' = [files EXCEPT ![id] = None] /\ disk' \in {disk, files'}
      BY <1>4 DEF SetFiles
    <2>2. BInv'
      BY <1>0, <1>4, <2>1 DEF BInv, Durable, Free, Dirs
    <2>3. BlobPromises!Remove(id)
      BY <1>4, <2>1 DEF BlobPromises!Remove
    <2> QED  BY <2>2, <2>3 DEF BlobPromises!Next
  <1>5. CASE Quiet /\ (http'.pc \notin {"persist", "rename"} \/ http' = http)
    BY <1>5 DEF Quiet, BInv, Durable, Free, BlobPromises!vars
  <1>6. CASE DeleteUnlink
    <2>1. http'.pc \notin {"persist", "rename"}
      BY <1>0, <1>6 DEF DeleteUnlink, HttpGoto, HttpDone, NoHttp, HttpRecords
    <2> QED  BY <1>0, <1>4, <1>5, <1>6, <2>1 DEF DeleteUnlink, Quiet, dirVars
  <1>7. CASE ResetDelete
    BY <1>0, <1>4, <1>5, <1>7, ResetDeletes
  <1>8. CASE DeleteSync \/ ResetDeleteSync \/ ResetCleanup
    BY <1>8, Syncs DEF BInv, Durable, Free, BlobPromises!vars
  <1>9. CASE Quiet /\ HttpStep
    <2> DEFINE Leaves == http'.pc \notin {"persist", "rename"}
    <2>1. CASE CommitClose
      <3>1. http'.id = http.id /\ (http'.pc = "cleanup" \/ (http'.pc = "persist" /\ files[http.id] = None))
        BY <1>0, <2>1 DEF CommitClose, HttpGoto, HttpRecords, FinalAbsent
      <3> QED  BY <1>9, <3>1 DEF Quiet, BInv, Durable, Free, BlobPromises!vars
    <2>2. CASE CommitPersist
      <3>1. http'.id = http.id /\ http.pc = "persist"
        BY <1>0, <2>2 DEF CommitPersist, HttpAt, HttpGoto, HttpRecords
      <3> QED  BY <1>9, <3>1 DEF Quiet, BInv, Durable, Free, BlobPromises!vars
    <2>3. ASSUME NEW p \in Payloads, UploadAdmit(p)
          PROVE  http'.pc = "begin"
      BY <2>3 DEF UploadAdmit, NoHttp
    <2>4. ASSUME NEW id \in Ids, DeleteBegin(id)
          PROVE  http'.pc = "unlink"
      BY <2>4 DEF DeleteBegin, NoHttp
    <2>5. ASSUME UploadBegin PROVE Leaves
      BY <1>0, <2>5, HttpMoves DEF UploadBegin, HttpRecords
    <2>6. ASSUME UploadStreamed \/ UploadBroken \/ UploadUnlink PROVE Leaves
      <3>1. HttpGoto("close") \/ HttpGoto("abort") \/ HttpDone
        BY <2>6 DEF UploadStreamed, UploadBroken, AfterBreak, UploadUnlink
      <3> QED  BY <1>0, <3>1, HttpMoves DEF HttpPcs
    <2>7. ASSUME CommitRename \/ DeleteUnlink PROVE Leaves
      <3>1. HttpGoto("sync") \/ HttpGoto("cleanup") \/ HttpGoto("synclast") \/ HttpDone
        BY <2>7 DEF CommitRename, DeleteUnlink
      <3> QED  BY <1>0, <3>1, HttpMoves DEF HttpPcs
    <2>8. ASSUME CommitSync \/ DeleteSync PROVE Leaves
      BY <1>0, <2>8, HttpMoves DEF CommitSync, DeleteSync
    <2>9. ListBlobs => http' = http
      BY DEF ListBlobs
    <2>10. Leaves \/ http' = http \/ CommitClose \/ CommitPersist
      BY <1>9, <2>3, <2>4, <2>5, <2>6, <2>7, <2>8, <2>9 DEF HttpStep
    <2> QED  BY <1>5, <1>9, <2>1, <2>2, <2>10
  <1>10. CASE UNCHANGED vars
    BY <1>5, <1>10 DEF vars, Quiet
  <1> QED
    BY <1>1, <1>2, <1>3, <1>5, <1>6, <1>7, <1>8, <1>9, <1>10, Changes

\* The repository keeps the promises of /api/v1/blob, whether or not a rename is durable at
\* once, and wherever a reset runs: a snapshot appears whole under a free id, is never
\* replaced, and once answered with 201 survives every power cut
\* (storage_blob_upload_core.c, storage_fs_ops.c).
THEOREM KeepsPromises == Spec => ImplementsBlobService
  <1>1. Init => BInv /\ BlobPromises!Init
    BY DEF Init, BInv, Durable, Free, NoHttp, NoDir, BlobPromises!Init
  <1>2. IInv /\ BInv /\ [Next]_vars => BInv' /\ [BlobPromises!Next]_(BlobPromises!vars)
    BY BlobStep
  <1> QED
    BY <1>1, <1>2, Invariant, PTL DEF Spec, ImplementsBlobService, BlobPromises!Spec
=============================================================================
