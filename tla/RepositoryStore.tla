-------------------------- MODULE RepositoryStore --------------------------
(***************************************************************************)
(* The snapshot repository of the device: atomic blob upload, delete and   *)
(* list on the HTTP task, factory reset on the task that runs it, the      *)
(* durable reset marker, boot recovery, the console's password change,     *)
(* I/O faults and power cuts.                                              *)
(*                                                                         *)
(* A snapshot is one opaque payload; the settings record is reduced to     *)
(* whether it is provisioned.  A directory operation (rename, unlink) is   *)
(* atomic; on a build whose parent directory must be synced (ParentSync)   *)
(* it is durable only after the sync, so the directory is kept twice:      *)
(* files as the tasks see it, disk as the medium holds it.  On the device  *)
(* (ParentSync = FALSE) LittleFS keeps both equal.                         *)
(***************************************************************************)
EXTENDS Integers, FiniteSetsExt

CONSTANTS
    LastId,         \* stands for UINT64_MAX, the id that is never handed out
    Payloads,       \* the byte strings a client uploads
    None,           \* no file under this name, no edit in progress
    Partial,        \* a temporary file with only part of the bytes
    ParentSync,     \* TRUE: renames are durable only after a parent sync, which may fail
    ResetOnWorker,  \* TRUE: require_physical_confirmation, the reset runs on web_async
    FaultBudget,    \* I/O errors still to come; negative: without limit
    CrashBudget     \* power cuts still to come; negative: without limit

ASSUME StoreAssumption ==
    /\ LastId \in Nat /\ LastId >= 2
    /\ {None, Partial} \cap Payloads = {} /\ None # Partial
    /\ None \notin {"provisioned", "erased"}
    /\ {ParentSync, ResetOnWorker} \subseteq BOOLEAN
    /\ FaultBudget \in Int /\ CrashBudget \in Int

Ids == 1 .. LastId - 1

VARIABLES
    files,      \* <id>.gz as the file system shows it
    disk,       \* <id>.gz as the medium holds it
    temps,      \* <id>.gz.tmp
    nextId,     \* NVS "storage"/next_blob_id, 0 when absent
    marker,     \* the NVS reset journal holds PENDING
    settings,   \* the NVS settings record: "provisioned" or "erased"
    power,      \* "off", "recovery", "boot", "up" or "halted" (startup failed)
    mode,       \* the record the HTTP server was started with
    scanNext,   \* scan_state.next_id
    session,    \* some client holds a live session
    http,       \* the HTTP task: its upload or delete and where it is
    reset,      \* the factory reset: its stage, the ids to delete, first_error
    timer,      \* the delayed restart is armed
    edit,       \* the settings record the console's password change has read
    faults, crashes,
    acked,      \* history: ids answered with 201 and not deleted since
    published,  \* history: ids whose final path ever existed
    doomed,     \* history: the blobs that existed when PENDING was stored
    wiped       \* history: the settings were erased since PENDING was stored

nvsVars  == <<nextId, marker, settings>>
dirVars  == <<files, disk>>
fsVars   == <<files, disk, temps>>
taskVars == <<session, http, reset, timer, edit>>
histVars == <<acked, published, doomed, wiped>>
vars == <<files, disk, temps, nextId, marker, settings, power, mode, scanNext, session,
          http, reset, timer, edit, faults, crashes, acked, published, doomed, wiped>>

-----------------------------------------------------------------------------
(* Faults and the directory *)

Spend(budget) == IF budget < 0 THEN budget ELSE budget - 1

Ok    == UNCHANGED faults
Fault == faults # 0 /\ faults' = Spend(faults)

Present(dir) == {id \in Ids : dir[id] # None}

\* MUTANT of DeriveNext: trusts the scan alone.
ScanOnly(counter, dir) == Max({1} \cup {id + 1 : id \in Present(dir)})

\* storage_blob_derive_next_id: above the counter and above every stored id.
DeriveNext(counter, dir) == Max({1, counter} \cup {id + 1 : id \in Present(dir)})

\* A directory change; durable at once unless it waits for a parent sync.
SetFiles(dir) ==
    /\ files' = dir
    /\ disk' = IF ParentSync THEN disk ELSE dir

\* MUTANT of SyncOk: success is reported without a sync.
SyncSkipped == Ok /\ UNCHANGED disk

\* storage_fs_sync_parent_path: every rename and unlink so far is durable.
SyncOk     == disk' = files /\ Ok
SyncFailed == ParentSync /\ Fault /\ UNCHANGED disk

\* require_path_absent on the final path.
FinalAbsent(id) == files[id] = None

NoHttp  == [pc |-> "idle", id |-> 1, payload |-> None]
NoReset == [pc |-> "idle", todo |-> {}, deleted |-> FALSE, error |-> FALSE, answer |-> "none"]
NoDir   == [id \in Ids |-> None]

\* reset_guarded_request: every route refuses while PENDING is stored; the
\* blob and device routes exist only on a server started provisioned.
Serving == power = "up" /\ mode = "provisioned" /\ ~marker

\* The single HTTP task takes the next request of an authenticated client.
HttpFree == /\ Serving /\ session /\ http.pc = "idle"
            /\ ResetOnWorker \/ reset.pc = "idle"

\* A restart or factory reset is admitted: on the HTTP task, or with
\* confirmation on the worker, which takes one request at a time.
AdminFree == /\ Serving /\ session /\ reset.pc = "idle"
             /\ ResetOnWorker \/ http.pc = "idle"

-----------------------------------------------------------------------------
(* Power *)

Init ==
    /\ files = NoDir /\ disk = NoDir /\ temps = NoDir
    /\ nextId = 0 /\ marker = FALSE /\ settings = "provisioned"
    /\ power = "off" /\ mode = "erased" /\ scanNext = 1
    /\ session = FALSE /\ http = NoHttp /\ reset = NoReset
    /\ timer = FALSE /\ edit = None
    /\ faults = FaultBudget /\ crashes = CrashBudget
    /\ acked = {} /\ published = {} /\ doomed = {} /\ wiped = FALSE

\* Everything in RAM is gone; each entry not yet durable survives or not.
PowerLoss ==
    /\ power' = "off" /\ mode' = "erased" /\ scanNext' = 1
    /\ session' = FALSE /\ http' = NoHttp /\ reset' = NoReset
    /\ timer' = FALSE /\ edit' = None
    /\ \E kept \in SUBSET {id \in Ids : files[id] # disk[id]} :
           disk' = [id \in Ids |-> IF id \in kept THEN files[id] ELSE disk[id]]
    /\ files' = disk'
    /\ UNCHANGED <<temps, nvsVars, histVars>>

Crash ==
    /\ power # "off" /\ crashes # 0 /\ crashes' = Spend(crashes)
    /\ PowerLoss /\ Ok

\* Startup failed; somebody unplugs the device.
PowerCycle == power = "halted" /\ PowerLoss /\ Ok /\ UNCHANGED crashes

\* The delayed esp_restart.
TimerFires == power = "up" /\ timer /\ PowerLoss /\ Ok /\ UNCHANGED crashes

\* MUTANT of EntryStage: startup does not look at the reset journal.
OrdinaryStage == "boot"

\* factory_reset_recovery_run_if_pending comes before ordinary startup.
EntryStage == IF marker THEN "recovery" ELSE "boot"

PowerOn ==
    /\ power = "off" /\ power' = EntryStage
    /\ reset' = [NoReset EXCEPT !.pc = IF EntryStage = "recovery" THEN "erase" ELSE "idle"]
    /\ Ok
    /\ UNCHANGED <<fsVars, nvsVars, mode, scanNext, session, http, timer, edit, crashes, histVars>>

Halt == power' = "halted" /\ reset' = NoReset

\* The temporary files when their removal stops at any one of them.
Leftovers == {[id \in Ids |-> IF id \in left THEN temps[id] ELSE None] : left \in SUBSET Ids}

\* storage_mount: remove the temporary files, read the counter, scan.
BootMount ==
    /\ power = "boot"
    /\ \/ /\ Ok /\ power' = "up" /\ mode' = settings /\ UNCHANGED reset
          /\ temps' = NoDir /\ scanNext' = DeriveNext(nextId, files)
       \/ /\ Fault /\ Halt /\ UNCHANGED <<mode, scanNext>>
          /\ temps' \in Leftovers
    /\ UNCHANGED <<dirVars, nvsVars, session, http, timer, edit, crashes, histVars>>

\* First-run setup commits a provisioned record; the restart is scheduled only
\* when the answer could be sent.
Provision ==
    /\ power = "up" /\ mode = "erased" /\ settings = "erased"
    /\ settings' = "provisioned" /\ timer' \in {timer, TRUE} /\ Ok
    /\ UNCHANGED <<fsVars, nextId, marker, power, mode, scanNext, session, http, reset, edit,
                   crashes, histVars>>

Login ==
    /\ Serving /\ ~session /\ http.pc = "idle" /\ (ResetOnWorker \/ reset.pc = "idle")
    /\ session' = TRUE /\ Ok
    /\ UNCHANGED <<fsVars, nvsVars, power, mode, scanNext, http, reset, timer, edit, crashes,
                   histVars>>

-----------------------------------------------------------------------------
(* The HTTP task: upload, delete, list *)

HttpFrame == UNCHANGED <<marker, settings, power, mode, session, reset, timer, edit, crashes,
                         doomed, wiped>>

HttpAt(pc) == power = "up" /\ http.pc = pc
HttpGoto(pc) == http' = [http EXCEPT !.pc = pc]
HttpDone == http' = NoHttp

\* The request passes the reset guard and authentication.
UploadAdmit(p) ==
    /\ HttpFree /\ http' = [NoHttp EXCEPT !.pc = "begin", !.payload = p] /\ Ok /\ HttpFrame
    /\ UNCHANGED <<fsVars, nextId, scanNext, acked, published>>

\* storage_blob_upload_begin: the next id, if both its paths are free.
UploadBegin ==
    /\ HttpAt("begin") /\ Ok /\ HttpFrame
    /\ IF scanNext < LastId /\ FinalAbsent(scanNext) /\ temps[scanNext] = None
       THEN /\ http' = [http EXCEPT !.pc = "stream", !.id = scanNext]
            /\ temps' = [temps EXCEPT ![scanNext] = Partial]
       ELSE HttpDone /\ UNCHANGED temps
    /\ UNCHANGED <<dirVars, nextId, scanNext, acked, published>>

\* The last chunk arrives; an unlinked temporary file stays unlinked.
UploadStreamed ==
    /\ HttpAt("stream") /\ HttpGoto("close")
    /\ temps' = [temps EXCEPT ![http.id] = IF @ = None THEN None ELSE http.payload]
    /\ Ok /\ HttpFrame
    /\ UNCHANGED <<dirVars, nextId, scanNext, acked, published>>

\* A body that ends early is aborted.
AfterBreak == "abort"

\* The client goes away, times out, or a write is short.
UploadBroken ==
    /\ HttpAt("stream") /\ HttpGoto(AfterBreak) /\ Ok /\ HttpFrame
    /\ UNCHANGED <<fsVars, nextId, scanNext, acked, published>>

\* Flush, sync and close the temporary file, then look at the final path again.
CommitClose ==
    /\ HttpAt("close") /\ HttpFrame
    /\ \/ Ok /\ HttpGoto(IF FinalAbsent(http.id) THEN "persist" ELSE "cleanup")
       \/ Fault /\ HttpGoto("cleanup")
    /\ UNCHANGED <<fsVars, nextId, scanNext, acked, published>>

\* The counter moves before the rename; a failed NVS write may have moved it too.
CommitPersist ==
    /\ HttpAt("persist") /\ HttpFrame
    /\ \/ Ok /\ nextId' = http.id + 1 /\ HttpGoto("rename")
       \/ Fault /\ nextId' \in {nextId, http.id + 1} /\ HttpGoto("cleanup")
    /\ UNCHANGED <<fsVars, scanNext, acked, published>>

CommitRename ==
    /\ HttpAt("rename") /\ HttpFrame
    /\ \/ /\ temps[http.id] # None /\ Ok /\ HttpGoto("sync")
          /\ SetFiles([files EXCEPT ![http.id] = temps[http.id]])
          /\ temps' = [temps EXCEPT ![http.id] = None]
          /\ published' = published \cup {http.id}
       \/ /\ IF temps[http.id] = None THEN Ok ELSE Fault
          /\ HttpGoto("cleanup") /\ UNCHANGED <<fsVars, published>>
    /\ UNCHANGED <<nextId, scanNext, acked>>

\* Synced: 201.  Not synced: 503 commit_uncertain, the blob stays, RAM keeps
\* the old next id.
CommitSync ==
    /\ HttpAt("sync") /\ HttpDone /\ HttpFrame
    /\ \/ /\ SyncOk /\ scanNext' = http.id + 1
          /\ acked' = IF files[http.id] = None THEN acked ELSE acked \cup {http.id}
       \/ SyncFailed /\ UNCHANGED <<scanNext, acked>>
    /\ UNCHANGED <<files, temps, nextId, published>>

\* cleanup_failure, then abort_uncommitted_upload: two tries to unlink.
UploadUnlink ==
    /\ power = "up" /\ http.pc \in {"cleanup", "abort"} /\ HttpFrame
    /\ \/ Ok /\ temps' = [temps EXCEPT ![http.id] = None]
       \/ Fault /\ UNCHANGED temps
    /\ IF http.pc = "cleanup" THEN HttpGoto("abort") ELSE HttpDone
    /\ UNCHANGED <<dirVars, nextId, scanNext, acked, published>>

DeleteBegin(id) ==
    /\ HttpFree /\ http' = [NoHttp EXCEPT !.pc = "unlink", !.id = id] /\ Ok /\ HttpFrame
    /\ UNCHANGED <<fsVars, nextId, scanNext, acked, published>>

DeleteUnlink ==
    /\ HttpAt("unlink") /\ HttpFrame
    /\ \/ /\ files[http.id] # None /\ Ok /\ HttpGoto("synclast")
          /\ SetFiles([files EXCEPT ![http.id] = None])
          /\ acked' = acked \ {http.id}
       \/ /\ IF files[http.id] = None THEN Ok ELSE Fault
          /\ HttpDone /\ UNCHANGED <<dirVars, acked>>
    /\ UNCHANGED <<temps, nextId, scanNext, published>>

DeleteSync ==
    /\ HttpAt("synclast") /\ HttpDone /\ HttpFrame /\ (SyncOk \/ SyncFailed)
    /\ UNCHANGED <<files, temps, nextId, scanNext, acked, published>>

\* storage_blob_list rescans from the RAM counter and keeps the result.
ListBlobs ==
    /\ HttpFree /\ scanNext' = DeriveNext(scanNext, files) /\ Ok /\ HttpFrame
    /\ UNCHANGED <<fsVars, nextId, http, acked, published>>

HttpStep ==
    \/ \E p \in Payloads : UploadAdmit(p)
    \/ UploadBegin \/ UploadStreamed \/ UploadBroken \/ CommitClose \/ CommitPersist \/ CommitRename
    \/ CommitSync \/ UploadUnlink
    \/ \E id \in Ids : DeleteBegin(id)
    \/ DeleteUnlink \/ DeleteSync \/ ListBlobs

-----------------------------------------------------------------------------
(* Factory reset, at run time (power = "up") and as boot recovery *)

ResetFrame == UNCHANGED <<nextId, mode, scanNext, http, edit, crashes, published>>

ResetAt(pc) == power \in {"up", "recovery"} /\ reset.pc = pc
ResetGoto(pc) == reset' = [reset EXCEPT !.pc = pc]
ResetGotoError(pc) == reset' = [reset EXCEPT !.pc = pc, !.error = TRUE]
ResetOver == reset' = [NoReset EXCEPT !.answer = reset.answer]

\* POST device/restart: arms the delayed restart, or restarts at once.
RestartRequest ==
    /\ AdminFree
    /\ \/ /\ Ok /\ timer' = TRUE
          /\ UNCHANGED <<fsVars, nvsVars, power, mode, scanNext, session, http, reset, edit, histVars>>
       \/ Fault /\ ~timer /\ PowerLoss
    /\ UNCHANGED crashes

ResetStart ==
    /\ AdminFree /\ ResetGoto("mark") /\ Ok /\ ResetFrame
    /\ UNCHANGED <<fsVars, marker, settings, power, session, timer, acked, doomed, wiped>>

\* PENDING is stored: from here the reset is owned by the journal.  A failed
\* write refuses the reset, whatever NVS now holds.
ResetMark ==
    /\ ResetAt("mark") /\ ResetFrame
    /\ \/ /\ Ok /\ marker' = TRUE
          /\ reset' = [reset EXCEPT !.pc = "erase", !.answer = "accepted"]
       \/ /\ Fault /\ marker' \in {marker, TRUE}
          /\ reset' = [NoReset EXCEPT !.answer = "refused"]
    /\ doomed' = IF marker' THEN Present(files) ELSE doomed
    /\ wiped' = (wiped /\ ~marker')
    /\ UNCHANGED <<fsVars, settings, power, session, timer, acked>>

\* A failed erase skips the other stages (and halts the recovery).
ResetErase ==
    /\ ResetAt("erase") /\ ResetFrame
    /\ \/ /\ Ok /\ settings' = "erased" /\ wiped' = TRUE /\ UNCHANGED power
          /\ ResetGoto(IF power = "up" THEN "sessions" ELSE "mount")
       \/ /\ Fault /\ settings' \in {settings, "erased"} /\ UNCHANGED wiped
          /\ IF power = "up" THEN ResetGotoError("schedule") /\ UNCHANGED power ELSE Halt
    /\ UNCHANGED <<fsVars, marker, session, timer, acked, doomed>>

ResetSessions ==
    /\ ResetAt("sessions") /\ ResetFrame
    /\ \/ Ok /\ session' = FALSE /\ ResetGoto("scan")
       \/ Fault /\ UNCHANGED session /\ ResetGotoError("scan")
    /\ UNCHANGED <<fsVars, marker, settings, power, timer, acked, doomed, wiped>>

\* Recovery mounts the file system itself, which clears the temporary files.
RecoveryMount ==
    /\ ResetAt("mount") /\ ResetFrame
    /\ \/ Ok /\ temps' = NoDir /\ ResetGoto("scan") /\ UNCHANGED power
       \/ Fault /\ temps' \in Leftovers /\ Halt
    /\ UNCHANGED <<dirVars, marker, settings, session, timer, acked, doomed, wiped>>

\* storage_blob_delete_all collects every name first; a directory changed
\* under the scan by an upload or a delete may make it fail.
ResetScan ==
    /\ ResetAt("scan") /\ ResetFrame
    /\ \/ Ok /\ reset' = [reset EXCEPT !.pc = "delete", !.todo = Present(files)]
       \/ /\ IF http.pc = "idle" THEN Fault ELSE Fault \/ Ok
          /\ ResetGotoError("cleanup")
    /\ UNCHANGED <<fsVars, marker, settings, power, session, timer, acked, doomed, wiped>>

\* Newest first; one blob that resists does not strand the rest.
ResetDelete ==
    LET id == Max(reset.todo)
        rest == [reset EXCEPT !.todo = @ \ {id}] IN
    /\ ResetAt("delete") /\ reset.todo # {} /\ ResetFrame
    /\ \/ /\ files[id] # None /\ Ok /\ SetFiles([files EXCEPT ![id] = None])
          /\ acked' = acked \ {id} /\ reset' = [rest EXCEPT !.deleted = TRUE]
       \/ /\ IF files[id] = None THEN Ok ELSE Fault
          /\ reset' = [rest EXCEPT !.error = TRUE] /\ UNCHANGED <<dirVars, acked>>
    /\ UNCHANGED <<temps, marker, settings, power, session, timer, doomed, wiped>>

\* MUTANT of ResetDeleteSync: the deletions are not synced.
ResetDeleteUnsynced ==
    /\ ResetAt("delete") /\ reset.todo = {} /\ ResetFrame /\ Ok /\ ResetGoto("cleanup")
    /\ UNCHANGED <<fsVars, marker, settings, power, session, timer, acked, doomed, wiped>>

ResetDeleteSync ==
    /\ ResetAt("delete") /\ reset.todo = {} /\ ResetFrame
    /\ \/ ~reset.deleted /\ Ok /\ UNCHANGED disk /\ ResetGoto("cleanup")
       \/ reset.deleted /\ SyncOk /\ ResetGoto("cleanup")
       \/ reset.deleted /\ SyncFailed /\ ResetGotoError("cleanup")
    /\ UNCHANGED <<files, temps, marker, settings, power, session, timer, acked, doomed, wiped>>

\* storage_blob_recover_startup removes every temporary file, one of an upload
\* in progress too unless the file system refuses to unlink an open file.  It
\* stops at the first one it cannot remove.
ResetCleanup ==
    /\ ResetAt("cleanup") /\ ResetFrame
    /\ \/ /\ temps' = NoDir /\ UNCHANGED power
          /\ IF temps = NoDir THEN Ok /\ UNCHANGED disk ELSE SyncOk
          /\ ResetGoto(IF power = "up" THEN "schedule" ELSE IF reset.error THEN "fail" ELSE "clear")
       \/ /\ \/ /\ http.pc \in {"stream", "close"} /\ Ok /\ UNCHANGED disk
                /\ temps' \in Leftovers /\ temps'[http.id] = temps[http.id]
             \/ Fault /\ temps' \in Leftovers /\ UNCHANGED disk
             \/ temps # NoDir /\ temps' = NoDir /\ SyncFailed
          /\ IF power = "up" THEN ResetGotoError("schedule") /\ UNCHANGED power ELSE Halt
    /\ UNCHANGED <<files, marker, settings, session, timer, acked, doomed, wiped>>

\* Some stage of the recovery failed: startup fails, PENDING stays.
RecoveryFailed ==
    /\ ResetAt("fail") /\ Halt /\ Ok /\ ResetFrame
    /\ UNCHANGED <<fsVars, marker, settings, session, timer, acked, doomed, wiped>>

\* MUTANT of MayClear: the errors of the earlier stages are ignored.
AlwaysClear == TRUE

\* Only a reset without any error clears PENDING.
MayClear == ~reset.error

\* MUTANT of ScheduleFailed: the failure is only reported.
ScheduleReported ==
    /\ Fault /\ ~timer /\ ResetOver
    /\ UNCHANGED <<fsVars, nvsVars, power, mode, scanNext, session, http, timer, edit, histVars>>

\* No timer: restart at once rather than leave the reset without a restart.
ScheduleFailed == Fault /\ ~timer /\ PowerLoss

ResetSchedule ==
    /\ ResetAt("schedule") /\ UNCHANGED crashes
    /\ \/ /\ Ok /\ timer' = TRUE
          /\ IF MayClear THEN ResetGoto("clear") ELSE ResetOver
          /\ UNCHANGED <<fsVars, nvsVars, power, mode, scanNext, session, http, edit, histVars>>
       \/ ScheduleFailed

ResetClear ==
    /\ ResetAt("clear") /\ ResetFrame
    /\ \/ /\ Ok /\ marker' = FALSE /\ ResetOver
          /\ power' = IF power = "up" THEN "up" ELSE "boot"
       \/ /\ Fault /\ marker' \in {marker, FALSE}
          /\ IF power = "up" THEN ResetOver /\ UNCHANGED power ELSE Halt
    /\ UNCHANGED <<fsVars, settings, session, timer, acked, doomed, wiped>>

\* The stages after admission, in the task that runs the reset.
ResetStep ==
    \/ ResetMark \/ ResetErase \/ ResetSessions \/ RecoveryMount \/ ResetScan \/ ResetDelete
    \/ ResetDeleteSync \/ ResetCleanup \/ RecoveryFailed \/ ResetSchedule \/ ResetClear

-----------------------------------------------------------------------------
(* The console's set-admin-password: read the record, derive the password    *)
(* verifier, replace the whole record, log every session out.                *)

EditRead ==
    /\ power = "up" /\ edit = None /\ edit' = settings /\ Ok
    /\ UNCHANGED <<fsVars, nvsVars, power, mode, scanNext, session, http, reset, timer, crashes,
                   histVars>>

EditReplace ==
    /\ power = "up" /\ edit # None /\ edit' = None
    /\ \/ Ok /\ settings' = edit /\ session' = FALSE
       \/ Fault /\ settings' \in {settings, edit} /\ UNCHANGED session
    /\ UNCHANGED <<fsVars, nextId, marker, power, mode, scanNext, http, reset, timer, crashes,
                   histVars>>

-----------------------------------------------------------------------------

BootStep == PowerOn \/ BootMount

Next ==
    \/ BootStep \/ Crash \/ PowerCycle \/ TimerFires \/ Provision \/ Login
    \/ HttpStep
    \/ RestartRequest \/ ResetStart \/ ResetStep
    \/ EditRead \/ EditReplace

Spec == Init /\ [][Next]_vars

\* The startup and the reset run on tasks that keep being scheduled, and the
\* restart timer is served by its own task.
FairSpec ==
    /\ Spec
    /\ WF_vars(BootStep) /\ WF_vars(ResetStep) /\ WF_vars(TimerFires)

-----------------------------------------------------------------------------
(* Properties *)

HttpPcs  == {"idle", "begin", "stream", "close", "persist", "rename", "sync", "cleanup",
             "abort", "unlink", "synclast"}
ResetPcs == {"idle", "mark", "erase", "mount", "sessions", "scan", "delete", "cleanup",
             "fail", "schedule", "clear"}

\* Type invariant: final paths hold whole payloads, ids stay below the last
\* one even at the end of the id space, where the counter reaches it.
TypeOK ==
    /\ {files, disk} \subseteq [Ids -> Payloads \cup {None}]
    /\ temps \in [Ids -> Payloads \cup {None, Partial}]
    /\ nextId \in 0 .. LastId /\ scanNext \in 1 .. LastId
    /\ {marker, session, timer, wiped} \subseteq BOOLEAN
    /\ {settings, mode} \subseteq {"provisioned", "erased"}
    /\ edit \in {None, "provisioned", "erased"}
    /\ power \in {"off", "recovery", "boot", "up", "halted"}
    /\ http \in [pc : HttpPcs, id : Ids, payload : Payloads \cup {None}]
    /\ reset \in [pc : ResetPcs, todo : SUBSET Ids, deleted : BOOLEAN, error : BOOLEAN,
                  answer : {"none", "accepted", "refused"}]
    /\ faults \in Int /\ crashes \in Int
    /\ acked \subseteq Ids /\ published \subseteq Ids /\ doomed \subseteq Ids

\* The file system, the tasks and the power cuts together keep the promises of
\* /api/v1/blob: a snapshot appears whole under a free id, is never replaced,
\* and once answered with 201 survives every power cut.
BlobPromises == INSTANCE BlobService WITH blobs <- files
ImplementsBlobService == BlobPromises!Spec

\* An id whose blob ever existed never comes to name another blob, across
\* deletes, resets and restarts (the counter is persisted before the rename):
\* a client's stale id can only miss.
IdNeverReused ==
    [][\A id \in published : files[id] = None => files'[id] = None]_vars

\* While PENDING is stored on a running device someone owns the reset: its
\* task, or the armed restart; only a reset answered as failed may leave it.
PendingIsOwned ==
    power = "up" /\ marker =>
        \/ reset.pc # "idle"
        \/ reset.answer = "accepted" /\ timer
        \/ reset.answer = "refused"

\* "The marker is not cleared until every required destructive effect has
\* succeeded and restart ownership has been established": the settings were
\* erased, every blob the reset found is gone for good, the restart is armed
\* or this is boot recovery.
ClearOnlyWhenDone ==
    [][marker /\ ~marker' =>
           /\ wiped
           /\ \A id \in doomed : files[id] = None /\ disk[id] = None
           /\ timer \/ power = "recovery"]_vars

\* An accepted reset ends: PENDING is cleared, or startup fails and stays
\* failed until the device is power cycled.
ResetCompletes ==
    marker /\ (reset.answer = "accepted" \/ power = "recovery")
        ~> ~marker \/ power = "halted"

\* SPEC_V2: a factory reset erases all repository blobs.
ResetLeavesNoBlobs == [][marker /\ ~marker' => Present(files) = {}]_vars

=============================================================================
