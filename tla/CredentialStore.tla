-------------------------- MODULE CredentialStore --------------------------
(***************************************************************************)
(* The administrator password and the settings record it is stored in:     *)
(* firmware/components/web_server/web_settings.c (change-password, settings *)
(* PUT), web_server_password_record.c (the verifier in RAM and the password *)
(* transition gate), web_server_login.c, the record cache of               *)
(* device_settings_core.c and the commands of serial_console.c that write  *)
(* the record.                                                             *)
(*                                                                         *)
(*   http     the HTTP server task: login, change-password, settings PUT.  *)
(*   console  the serial console task: set-admin-password, wifi-connect,   *)
(*            set-ap-passphrase.                                           *)
(*                                                                         *)
(* One action is one critical section: the portMUX of the verifier, the    *)
(* settings mutex, the auth lock.  PBKDF2 and everything else a task does  *)
(* on its own stack belongs to the action before it, so the half second a  *)
(* derivation takes lies between two actions.                              *)
(*                                                                         *)
(* A password is its version: every derivation draws a new salt, so no two *)
(* records are equal.  `net' stands for the rest of the settings record.   *)
(* Wrong passwords, the login throttle (which wrong ones feed) and request *)
(* parsing change nothing here.  The device is provisioned throughout.     *)
(* NVS may fail anywhere, and so may the auth lock, for whose failure the   *)
(* code has an answer of its own (409 auth_state_incomplete).  The settings *)
(* mutex does not: it is waited for without limit and given by its holder. *)
(***************************************************************************)
EXTENDS Naturals, FiniteSets

CONSTANTS
    Slots,        \* the session table: APP_SESSION_TABLE_MAX entries
    MaxPassword,  \* bound: how often a new password is derived
    Nets,         \* the values of the other fields
    Net0,         \* the value they start with
    FaultBudget,  \* bound: how many NVS or lock operations fail
    NoSession,    \* a free slot of the session table
    Unloaded      \* the record cache is invalid

ASSUME BoundAssumption == /\ MaxPassword \in Nat
                          /\ FaultBudget \in Nat
ASSUME SlotsAssumption == IsFiniteSet(Slots)
ASSUME NetAssumption   == Net0 \in Nets

Passwords == 0 .. MaxPassword

ASSUME NoSessionAssumption == NoSession \notin Passwords

Record == [pw : Passwords, net : Nets]

ASSUME UnloadedAssumption == Unloaded \notin Record

Tasks     == {"http", "console"}
ChangePcs == {"change_read", "change_replace", "change_activate",
              "change_invalidate", "change_end"}
HttpPcs   == {"login_create", "login_answer", "put_replace"}
Results   == {"none", "ok", "incomplete", "failed", "uncertain", "rejected"}

VARIABLES
    nvs,       \* the settings record in NVS
    handle,    \* settings_handle_open
    cache,     \* device_settings_core_t.current, or Unloaded
    active,    \* server_configuration.password_record: the login verifier
    gate,      \* password_transition_in_progress
    sessions,  \* the password each active session was created under
    task,      \* what each task does next, with its locals
    nextPw,    \* the next new password
    faults,    \* failures still to come
    \* history, read by no action:
    complete,  \* the last invalidation of all sessions succeeded
    unsure,    \* a commit has been uncertain since the last boot
    clobbered, \* a settings PUT wrote an older password since the last boot
    failed     \* passwords whose change was answered with a plain failure

historyVars == <<complete, unsure, clobbered, failed>>
vars == <<nvs, handle, cache, active, gate, sessions, task, nextPw, faults,
          historyVars>>

Local == [pc : {"idle"} \cup ChangePcs \cup HttpPcs, base : Record,
          pw : Passwords, result : Results]

Idle  == [pc |-> "idle", base |-> [pw |-> 0, net |-> Net0], pw |-> 0, result |-> "none"]

Init ==
    /\ nvs = [pw |-> 0, net |-> Net0] /\ handle = TRUE /\ cache = nvs /\ active = 0
    /\ gate = FALSE /\ sessions = [s \in Slots |-> NoSession]
    /\ task = [t \in Tasks |-> Idle]
    /\ nextPw = 1 /\ faults = FaultBudget
    /\ complete = TRUE /\ unsure = FALSE /\ clobbered = FALSE /\ failed = {}

-----------------------------------------------------------------------------
(* The settings record: device_settings.c and device_settings_core.c        *)
(* Operators marked MUTANT are broken variants that no action uses: each    *)
(* shows that a property can fail, see the mutants in PROJECT.json.         *)

Fault == faults > 0 /\ faults' = faults - 1

\* What device_settings_core_load() finds when it succeeds.
Loaded == IF cache = Unloaded THEN nvs ELSE cache

\* It succeeds from RAM, or from NVS through an open handle ...
CanLoad == cache # Unloaded \/ handle

\* ... and fails only when it has to read NVS.
LoadFails == /\ cache = Unloaded /\ UNCHANGED cache
             /\ Fault \/ (~handle /\ UNCHANGED faults)

\* MUTANT of AfterUncertain: the cache survives an uncertain commit.
CacheKept == cache

\* invalidate_loaded_state() after APP_ERROR_COMMIT_UNCERTAIN.
AfterUncertain == Unloaded

\* replace_record_atomic() succeeds, or there is nothing to write.
Committed(candidate) ==
    /\ CanLoad /\ (handle \/ candidate = Loaded)
    /\ nvs' = candidate /\ cache' = candidate
    /\ UNCHANGED <<handle, faults, unsure>>

\* The write fails: the handle was left closed, or the set fails, or the commit
\* does and reconcile_failed_commit() reads back that it was not done.  The
\* handle is closed and opened again, which fails in its turn.
WriteFails(candidate) ==
    /\ CanLoad /\ candidate # Loaded /\ cache' = Loaded
    /\ \/ ~handle /\ UNCHANGED <<handle, faults>>
       \/ handle /\ Fault /\ handle' \in BOOLEAN

\* A replace that changes nothing in the record.
NotCommitted(candidate) ==
    /\ WriteFails(candidate) \/ (LoadFails /\ UNCHANGED handle)
    /\ UNCHANGED <<nvs, unsure>>

\* A failed commit that cannot be read back may or may not have been done.
CommitUncertain(candidate) ==
    /\ handle /\ Fault /\ candidate # Loaded
    /\ handle' \in BOOLEAN
    /\ nvs' \in {nvs, candidate} /\ cache' = AfterUncertain
    /\ unsure' = TRUE

\* device_settings_core_replace() and its result.
ReplaceRecord(candidate, res) ==
    \/ res = "ok" /\ Committed(candidate)
    \/ res = "failed" /\ NotCommitted(candidate)
    \/ res = "uncertain" /\ CommitUncertain(candidate)

Go(t, pc) == task' = [task EXCEPT ![t].pc = pc]

-----------------------------------------------------------------------------
(* Login: web_server_login.c                                                *)

\* web_server_password_record_snapshot_for_login(), unless the gate is
\* closed, and auth_password_verify() of the right password.
LoginSnapshot ==
    /\ task["http"].pc = "idle" /\ ~gate
    /\ task' = [task EXCEPT !["http"].pc = "login_create", !["http"].pw = active]
    /\ UNCHANGED <<nvs, handle, cache, active, gate, sessions, nextPw, faults,
                   historyVars>>

\* auth_session_create(): a free slot, otherwise the least recently used one;
\* it may fail without an effect.
LoginCreate ==
    /\ task["http"].pc = "login_create"
    /\ \/ /\ Fault /\ UNCHANGED sessions
          /\ task' = [task EXCEPT !["http"] = Idle]
       \/ /\ \E s \in Slots :
               /\ \/ sessions[s] = NoSession
                  \/ \A r \in Slots : sessions[r] # NoSession
               /\ sessions' = [sessions EXCEPT ![s] = task["http"].pw]
          /\ UNCHANGED faults
          /\ Go("http", "login_answer")
    /\ UNCHANGED <<nvs, handle, cache, active, gate, nextPw, historyVars>>

\* auth_session_remaining() and the answer; the session is logged out again
\* when the answer cannot be built.
LoginAnswer ==
    /\ task["http"].pc = "login_answer"
    /\ \/ UNCHANGED sessions
       \/ \E s \in Slots : /\ sessions[s] = task["http"].pw
                           /\ sessions' = [sessions EXCEPT ![s] = NoSession]
    /\ task' = [task EXCEPT !["http"] = Idle]
    /\ UNCHANGED <<nvs, handle, cache, active, gate, nextPw, faults, historyVars>>

\* auth_core_session_logout() of one session, or its expiry.
SessionEnds ==
    /\ \E s \in Slots : /\ sessions[s] # NoSession
                        /\ sessions' = [sessions EXCEPT ![s] = NoSession]
    /\ UNCHANGED <<nvs, handle, cache, active, gate, task, nextPw, faults,
                   historyVars>>

\* The request policy has found a valid session.
Authorized == \E s \in Slots : sessions[s] # NoSession

-----------------------------------------------------------------------------
(* Changing the password: web_change_password_handle() on the HTTP task,    *)
(* web_change_password_apply_without_verification() on the console          *)

\* MUTANT of GateOpen: a transition in progress does not refuse another one.
GateIgnored == TRUE

\* web_server_password_transition_begin() finds no transition in progress.
GateOpen == ~gate

ChangeBegin(t) ==
    /\ task[t].pc = "idle" /\ GateOpen
    /\ t = "http" => Authorized
    /\ nextPw <= MaxPassword
    /\ gate' = TRUE /\ Go(t, "change_read")
    /\ UNCHANGED <<nvs, handle, cache, active, sessions, nextPw, faults, historyVars>>

\* MUTANT of Rejected: a rejected change returns without its cleanup.
RejectedAtOnce(t) == task' = [task EXCEPT ![t] = Idle]

\* A change that stops before the commit goes to its cleanup.
Rejected(t) == task' = [task EXCEPT ![t].pc = "change_end", ![t].result = "rejected"]

\* settings_read(); the HTTP route verifies the current password against the
\* record it read; then password_create() derives the new one.
ChangeRead(t) ==
    /\ task[t].pc = "change_read"
    /\ \/ /\ LoadFails /\ Rejected(t) /\ UNCHANGED nextPw
       \/ /\ CanLoad /\ cache' = Loaded /\ Rejected(t) /\ UNCHANGED <<nextPw, faults>>
       \/ /\ CanLoad /\ cache' = Loaded /\ nextPw <= MaxPassword
          /\ task' = [task EXCEPT ![t] = [pc |-> "change_replace", base |-> Loaded,
                                          pw |-> nextPw, result |-> "none"]]
          /\ nextPw' = nextPw + 1 /\ UNCHANGED faults
    /\ UNCHANGED <<nvs, handle, active, gate, sessions, historyVars>>

\* MUTANT of Answer: an uncertain commit is reported as a plain failure.
AnswerFailed(res) == IF res = "ok" THEN "none" ELSE "failed"

\* The outcome settings_replace() leaves the transaction with.
Answer(res) == IF res = "ok" THEN "none" ELSE res

\* MUTANT of AfterReplace: the verifier in RAM is left to the next boot.
AfterReplaceNoActivate(res) == IF res = "ok" THEN "change_invalidate" ELSE "change_end"

\* change_password_commit_candidate() goes on only after a commit.
AfterReplace(res) == IF res = "ok" THEN "change_activate" ELSE "change_end"

\* settings_replace() of the record read, with the new password.
ChangeReplace(t) ==
    /\ task[t].pc = "change_replace"
    /\ \E res \in {"ok", "failed", "uncertain"} :
         /\ ReplaceRecord([task[t].base EXCEPT !.pw = task[t].pw], res)
         /\ task' = [task EXCEPT ![t].pc = AfterReplace(res), ![t].result = Answer(res)]
    /\ UNCHANGED <<active, gate, sessions, nextPw, complete, clobbered, failed>>

\* web_server_password_record_replace().
ChangeActivate(t) ==
    /\ task[t].pc = "change_activate"
    /\ active' = task[t].pw /\ Go(t, "change_invalidate")
    /\ UNCHANGED <<nvs, handle, cache, gate, sessions, nextPw, faults, historyVars>>

\* MUTANT of LogoutAll: only one session is invalidated.
LogoutOne ==
    IF Authorized
      THEN [sessions EXCEPT ![CHOOSE s \in Slots : sessions[s] # NoSession] = NoSession]
      ELSE sessions

\* auth_core_session_logout_all().
LogoutAll == [s \in Slots |-> NoSession]

\* invalidate_all_sessions(): it fails when the lock is not taken, or after
\* the table was cleared when the lock is not released.
ChangeInvalidate(t) ==
    /\ task[t].pc = "change_invalidate"
    /\ \/ /\ sessions' = LogoutAll /\ complete' = TRUE /\ UNCHANGED faults
          /\ task' = [task EXCEPT ![t].pc = "change_end", ![t].result = "ok"]
       \/ /\ Fault /\ sessions' \in {sessions, LogoutAll} /\ complete' = FALSE
          /\ task' = [task EXCEPT ![t].pc = "change_end", ![t].result = "incomplete"]
    /\ UNCHANGED <<nvs, handle, cache, active, gate, nextPw, unsure, clobbered, failed>>

\* web_server_password_transition_end() and the answer.
ChangeEnd(t) ==
    /\ task[t].pc = "change_end"
    /\ gate' = FALSE /\ task' = [task EXCEPT ![t] = Idle]
    /\ failed' = IF task[t].result = "failed" THEN failed \cup {task[t].pw} ELSE failed
    /\ UNCHANGED <<nvs, handle, cache, active, sessions, nextPw, faults, complete,
                   unsure, clobbered>>

Change(t) == \/ ChangeRead(t) \/ ChangeReplace(t) \/ ChangeActivate(t)
             \/ ChangeInvalidate(t) \/ ChangeEnd(t)

-----------------------------------------------------------------------------
(* The other writers of the record                                          *)

\* web_settings_put_handle(): read, prepare the candidate ...
PutRead ==
    /\ task["http"].pc = "idle" /\ Authorized
    /\ \/ LoadFails /\ UNCHANGED task
       \/ /\ CanLoad /\ cache' = Loaded /\ UNCHANGED faults
          /\ task' = [task EXCEPT !["http"].pc = "put_replace", !["http"].base = Loaded]
    /\ UNCHANGED <<nvs, handle, active, gate, sessions, nextPw, historyVars>>

\* ... and replace the whole record by it.
PutReplace ==
    /\ task["http"].pc = "put_replace"
    /\ \E net \in Nets, res \in {"ok", "failed", "uncertain"} :
         ReplaceRecord([task["http"].base EXCEPT !.net = net], res)
    /\ clobbered' = (clobbered \/ nvs'.pw # nvs.pw)
    /\ task' = [task EXCEPT !["http"] = Idle]
    /\ UNCHANGED <<active, gate, sessions, nextPw, complete, failed>>

\* device_settings_set_station() and device_settings_set_access_point_
\* passphrase(): they read and replace under one hold of the settings mutex.
ConsoleSetNetwork ==
    /\ task["console"].pc = "idle"
    /\ \E net \in Nets, res \in {"ok", "failed", "uncertain"} :
         ReplaceRecord([Loaded EXCEPT !.net = net], res)
    /\ UNCHANGED <<active, gate, sessions, task, nextPw, complete, clobbered, failed>>

\* The device restarts or loses power: RAM is gone, the verifier is loaded
\* from the record (web_server_configuration_store()).
Reboot ==
    /\ handle' = TRUE /\ cache' = nvs /\ active' = nvs.pw /\ gate' = FALSE
    /\ sessions' = LogoutAll /\ task' = [t \in Tasks |-> Idle]
    /\ complete' = TRUE /\ unsure' = FALSE /\ clobbered' = FALSE
    /\ UNCHANGED <<nvs, nextPw, faults, failed>>

-----------------------------------------------------------------------------
Next ==
    \/ LoginSnapshot \/ LoginCreate \/ LoginAnswer \/ SessionEnds
    \/ \E t \in Tasks : ChangeBegin(t) \/ Change(t)
    \/ PutRead \/ PutReplace
    \/ ConsoleSetNetwork
    \/ Reboot

\* The scheduler runs both tasks: PBKDF2, NVS and the locks always return.
Fairness == \A t \in Tasks : WF_vars(Change(t))

Spec == Init /\ [][Next]_vars

FairSpec == Spec /\ Fairness

-----------------------------------------------------------------------------
(* Properties *)

TypeStore == /\ nvs \in Record /\ handle \in BOOLEAN /\ cache \in Record \cup {Unloaded}
             /\ active \in Passwords /\ gate \in BOOLEAN
             /\ sessions \in [Slots -> Passwords \cup {NoSession}]

TypeTask == /\ task \in [Tasks -> Local]
            /\ nextPw \in Nat \ {0} /\ faults \in 0 .. FaultBudget

TypeHistory == /\ complete \in BOOLEAN /\ unsure \in BOOLEAN /\ clobbered \in BOOLEAN
               /\ failed \subseteq Passwords

\* Every variable keeps the type the code declares for it.
TypeOK == TypeStore /\ TypeTask /\ TypeHistory

\* The record cache of device_settings_core.c is the record in NVS whenever it
\* is valid, also after commits whose outcome nobody could read back.
CacheIsDurable == cache # Unloaded => cache = nvs

\* The gate serialises whole credential transactions: two tasks are never
\* inside one, and the gate is closed while one is (web_settings.c:689-693).
Changing(t) == task[t].pc \in ChangePcs
OneTransition ==
    /\ ~(Changing("http") /\ Changing("console"))
    /\ \A t \in Tasks : Changing(t) => gate

\* Outside a transition the login verifier is the password of the record;
\* except for an uncertain commit, or a settings PUT that wrote an older
\* record back.
VerifierMatchesRecord == ~gate => active = nvs.pw \/ unsure \/ clobbered

\* Sessions that were created under another password than the verifier's.
Stale == {s \in Slots : sessions[s] \notin {NoSession, active}}

\* When a change was answered as complete, at most one session of an older
\* password can appear: that of the login which was verified before the gate
\* closed and creates its session after the others were invalidated.
AtMostOneStaleSession == ~gate /\ complete => Cardinality(Stale) <= 1

\* A change answered with a plain failure has not taken place: its password
\* is not, and never becomes, the one in the record.
FailedChangeIsInvisible == nvs.pw \notin failed

\* Two changes never overwrite each other: an older password comes back only
\* by a settings PUT that read the record before the change.
RevertedOnlyByPut ==
    [][nvs'.pw < nvs.pw => task["http"].pc = "put_replace"]_vars

\* Every transition ends, whatever fails in it, and logins are served again.
GateReopens == gate ~> ~gate
=============================================================================
