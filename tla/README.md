# A verification of the ESP32-S3 macro keyboard firmware

The repository is the firmware (C, ESP-IDF) and the web application (TypeScript)
of a USB keyboard that types macros.  A browser edits a repository of macros,
stores it on the device as numbered snapshots ("blobs") and asks the device to
type a compiled macro into the host it is plugged into.  This directory holds
TLA+ models of the parts where tasks, power cuts and failures meet, the TLC
configurations that check them, and proofs checked by TLAPS.

All paths below are relative to `src/firmware/components/` unless they start
with `docs/`, `main/` (`src/firmware/main/`) or `webapp/`.

## 1. The system

### Tasks

| task | started by | what it does |
|---|---|---|
| main task | `main/app_main.c` | starts the console, then `app_core_start()`: every component in order, with rollback |
| Wi-Fi event task | ESP-IDF | handlers of `wifi_ap`: access point status, station outcome |
| HTTP server task (one, `esp_http_server`) | `web_server/web_server_lifecycle.c` | every route, one request at a time |
| confirmation worker (`web_async`) | `web_server/web_server_async.c` | routes that wait for a confirmation: device actions, change-password |
| executor worker | `macro_executor/macro_executor.c` | waits for a send's confirmation, types the plan |
| serial console task | `main/app_main.c`, before everything else | `confirm`, `cancel`, `set-admin-password`, `wifi-connect`, `set-ap-passphrase`, ... |
| controls task, restart timer | `device_controls/device_controls.c` | LED; restart 500 ms after it was scheduled |
| USB host | outside | mounts, suspends, fails a report |

### Components

| component | state | operations | modelled in |
|---|---|---|---|
| macro executor (`macro_executor`) | claim flags, status, request queue, availability latch, release fault | submit, confirm, cancel, get_status, execute; init/deinit | `MacroExecutor` (not deinit) |
| send routes (`web_server/web_send.c`) | the compiled plan they own until submit | POST send, GET status, POST cancel | `MacroExecutor` |
| serial console (`serial_console`) | the line, the setup code | the commands above | actions of five models |
| USB keyboard (`usb_keyboard`) | mounted/suspended, the report | press, release_all | `MacroExecutor`, as the executor sees it |
| blob repository (`storage`) | files, temporaries, next id in NVS and RAM | begin/write/commit/abort of an upload, delete, list, scan, cleanup | `RepositoryStore` |
| factory reset (`factory_reset_state`, `factory_reset_recovery`, `device_controls_reset.c`) | the PENDING marker in NVS | mark, erase, delete all, clear; recovery at boot | `RepositoryStore`; its answers in `DeviceActions` |
| boot (`app_core`) | which components are up | ordered start, rollback | `Startup`; recovery before serving in `RepositoryStore` |
| credentials (`web_settings.c`, `web_server_password_record.c`, `web_server_login.c`) | login verifier in RAM, transition gate | login, change-password, set-admin-password, settings PUT | `CredentialStore` |
| device settings (`device_settings`) | the record in NVS, its cache | load, replace, set station, set passphrase, reset | `DeviceSettings`, `CredentialStore` |
| settings contracts (`app_contracts_v2`) | none | validate, encode, decode, read a request | `DeviceSettings` |
| setup (`provisioning`, `web_server_setup*.c`) | setup code, attempts, setup mode | submit, restart | `DeviceSettings` |
| sessions, throttle (`auth`) | session table, per-source failures | create, validate, logout, logout all; throttle | sessions in `CredentialStore` and `DeviceActions`; throttle not |
| device controls (`device_controls`) | flags, signals, pin, confirmation, restart | init, deinit, confirm, wait, resets, restart | `DeviceActions` |
| confirmation worker (`web_server_async.c`) | one claim, a queue of one | dispatch, run, stop | `DeviceActions` |
| HTTP plumbing (`web_api_core.c`, `web_request_policy.c`, `web_server_api.c`, `web_server_lifecycle.c`) | the server handle, the reset guard | parse, admit, dispatch, start, stop | `RequestPolicy`, `DeviceActions` |
| macro parser (`macro_parser`) | none | text to plan | `MacroParser` |
| Wi-Fi (`wifi_ap`) | AP status, owned parts, one semaphore for station outcomes | start, stop, events, connect | `Startup` |
| web application (`webapp/src/v2`) | working copy, snapshot list | save, restore, poll a send | not modelled |

### How they interact

* A send: the HTTP task compiles a plan, claims the engine under its mutex, hands
  the plan over a queue of length one to the worker; HTTP, console and worker
  then meet in the flags `busy`, `cancel_requested`, `confirm_requested`.  The
  availability latch is an atomic that is read *outside* the mutex.
* An upload: next id from RAM, temporary file, persist of the next id in NVS,
  rename.  A factory reset on another task deletes the same directory.
* A device action: the HTTP task looks at the reset latch and marker (the
  *guard*), gives the call to the worker, which evaluates the policy and waits
  for the `confirm` of the console on one binary semaphore; the effects end in a
  restart timer.
* A factory reset: PENDING is stored in NVS, every route is refused from then on
  at its *entry*; effects; restart armed; PENDING cleared.  A power cut anywhere
  is finished by the next boot.
* A password change: the gate closes, the record is read, PBKDF2 runs (half a
  second), the record is replaced, the verifier in RAM is replaced, sessions are
  dropped, the gate opens.  Login and settings PUT share those variables.
* The settings record is written by setup, settings PUT, password change, reset
  and console; each takes the settings mutex for one read and one write, but only
  some hold it over both.
* Joining a network: main task and console call `wifi_ap_connect_station()`;
  both wait for one semaphore and read one flag, which the event task sets.

What is hard here is written down, line by line, in `hazards` of
`PROJECT.json`: values read before a lock and used after it, steps of two tasks
in an order no test has, a power cut between two writes, one failing step out of
several, and cleanup that must happen on every path.

## 2. The modules

| component modules | instances | abstract specification | proofs |
|---|---|---|---|
| `MacroExecutor` | `MCMacroExecutor` | `SendService`, by the mapping in `MacroExecutorService` | `MacroExecutorProofs`, `MacroExecutorServiceProofs` |
| `RepositoryStore` | `MCRepositoryStore` | `BlobService` | `RepositoryProofs` |
| `CredentialStore` | `MCCredentialStore` | | `CredentialProofs` |
| `RequestPolicy`, `DeviceActions` | `MCDeviceActions` | | `DeviceActionsProofs` |
| `DeviceSettings` | `MCDeviceSettings` | | `DeviceSettingsProofs` |
| `MacroParser` | `MCMacroParser` | the declarative reading in the module itself | `MacroParserProofs` |
| `Startup` | `MCStartup` | | `StartupProofs` |

Each component's module has its state as variables, one action per critical
section or call, its fairness and its properties.  Operators marked `MUTANT of`
are broken variants that no action uses: each passing property has at least one in
`PROJECT.json`, with which its run fails.

### MacroExecutor (implements SendService)

`SendService` is the promise of the send API (`docs/SPEC_V2.md` 7.3, 7.4,
7.12): at most one send is active, keys go down only for the running one, an
unconfirmed send does not run, `completed` means that every key went down, a
terminal state is final.  It knows no task, no mutex and no queue.

`MacroExecutor` is the code.  Program counters `wpc`, `hpc`, `kpc` are the
worker, the HTTP task and the console; a pc's name says what the task does next.
Every section under the engine mutex is one action; the latch, the queue, USB
calls and `macro_plan_v2_free` are actions of their own, so the tasks interleave
exactly where the code lets them.  `SubmitReadLatch`, `SubmitReadUsb`,
`SubmitClaim`, `SubmitSend` and the `Undo*` actions are
`macro_executor_engine_submit()` and `finish_submission_failure()`;
`Worker*` are `macro_executor_engine_execute()` and what it calls.

`MacroExecutorService` holds the refinement mapping: the phase of a send is its
published outcome, else what the status shows, else "accepted".

Abstractions: time is one event, `DeadlinePasses`, plus a number of cancellation
slices per delay; a plan is a sequence over `{"key", "delay"}`; validation and
JSON are left out.  `MaxFaults` bounds how often a mutex or the queue reports an
error.  The production mutex waits for ever (`MaxFaults = 0`), but the engine
has a fail-closed path for each refusal, so one run exercises those.

### RepositoryStore (implements BlobService)

`BlobService` is what `/api/v1/blob` promises: a snapshot appears whole under a
free id, is never replaced, and once answered with 201 survives every power cut
until it is deleted.

`RepositoryStore` is the upload, delete and list of the HTTP task, the factory
reset in the task that runs it, boot with its recovery, the delayed restart, the
console's password change (which writes the settings record) and power cuts.
A directory operation is atomic; `files` is what the tasks see and `disk` what
the medium holds.  With `ParentSync = FALSE` (the device: LittleFS) they are
equal; with `TRUE` (`storage_fs_ops.c` on other file systems) a rename is durable
only after a sync, which may fail.  `ResetOnWorker` is the setting
`require_serial_confirmation`: the reset runs concurrently with the HTTP task,
or on it.

Abstractions: a snapshot is one value, the settings record is "provisioned" or
"erased", listing is one action, blob reads, the cached number of blobs and the
reset-settings route are left out.  The unlink of an open temporary file by the
reset may be refused at no cost of the fault budget; a removal of temporary files
that fails stops at any one of them (`Leftovers`).

### CredentialStore

The administrator password in its four places: the record in NVS, the record
cache of `device_settings_core.c`, the verifier in RAM, and the sessions it has
opened.  One action is one critical section (the portMUX of the verifier, the
settings mutex, the auth lock); PBKDF2 lies between two actions.  A password is
its version number, because each derivation draws a new salt and no two records
are equal; `net` stands for all other fields of the record.

`ReplaceRecord` is `device_settings_core_replace()` with
`replace_record_atomic()`: a write may succeed, fail without an effect, fail in
its commit with an outcome nobody can read back, and leave the NVS handle closed
for good when it cannot be opened again.  `ChangeBegin` .. `ChangeEnd` are the
transaction of `change-password` on the HTTP task and of `set-admin-password` on
the console.  `Reboot` may happen at any time.

Abstractions: wrong passwords and the throttle are left out, the least recently
used session is any session, expiry may happen at any time.  The settings mutex
is never refused: it is taken with `portMAX_DELAY` and given by its holder.  (If
its give could fail, `finish_locked()` would report a plain error after a durable
commit.)  The auth lock may be, because the code has an answer of its own for it
(409 `auth_state_incomplete`).

### RequestPolicy and DeviceActions

`RequestPolicy` has the functions without state: the route table, who needs a
body, a session or a confirmation, the order of the checks, what each error and
each outcome of a device action is answered with.  `DeviceActions` extends it
with the tasks: `main` starts the controls and the server and takes them down
again when a later step of the start fails; `httpd` guards and dispatches;
`worker` runs one call at a time; the controls task, the console and the restart
timer run beside them.  `Handle(t)` is a device action on whichever task runs it
(`Policy`, `WaitEntry`, `WaitTake`, `WaitTimeout`, `Body`, then the effects in
the order of `device_controls_reset.c`).

History variables say what no task stores: how many confirmations were given,
which signal a call took, how far the actions were when a call passed the guard,
which calls have taken effect.  `change-password` also goes through the worker
and is in `CredentialStore`; a `confirm` that a send awaits is in `MacroExecutor`.

A write of the settings or of the marker has three outcomes: it is durable and
reported as done; it failed and changed nothing (`WriteErrors`); or its commit
failed and either value may be durable (`MayCommit`).  The third is
`COMMIT_UNCERTAIN` of `reconcile_failed_commit()` in `ApplyReset` and `Erase`, and
`STORAGE_UNAVAILABLE` of `factory_reset_state.c` in `MarkPending` and
`ClearPending`, where nothing is read back.  `AnswerTellsTheTruth` says what each
answer leaves to be concluded: a 503 that the write is one or the other, 422, 500
and 507 that nothing was changed.  The set of errors answered 503 (`Unavailable`)
is a definition of its own, and one mutant of the property takes
`COMMIT_UNCERTAIN` out of it; the other clears the marker of a reset that had an
error.

Abstractions: settings, blobs and marker are one value each; the LED pattern,
bodies as text and wrong passwords are reduced to what is answered.  A failing
`nvs_commit` of the marker is taken to report `STORAGE_UNAVAILABLE`, the default
of `map_nvs_error()`.  The handle of the settings that stays closed is in
`CredentialStore`.  A login is one step (`LoginOrLogout`): guard, hash and new
session are steps of `CredentialStore`, and a session made in the run counts as
new whenever it comes, so no property here rests on it.

### DeviceSettings

The record field by field.  Texts are byte sequences: `Utf8`, the limits in
bytes and in characters, `Valid`, `Encode` and `Decode` (with the unused rest of
each field and the reserved byte) are translated, so that what one writer accepts
can meet what the loader refuses.  `SetupReads` and `PutReads` read a JSON
request to a candidate; `SetupReplace`, `SetupAnswer` and `Restart` are a
submission with its one-time code, attempts and restart; the other actions are
the writers of the record, the cache, and loss of power.  The device begins with
any of `InitialRecords`, one of them with a byte an older firmware may have set.

Abstractions: a credential (salt, verifier, iterations) is one number; the
magic, version and length words, and the next blob id (an NVS key of its own)
are left out; a package id is an atom, a setup code one of a set (how it is drawn,
spelled and printed is no property's concern); JSON members come as a sequence, so that
order and repetition matter.

### MacroParser

`macro_compile_v2()`, one step per token; a `[...]` group is one token.
`PlanIsAReading` and `RefusedOnlyIfInvalid` compare it with a reference
definition that is not a parser: a plan is right when some division of the source
into pieces of the language types it.  `Printable` is the whole US key map.  There
are two sources of the language that the compiler refuses, and the property names
them: three brackets in a row (`Ambiguous`), and a directive that does not fit its
buffer of 64 bytes (`LongDirective`; only a delay with many leading zeros is that
long).  The second was found by attempting the proof of completeness.

Abstractions: directive names are known by their spelling (`NameOf`); memory may
run out at the first allocation or at none.

### Startup

`app_core_sequence_start()` in both modes, stage by stage, and
`cleanup_after_failure()`.  Two stages hold several parts: the mounts and the
access point (`wifi_ap_engine_start()`, `cleanup_resources()`); every other is one
resource.  The event task takes reports of the driver from a queue and writes the
access point status back in a second step, as `wifi_event()` does.  `JoinStep`
is `wifi_ap_connect_station()` on the main task and on the console, which share
`sem` and `gotIp`.

Abstractions: the 100 ms drain before an attempt is assumed long enough for
reports of the attempt before it that are already queued; scan results, addresses
and the health records are left out.  What `wifi_ap_connect_station()` makes
before its first attempt, the station interface (`wifi_ap.c:269-291`) and
`sta_outcome_semaphore` (`:357-362`), is there from the start.  That it cannot be
made is a failure that changes nothing: `BootJoin` goes on without a network, a
console command has no effect.  The semaphore is made under no lock, so the first
two joins could each make one when they come at the same moment; the one whose
semaphore is replaced times out.  That race is not in the model.

## 3. The runs

| run | instance | question |
|---|---|---|
| `executor` | 2 sends of one key, symmetric, no faults (1.1 M states) | Do the tasks together implement `SendService`; one send at a time; does a cancel win during the confirmation? |
| `executor_faults` | 1 send: key, delay of one slice, key; 2 failures; fair (0.4 M) | Is each plan freed exactly once, does a stuck engine always latch, does a cancel stop after at most one more key, does every accepted send end? |
| `repository_device` | 2 ids, 1 payload, 2 faults, 2 power cuts, reset on the worker, fair (0.5 M) | Are ids never reused, has PENDING always an owner, is it cleared only when its work is durable, does every accepted reset end? |
| `repository_synced` | 2 ids, 2 payloads, 2 faults, 2 power cuts, parent sync, reset on the HTTP task | Does the repository implement `BlobService` although renames may be lost; is PENDING cleared only over an empty repository? |
| `reset_races_upload` | as `repository_device`, no fault, no power cut | *violated*: a blob survives a factory reset |
| `credentials` | 2 sessions, 3 new passwords, 2 faults, fair | Do cache, verifier, sessions and record agree as far as the code can make them, and does the gate always reopen? |
| `device_actions` | a reset of the settings from a session that begins in the run, a factory reset and a restart from an older one; 2 requests, 1 confirmation, 2 faults, confirmation on or off, start that may fail, fair (0.5 M) | Is nothing freed that is in use, does one confirmation buy one action, are answers true, do old sessions do nothing after a reset, is every request answered? |
| `macro_parser` | all sources of 3 pieces out of 13, of 6 out of 4 | Does the compiler type what the language says, refuse only what has no reading, and keep its limits exactly? |
| `settings` | 14 setup and 16 PUT bodies, texts around every limit, 1 fault, power cuts | Does the record always load again, does the code tell whether the device is provisioned, does each writer keep to its fields? |
| `setup_stuck` | the same, fair | *violated*: a provisioned device stays in setup mode |
| `startup` | both modes, 2 faults, 1 client, 1 `wifi-connect`, 2 attempts (0.9 M) | Does the rollback forget nothing and stop users first, is the published status true, is a join without a rival a lease, does the start end? |
| `unjoined_saved` | the same, 1 fault | *violated*: a network is saved that was never joined |

### Why these bounds are enough

* Executor: one engine serves one send at a time, so two sends are what is
  needed for a late step of the first to meet the second.  Two failures let a
  publication and the reset after it fail in the same send.  Two keys around a
  delay give a send with a check, a press, a slice and a release before and after
  each point where a cancel may arrive.  `executor` treats its two sends as
  symmetric: their plans are equal, no action and no property tells them apart,
  and the run checks no liveness.
* Repository: reuse of an id needs one blob that is published and deleted and a
  second upload, which may run beside the reset.  `LastId`, the id that is never
  given out, stands for `UINT64_MAX`: the end of the id space is reached.  Two
  faults let an operation fail and what cleans up after it as well.  Two power cuts allow one in an operation and one in its recovery.
* Credentials: each of the two tasks can complete one change and a third runs
  against their results; two sessions allow one of each generation; two faults
  allow a failed write and the failed answer to it (an uncertain commit and an
  incomplete invalidation).
* Device actions: the hazards are between one call and the next (a signal left
  over, a session from before a reset, a claim not released), so two calls; a
  single confirmation, so that a second action would have to do without one.  Two
  faults reach a failing start whose undoing fails, and a reset with two failed
  steps.  A third fault breaks `LiveResources`: the start has failed, both calls
  of `web_server_async_stop()` run out over a worker that is busy with a device
  action, and the controls go from under it.  The theorem `ResourcesLive` says
  that nothing less does.
* Parser: three pieces put every piece after and before every other; groups need
  more, and get six of the four pieces that decide how they end.  Limits are
  small (4 actions, 2 keys in a chord, delays of 1 to 9, directives of 11
  characters) so that they are passed.  What TLC finds here for short sources is
  proved for all.
* Settings: limits of one to three bytes, texts of one to four, so that each
  check has an accepted and a refused neighbour; a text of three bytes that is
  one character tells bytes from characters.  The module `MCDeviceSettings`
  also has an `ASSUME` of `Utf8` at the real borders of the code points.
* Startup: two faults are one that makes the start fail and one in the
  rollback.  Two attempts of the code's three give a failed attempt before a
  successful one; one client of four gives a status that counts and one that
  does not.  The rollback properties are proved for every bound.

### The disagreements

* **Reset and upload** (`reset_races_upload`).  An upload admitted before PENDING
  was stored renames its file after the reset has collected the names: the blob
  survives (`docs/SPEC_V2.md:863`).
* **Setup that does not restart** (`setup_stuck`).  The restart is scheduled only
  if the 202 could be sent, so a client that has gone leaves the device
  provisioned and in setup mode (`web_server/web_server_setup.c:245`, `:261`).
* **Joined by another** (`unjoined_saved`).  The console takes the lease of the
  configured network for that of its own attempt and saves a network that never
  answered (`docs/SPEC_V2.md:960`, `wifi_ap/wifi_ap.c:330`).

### Observations without a run

These are behaviours of the code that the models have; the document in question
does not plainly rule them out, or a property above states how far they go.

* `macro_executor_engine_submit()` reads the latch before its mutex and not again
  (`macro_executor_engine.c:322`): `LatchLeak` proves that at most one request in
  the life of the engine is accepted behind it.
* `get_status` reads the fault before the latch (`:423`), so that a fault that
  arises between the two is answered as a bare 500.
* Between the 202 of a send and its first published status a cancel is answered
  "never sent" (`web_send.c:290`).
* A login verified before the gate closed creates its session after the others
  were dropped: `AtMostOneStaleSession` bounds it.
* Settings PUT replaces a record it read before a console change of the password:
  `RevertedOnlyByPut` says that nothing else can.
* A change of the password writes back a record it read half a second earlier
  (`web_settings.c:651`): a wifi-connect, set-ap-passphrase or reset-settings
  answered in between is undone.  `WritersKeepToTheirFields` excuses it (`stale`).
* A password change from the console that read the record before a factory reset
  writes it back after the erase.
* A marker whose commit failed may be found set (`factory_reset_state.c:49`).  The
  request was answered 503 and nothing else of it was done, yet the guard then
  refuses every other request and the next boot erases the device.
* A reset-settings whose commit is uncertain is answered 503: the record may be the
  default one, while the latch is not set, the sessions live on and no restart
  follows.  `AnswerTellsTheTruth` leaves exactly these two cases open.
* `confirm` checks the confirmation semaphore and then gives it
  (`device_controls.c:350`); a start that fails in between deletes it.  The model
  has the two steps apart and lets the give have no effect; what FreeRTOS does with
  a deleted semaphore is undefined, and no property speaks of it.
* With a parent sync *and* the reset on the worker an id can be used twice, and
  the marker cleared over a delete that was not synced.  The device has LittleFS,
  where a rename is durable; the theorems say which configuration they need.
* A `confirm` typed when nothing waits is kept, and confirms the next request.
* `[a]]]]]` is refused as a duplicate key although a reading of it exists, and so
  is a delay of 60 digits whose value is in range (`macro_parser_v2.c:169`);
  `RefusedOnlyIfInvalid` names both exceptions, `RefusalsAreRight` says that there
  is no third.
* `set-admin-password` is refused on an unprovisioned device, though a comment
  (`serial_console.c:156-158`) offers it for recovery.
* An uncertain commit of a setup submission leaves setup mode answering 409 until
  the device is restarted.
* PUT refuses an open station network that `wifi-connect` accepts and saves.
* The station interface and its handlers outlive `wifi_ap_stop()`; a failure half
  way through `ensure_station_netif()` is not undone.
* A rollback deletes the settings mutex a console command may be waiting for.
* An event handler that cannot be unregistered may write "stopped" into the
  status after a rollback that failed.

### Fairness

* `MacroExecutor`: weak fairness of `Worker`, `Submit`, `HttpCall` (FreeRTOS
  schedules every ready task; USB calls and mutexes are bounded) and of
  `DeadlinePasses` (the tick counter advances).  No fairness of clients, of the
  console or of the host: nobody has to confirm, cancel or plug in.
* `RepositoryStore`: weak fairness of the boot steps, of the reset stages, and of
  the restart timer, which runs on a task of its own.  Power cuts are bounded by
  `CrashBudget`, so a reset that is interrupted for ever is not an answer.
* `CredentialStore`: weak fairness of the transaction a task is in.  Logins, PUTs
  and new transactions need not happen.
* `DeviceActions`: weak fairness per task: of the start and its undoing, of the
  HTTP task and of the worker, each with the call it runs, of the controls task
  once it is asked to stop, and of the timer.  `RequestsAreAnswered` says that a
  moment without an unanswered request always comes again; as requests are
  bounded and answers final, each one is answered.  The confirmation times out
  (`device_controls.c`), so nothing is asked of the person at the console.
* `DeviceSettings`: weak fairness of a handler that has begun and of a restart
  that was scheduled.  It is what makes `setup_stuck` a refutation: everything
  that has to go on does, and the device still stays in setup mode.
* `Startup`: weak fairness of the main task, of the event task and of the boot's
  join.  Clients, networks and the console owe nothing.

Deadlock is checked except in `device_actions` (the chip restarts),
`macro_parser` (the compiler returns), `startup` and `unjoined_saved` (the start
is over and nobody need type anything).

## 4. The proofs

The theorems hold for every value of the constants: every set of sends and
plans, every number of slices, failures, ids, power cuts, sessions, requests,
confirmations, events and clients, every set of texts and records.  They assume
only the `ASSUME`s of the modules, which TLC evaluates in the runs, and where a
theorem needs a configuration it says so in its statement.

**MacroExecutorProofs.**  `TypeCorrect`; `OneSend` (`OneSendAtATime` is stated
for the three holders of a claim, the submitting request, the queue and the
worker, and tied to `busy`, which is what the claim under the mutex reads);
`Ownership` (a plan changes hands only together with the claim);
`KeysReleased` (`NoStuckKey`); `LatchLeak` (the latch is never released, so no
second request passes a check that was true before it).

Its second half: `Inv` strengthens the above until cancel and failure can be
argued about: `ClaimInv` (whoever holds the claim holds it for the
send that made it, and a cancel of that send stays in the flag until the flags
are reset), `FreshInv` (a send the worker has not begun has typed nothing and has
no outcome), `Progress` (keys typed are those of the plan before the worker's
position; `KeysBefore` counts them), `LateInv` (after a late key the worker meets
the flag before it can press another), `Responsible` (an accepted send without an
outcome, and `busy`, always have a task that will end them, or the engine is
latched), `WaitInv` (as long as no mutex has failed, nothing has been typed while
the prompt shows, and a send cancelled there does not reach its keys).  From it `CompletedIsTrue`, `CancelIsPrompt`,
`CancelledPromptTypesNothing` and `FailsClosed`.

**MacroExecutorServiceProofs.**  `Implements`: with a mutex and a queue that do
not fail (`Faultless`, the production adapter) every behaviour of
`MacroExecutor` is one of `SendService` under the mapping.  One lemma per action
says which step of `SendService` it is, or that it is a stutter; `ShowInv` says
what the status shows while the worker is where it is.  With failing mutexes the
refinement is not claimed: a status that could not be published is lost.

**RepositoryProofs.**  `IInv` says in which phases of the device a request or a
reset can run (`Placed`), that a reset past its marker was accepted and clears
only with the restart armed (`Accepted`), that every blob on the medium was
published (`Known`), that the settings are erased before the reset goes on
(`Wiped`), that the next ids are above every id ever published (`Above`), and that
a reset without an error has listed, or removed and synced, each blob it found
(`Doing`).  From it `ResetHasOwner`; `IdsStayUnique` where a
rename is durable; `ClearedWhenDone` where it is, or where the reset runs on the
HTTP task (`Careful`).  `KeepsPromises` is the refinement of `BlobService`, for
every configuration: `BInv` adds that a snapshot that was answered with 201 and
not deleted is on the medium (`Durable`), and that an upload past its check of
the id renames onto no blob (`Free`), which is `Above` at the moment that counts.
Each step then is one of `BlobService` or changes nothing it speaks of.

**CredentialProofs.**  That a change writes a password newer than the record's
needs that no other change writes between its read and its replace
(`OneTransition`), that a settings PUT holds an older record (`Newer`), and that
the console's network commands write back the record in NVS (`CacheIsDurable`).
`Lag` says where verifier and record differ.  `TypeCorrect`, `CacheNeverLies`,
`Serialized`, `VerifierAgrees` follow, `OnlyPutReverts` is the action property
`RevertedOnlyByPut`, and `FailureIsFinal` adds `FInv`: the password of a failed
change is neither in the record nor in anything a task may still write to it.
`OneStaleSession` adds `SInv`: while a login that was verified before the change
is still to come there is no older session at all, and after it at most that one.

**DeviceActionsProofs.**  `TypeCorrect`, which includes that controls without
signals never claim them, through every failure of their start and stop.
`HttpdIsFree`: `HttpdInv` relates two decisions in different files: a request
that `web_api_request_requires_worker()` leaves to the HTTP task is refused by
the pipeline before it could come to a confirmation.  `OneSignalPerAction`:
`CountInv` counts a signal in exactly one place, given and not yet taken, taken
by a call that has not acted yet, or spent.

`NoOldSession` and `AnswersAreTrue` need to know where every request stands.
`ActInv` is `IInv` with: `SerialInv` and `ClaimInv` (one call acts at a time, on
the HTTP task without the confirmation, behind the one claim with it; the queue
holds the claimed request or the stop sentinel), `IdInv` (a call that runs has no
answer and is nobody else's), `StageInv` (what has become of store, latch, marker
and outcome by each step of an action) and `SessionInv` (what a request's guard
saw of the resets that had begun, and what its admission then did: a call that
was admitted and has not acted comes, towards every reset that has begun, with a
session that is not from before it, or passed its guard before that reset and
something has failed), and `ActedTouched` (a reset that counts as begun was
written by its request).  Without `SerialInv` two actions could mix
their outcomes; without `SessionInv` the session table at admission says nothing
about the action many steps later.  `NoOldSession` is `OldSessionsPowerless`,
`AnswersAreTrue` is `AnswerTellsTheTruth`: whichever steps fail and whatever a
failed commit has left, 202 and 409 mean what they say, and of the other answers
only a 503 can come from a request that wrote anything, of which no reset began.

`ResourcesLive`: while fewer than three operations have failed, `LiveResources`
holds.  `LiveInv` says who can still run at each step of the start and of its
undoing: the controls task is gone before its pin and signals are
(`ControlsLive`), the queue outlives the worker and the number of failures bounds
how far the undoing can have got beside it (`WorkerLive`), and only the worker
ever waits (`WaitLive`).  The bound on failures is sharp; see section 3.

**DeviceSettingsProofs.**  The round trip `EncodedIsDecoded` (a valid record
decodes to itself) is a lemma about the encoding for every limit.  `IInv`: the
stored bytes decode (`Loads`), the cache is what they decode to (`Coherent`), mode
and code belong together (`Phase`), and what a handler is about to write differs
from the record only in its own fields (`Current`).  From it `AlwaysLoads`,
`CodeIsTrue`, `SetupKeepsOut` and `WritersKeep`.

**StartupProofs.**  `Known`: whatever is held belongs to a stage the rollback
will run; `Ahead`: behind it are only parts that are released or refused to be.
`Rank` orders the parts of a stage.  From it `ReleasedOrRefused` and
`UsersBeforeParts`.  `ApStatusTold` (`ApStatusIsTrue`): the event task reads the
status in one step and writes it back in another, so `ApInv` says what the
reports that wait, the handler that runs and the published count have to do with
the clients there are: while the access point serves, they lead from the one to
the other (`Serves`, `Leads`); before and after, nothing is left that could write
an old count back (`Dark`, `Off`).  `SoleJoinIsTrue` (`SoleJoinMeansLease`):
`JoinInv` says of a join without a rival that no report, semaphore or flag is left
over from an attempt before it (`Attempt`), so that what it takes is its own.

**MacroParserProofs.**  For every source, not only for the short ones of the run:
the compiler is sound (`PlansAreReadings`), complete but for its two exceptions
(`RefusalsAreRight`), exact about its limits (`LimitsAlwaysHold`), and never leaves
the source (`TypesStayCorrect`).  Loops of the code and divisions of a text are
recursive functions over `0 .. n`.  The library's induction theorems cannot be used
by the provers, so the module proves its own from the least element of a set of
numbers, a set instead of a predicate: `Induction`, `PassedOn`, and `Iterates`, that
a function computed step by step exists; `CutsDef`, `GroupScanDef`, `ValuesDef`,
`DelayValuesDef` and `TotalsDef` follow.  `DelayIsValue` says that the guarded loop
of `v2_parse_delay()` computes the number or notices that it is too large.
`MemberRead` is the heart for one token: the reader takes exactly the text that
means something, as no other text from the same place does.  `GroupScanned`
(soundness) and `ChordScanned` (completeness) follow the scan of a group member by
member; `Gathers` says what the accumulator has of the members read so far.

Three invariants: `TypeCorrect`; `ReadSoFar`, that the plan so far with any division
of the rest is a reading of the whole; `NotRefused`, that the rest of a source of the
language still has a division.  `PlanIsAReading` alone is not inductive, since it
says nothing before the last step, and `ReadSoFar` at the end of the source is it.

Only model-checked:

* everything about liveness (`AcceptedSendEnds`, `EngineBecomesIdle`,
  `ResetCompletes`, `GateReopens`, `RequestsAreAnswered`, `StartEnds`), which
  needs fairness and `ENABLED`.

## 5. Not modelled, and why

* **Web application** (`webapp/src/v2`).  Snapshot saving with retention, lost
  answers and reconciliation against the API that `BlobService` specifies.  It is
  a second program in another language; it would be a client of `BlobService` and
  is the next thing to add.
* **Login throttle and session expiry** (`auth/auth_core_rate_limit.c`,
  `auth_core_session.c`): a table over absolute times.  The credential models let
  a session end at any time, which is all they need of it.
* **Shutdown of the executor** (`macro_executor.c:235-300`): the stop message and
  the draining of its queue are one step of `Startup`.
* **The 32-bit millisecond deadline**: time is one event.
* **Reading a blob, the cached blob count, the content of a blob.**
* **USB report queue and TinyUSB callbacks, console line editing.**
* **Cookies and headers as text, static files, JSON output, diagnostics, health
  records, logging**: data and wording that no modelled decision reads.
* **`web_setup_core.c`, `web_setup_json.c`**: not built into the firmware.
* **ESP-IDF, FreeRTOS, LittleFS, NVS, the Wi-Fi driver**: external, modelled by
  what their callers can observe.

## 6. Where to go on

1. `SnapshotSave`: the browser's save as a client of `BlobService`.
2. The throttle: a lockout of one source is never shortened by another; what
   happens when the table is full of locked sources
   (`auth_core_rate_limit.c:69`).
3. A step inside `device_settings` for the waiting on its mutex, to compose the
   rollback of `Startup` with a console command that waits for it.
4. An abstract specification of the device actions (a confirmation buys one
   action, an answer is final and true) and the proof that `DeviceActions`
   implements it.
