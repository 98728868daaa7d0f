--------------------------- MODULE DeviceSettings ---------------------------
(***************************************************************************)
(* The settings record field by field: its checks and its encoding         *)
(* (device_settings_v2.c), the record in NVS and its cache                 *)
(* (device_settings.c, device_settings_core.c), and everyone who writes it *)
(* while the device is set up and used: POST /api/v1/setup                 *)
(* (setup_contract_v2.c, web_server_setup_submit.c, web_server_setup.c),   *)
(* PUT /api/v1/settings (settings_contract_v2.c, web_settings.c), the      *)
(* password change, the reset of the settings and the serial console.      *)
(*                                                                         *)
(* CredentialStore models what a password change must do besides; here a   *)
(* credential is a number, 0 for none.                                     *)
(*                                                                         *)
(* A text is a sequence of bytes without NUL.  A package id is an atom.    *)
(* The HTTP server runs one handler at a time; what it does between two    *)
(* holds of the settings mutex belongs to the action before.               *)
(***************************************************************************)
EXTENDS Naturals, Sequences

CONSTANTS
    DefaultName,                \* "ESP32 Macro Keyboard"
    NameMax, SsidMax,           \* APP_V2_DEVICE_NAME_MAX_BYTES, APP_V2_WIFI_SSID_MAX_BYTES
    PassMin, PassMax,           \* APP_V2_WIFI_PASSPHRASE_{MIN,MAX}_BYTES
    AdminMin, AdminMax,         \* APP_V2_ADMIN_PASSWORD_{MIN,MAX}_BYTES
    RetentionMax, RetentionDefault,
    Packages, NoPackage,        \* the valid package ids, and "no package"
    Codes,                      \* the setup codes
    SetupBodies, PutBodies,     \* bodies of POST /setup and PUT /settings
    AdminPasswords, Networks, Passphrases, \* arguments of the other commands
    InitialRecords,             \* what NVS may hold at first
    MaxCred,                    \* bound: how many credentials are derived
    FaultBudget,                \* bound: how many operations fail
    Absent, Unloaded, Null

ASSUME LimitAssumption ==
    /\ {NameMax, SsidMax, PassMin, PassMax, AdminMin, AdminMax, RetentionMax} \subseteq Nat
    /\ RetentionDefault \in 0 .. RetentionMax /\ 0 < PassMin /\ NoPackage \notin Packages

\* A C string in a buffer of its own.
Text == Seq(1 .. 255)

\* app_v2_device_settings_t
Settings ==
    [provisioned : BOOLEAN, cred : Nat, retention : Nat, confirm : BOOLEAN,
     package : Packages \cup {NoPackage}, name : Text, apSsid : Text, apPass : Text,
     joined : BOOLEAN, stSsid : Text, stPass : Text]

-----------------------------------------------------------------------------
(* Texts and the checks of a record.                                        *)

\* The continuation bytes that a first byte announces, 4 for none possible.
Continuations(first) ==
    CASE first \in 0 .. 127   -> 0
      [] first \in 194 .. 223 -> 1
      [] first \in 224 .. 239 -> 2
      [] first \in 240 .. 244 -> 3
      [] OTHER                -> 4

CodePoint(text, i, n) ==
    LET lead == IF n = 0 THEN text[i] ELSE text[i] % (CASE n = 1 -> 32 [] n = 2 -> 16 [] n = 3 -> 8)
        after[k \in 0 .. n] == IF k = 0 THEN lead ELSE after[k - 1] * 64 + (text[i + k] % 64)
    IN  after[n]

\* The code point belongs to n continuation bytes: none shorter spells it, and it is
\* no surrogate.
SpelledRight(point, n) ==
    /\ point \in (CASE n = 0 -> 0 .. 127 [] n = 1 -> 128 .. 2047 [] n = 2 -> 2048 .. 65535
                   [] n = 3 -> 65536 .. 1114111)
    /\ point \notin 55296 .. 57343

\* valid_utf8(): each character begins where the one before ends, and is spelled right.
Utf8(text) ==
    LET starts == {i \in DOMAIN text : text[i] \notin 128 .. 191}
        ends   == {Len(text)} \cup {i - 1 : i \in starts}
    IN  /\ 0 \in ends
        /\ \A i \in starts :
              LET n == Continuations(text[i])
              IN  /\ n < 4 /\ i + n \in ends /\ starts \cap (i + 1 .. i + n) = {}
                  /\ SpelledRight(CodePoint(text, i, n), n)

\* valid_text()
ValidText(text, minimum, maximum) == Len(text) \in minimum .. maximum /\ Utf8(text)

\* valid_text() of the contracts: the same for a text of a request.
RequestTextValid(text, minimum, maximum) == ValidText(text, minimum, maximum)

\* valid_uuid_or_empty()
PackageValid(package) == package \in Packages \cup {NoPackage}

\* app_v2_device_settings_init_unprovisioned()
Unprovisioned ==
    [provisioned |-> FALSE, cred |-> 0, retention |-> RetentionDefault, confirm |-> FALSE,
     package |-> NoPackage, name |-> DefaultName, apSsid |-> <<>>, apPass |-> <<>>,
     joined |-> FALSE, stSsid |-> <<>>, stPass |-> <<>>]

\* station_fields_valid(): an open network has an empty passphrase.
StationValid(s) ==
    IF s.joined
    THEN /\ ValidText(s.stSsid, 1, SsidMax)
         /\ s.stPass = <<>> \/ ValidText(s.stPass, PassMin, PassMax)
    ELSE s.stSsid = <<>> /\ s.stPass = <<>>

\* app_v2_device_settings_validate()
Valid(s) ==
    /\ s.retention <= RetentionMax
    /\ PackageValid(s.package)
    /\ ValidText(s.name, 1, NameMax)
    /\ IF s.provisioned
       THEN /\ s.cred # 0
            /\ ValidText(s.apSsid, 1, SsidMax) /\ ValidText(s.apPass, PassMin, PassMax)
       ELSE s.cred = 0 /\ s.apSsid = <<>> /\ s.apPass = <<>>
    /\ StationValid(s)

-----------------------------------------------------------------------------
(* The record in NVS.                                                       *)

\* Each text field with the size of its field, which has room for a NUL.
FieldBytes == [name |-> NameMax + 1, apSsid |-> SsidMax + 1, apPass |-> PassMax + 1,
               stSsid |-> SsidMax + 1, stPass |-> PassMax + 1]
TextFields == DOMAIN FieldBytes

\* write_record_text() into a zeroed field.
Padded(text, size) == [i \in 1 .. size |-> IF i <= Len(text) THEN text[i] ELSE 0]

\* app_v2_device_settings_encode() of valid settings.  The two reserved bytes, which
\* held preferences once, become 0.
Encode(s) ==
    [f \in DOMAIN s \cup {"reserved"} |->
        IF f = "reserved" THEN 0
        ELSE IF f \in TextFields THEN Padded(s[f], FieldBytes[f]) ELSE s[f]]

\* copy_record_text(): a NUL, and nothing after it.
TextEnd(field) == CHOOSE n \in 0 .. Len(field) :
    /\ n = Len(field) \/ field[n + 1] = 0
    /\ \A i \in 1 .. n : field[i] # 0
TextIn(field)  == SubSeq(field, 1, TextEnd(field))
TextOk(field)  == /\ TextEnd(field) < Len(field) /\ Utf8(TextIn(field))
                  /\ \A i \in TextEnd(field) + 1 .. Len(field) : field[i] = 0

\* app_v2_device_settings_decode(): the settings, and whether it succeeds.
Decoded(record) ==
    [f \in DOMAIN record \ {"reserved"} |->
        IF f \in TextFields THEN TextIn(record[f]) ELSE record[f]]
Decodes(record) ==
    /\ record.reserved \in 0 .. 1
    /\ \A f \in TextFields : TextOk(record[f])
    /\ Valid(Decoded(record))

\* What the record's bytes may be.
Field(size) == [1 .. size -> 0 .. 255]
RawRecords ==
    [provisioned : BOOLEAN, cred : Nat, retention : Nat, confirm : BOOLEAN,
     package : Packages \cup {NoPackage}, name : Field(NameMax + 1),
     apSsid : Field(SsidMax + 1), apPass : Field(PassMax + 1), joined : BOOLEAN,
     stSsid : Field(SsidMax + 1), stPass : Field(PassMax + 1), reserved : Nat]

\* A device is new, or holds a record that a firmware has written.
ASSUME RecordAssumption ==
    /\ InitialRecords \subseteq {r \in RawRecords : Decodes(r) /\ Decoded(r) \in Settings}
    /\ Absent \notin RawRecords /\ Unloaded \notin Settings /\ DefaultName \in Text

-----------------------------------------------------------------------------
(* Bodies of requests: the members of a JSON object in their order, each a key *)
(* with a value of some type.  The value of an object is its members again.    *)

\* bounded_body_length(), contains_embedded_nul_escape(), parse_exact_body(): one whole
\* object, in which no text holds a NUL.
ParsesExactly(body) == body.type = "object" /\ ~body.nul /\ ~body.trailing

Keys(members) == {members[i].key : i \in DOMAIN members}
NoneTwice(members) == \A i, j \in DOMAIN members : members[i].key = members[j].key => i = j
Given(members) == [key \in Keys(members) |->
                     CHOOSE i \in DOMAIN members : members[i].key = key]

\* exact_setup_fields(), populate_request(): every field, once, of its type.
SetupFits(members) ==
    /\ NoneTwice(members)
    /\ Keys(members) = {"code", "name", "apSsid", "apPass", "password", "confirm"}
    /\ \A i \in DOMAIN members :
          members[i].type = (IF members[i].key = "confirm" THEN "bool" ELSE "string")
Values(members) == [key \in Keys(members) |-> members[Given(members)[key]].value]

\* exact_credential_fields()
NetworkFits(member) ==
    /\ member.type = "object" /\ NoneTwice(member.value) /\ Keys(member.value) = {"ssid", "pass"}
    /\ \A i \in DOMAIN member.value : member.value[i].type = "string"

\* populate_settings_update_request(): a number is whole and fits a byte.
PutMemberFits(member) ==
    CASE member.key = "name"        -> member.type = "string"
      [] member.key = "confirm"     -> member.type = "bool"
      [] member.key = "retention"   -> member.type = "number" /\ member.value \in 0 .. 255
      [] member.key = "package"     -> member.type \in {"string", "null"}
      [] member.key = "accessPoint" -> NetworkFits(member)
      [] member.key = "station"     -> member.type = "null" \/ NetworkFits(member)

\* exact_settings_put_fields(): some of the six fields, each once.
PutFields == {"name", "confirm", "retention", "package", "accessPoint", "station"}
PutFits(members) == /\ NoneTwice(members) /\ Keys(members) \subseteq PutFields
                    /\ \A i \in DOMAIN members : PutMemberFits(members[i])

\* A null selects no package and removes the station network.
PutValue(member) ==
    CASE member.type = "object" -> Values(member.value)
      [] member.type = "null"   -> IF member.key = "package" THEN NoPackage ELSE Null
      [] OTHER                  -> member.value
PutRequest(members) == [key \in Keys(members) |-> PutValue(members[Given(members)[key]])]

\* The JSON parser makes a text of a string, and only a string is one.
Typed(member) ==
    /\ member.type = "string" /\ member.key \notin {"code", "package"} => member.value \in Text
    /\ member.type = "bool" => member.value \in BOOLEAN
ASSUME BodyAssumption ==
    \A body \in SetupBodies \cup PutBodies : \A i \in DOMAIN body.members :
        /\ Typed(body.members[i])
        /\ body.members[i].type = "object" =>
              \A k \in DOMAIN body.members[i].value : Typed(body.members[i].value[k])
ASSUME ArgumentAssumption ==
    /\ FaultBudget \in Nat /\ Passphrases \subseteq Text
    /\ Networks \subseteq [ssid : Text, pass : Text]

VARIABLES
    nvs,      \* the record in NVS, or Absent
    handle,   \* settings_handle_open
    cache,    \* device_settings_core_t.current, or Unloaded
    mode,     \* "off", or the route table that is served: "setup" or "normal"
    session,  \* setup_session: the code and whether it is used up
    http,     \* the handler at work: its next step, the settings to write
    restart,  \* a restart is scheduled
    creds,    \* credentials derived so far
    faults,   \* failures still to come
    \* history, read by no action:
    stale,    \* another task has written since the handler read
    unsure    \* a commit has been uncertain since the boot
vars == <<nvs, handle, cache, mode, session, http, restart, creds, faults, stale, unsure>>

Idle == [pc |-> "idle", new |-> Unprovisioned, owns |-> {}]
NoSession == [code |-> 0, consumed |-> TRUE]

Init ==
    /\ nvs \in {Absent} \cup InitialRecords
    /\ handle = FALSE /\ cache = Unloaded /\ mode = "off"
    /\ session = NoSession /\ http = Idle /\ restart = FALSE
    /\ creds = 0 /\ faults = FaultBudget /\ stale = FALSE /\ unsure = FALSE

Fault == faults > 0 /\ faults' = faults - 1

\* What device_settings_core_load() makes of NVS.
Stored == IF nvs = Absent THEN Unprovisioned ELSE Decoded(nvs)
Loaded == IF cache = Unloaded THEN Stored ELSE cache
Readable == IF nvs = Absent THEN TRUE ELSE Decodes(nvs)

\* It succeeds from the cache or from NVS, and then the cache is loaded ...
CanLoad == IF cache = Unloaded THEN handle /\ Readable ELSE TRUE

\* ... or it fails, and leaves the cache as it was.
LoadFails == /\ cache = Unloaded /\ UNCHANGED cache
             /\ \/ ~CanLoad /\ UNCHANGED faults
                \/ Fault

\* The cache after a commit that is neither done nor undone for sure.
AfterUncertain == Unloaded

\* replace_record_atomic() and reconcile_failed_commit(), and what
\* device_settings_core_replace() makes of them.  A commit that fails may have been
\* done: the handle is opened again and the record compared.
Write(new, done) ==
    \/ /\ ~handle /\ ~done /\ cache' = Loaded
       /\ UNCHANGED <<nvs, handle, faults, unsure>>
    \/ /\ handle /\ ~done /\ cache' = Loaded /\ Fault
       /\ handle' \in BOOLEAN /\ UNCHANGED <<nvs, unsure>>
    \/ /\ handle /\ done /\ cache' = new /\ nvs' = Encode(new)
       /\ Fault \/ UNCHANGED faults
       /\ UNCHANGED <<handle, unsure>>
    \/ /\ handle /\ ~done /\ cache' = AfterUncertain /\ Fault
       /\ nvs' \in {nvs, Encode(new)} /\ handle' \in BOOLEAN /\ unsure' = TRUE

\* MUTANT of Replace: the record is not encoded, so not checked, before it is written.
ReplaceUnchecked(new, done) ==
    \/ /\ ~done /\ LoadFails /\ UNCHANGED <<nvs, handle, unsure>>
    \/ CanLoad /\ Write(new, done)

\* device_settings_core_replace(): only valid settings that change the record are written.
Replace(new, done) ==
    \/ /\ ~done /\ LoadFails /\ UNCHANGED <<nvs, handle, unsure>>
    \/ /\ CanLoad
       /\ IF Valid(new) /\ new # Loaded THEN Write(new, done)
          ELSE /\ done = Valid(new) /\ cache' = Loaded
               /\ UNCHANGED <<nvs, handle, faults, unsure>>

-----------------------------------------------------------------------------
(* Boot and restart.                                                        *)

\* app_v2_setup_session_generate(), _init(): one of the codes, not used up.
DrawnSession == [code : Codes, consumed : {FALSE}]

\* device_settings_init(), and the mode that the record calls for.  In setup mode a
\* code is drawn; drawing it may fail, which ends the boot as any failure does.
Boot ==
    /\ mode = "off"
    /\ \/ /\ Readable
          /\ handle' = TRUE /\ cache' = Stored
          /\ mode' = IF Stored.provisioned THEN "normal" ELSE "setup"
          /\ IF Stored.provisioned THEN UNCHANGED session
             ELSE session' \in DrawnSession
          /\ UNCHANGED faults
       \/ Fault /\ UNCHANGED <<handle, cache, mode, session>>
    /\ UNCHANGED <<nvs, http, restart, creds, stale, unsure>>

PowerOff ==
    /\ handle' = FALSE /\ cache' = Unloaded /\ mode' = "off"
    /\ session' = NoSession /\ http' = Idle /\ restart' = FALSE
    /\ stale' = FALSE /\ unsure' = FALSE
    /\ UNCHANGED <<nvs, creds, faults>>

\* The scheduled restart, or a loss of power.
Restart   == restart /\ PowerOff
PowerLoss == mode # "off" /\ PowerOff

-----------------------------------------------------------------------------
(* POST /api/v1/setup                                                       *)

\* MUTANT of SetupAccepts: it does not look whether the device is provisioned.
SetupAcceptsAlways(current, r) ==
    /\ ~session.consumed /\ r.code = session.code
    /\ RequestTextValid(r.name, 1, NameMax) /\ RequestTextValid(r.apSsid, 1, SsidMax)
    /\ RequestTextValid(r.apPass, PassMin, PassMax) /\ RequestTextValid(r.password, AdminMin, AdminMax)

\* The checks of app_v2_setup_prepare_candidate(), which come after the settings have
\* been read and the password derived.
SetupAccepts(current, r) ==
    /\ Valid(current) /\ ~current.provisioned
    /\ ~session.consumed /\ r.code = session.code
    /\ RequestTextValid(r.name, 1, NameMax) /\ RequestTextValid(r.apSsid, 1, SsidMax)
    /\ RequestTextValid(r.apPass, PassMin, PassMax) /\ RequestTextValid(r.password, AdminMin, AdminMax)

SetupFields == {"provisioned", "cred", "confirm", "name", "apSsid", "apPass"}

\* MUTANT of SetupCandidate: it starts from new settings, not from the current ones.
SetupCandidateAfresh(current, r, cred) ==
    [Unprovisioned EXCEPT !.provisioned = TRUE, !.cred = cred, !.confirm = r.confirm,
                          !.name = r.name, !.apSsid = r.apSsid, !.apPass = r.apPass]

SetupCandidate(current, r, cred) ==
    [current EXCEPT !.provisioned = TRUE, !.cred = cred, !.confirm = r.confirm,
                    !.name = r.name, !.apSsid = r.apSsid, !.apPass = r.apPass]

\* web_setup_submit_handle() up to the write.  A body that does not fit changes nothing;
\* a submission that is refused, or whose settings cannot be read, changes only the cache.
SetupRead(body) ==
    /\ mode = "setup" /\ http.pc = "idle"
    /\ ParsesExactly(body) /\ SetupFits(body.members)
    /\ LET r == Values(body.members)
       IN  \/ /\ CanLoad /\ cache' = Loaded /\ UNCHANGED faults
              /\ IF SetupAccepts(Loaded, r)
                 THEN /\ creds < MaxCred /\ creds' = creds + 1 /\ stale' = FALSE
                      /\ http' = [pc |-> "setup_replace", owns |-> SetupFields,
                                  new |-> SetupCandidate(Loaded, r, creds + 1)]
                 ELSE UNCHANGED <<http, creds, stale>>
           \/ LoadFails /\ UNCHANGED <<http, creds, stale>>
    /\ UNCHANGED <<nvs, handle, mode, session, restart, unsure>>

\* MUTANT of CodeAfter: the code is used up by the attempt.
CodeAfterAttempt(done) == [session EXCEPT !.consumed = TRUE]

\* The code is used up only by a write that succeeded.
CodeAfter(done) == IF done THEN [session EXCEPT !.consumed = TRUE] ELSE session

SetupReplace ==
    /\ http.pc = "setup_replace"
    /\ \E done \in BOOLEAN :
          /\ Replace(http.new, done) /\ session' = CodeAfter(done)
          /\ http' = IF done THEN [http EXCEPT !.pc = "setup_answer"] ELSE Idle
    /\ UNCHANGED <<mode, restart, creds, stale>>

\* The end of setup_submit_handler(): the restart is scheduled, or done at once, when
\* the answer has been sent; sending it may fail.
SetupAnswer ==
    /\ http.pc = "setup_answer" /\ http' = Idle
    /\ \/ restart' = TRUE /\ UNCHANGED faults
       \/ Fault /\ UNCHANGED restart
    /\ UNCHANGED <<nvs, handle, cache, mode, session, creds, stale, unsure>>

-----------------------------------------------------------------------------
(* Settings and password of a provisioned device.                           *)

\* The checks of app_v2_settings_prepare_update(), each on a field that is given.
PutAccepts(current, r) ==
    /\ Valid(current) /\ current.provisioned
    /\ DOMAIN r # {}
    /\ "name" \in DOMAIN r => RequestTextValid(r.name, 1, NameMax)
    /\ "retention" \in DOMAIN r => r.retention <= RetentionMax
    /\ "package" \in DOMAIN r => PackageValid(r.package)
    /\ \A f \in {"accessPoint", "station"} \cap DOMAIN r : r[f] # Null =>
          RequestTextValid(r[f].ssid, 1, SsidMax) /\ RequestTextValid(r[f].pass, PassMin, PassMax)

\* ... and the settings it prepares from them.
WithStation(s, network) ==
    IF network = Null THEN [s EXCEPT !.joined = FALSE, !.stSsid = <<>>, !.stPass = <<>>]
    ELSE [s EXCEPT !.joined = TRUE, !.stSsid = network.ssid, !.stPass = network.pass]
PutCandidate(current, r) ==
    LET given(f, old) == IF f \in DOMAIN r THEN r[f] ELSE old
        plain == [current EXCEPT !.name = given("name", @), !.confirm = given("confirm", @),
                                 !.retention = given("retention", @),
                                 !.package = given("package", @)]
        ap == IF "accessPoint" \notin DOMAIN r THEN plain
              ELSE [plain EXCEPT !.apSsid = r.accessPoint.ssid, !.apPass = r.accessPoint.pass]
    IN  IF "station" \in DOMAIN r THEN WithStation(ap, r.station) ELSE ap

PutOwns(r) == (DOMAIN r \ {"accessPoint", "station"})
              \cup (IF "accessPoint" \in DOMAIN r THEN {"apSsid", "apPass"} ELSE {})
              \cup (IF "station" \in DOMAIN r THEN {"joined", "stSsid", "stPass"} ELSE {})

\* A handler has read the settings and goes on to write others, or gives up.
Prepare(accepted, new, owns) ==
    \/ /\ CanLoad /\ cache' = Loaded /\ UNCHANGED faults
       /\ IF accepted THEN stale' = FALSE /\ http' = [pc |-> "replace", new |-> new, owns |-> owns]
          ELSE UNCHANGED <<http, stale>>
    \/ LoadFails /\ UNCHANGED <<http, stale>>

\* web_settings_put_handle() up to the write
PutRead(body) ==
    /\ mode = "normal" /\ http.pc = "idle"
    /\ ParsesExactly(body) /\ PutFits(body.members)
    /\ LET r == PutRequest(body.members)
       IN  Prepare(PutAccepts(Loaded, r), PutCandidate(Loaded, r), PutOwns(r))
    /\ UNCHANGED <<nvs, handle, mode, session, restart, creds, unsure>>

\* change_password_load_current_and_validate() and _build_candidate()
PasswordRead(password) ==
    /\ mode = "normal" /\ http.pc = "idle" /\ creds < MaxCred
    /\ Prepare(/\ Valid(Loaded) /\ Loaded.provisioned
               /\ RequestTextValid(password, AdminMin, AdminMax),
               [Loaded EXCEPT !.cred = creds + 1], {"cred"})
    /\ creds' = (IF http' # http THEN creds + 1 ELSE creds)
    /\ UNCHANGED <<nvs, handle, mode, session, restart, unsure>>

HttpReplace ==
    /\ http.pc = "replace" /\ http' = Idle
    /\ \E done \in BOOLEAN : Replace(http.new, done)
    /\ UNCHANGED <<mode, session, restart, creds, stale>>

-----------------------------------------------------------------------------
(* Writers that hold the mutex from the read to the write.                  *)

\* Only one task writes at a time, but not the one that read: see `stale'.
WriteAtOnce(new, done) ==
    /\ mode # "off" /\ Replace(new, done)
    /\ stale' = (stale \/ (http.pc # "idle" /\ nvs' # nvs))
    /\ UNCHANGED <<mode, session, restart, creds, http>>

\* wifi-connect, once the network has been joined: device_settings_core_set_station().
\* A text that does not fit its field is refused.
SetStation(ssid, pass) ==
    /\ Len(ssid) <= SsidMax /\ Len(pass) <= PassMax
    /\ \E done \in BOOLEAN :
          WriteAtOnce(WithStation(Loaded, [ssid |-> ssid, pass |-> pass]), done)

\* set-ap-passphrase: device_settings_core_set_access_point_passphrase()
SetPassphrase(pass) ==
    /\ Len(pass) \in PassMin .. PassMax
    /\ \E done \in BOOLEAN : WriteAtOnce([Loaded EXCEPT !.apPass = pass], done)

\* app_v2_device_settings_reset_noncredential(), for POST /settings/reset: credential
\* and access point stay.
Defaults(s) ==
    [Unprovisioned EXCEPT !.provisioned = s.provisioned, !.cred = s.cred,
                          !.apSsid = s.apSsid, !.apPass = s.apPass]
ResetSettings ==
    /\ mode = "normal" /\ CanLoad /\ Loaded.provisioned
    /\ \E done \in BOOLEAN : WriteAtOnce(Defaults(Loaded), done)

\* The settings step of a factory reset: device_settings_core_factory_reset().
EraseSettings ==
    /\ mode = "normal"
    /\ \E done \in BOOLEAN : WriteAtOnce(Unprovisioned, done)

Console ==
    \/ \E network \in Networks : SetStation(network.ssid, network.pass)
    \/ \E pass \in Passphrases : SetPassphrase(pass)

Next == Boot \/ Restart \/ PowerLoss
        \/ (\E body \in SetupBodies : SetupRead(body)) \/ SetupReplace \/ SetupAnswer
        \/ (\E body \in PutBodies : PutRead(body))
        \/ (\E password \in AdminPasswords : PasswordRead(password)) \/ HttpReplace
        \/ Console \/ ResetSettings \/ EraseSettings

\* A handler runs on, and a restart that is scheduled takes place.
Fairness == WF_vars(SetupReplace \/ SetupAnswer \/ HttpReplace) /\ WF_vars(Restart)
Spec     == Init /\ [][Next]_vars
FairSpec == Spec /\ Fairness

-----------------------------------------------------------------------------
(* Properties.                                                              *)

\* Every variable has the kind of value the C declarations give it.
TypeOK ==
    /\ nvs \in {Absent} \cup RawRecords /\ cache \in {Unloaded} \cup Settings
    /\ mode \in {"off", "setup", "normal"}
    /\ http.pc \in {"idle", "setup_replace", "setup_answer", "replace"}
    /\ http.new \in Settings /\ http = [pc |-> http.pc, new |-> http.new, owns |-> http.owns]
    /\ session.consumed \in BOOLEAN /\ session = [code |-> session.code, consumed |-> session.consumed]
    /\ creds \in Nat /\ faults \in Nat /\ {handle, restart, stale, unsure} \subseteq BOOLEAN

\* Whatever was written, and whichever write failed on the way, the next boot reads it:
\* a record that app_v2_device_settings_decode() refuses would keep the device from
\* starting (device_settings_init()).  And a provisioned one has a credential and an
\* access point that is not open.
RecordLoads ==
    nvs # Absent => /\ Decodes(nvs)
                    /\ Stored.provisioned => Stored.cred # 0 /\ Len(Stored.apPass) >= PassMin

\* A write changes the fields it is for and no others: setup keeps the station network,
\* a password change the settings, a reset of the settings the credential and the access
\* point.  Only a handler whose settings another task has changed since it read them
\* writes old values back (device_settings_core_replace() takes a whole record).
WritersKeepToTheirFields ==
    [][nvs' # nvs =>
         LET changed == {f \in DOMAIN Stored : Stored'[f] # Stored[f]}
         IN  \/ http' # http /\ (stale \/ changed \subseteq http.owns)
             \/ /\ http' = http
                /\ \/ changed \subseteq {"joined", "stSsid", "stPass"}
                   \/ changed \subseteq {"apPass"}
                   \/ Stored' \in {Defaults(Stored), Unprovisioned}]_vars

\* Setup never writes over a provisioned record, also when the write before it was
\* uncertain and the code is still good (app_v2_setup_prepare_candidate()).
SetupNeverOverwrites ==
    [][http.pc = "setup_replace" /\ nvs' # nvs => ~Stored.provisioned]_vars

\* In setup mode the code is used up if and only if the device is provisioned, unless a
\* commit was uncertain: a failed commit leaves it for a retry
\* (web_setup_submit_handle()).
CodeTellsProvisioned ==
    mode = "setup" /\ ~unsure => (session.consumed <=> Stored.provisioned)

\* "The device must leave setup mode after a successful submission ... so this always
\* fires here" (web_server_setup.c, before the restart).  Violated: an answer that cannot
\* be sent schedules none.
SetupIsLeft == mode = "setup" /\ session.consumed ~> mode # "setup"
=============================================================================
