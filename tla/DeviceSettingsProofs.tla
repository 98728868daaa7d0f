------------------------ MODULE DeviceSettingsProofs ------------------------
(***************************************************************************)
(* Proofs about DeviceSettings, for every limit on the texts, every body   *)
(* of a request and every number of faults: what is encoded is decoded     *)
(* again, the record in NVS always loads, each writer keeps to its fields, *)
(* and setup neither writes over a provisioned record nor loses its code.  *)
(*                                                                         *)
(* The invariant is IInv.  The cache is the record or nothing (Coherent),  *)
(* so what a handler has read is the record unless another task has        *)
(* written since (Current); and only a setup makes a record provisioned    *)
(* while setup is served (Phase).                                          *)
(***************************************************************************)
EXTENDS DeviceSettings, SequenceTheorems, TLAPS

Fields == {"provisioned", "cred", "retention", "confirm", "package", "name", "apSsid",
           "apPass", "joined", "stSsid", "stPass"}

Loads == nvs # Absent => Decodes(nvs) /\ Decoded(nvs) \in Settings

Coherent == cache # Unloaded => cache = Stored

Phase ==
    /\ http.pc \in {"setup_replace", "setup_answer"} => mode = "setup"
    /\ http.pc = "replace" => mode = "normal"
    /\ http.pc = "setup_replace" => http.new.provisioned /\ ~Stored.provisioned

Current ==
    http.pc \in {"setup_replace", "replace"} /\ ~stale =>
        \A f \in Fields \ http.owns : http.new[f] = Stored[f]

IInv == TypeOK /\ Loads /\ Coherent /\ Phase /\ Current /\ CodeTellsProvisioned

-----------------------------------------------------------------------------
(* The record.                                                              *)

\* write_record_text() and copy_record_text() are inverse on texts that leave room for a
\* NUL.
LEMMA TextRoundTrip ==
    ASSUME NEW text \in Text, NEW size \in Nat, Len(text) < size
    PROVE  /\ Padded(text, size) \in Field(size)
           /\ TextIn(Padded(text, size)) = text
           /\ Utf8(text) => TextOk(Padded(text, size))
  <1> DEFINE field == Padded(text, size)
  <1>1. text \in Seq(1 .. 255) /\ Len(text) \in Nat
    BY DEF Text
  <1>2. \A i \in 1 .. Len(text) : text[i] \in 1 .. 255
    BY <1>1, ElementOfSeq, SMTT(30)
  <1>3. field = [i \in 1 .. size |-> IF i <= Len(text) THEN text[i] ELSE 0]
    BY DEF Padded
  <1>4. \A i \in 1 .. Len(text) : field[i] = text[i] /\ field[i] # 0
    <2> SUFFICES ASSUME NEW i \in 1 .. Len(text)
                 PROVE  field[i] = text[i] /\ field[i] # 0
      OBVIOUS
    <2>1. i \in 1 .. size /\ i <= Len(text)
      BY <1>1
    <2>2. field[i] = text[i]
      BY <1>3, <2>1
    <2>3. text[i] # 0
      <3>1. text[i] \in 1 .. 255
        BY <1>2
      <3>2. 0 \notin 1 .. 255
        OBVIOUS
      <3> QED  BY <3>1, <3>2
    <2> QED  BY <2>2, <2>3
  <1>5. \A i \in Len(text) + 1 .. size : field[i] = 0
    BY <1>1, <1>3
  <1>6. field \in [1 .. size -> 0 .. 255]
    BY <1>1, <1>2, <1>3
  <1>7. field \in Seq(0 .. 255) /\ Len(field) = size
    BY <1>6
  <1> HIDE DEF field
  <1>8. TextEnd(field) = Len(text)
    <2>1. Len(text) \in 0 .. Len(field) /\ field[Len(text) + 1] = 0
      BY <1>1, <1>5, <1>7
    <2>2. ASSUME NEW n \in 0 .. Len(field), n = Len(field) \/ field[n + 1] = 0,
                 \A i \in 1 .. n : field[i] # 0
          PROVE  n = Len(text)
      <3>1. CASE n < Len(text)
        BY <3>1, <2>2, <1>1, <1>4, <1>7
      <3>2. CASE n > Len(text)
        BY <3>2, <2>1, <2>2, <1>1
      <3> QED  BY <3>1, <3>2, <1>1
    <2> QED  BY <1>1, <1>4, <2>1, <2>2 DEF TextEnd
  <1>9. TextIn(field) = text
    BY <1>1, <1>4, <1>7, <1>8 DEF TextIn
  <1> QED  BY <1>1, <1>5, <1>6, <1>7, <1>8, <1>9, SMTT(30) DEF TextOk, Field, field

\* app_v2_device_settings_validate() keeps each text within its field.
LEMMA TextsFit ==
    ASSUME NEW s \in Settings, Valid(s), NEW f \in TextFields
    PROVE  /\ s[f] \in Text /\ Utf8(s[f])
           /\ FieldBytes[f] \in Nat /\ Len(s[f]) < FieldBytes[f]
  <1>1. f \in {"name", "apSsid", "apPass", "stSsid", "stPass"}
    BY DEF TextFields, FieldBytes
  <1>2. s[f] \in Text
    BY <1>1 DEF Settings
  <1>3. Utf8(<<>>)
    BY DEF Utf8
  <1>4. Utf8(s[f])
    BY <1>1, <1>3 DEF Valid, ValidText, StationValid
  <1>5. ASSUME NEW maximum \in Nat, Len(s[f]) \in 0 .. maximum
        PROVE  Len(s[f]) < maximum + 1 /\ maximum + 1 \in Nat
    BY <1>5
  <1>6. ASSUME NEW minimum \in Nat, NEW maximum \in Nat,
               s[f] = <<>> \/ ValidText(s[f], minimum, maximum)
        PROVE  Len(s[f]) \in 0 .. maximum
    BY <1>6 DEF ValidText
  <1>7. CASE f = "name"
    BY <1>2, <1>4, <1>5, <1>6, <1>7, LimitAssumption DEF Valid, FieldBytes
  <1>8. CASE f = "apSsid"
    BY <1>2, <1>4, <1>5, <1>6, <1>8, LimitAssumption DEF Valid, FieldBytes
  <1>9. CASE f = "apPass"
    BY <1>2, <1>4, <1>5, <1>6, <1>9, LimitAssumption DEF Valid, FieldBytes
  <1>10. CASE f = "stSsid"
    BY <1>2, <1>4, <1>5, <1>6, <1>10, LimitAssumption DEF Valid, StationValid, FieldBytes
  <1>11. CASE f = "stPass"
    BY <1>2, <1>4, <1>5, <1>6, <1>11, LimitAssumption DEF Valid, StationValid, FieldBytes
  <1> QED  BY <1>1, <1>7, <1>8, <1>9, <1>10, <1>11

\* What app_v2_device_settings_encode() writes has the layout of a record ...
LEMMA EncodeType ==
    ASSUME NEW s \in Settings, Valid(s)
    PROVE  Encode(s) \in RawRecords
  <1> DEFINE record == Encode(s)
  <1>1. \A f \in TextFields : record[f] \in Field(FieldBytes[f])
    BY TextsFit, TextRoundTrip DEF Encode, Settings, TextFields, FieldBytes
  <1>2. DOMAIN record = Fields \cup {"reserved"} /\ record = [f \in DOMAIN record |-> record[f]]
    BY DEF Encode, Settings, Fields
  <1>3. record.reserved = 0 /\ \A f \in Fields \ TextFields : record[f] = s[f]
    BY DEF Encode, Settings, Fields
  <1> QED
    BY <1>1, <1>2, <1>3 DEF Settings, RawRecords, TextFields, FieldBytes, Fields

\* ... and app_v2_device_settings_decode() accepts it and gives back the same settings,
\* whatever their texts and the limits are.
THEOREM EncodedIsDecoded ==
    ASSUME NEW s \in Settings, Valid(s)
    PROVE  Decodes(Encode(s)) /\ Decoded(Encode(s)) = s
  <1> DEFINE record == Encode(s)
  <1>1. \A f \in TextFields : TextIn(record[f]) = s[f] /\ TextOk(record[f])
    BY TextsFit, TextRoundTrip DEF Encode, Settings, TextFields, FieldBytes
  <1>2. DOMAIN record = Fields \cup {"reserved"}
    BY DEF Encode, Settings, Fields
  <1>3. record.reserved = 0 /\ \A f \in Fields \ TextFields : record[f] = s[f]
    BY DEF Encode, Settings, Fields
  <1>4. Decoded(record) = [f \in Fields |-> s[f]]
    BY <1>1, <1>2, <1>3 DEF Decoded, Fields
  <1>5. Decoded(record) = s
    BY <1>4 DEF Settings, Fields
  <1> QED  BY <1>1, <1>3, <1>5 DEF Decodes

\* app_v2_device_settings_init_unprovisioned()
LEMMA UnprovisionedType ==
    Unprovisioned \in Settings
  BY LimitAssumption, RecordAssumption DEF Unprovisioned, Settings, Text

\* The record, and what device_settings_core_load() returns, are settings.
LEMMA StoredType ==
    ASSUME Loads
    PROVE  Stored \in Settings /\ DOMAIN Stored = Fields /\ Readable
  BY UnprovisionedType DEF Loads, Stored, Readable, Settings, Fields

LEMMA LoadedIsStored ==
    ASSUME Coherent
    PROVE  Loaded = Stored
  BY DEF Coherent, Loaded

\* device_settings_core_replace(), whatever fails in it: the record stays or becomes the
\* new one, and only an uncertain commit leaves open which.
LEMMA ReplaceEffect ==
    ASSUME TypeOK, Loads, Coherent, NEW new \in Settings, NEW done \in BOOLEAN,
           Replace(new, done)
    PROVE  /\ \/ nvs' = nvs /\ Stored' = Stored
              \/ nvs' = Encode(new) /\ Stored' = new
           /\ done => Stored' = new
           /\ ~done => unsure' \/ nvs' = nvs
           /\ unsure => unsure'
           /\ nvs' \in {Absent} \cup RawRecords /\ cache' \in {Unloaded} \cup Settings
           /\ faults' \in Nat /\ {handle', unsure'} \subseteq BOOLEAN
           /\ Loads' /\ Coherent'
  <1>1. Stored \in Settings /\ Loaded = Stored
    BY StoredType, LoadedIsStored
  <1>2. faults' \in Nat /\ {handle', unsure'} \subseteq BOOLEAN
    <2>1. {faults, faults - 1} \cap Nat # {} /\ (Fault => faults' \in Nat)
      BY DEF Fault, TypeOK
    <2>2. UNCHANGED faults => faults' \in Nat
      BY DEF TypeOK
    <2>3. Fault \/ UNCHANGED faults
      BY DEF Replace, Write, LoadFails
    <2>4. {handle', unsure'} \subseteq BOOLEAN
      BY DEF Replace, Write, TypeOK
    <2> QED  BY <2>1, <2>2, <2>3, <2>4
  <1>3. ASSUME nvs' = nvs, cache' \in {cache, Loaded, Unloaded}
        PROVE  /\ Stored' = Stored /\ Loads' /\ Coherent'
               /\ nvs' \in {Absent} \cup RawRecords /\ cache' \in {Unloaded} \cup Settings
    <2>1. Stored' = Stored
      BY <1>3 DEF Stored
    <2> QED  BY <1>1, <1>3, <2>1 DEF Loads, Coherent, TypeOK
  <1>4. ASSUME Valid(new), nvs' = Encode(new), cache' \in {new, Unloaded}
        PROVE  /\ Stored' = new /\ Loads' /\ Coherent'
               /\ nvs' \in {Absent} \cup RawRecords /\ cache' \in {Unloaded} \cup Settings
    <2>1. nvs' \in RawRecords /\ Decodes(nvs') /\ Decoded(nvs') = new
      BY <1>4, EncodeType, EncodedIsDecoded
    <2>2. Stored' = new
      BY <2>1, RecordAssumption DEF Stored
    <2> QED  BY <1>4, <2>1, <2>2 DEF Loads, Coherent
  <1>5. CASE ~done /\ LoadFails /\ UNCHANGED <<nvs, handle, unsure>>
    BY <1>2, <1>3, <1>5 DEF LoadFails
  <1>6. CASE ~(Valid(new) /\ new # Loaded) /\ done = Valid(new) /\ cache' = Loaded
             /\ UNCHANGED <<nvs, handle, faults, unsure>>
    BY <1>1, <1>2, <1>3, <1>6
  <1>7. CASE Valid(new) /\ Write(new, done)
    <2>1. CASE ~done /\ cache' = Loaded /\ UNCHANGED <<nvs, unsure>>
      BY <1>2, <1>3, <2>1
    <2>2. CASE done /\ cache' = new /\ nvs' = Encode(new) /\ UNCHANGED unsure
      BY <1>2, <1>4, <1>7, <2>2
    <2>3. CASE ~done /\ cache' = Unloaded /\ nvs' \in {nvs, Encode(new)} /\ unsure' = TRUE
      BY <1>2, <1>3, <1>4, <1>7, <2>3
    <2> QED  BY <1>7, <2>1, <2>2, <2>3 DEF Write, AfterUncertain
  <1> QED  BY <1>5, <1>6, <1>7 DEF Replace

-----------------------------------------------------------------------------
(* The settings that the writers prepare.                                   *)

\* exact_setup_fields(): the fields of a setup are texts, and a flag.
LEMMA SetupTypes ==
    ASSUME NEW body \in SetupBodies, SetupFits(body.members),
           NEW current \in Settings, NEW cred \in Nat
    PROVE  LET new == SetupCandidate(current, Values(body.members), cred)
           IN  /\ new \in Settings /\ new.provisioned
               /\ \A f \in Fields \ SetupFields : new[f] = current[f]
  <1> DEFINE r == Values(body.members)
  <1>1. ASSUME NEW key \in Keys(body.members)
        PROVE  \E i \in DOMAIN body.members :
                  body.members[i].key = key /\ r[key] = body.members[i].value
    <2>1. \E i \in DOMAIN body.members : body.members[i].key = key
      BY <1>1 DEF Keys
    <2>2. /\ Given(body.members)[key] \in DOMAIN body.members
          /\ body.members[Given(body.members)[key]].key = key
      BY <1>1, <2>1 DEF Given
    <2> QED  BY <1>1, <2>2 DEF Values
  <1>2. /\ {r.name, r.apSsid, r.apPass} \subseteq Text
        /\ r.confirm \in BOOLEAN
    <2>1. ASSUME NEW i \in DOMAIN body.members
          PROVE  /\ body.members[i].key \in {"name", "apSsid", "apPass"} =>
                        body.members[i].value \in Text
                 /\ body.members[i].key = "confirm" => body.members[i].value \in BOOLEAN
      BY <2>1, BodyAssumption DEF SetupFits, Typed
    <2>2. {"name", "apSsid", "apPass", "confirm"} \subseteq Keys(body.members)
      BY DEF SetupFits
    <2> HIDE DEF r
    <2> QED  BY <1>1, <2>1, <2>2
  <1> HIDE DEF r
  <1>3. SetupCandidate(current, r, cred) \in Settings
    BY <1>2 DEF SetupCandidate, Settings
  <1>4. /\ SetupCandidate(current, r, cred).provisioned
        /\ \A f \in Fields \ SetupFields : SetupCandidate(current, r, cred)[f] = current[f]
    BY DEF SetupCandidate, Settings, Fields, SetupFields
  <1> QED  BY <1>3, <1>4 DEF r

\* A station network, joined or removed, changes nothing else.
LEMMA StationType ==
    ASSUME NEW s \in Settings, NEW network,
           network = Null \/ (network.ssid \in Text /\ network.pass \in Text)
    PROVE  /\ WithStation(s, network) \in Settings
           /\ \A f \in Fields \ {"joined", "stSsid", "stPass"} : WithStation(s, network)[f] = s[f]
  <1>1. <<>> \in Text
    BY DEF Text
  <1> QED  BY <1>1 DEF WithStation, Settings, Fields

\* exact_settings_put_fields(): what a settings PUT gives has the types of the fields.
PutTyped(r) ==
    /\ DOMAIN r \subseteq PutFields
    /\ "name" \in DOMAIN r => r.name \in Text
    /\ "confirm" \in DOMAIN r => r.confirm \in BOOLEAN
    /\ "retention" \in DOMAIN r => r.retention \in Nat
    /\ "accessPoint" \in DOMAIN r => r.accessPoint.ssid \in Text /\ r.accessPoint.pass \in Text
    /\ "station" \in DOMAIN r =>
          r.station = Null \/ (r.station.ssid \in Text /\ r.station.pass \in Text)

LEMMA NetworkTypes ==
    ASSUME NEW member, NetworkFits(member),
           \A k \in DOMAIN member.value : Typed(member.value[k])
    PROVE  LET network == Values(member.value) IN network.ssid \in Text /\ network.pass \in Text
  <1> DEFINE r == Values(member.value)
  <1>1. ASSUME NEW key \in {"ssid", "pass"}
        PROVE  r[key] \in Text
    <2>1. key \in Keys(member.value)
      BY <1>1 DEF NetworkFits
    <2>2. \E i \in DOMAIN member.value : member.value[i].key = key
      BY <2>1 DEF Keys
    <2>3. /\ Given(member.value)[key] \in DOMAIN member.value
          /\ member.value[Given(member.value)[key]].key = key
      BY <2>1, <2>2 DEF Given
    <2>4. r[key] = member.value[Given(member.value)[key]].value
      BY <2>1 DEF Values
    <2> QED  BY <1>1, <2>3, <2>4 DEF NetworkFits, Typed
  <1> QED  BY <1>1

LEMMA PutTypes ==
    ASSUME NEW body \in PutBodies, PutFits(body.members)
    PROVE  PutTyped(PutRequest(body.members))
  <1> DEFINE r == PutRequest(body.members)
             member(key) == body.members[Given(body.members)[key]]
  <1>1. DOMAIN r = Keys(body.members) /\ DOMAIN r \subseteq PutFields
    BY DEF PutRequest, PutFits
  <1>2. ASSUME NEW key \in DOMAIN r
        PROVE  /\ member(key).key = key /\ r[key] = PutValue(member(key))
               /\ PutMemberFits(member(key)) /\ Typed(member(key))
               /\ member(key).type = "object" =>
                     \A k \in DOMAIN member(key).value : Typed(member(key).value[k])
    <2>1. \E i \in DOMAIN body.members : body.members[i].key = key
      BY <1>1, <1>2 DEF Keys
    <2>2. /\ Given(body.members)[key] \in DOMAIN body.members
          /\ member(key).key = key
      BY <1>1, <1>2, <2>1 DEF Given
    <2>3. r[key] = PutValue(member(key))
      BY <1>1, <1>2 DEF PutRequest
    <2> QED  BY <2>2, <2>3, BodyAssumption DEF PutFits
  <1> HIDE DEF r, member
  <1>3. "name" \in DOMAIN r => r.name \in Text
    BY <1>2 DEF PutMemberFits, PutValue, Typed
  <1>4. "confirm" \in DOMAIN r => r.confirm \in BOOLEAN
    BY <1>2 DEF PutMemberFits, PutValue, Typed
  <1>5. "retention" \in DOMAIN r => r.retention \in Nat
    <2> SUFFICES ASSUME "retention" \in DOMAIN r PROVE r.retention \in Nat
      OBVIOUS
    <2>1. member("retention").type = "number" /\ member("retention").value \in 0 .. 255
      BY <1>2 DEF PutMemberFits
    <2>2. r.retention = member("retention").value
      BY <1>2, <2>1 DEF PutValue
    <2> QED  BY <2>1, <2>2
  <1>6. "accessPoint" \in DOMAIN r => r.accessPoint.ssid \in Text /\ r.accessPoint.pass \in Text
    <2> SUFFICES ASSUME "accessPoint" \in DOMAIN r
                 PROVE  r.accessPoint.ssid \in Text /\ r.accessPoint.pass \in Text
      OBVIOUS
    <2>1. NetworkFits(member("accessPoint"))
      BY <1>2 DEF PutMemberFits
    <2>2. member("accessPoint").type = "object"
      BY <2>1 DEF NetworkFits
    <2>3. r.accessPoint = Values(member("accessPoint").value)
      BY <1>2, <2>2 DEF PutValue
    <2> QED  BY <1>2, <2>1, <2>2, <2>3, NetworkTypes
  <1>7. "station" \in DOMAIN r =>
           r.station = Null \/ (r.station.ssid \in Text /\ r.station.pass \in Text)
    <2> SUFFICES ASSUME "station" \in DOMAIN r
                 PROVE  r.station = Null \/ (r.station.ssid \in Text /\ r.station.pass \in Text)
      OBVIOUS
    <2>1. member("station").type = "null" \/ NetworkFits(member("station"))
      BY <1>2 DEF PutMemberFits
    <2>2. CASE member("station").type = "null"
      BY <1>2, <2>2 DEF PutValue
    <2>3. CASE NetworkFits(member("station"))
      <3>1. member("station").type = "object"
        BY <2>3 DEF NetworkFits
      <3>2. r.station = Values(member("station").value)
        BY <1>2, <3>1 DEF PutValue
      <3> QED  BY <1>2, <2>3, <3>1, <3>2, NetworkTypes
    <2> QED  BY <2>1, <2>2, <2>3
  <1> QED  BY <1>1, <1>3, <1>4, <1>5, <1>6, <1>7 DEF PutTyped, r

\* app_v2_settings_prepare_update() changes what the request gives.
LEMMA PutCandidateType ==
    ASSUME NEW current \in Settings, NEW r, PutTyped(r), PutAccepts(current, r)
    PROVE  /\ PutCandidate(current, r) \in Settings
           /\ \A f \in Fields \ PutOwns(r) : PutCandidate(current, r)[f] = current[f]
  <1> DEFINE given(f, old) == IF f \in DOMAIN r THEN r[f] ELSE old
             plain == [current EXCEPT !.name = given("name", @), !.confirm = given("confirm", @),
                                      !.retention = given("retention", @),
                                      !.package = given("package", @)]
             ap == IF "accessPoint" \notin DOMAIN r THEN plain
                   ELSE [plain EXCEPT !.apSsid = r.accessPoint.ssid,
                                      !.apPass = r.accessPoint.pass]
  <1>1. plain \in Settings
    <2>1. given("name", current.name) \in Text /\ given("confirm", current.confirm) \in BOOLEAN
      BY DEF PutTyped, Settings
    <2>2. given("retention", current.retention) \in Nat
      BY DEF PutTyped, Settings
    <2>3. given("package", current.package) \in Packages \cup {NoPackage}
      BY DEF PutAccepts, PackageValid, Settings
    <2>4. plain = [current EXCEPT !.name = given("name", current.name),
                                  !.confirm = given("confirm", current.confirm),
                                  !.retention = given("retention", current.retention),
                                  !.package = given("package", current.package)]
      BY DEF Settings
    <2> HIDE DEF given, plain
    <2> QED  BY <2>1, <2>2, <2>3, <2>4 DEF Settings
  <1>2. \A f \in Fields \ DOMAIN r : plain[f] = current[f]
    BY DEF Settings, Fields
  <1> HIDE DEF plain
  <1>3. ap \in Settings
    BY <1>1 DEF PutTyped, Settings
  <1>4. \A f \in Fields : ("accessPoint" \in DOMAIN r /\ f \in {"apSsid", "apPass"}) \/ ap[f] = plain[f]
    BY <1>1 DEF Settings, Fields
  <1> HIDE DEF ap
  <1>5. PutCandidate(current, r) = IF "station" \in DOMAIN r THEN WithStation(ap, r.station) ELSE ap
    BY DEF PutCandidate, ap, plain
  <1>6. PutCandidate(current, r) \in Settings
    BY <1>3, <1>5, StationType DEF PutTyped
  <1>7. ASSUME NEW f \in Fields \ PutOwns(r)
        PROVE  PutCandidate(current, r)[f] = current[f]
    <2>1. PutCandidate(current, r)[f] = ap[f]
      BY <1>3, <1>5, <1>7, StationType DEF PutTyped, PutOwns
    <2>2. ap[f] = plain[f]
      BY <1>4, <1>7 DEF PutOwns
    <2>3. f \notin DOMAIN r
      BY <1>7 DEF PutOwns, Fields
    <2> QED  BY <1>2, <1>7, <2>1, <2>2, <2>3
  <1> QED  BY <1>6, <1>7

-----------------------------------------------------------------------------
(* The invariant.                                                           *)

LEMMA InitHolds == Init => IInv
  <1> SUFFICES ASSUME Init PROVE IInv
    OBVIOUS
  <1>1. nvs \in {Absent} \cup RawRecords /\ Loads
    BY RecordAssumption DEF Init, Loads
  <1>2. TypeOK
    BY <1>1, UnprovisionedType, ArgumentAssumption DEF Init, TypeOK, Idle, NoSession
  <1> QED
    BY <1>1, <1>2 DEF Init, IInv, Coherent, Phase, Current, CodeTellsProvisioned, Idle

\* A step that leaves the record alone leaves the settings in it alone.
LEMMA StoredStays ==
    ASSUME UNCHANGED nvs
    PROVE  Stored' = Stored /\ (Loads => Loads')
  BY DEF Stored, Loads

LEMMA BootKeeps ==
    ASSUME IInv, Boot
    PROVE  IInv'
  <1>1. Stored' = Stored /\ Loads' /\ Stored \in Settings
    BY StoredStays, StoredType DEF IInv, Boot
  <1>2. faults' \in Nat
    BY DEF IInv, TypeOK, Boot, Fault
  <1>3. TypeOK'
    BY <1>1, <1>2 DEF IInv, TypeOK, Boot, DrawnSession
  <1>4. Coherent' /\ Phase' /\ Current'
    BY <1>1 DEF IInv, Coherent, Phase, Current, Boot
  <1>5. CodeTellsProvisioned'
    BY <1>1 DEF IInv, CodeTellsProvisioned, Boot, DrawnSession
  <1> QED  BY <1>1, <1>3, <1>4, <1>5 DEF IInv

LEMMA PowerOffKeeps ==
    ASSUME IInv, PowerOff
    PROVE  IInv'
  <1>1. Stored' = Stored /\ Loads'
    BY StoredStays DEF IInv, PowerOff
  <1> QED
    BY <1>1, UnprovisionedType
    DEF IInv, TypeOK, Coherent, Phase, Current, CodeTellsProvisioned, PowerOff, Idle, NoSession

\* A handler that has read the record holds settings that differ from it only in the
\* fields it is for.
LEMMA ReadKeeps ==
    ASSUME IInv, cache' \in {cache, Loaded}, UNCHANGED <<nvs, handle, mode, session, restart, unsure>>,
           http.pc = "idle", creds' \in Nat, faults' \in Nat,
           \/ UNCHANGED <<http, stale>>
           \/ /\ stale' = FALSE /\ http'.new \in Settings
              /\ http' = [pc |-> http'.pc, new |-> http'.new, owns |-> http'.owns]
              /\ \A f \in Fields \ http'.owns : http'.new[f] = Stored[f]
              /\ \/ http'.pc = "replace" /\ mode = "normal"
                 \/ /\ http'.pc = "setup_replace" /\ mode = "setup"
                    /\ http'.new.provisioned /\ ~Stored.provisioned
    PROVE  IInv'
  <1>1. Stored' = Stored /\ Loads' /\ Stored \in Settings /\ Loaded = Stored
    BY StoredStays, StoredType, LoadedIsStored DEF IInv
  <1>2. TypeOK'
    BY <1>1 DEF IInv, TypeOK
  <1>3. Coherent'
    BY <1>1 DEF IInv, Coherent
  <1>4. Phase' /\ Current'
    BY <1>1 DEF IInv, Phase, Current
  <1>5. CodeTellsProvisioned'
    BY <1>1 DEF IInv, CodeTellsProvisioned
  <1> QED  BY <1>1, <1>2, <1>3, <1>4, <1>5 DEF IInv

LEMMA SetupReadKeeps ==
    ASSUME IInv, NEW body \in SetupBodies, SetupRead(body)
    PROVE  IInv'
  <1> DEFINE r == Values(body.members)
  <1>1. Stored \in Settings /\ Loaded = Stored
    BY StoredType, LoadedIsStored DEF IInv
  <1>2. faults' \in Nat /\ creds' \in Nat
    BY DEF SetupRead, LoadFails, Fault, IInv, TypeOK
  <1>3. CASE UNCHANGED <<http, stale>>
    BY <1>2, <1>3, ReadKeeps DEF SetupRead, LoadFails
  <1>4. CASE /\ SetupAccepts(Loaded, r) /\ stale' = FALSE /\ cache' = Loaded
             /\ http' = [pc |-> "setup_replace", owns |-> SetupFields,
                         new |-> SetupCandidate(Loaded, r, creds + 1)]
    <2>1. creds + 1 \in Nat
      BY DEF IInv, TypeOK
    <2>2. /\ http'.new \in Settings /\ http'.new.provisioned
          /\ \A f \in Fields \ http'.owns : http'.new[f] = Stored[f]
      BY <1>1, <1>4, <2>1, SetupTypes, SMTT(30) DEF SetupRead
    <2>3. ~Stored.provisioned
      BY <1>1, <1>4 DEF SetupAccepts
    <2> QED  BY <1>2, <1>4, <2>2, <2>3, ReadKeeps DEF SetupRead
  <1> QED  BY <1>3, <1>4 DEF SetupRead

\* What a handler has prepared for a provisioned device.
LEMMA PrepareKeeps ==
    ASSUME IInv, NEW accepted \in BOOLEAN, NEW new, NEW owns,
           accepted => /\ new \in Settings
                       /\ \A f \in Fields \ owns : new[f] = Stored[f],
           Prepare(accepted, new, owns), mode = "normal", http.pc = "idle", creds' \in Nat,
           UNCHANGED <<nvs, handle, mode, session, restart, unsure>>
    PROVE  IInv'
  <1>1. faults' \in Nat /\ cache' \in {cache, Loaded}
    BY DEF Prepare, LoadFails, Fault, IInv, TypeOK
  <1>2. CASE UNCHANGED <<http, stale>>
    BY <1>1, <1>2, ReadKeeps
  <1>3. CASE accepted /\ stale' = FALSE /\ http' = [pc |-> "replace", new |-> new, owns |-> owns]
    BY <1>1, <1>3, ReadKeeps
  <1> QED  BY <1>2, <1>3 DEF Prepare

LEMMA PutReadKeeps ==
    ASSUME IInv, NEW body \in PutBodies, PutRead(body)
    PROVE  IInv'
  <1> DEFINE r == PutRequest(body.members)
             accepted == PutAccepts(Loaded, r)
  <1>1. Stored \in Settings /\ Loaded = Stored
    BY StoredType, LoadedIsStored DEF IInv
  <1>2. PutTyped(r)
    BY PutTypes DEF PutRead
  <1>3. accepted => /\ PutCandidate(Loaded, r) \in Settings
                    /\ \A f \in Fields \ PutOwns(r) : PutCandidate(Loaded, r)[f] = Stored[f]
    BY <1>1, <1>2, PutCandidateType
  <1>4. accepted \in BOOLEAN
    BY DEF PutAccepts
  <1>5. creds' \in Nat /\ Prepare(accepted, PutCandidate(Loaded, r), PutOwns(r))
    BY DEF PutRead, IInv, TypeOK
  <1> HIDE DEF r, accepted
  <1> QED  BY <1>3, <1>4, <1>5, PrepareKeeps DEF PutRead

LEMMA PasswordReadKeeps ==
    ASSUME IInv, NEW password, PasswordRead(password)
    PROVE  IInv'
  <1> DEFINE new == [Loaded EXCEPT !.cred = creds + 1]
             accepted == /\ Valid(Loaded) /\ Loaded.provisioned
                         /\ RequestTextValid(password, AdminMin, AdminMax)
  <1>1. Stored \in Settings /\ Loaded = Stored
    BY StoredType, LoadedIsStored DEF IInv
  <1>2. creds \in Nat /\ creds' \in Nat
    BY DEF PasswordRead, IInv, TypeOK
  <1>3. new \in Settings /\ \A f \in Fields \ {"cred"} : new[f] = Stored[f]
    BY <1>1, <1>2 DEF Settings, Fields
  <1>4. accepted \in BOOLEAN /\ Prepare(accepted, new, {"cred"})
    BY DEF PasswordRead
  <1> HIDE DEF new, accepted
  <1> QED  BY <1>2, <1>3, <1>4, PrepareKeeps DEF PasswordRead

LEMMA SetupReplaceKeeps ==
    ASSUME IInv, SetupReplace
    PROVE  IInv'
  <1>1. PICK done \in BOOLEAN :
           /\ Replace(http.new, done) /\ session' = CodeAfter(done)
           /\ http' = IF done THEN [http EXCEPT !.pc = "setup_answer"] ELSE Idle
    BY DEF SetupReplace
  <1>2. http.new \in Settings /\ mode = "setup" /\ http.new.provisioned /\ ~Stored.provisioned
    BY DEF IInv, TypeOK, Phase, SetupReplace
  <1>3. /\ Stored' = Stored \/ Stored' = http.new
        /\ done => Stored' = http.new
        /\ ~done => unsure' \/ nvs' = nvs
        /\ unsure => unsure'
        /\ nvs' \in {Absent} \cup RawRecords /\ cache' \in {Unloaded} \cup Settings
        /\ faults' \in Nat /\ {handle', unsure'} \subseteq BOOLEAN
        /\ Loads' /\ Coherent'
    BY <1>1, <1>2, ReplaceEffect DEF IInv
  <1>4. TypeOK'
    <2>1. http'.pc \in {"setup_answer", "idle"} /\ http'.new \in Settings
          /\ http' = [pc |-> http'.pc, new |-> http'.new, owns |-> http'.owns]
      BY <1>1, UnprovisionedType DEF IInv, TypeOK, Idle
    <2>2. session'.consumed \in BOOLEAN
          /\ session' = [code |-> session'.code, consumed |-> session'.consumed]
      BY <1>1 DEF CodeAfter, IInv, TypeOK
    <2> QED  BY <1>3, <2>1, <2>2 DEF IInv, TypeOK, SetupReplace
  <1>5. Phase' /\ Current'
    BY <1>1, <1>2 DEF Phase, Current, Idle, SetupReplace, IInv, TypeOK
  <1>6. CodeTellsProvisioned'
    <2>1. CASE done
      BY <1>1, <1>2, <1>3, <2>1 DEF CodeTellsProvisioned, CodeAfter, IInv, TypeOK
    <2>2. CASE ~done
      BY <1>1, <1>2, <1>3, <2>2, StoredStays
      DEF CodeTellsProvisioned, CodeAfter, IInv, SetupReplace
    <2> QED  BY <2>1, <2>2
  <1> QED  BY <1>3, <1>4, <1>5, <1>6 DEF IInv

LEMMA SetupAnswerKeeps ==
    ASSUME IInv, SetupAnswer
    PROVE  IInv'
  <1>1. Stored' = Stored /\ Loads'
    BY StoredStays DEF IInv, SetupAnswer
  <1>2. faults' \in Nat
    BY DEF SetupAnswer, Fault, IInv, TypeOK
  <1> QED
    BY <1>1, <1>2, UnprovisionedType
    DEF IInv, TypeOK, Coherent, Phase, Current, CodeTellsProvisioned, SetupAnswer, Idle

LEMMA HttpReplaceKeeps ==
    ASSUME IInv, HttpReplace
    PROVE  IInv'
  <1>1. PICK done \in BOOLEAN : Replace(http.new, done)
    BY DEF HttpReplace
  <1>2. http.new \in Settings /\ mode = "normal" /\ mode' = "normal" /\ http' = Idle
    BY DEF IInv, TypeOK, Phase, HttpReplace
  <1>3. /\ nvs' \in {Absent} \cup RawRecords /\ cache' \in {Unloaded} \cup Settings
        /\ faults' \in Nat /\ {handle', unsure'} \subseteq BOOLEAN
        /\ Loads' /\ Coherent'
    BY <1>1, <1>2, ReplaceEffect DEF IInv
  <1> QED
    BY <1>2, <1>3, UnprovisionedType
    DEF IInv, TypeOK, Phase, Current, CodeTellsProvisioned, HttpReplace, Idle

\* A writer that holds the mutex, and does not provision the device.
LEMMA WriteAtOnceKeeps ==
    ASSUME IInv, NEW new \in Settings, NEW done \in BOOLEAN, WriteAtOnce(new, done),
           mode = "normal" \/ new.provisioned = Stored.provisioned
    PROVE  IInv'
  <1>1. /\ \/ nvs' = nvs /\ Stored' = Stored
           \/ nvs' = Encode(new) /\ Stored' = new
        /\ unsure => unsure'
        /\ nvs' \in {Absent} \cup RawRecords /\ cache' \in {Unloaded} \cup Settings
        /\ faults' \in Nat /\ {handle', unsure'} \subseteq BOOLEAN
        /\ Loads' /\ Coherent'
    BY ReplaceEffect DEF IInv, WriteAtOnce
  <1>2. TypeOK'
    BY <1>1 DEF IInv, TypeOK, WriteAtOnce
  <1>3. Phase'
    BY <1>1 DEF IInv, Phase, WriteAtOnce
  <1>4. Current'
    <2> SUFFICES ASSUME http.pc \in {"setup_replace", "replace"}, ~stale'
                 PROVE  \A f \in Fields \ http.owns : http.new[f] = Stored'[f]
      BY DEF Current, WriteAtOnce
    <2>1. ~stale /\ nvs' = nvs
      BY DEF WriteAtOnce
    <2>2. Stored' = Stored
      BY <2>1, StoredStays
    <2> QED  BY <2>1, <2>2 DEF IInv, Current
  <1>5. CodeTellsProvisioned'
    BY <1>1 DEF IInv, CodeTellsProvisioned, WriteAtOnce
  <1> QED  BY <1>1, <1>2, <1>3, <1>4, <1>5 DEF IInv

\* What the writers that hold the mutex prepare, and which fields it is about.
LEMMA AtOnceTypes ==
    ASSUME IInv
    PROVE  /\ \A network \in Networks :
                 LET new == WithStation(Loaded, [ssid |-> network.ssid, pass |-> network.pass])
                 IN  /\ new \in Settings /\ new.provisioned = Stored.provisioned
                     /\ \A f \in Fields \ {"joined", "stSsid", "stPass"} : new[f] = Stored[f]
           /\ \A pass \in Passphrases :
                 LET new == [Loaded EXCEPT !.apPass = pass]
                 IN  /\ new \in Settings /\ new.provisioned = Stored.provisioned
                     /\ \A f \in Fields \ {"apPass"} : new[f] = Stored[f]
           /\ Defaults(Loaded) \in Settings /\ Defaults(Loaded) = Defaults(Stored)
  <1>1. Stored \in Settings /\ Loaded = Stored
    BY StoredType, LoadedIsStored DEF IInv
  <1>2. ASSUME NEW network \in Networks
        PROVE  LET new == WithStation(Loaded, [ssid |-> network.ssid, pass |-> network.pass])
               IN  /\ new \in Settings /\ new.provisioned = Stored.provisioned
                   /\ \A f \in Fields \ {"joined", "stSsid", "stPass"} : new[f] = Stored[f]
    <2>1. network.ssid \in Text /\ network.pass \in Text
      BY <1>2, ArgumentAssumption
    <2> DEFINE typed == [ssid |-> network.ssid, pass |-> network.pass]
    <2>2. typed.ssid \in Text /\ typed.pass \in Text
      BY <2>1
    <2> HIDE DEF typed
    <2>3. /\ WithStation(Stored, typed) \in Settings
          /\ \A f \in Fields \ {"joined", "stSsid", "stPass"} :
                WithStation(Stored, typed)[f] = Stored[f]
      BY <1>1, <2>2, StationType
    <2> QED  BY <1>1, <2>3 DEF typed, Fields
  <1>3. \A pass \in Passphrases :
           LET new == [Loaded EXCEPT !.apPass = pass]
           IN  /\ new \in Settings /\ new.provisioned = Stored.provisioned
               /\ \A f \in Fields \ {"apPass"} : new[f] = Stored[f]
    BY <1>1, ArgumentAssumption DEF Settings, Fields
  <1>4. Defaults(Loaded) \in Settings /\ Defaults(Loaded) = Defaults(Stored)
    BY <1>1, UnprovisionedType DEF Defaults, Settings
  <1> QED  BY <1>2, <1>3, <1>4

LEMMA StepKeeps ==
    ASSUME IInv, [Next]_vars
    PROVE  IInv'
  <1>1. CASE UNCHANGED vars
    <2>1. Stored' = Stored
      BY <1>1, StoredStays DEF vars
    <2> QED
      BY <1>1, <2>1
      DEF vars, IInv, TypeOK, Loads, Coherent, Phase, Current, CodeTellsProvisioned
  <1>2. CASE Boot \/ Restart \/ PowerLoss
    BY <1>2, BootKeeps, PowerOffKeeps DEF Restart, PowerLoss
  <1>3. CASE \E body \in SetupBodies : SetupRead(body)
    BY <1>3, SetupReadKeeps
  <1>4. CASE SetupReplace \/ SetupAnswer \/ HttpReplace
    BY <1>4, SetupReplaceKeeps, SetupAnswerKeeps, HttpReplaceKeeps
  <1>5. CASE \E body \in PutBodies : PutRead(body)
    BY <1>5, PutReadKeeps
  <1>6. CASE \E password \in AdminPasswords : PasswordRead(password)
    BY <1>6, PasswordReadKeeps
  <1>7. ASSUME NEW network \in Networks, SetStation(network.ssid, network.pass) PROVE IInv'
    <2> DEFINE new == WithStation(Loaded, [ssid |-> network.ssid, pass |-> network.pass])
    <2>1. new \in Settings /\ new.provisioned = Stored.provisioned
      BY <1>7, AtOnceTypes
    <2>2. PICK done \in BOOLEAN : WriteAtOnce(new, done)
      BY <1>7 DEF SetStation
    <2> HIDE DEF new
    <2> QED  BY <2>1, <2>2, WriteAtOnceKeeps
  <1>8. ASSUME NEW pass \in Passphrases, SetPassphrase(pass) PROVE IInv'
    <2> DEFINE new == [Loaded EXCEPT !.apPass = pass]
    <2>1. new \in Settings /\ new.provisioned = Stored.provisioned
      BY <1>8, AtOnceTypes
    <2>2. PICK done \in BOOLEAN : WriteAtOnce(new, done)
      BY <1>8 DEF SetPassphrase
    <2> HIDE DEF new
    <2> QED  BY <2>1, <2>2, WriteAtOnceKeeps
  <1>9. CASE ResetSettings
    BY <1>9, AtOnceTypes, WriteAtOnceKeeps DEF ResetSettings
  <1>10. CASE EraseSettings
    BY <1>10, UnprovisionedType, WriteAtOnceKeeps DEF EraseSettings
  <1> QED
    BY <1>1, <1>2, <1>3, <1>4, <1>5, <1>6, <1>7, <1>8, <1>9, <1>10 DEF Next, Console

-----------------------------------------------------------------------------
(* The theorems.                                                            *)

\* The strengthening of the properties below is an invariant.
THEOREM Invariant == Spec => []IInv
  <1>1. Init => IInv
    BY InitHolds
  <1>2. IInv /\ [Next]_vars => IInv'
    BY StepKeeps
  <1> QED  BY <1>1, <1>2, PTL DEF Spec

\* Every variable keeps its type: the record its layout, the cache its settings
\* (device_settings_core.c).
THEOREM TypeCorrect == Spec => []TypeOK
  <1>1. IInv => TypeOK
    BY DEF IInv
  <1> QED  BY <1>1, Invariant, PTL

\* Whatever was written and whichever write failed, device_settings_init() reads the
\* record, and a provisioned one has a credential and a passphrase.
THEOREM AlwaysLoads == Spec => []RecordLoads
  <1>1. ASSUME IInv PROVE RecordLoads
    <2> SUFFICES ASSUME nvs # Absent PROVE RecordLoads
      BY DEF RecordLoads
    <2>1. Decodes(nvs) /\ Valid(Stored) /\ Stored \in Settings
      BY <1>1 DEF IInv, Loads, Decodes, Stored
    <2>2. Stored.provisioned => Stored.cred # 0 /\ Len(Stored.apPass) \in PassMin .. PassMax
      BY <2>1 DEF Valid, ValidText
    <2> QED  BY <2>1, <2>2, LimitAssumption DEF RecordLoads
  <1> QED  BY <1>1, Invariant, PTL

\* In setup mode the code is used up exactly when the device is provisioned
\* (web_setup_submit_handle()).
THEOREM CodeIsTrue == Spec => []CodeTellsProvisioned
  <1>1. IInv => CodeTellsProvisioned
    BY DEF IInv
  <1> QED  BY <1>1, Invariant, PTL

\* Setup writes no provisioned record over another one
\* (app_v2_setup_prepare_candidate()).
THEOREM SetupKeepsOut == Spec => SetupNeverOverwrites
  <1>1. IInv => (http.pc = "setup_replace" => ~Stored.provisioned)
    BY DEF IInv, Phase
  <1>2. ASSUME IInv, [Next]_vars
        PROVE  [http.pc = "setup_replace" /\ nvs' # nvs => ~Stored.provisioned]_vars
    BY <1>1, <1>2
  <1> QED  BY <1>2, Invariant, PTL DEF Spec, SetupNeverOverwrites

\* The fields that a write of the record changes are those of its writer, unless another
\* one has come in between (device_settings_core_replace() takes a whole record).
THEOREM WritersKeep == Spec => WritersKeepToTheirFields
  <1> DEFINE changed == {f \in DOMAIN Stored : Stored'[f] # Stored[f]}
             Kept == nvs' # nvs =>
                 \/ http' # http /\ (stale \/ changed \subseteq http.owns)
                 \/ /\ http' = http
                    /\ \/ changed \subseteq {"joined", "stSsid", "stPass"}
                       \/ changed \subseteq {"apPass"}
                       \/ Stored' \in {Defaults(Stored), Unprovisioned}
  <1>1. ASSUME IInv, Next, nvs' # nvs PROVE Kept
    <2>1. Stored \in Settings /\ DOMAIN Stored = Fields
      BY <1>1, StoredType DEF IInv
    <2>2. ASSUME NEW new \in Settings, NEW done \in BOOLEAN, Replace(new, done)
          PROVE  Stored' = new
      BY <1>1, <2>2, ReplaceEffect, StoredStays DEF IInv
    <2>3. CASE SetupReplace \/ HttpReplace
      <3>1. PICK done \in BOOLEAN : Replace(http.new, done)
        BY <2>3 DEF SetupReplace, HttpReplace
      <3>2. http.new \in Settings /\ http' # http
        BY <1>1, <2>3 DEF IInv, TypeOK, SetupReplace, HttpReplace, Idle
      <3>3. Stored' = http.new
        BY <2>2, <3>1, <3>2
      <3>4. ~stale => \A f \in Fields \ http.owns : http.new[f] = Stored[f]
        BY <1>1, <2>3 DEF IInv, Current, SetupReplace, HttpReplace
      <3> QED  BY <2>1, <3>2, <3>3, <3>4
    <2>4. ASSUME NEW network \in Networks, SetStation(network.ssid, network.pass) PROVE Kept
      <3> DEFINE new == WithStation(Loaded, [ssid |-> network.ssid, pass |-> network.pass])
      <3>1. new \in Settings /\ \A f \in Fields \ {"joined", "stSsid", "stPass"} : new[f] = Stored[f]
        BY <1>1, <2>4, AtOnceTypes
      <3> HIDE DEF new
      <3>2. Stored' = new /\ http' = http
        BY <2>2, <2>4, <3>1 DEF SetStation, WriteAtOnce, new
      <3> QED  BY <2>1, <3>1, <3>2
    <2>5. ASSUME NEW pass \in Passphrases, SetPassphrase(pass) PROVE Kept
      <3> DEFINE new == [Loaded EXCEPT !.apPass = pass]
      <3>1. new \in Settings /\ \A f \in Fields \ {"apPass"} : new[f] = Stored[f]
        BY <1>1, <2>5, AtOnceTypes
      <3> HIDE DEF new
      <3>2. Stored' = new /\ http' = http
        BY <2>2, <2>5, <3>1 DEF SetPassphrase, WriteAtOnce, new
      <3> QED  BY <2>1, <3>1, <3>2
    <2>6. CASE ResetSettings
      <3>1. Stored' = Defaults(Stored) /\ http' = http
        BY <1>1, <2>2, <2>6, AtOnceTypes DEF ResetSettings, WriteAtOnce
      <3> QED  BY <3>1
    <2>7. CASE EraseSettings
      <3>1. Stored' = Unprovisioned /\ http' = http
        BY <2>2, <2>7, UnprovisionedType DEF EraseSettings, WriteAtOnce
      <3> QED  BY <3>1
    <2>8. CASE \/ Boot \/ Restart \/ PowerLoss \/ SetupAnswer
               \/ (\E body \in SetupBodies : SetupRead(body))
               \/ (\E body \in PutBodies : PutRead(body))
               \/ (\E password \in AdminPasswords : PasswordRead(password))
      BY <1>1, <2>8 DEF Boot, Restart, PowerLoss, PowerOff, SetupAnswer, SetupRead, PutRead,
                        PasswordRead
    <2> QED  BY <1>1, <2>3, <2>4, <2>5, <2>6, <2>7, <2>8 DEF Next, Console
  <1>2. ASSUME IInv, [Next]_vars PROVE [Kept]_vars
    BY <1>1, <1>2 DEF vars
  <1> QED  BY <1>2, Invariant, PTL DEF Spec, WritersKeepToTheirFields
=============================================================================
