-------------------------- MODULE MCDeviceSettings --------------------------
(***************************************************************************)
(* DeviceSettings for TLC: texts of one to four bytes around the limits,   *)
(* which are 1..3 for names and 2..3 for passphrases.                      *)
(***************************************************************************)
EXTENDS DeviceSettings, TLC

One    == <<97>>                 \* "a", too short for a passphrase
Two    == <<195, 169>>           \* two bytes, one character
Three  == <<226, 130, 172>>      \* as long as a text may be
Long   == <<97, 97, 97, 97>>
Broken == {<<192, 128>>, <<237, 160, 128>>, <<226, 130>>}  \* overlong, surrogate, cut off

Name0  == <<101, 115>>
Net(ssid, pass) == [ssid |-> ssid, pass |-> pass]

Member(key, type, value) == [key |-> key, type |-> type, value |-> value]
String(key, text)        == Member(key, "string", text)
Body(members) == [type |-> "object", nul |-> FALSE, trailing |-> FALSE, members |-> members]
Network(key, ssid, pass) == Member(key, "object", <<String("ssid", ssid), String("pass", pass)>>)

\* A setup that is accepted, and ways to spoil one member of it.
Good == <<String("code", 1), String("name", Three), String("apSsid", One), String("apPass", Two),
          String("password", Two), Member("confirm", "bool", TRUE)>>
Spoiled(i, text) == [Good EXCEPT ![i].value = text]
Setups ==
    {Body(m) : m \in {Good, Spoiled(1, 2), Spoiled(3, <<>>), Spoiled(4, One), Spoiled(5, One)}
                     \cup {Spoiled(2, t) : t \in {Long} \cup Broken}
                     \cup {SubSeq(Good, 1, 5), Good \o <<Good[1]>>,
                           [Good EXCEPT ![6] = String("confirm", Two)]}}
    \cup {[Body(Good) EXCEPT !.nul = TRUE], [Body(Good) EXCEPT !.trailing = TRUE]}

Puts == {Body(m) : m \in {
    <<Member("confirm", "bool", FALSE), Member("retention", "number", 2), String("package", "p")>>,
    <<Network("accessPoint", One, Three)>>, <<Network("station", One, Two)>>,
    <<Member("station", "null", 0), Member("package", "null", 0)>>,
    \* refused by their values
    <<>>, <<String("name", <<195>>)>>, <<Member("retention", "number", 3)>>,
    <<String("package", "malformed")>>, <<Network("accessPoint", One, One)>>,
    <<Network("station", One, <<>>)>>,
    \* refused by their form
    <<String("unknown", One)>>, <<Member("station", "null", 0), Network("station", One, Two)>>,
    <<Member("retention", "number", 256)>>, <<String("confirm", One)>>,
    <<Member("accessPoint", "null", 0)>>, <<Member("station", "object", <<String("ssid", One)>>)>>}}

Joined == {Net(Three, <<>>), Net(One, One), Net(<<192, 128>>, <<>>)}

Passwords == {One, Two}
Spoken == {One, Three, <<237, 160, 128>>}

New    == [Unprovisioned EXCEPT !.joined = TRUE, !.stSsid = Three]
Used   == [New EXCEPT !.provisioned = TRUE, !.cred = 1, !.apSsid = One, !.apPass = Two]
\* A device fresh or used, also one whose reserved byte an older firmware set.
Records == {Encode(New), [Encode(Used) EXCEPT !.reserved = 1]}

\* Utf8 accepts the spelling of every code point near the limits, and refuses its
\* shorter, longer and broken neighbours.
ASSUME Utf8AtTheLimits ==
    /\ \A t \in {<<127>>, <<194, 128>>, <<223, 191>>, <<224, 160, 128>>, <<237, 159, 191>>,
                 <<238, 128, 128>>, <<239, 191, 191>>, <<240, 144, 128, 128>>,
                 <<244, 143, 191, 191>>, <<97, 195, 169, 97>>} : Utf8(t)
    /\ \A t \in {<<128>>, <<193, 191>>, <<224, 159, 191>>, <<237, 160, 128>>, <<240, 143, 191, 191>>,
                 <<244, 144, 128, 128>>, <<245, 128, 128, 128>>, <<195>>, <<195, 97>>} : ~Utf8(t)
=============================================================================
