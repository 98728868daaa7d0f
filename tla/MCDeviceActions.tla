-------------------------- MODULE MCDeviceActions --------------------------
(***************************************************************************)
(* Instances of DeviceActions for TLC: every device action, with and       *)
(* without its confirmation, by a client with a session from before the    *)
(* run and by one that logs in during it.                                  *)
(***************************************************************************)
EXTENDS DeviceActions

CONSTANTS old, new

Json    == [media |-> "application/json", parameter |-> "none"]
OwnId   == [present |-> FALSE, length |-> 0, allowedCharacters |-> FALSE]
Action(path, cookie) ==
    [path |-> path, method |-> "POST", cookie |-> cookie, body |-> "valid",
     length |-> IF path = "device_restart" THEN 0 ELSE 1, type |-> Json, id |-> OwnId]

\* A reset of the settings from the session that begins in the run, a factory reset
\* and a restart from one of before it: a reset can follow a reset, and a restart a
\* reset that failed half way.
SomeActions == {Action("device_reset_settings", new), Action("device_factory_reset", old),
                Action("device_restart", old)}
OldSessions == {old}
=============================================================================
