--------------------------- MODULE RequestPolicy ---------------------------
(***************************************************************************)
(* What the HTTP routes of a provisioned device ask of a request before    *)
(* its handler runs, and what they answer: web_api_core.c (route table,    *)
(* headers), web_request_policy.c (the order of the checks),               *)
(* web_server_api.c (the request pipeline), web_device_actions.c and       *)
(* web_api_administration.c (the outcomes of the device actions).          *)
(*                                                                         *)
(* A request is a record.  Text is kept up to what the code tells apart:   *)
(* a path is the name of its route or the way it is malformed, a content   *)
(* type its media type and parameter, a request id its length and whether  *)
(* all its characters are allowed.                                         *)
(***************************************************************************)
EXTENDS Naturals, Sequences

CONSTANTS
    BodyLimit,          \* APP_V2_JSON_BODY_MAX_BYTES
    BlobLimit,          \* APP_V2_BLOB_MAX_BYTES
    RequestIdMaxBytes   \* WEB_API_REQUEST_ID_MAX_BYTES

ASSUME LimitAssumption == /\ BodyLimit \in Nat \ {0}
                          /\ BlobLimit \in Nat \ {0}
                          /\ RequestIdMaxBytes \in Nat \ {0}

DeviceActions == {"device_restart", "device_reset_settings", "device_factory_reset"}
Routes == DeviceActions \cup
          {"auth_session", "auth_login", "auth_logout", "status", "limits",
           "blob_collection", "blob_item", "send", "settings",
           "settings_change_password", "diagnostics", "setup"}
Methods == {"GET", "POST", "PUT", "DELETE", "other"}

-----------------------------------------------------------------------------
(* The route table. *)

\* web_api_parse_path(): the exact paths, then the blob items.  A path with a
\* query, a fragment, an escape, "//" or ".." names nothing at all.
ParsePath(path) ==
    [error |-> CASE path = "malformed" \/ path = "blob_item_bad_id" -> "INVALID_ARGUMENT"
                 [] path \in Routes -> "NONE"
                 [] OTHER -> "NOT_FOUND",
     route |-> IF path \in Routes THEN path ELSE "unknown"]

AllowedMethods(route) ==
    CASE route \in {"auth_session", "diagnostics", "status", "limits"} -> {"GET"}
      [] route \in {"auth_login", "auth_logout", "settings_change_password"}
                   \cup DeviceActions -> {"POST"}
      [] route \in {"blob_collection", "setup"} -> {"GET", "POST"}
      [] route = "blob_item" -> {"GET", "DELETE"}
      [] route = "send" -> {"GET", "POST", "DELETE"}
      [] route = "settings" -> {"GET", "PUT"}
      [] OTHER -> {}

RequiresBody(route, method) ==
    /\ method # "GET" /\ route # "device_restart"
    /\ \/ route = "send" /\ method = "POST"
       \/ route \in {"blob_collection", "settings", "settings_change_password", "setup",
                     "device_reset_settings", "device_factory_reset", "auth_login"}

RequiresSession(route) == route \notin {"unknown", "setup", "auth_login"}

\* MUTANT of ConfirmationRequired: the restart is thought harmless.
ConfirmationForResetsOnly(route, enabled) ==
    enabled /\ route \in {"settings_change_password", "device_reset_settings",
                          "device_factory_reset"}

ConfirmationRequired(route, enabled) ==
    enabled /\ route \in {"settings_change_password"} \cup DeviceActions

\* web_api_request_requires_worker(): decides on the HTTP task who runs the call.
RequiresWorker(request, enabled) ==
    /\ ParsePath(request.path).error = "NONE"
    /\ request.method \in AllowedMethods(ParsePath(request.path).route)
    /\ ConfirmationRequired(ParsePath(request.path).route, enabled)

RouteBodyLimit(route) == IF route = "blob_collection" THEN BlobLimit ELSE BodyLimit

-----------------------------------------------------------------------------
(* Headers. *)

\* web_api_content_type_is_json(): any case, and at most one parameter.
IsJson(type) == type.media = "application/json" /\ type.parameter \in {"none", "charset=utf-8"}

\* web_api_content_type_is_gzip(): no parameter at all.
IsGzip(type) == type.media = "application/gzip" /\ type.parameter = "none"

ContentTypeValid(route, method, type) ==
    IF route = "blob_collection" /\ method = "POST" THEN IsGzip(type) ELSE IsJson(type)

\* web_api_request_id_is_valid(): length, and [A-Za-z0-9_.:-] throughout.
RequestIdIsValid(id) == id.length \in 1 .. RequestIdMaxBytes /\ id.allowedCharacters

-----------------------------------------------------------------------------
(* The policy. *)

\* enforce_body_content_type()
BodyFailure(request, route) ==
    IF request.length > RouteBodyLimit(route) THEN "BODY_LIMIT"
    ELSE IF /\ RequiresBody(route, request.method) \/ request.length > 0
            /\ ~ContentTypeValid(route, request.method, request.type)
    THEN "CONTENT_TYPE" ELSE "NONE"

\* enforce_session() ...
SessionFailure(request, route, sessions) ==
    IF ~RequiresSession(route) THEN "NONE"
    ELSE IF request.cookie = "missing" THEN "COOKIE"
    ELSE IF request.cookie \notin sessions THEN "SESSION" ELSE "NONE"

\* ... and establish_request_id(), which makes up an id where none was sent.
RequestIdFailure(request) ==
    IF request.id.present /\ ~RequestIdIsValid(request.id) THEN "REQUEST_ID" ELSE "NONE"

FirstFailure(failures) ==
    LET bad == {i \in DOMAIN failures : failures[i] # "NONE"}
    IN  IF bad = {} THEN "NONE" ELSE failures[CHOOSE i \in bad : \A j \in bad : i <= j]

\* MUTANT of PolicyFailure: the session is looked up after the confirmation, by
\* the handlers that happen to need it.
PolicyWithoutSession(request, route, sessions) ==
    FirstFailure(<<BodyFailure(request, route), RequestIdFailure(request)>>)

\* web_request_policy_evaluate(), up to the physical confirmation.
PolicyFailure(request, route, sessions) ==
    FirstFailure(<<BodyFailure(request, route),
                   SessionFailure(request, route, sessions),
                   RequestIdFailure(request)>>)

\* web_request_policy_http_status()
PolicyStatus(failure) ==
    CASE failure = "CONTENT_TYPE" -> 415
      [] failure = "BODY_LIMIT" -> 413
      [] failure = "PHYSICAL_CONFIRMATION" -> 403
      [] failure \in {"COOKIE", "SESSION"} -> 401
      [] failure = "REQUEST_ID" -> 400

\* MUTANT of Unavailable: the error of a commit that may have been durable is not
\* in the table, and gets its default.
KnownUnavailable == {"STORAGE_UNAVAILABLE", "STORAGE_CORRUPT", "USB_NOT_READY", "TIMEOUT",
                     "RESET_RECOVERY_REQUIRED"}

\* The errors after which a client has to look at the state again.
Unavailable == {"STORAGE_UNAVAILABLE", "STORAGE_CORRUPT", "USB_NOT_READY", "TIMEOUT",
                "RESET_RECOVERY_REQUIRED", "COMMIT_UNCERTAIN"}

\* web_api_http_status_for_error()
HttpStatusForError(error) ==
    CASE error = "NONE" -> 200
      [] error \in {"INVALID_ARGUMENT", "MACRO_SYNTAX", "MACRO_LIMIT"} -> 422
      [] error = "NOT_FOUND" -> 404
      [] error \in {"CONFLICT", "AUTH_STATE_INCOMPLETE", "RESET_SETTINGS_INCOMPLETE",
                    "EXECUTOR_BUSY", "EXECUTION_CANCELLED"} -> 409
      [] error = "STORAGE_FULL" -> 507
      [] error \in Unavailable -> 503
      [] error \in {"AUTH_REQUIRED", "AUTH_FAILED"} -> 401
      [] error = "RATE_LIMITED" -> 429
      [] OTHER -> 500

\* prepare_api_call(): the checks before the policy; 0 is no answer yet.
PrepareStatus(request) ==
    LET parsed == ParsePath(request.path)
    IN  IF request.method = "other" THEN 400
        ELSE IF parsed.error = "NOT_FOUND" THEN 404
        ELSE IF parsed.error = "INVALID_ARGUMENT" THEN 400
        ELSE IF request.method \notin AllowedMethods(parsed.route) THEN 405
        ELSE IF ~RequiresBody(parsed.route, request.method) /\ request.length # 0
        THEN 422 ELSE 0

\* The pipeline up to the confirmation: the status it answers, or 0 to go on.
AdmissionStatus(request, sessions) ==
    LET prepared == PrepareStatus(request)
        failure  == PolicyFailure(request, ParsePath(request.path).route, sessions)
    IN  IF prepared # 0 THEN prepared
        ELSE IF failure # "NONE" THEN PolicyStatus(failure) ELSE 0

-----------------------------------------------------------------------------
(* The device actions. *)

\* The body of a device action as its handler finds it: exactly the expected
\* fields, the confirmation phrase, and for the factory reset the password,
\* which is verified after the phrase.
BodyStatus(route, body) ==
    IF route = "device_restart" THEN 0
    ELSE IF body \in {"malformed", "wrong_phrase"} THEN 422
    ELSE IF route = "device_factory_reset" /\ body = "wrong_password" THEN 403 ELSE 0

\* reset_settings_backend_outcome(): four shapes of a result are coherent, and
\* only a full one is OK.
ResetSettingsOutcome(r) ==
    CASE /\ ~r.applied /\ ~r.invalidated /\ ~r.owned
         /\ r.primary # "NONE" /\ r.restart = "NONE" -> "BACKEND_UNAVAILABLE"
      [] /\ r.applied /\ ~r.owned /\ r.restart # "NONE"
         /\ r.invalidated = (r.primary = "NONE") -> "COMMITTED_RESTART_INCOMPLETE"
      [] /\ r.applied /\ r.owned /\ r.restart = "NONE"
         /\ ~r.invalidated /\ r.primary # "NONE" -> "REBOOT_RECOVERY_REQUIRED"
      [] /\ r.applied /\ r.owned /\ r.restart = "NONE"
         /\ r.invalidated /\ r.primary = "NONE" -> "OK"
      [] OTHER -> "INTERNAL"

\* handle_device_reset_settings()
ResetSettingsStatus(r) ==
    LET outcome == ResetSettingsOutcome(r)
    IN  CASE outcome \in {"OK", "REBOOT_RECOVERY_REQUIRED"} -> 202
          [] outcome = "BACKEND_UNAVAILABLE" -> HttpStatusForError(r.primary)
          [] outcome = "COMMITTED_RESTART_INCOMPLETE" -> 409
          [] OTHER -> 500

\* factory_reset_backend_outcome()
FactoryResetOutcome(r) ==
    CASE /\ ~r.durablyAccepted /\ ~r.recoveryRequired
         /\ r.primary # "NONE" -> "BACKEND_UNAVAILABLE"
      [] r.durablyAccepted /\ r.recoveryRequired /\ r.primary # "NONE" -> "RECOVERY_REQUIRED"
      [] r.durablyAccepted /\ ~r.recoveryRequired /\ r.primary = "NONE" -> "OK"
      [] OTHER -> "INTERNAL"

\* handle_device_factory_reset()
FactoryResetStatus(r) ==
    LET outcome == FactoryResetOutcome(r)
    IN  CASE outcome \in {"OK", "RECOVERY_REQUIRED"} -> 202
          [] outcome = "BACKEND_UNAVAILABLE" -> HttpStatusForError(r.primary)
          [] OTHER -> 500

\* handle_device_restart()
RestartStatus(error) == IF error = "NONE" THEN 202 ELSE HttpStatusForError(error)

\* should_clear_session_cookie()
ClearsCookie(route, status) == route = "settings_change_password" /\ status \in {204, 409}
=============================================================================
