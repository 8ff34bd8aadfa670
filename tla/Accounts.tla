------------------------------- MODULE Accounts -------------------------------
(***************************************************************************)
(* An account of the engine: its device-code login at Microsoft, its       *)
(* tokens and the provisioning of its Bedrock session (bedrock/auth/*.rs), *)
(* driven by the requests of the API (api.rs) or by the runs of the        *)
(* easy-auth login (easy_auth.rs), which keeps a database of its own and a *)
(* file of cached tokens.                                                  *)
(*                                                                         *)
(* A request is a sequence of steps, each an answer of a service (external,*)
(* it may refuse at any step and answer at any time: there is no timeout)  *)
(* or a write of the database.  Requests interleave at these steps.  A     *)
(* request can be interrupted at any step: the client goes away and the    *)
(* server drops its future, the program ends, or the database refuses a    *)
(* statement.  What fails within an attempt at provisioning is caught and  *)
(* retried, with what the database holds by then.  A refresh token is the  *)
(* new one, the last that Microsoft has issued, or an old one.  There is   *)
(* one e-mail, the device session is the last one asked for, and there is  *)
(* at most one run of easy-auth.  Left out are the contents of answers and *)
(* what nothing reads back: the log, the retry count and time, the status  *)
(* columns of the single steps and that of the session.                    *)
(***************************************************************************)
EXTENDS Naturals, FiniteSets

CONSTANTS
    Request,     \* what is done at once: requests of the API, runs of easy-auth
    Program,     \* programs to look at, of "server" and "easy"
    MaxAttempts, \* MAX_PROVISIONING_ATTEMPTS
    ErrorHttp,   \* HTTP statuses of an error answer of Microsoft: 200, 400
    LiveFlow     \* MicrosoftAuthFlow::Live, or Msal

ASSUME AccountsAssumption ==
    /\ Program \subseteq {"server", "easy"} /\ IsFiniteSet(Request)
    /\ MaxAttempts \in Nat \ {0} /\ ErrorHttp \subseteq {200, 400}
    /\ LiveFlow \in BOOLEAN

VARIABLES
    program,    \* the program that runs
    request,    \* what each slot does: operation, next step, attempt, token held
    code,       \* the device code of the session: what has become of it
    tokens,     \* tokens of the account's row: the access token's state, the refresh token
    cache,      \* refresh token of the easy-auth cache file
    cacheLive,  \* expires_at_secs of the file is in the future
    shown,      \* entitlement_status of the account
    row,        \* provisioning_status of its row of entitlements
    overlapped, \* two requests have been at work at once
    torn,       \* a request has been interrupted
    lost        \* the newest refresh token reached nobody, or whom it did could not keep it

statusVars == <<shown, row>>
cacheVars == <<cache, cacheLive>>
accountsVars == <<program, request, code, tokens, cacheVars, statusVars, overlapped,
                  torn, lost>>

Idle == [op |-> "none", at |-> "idle", n |-> 0, held |-> "none"]

AccountsInit ==
    /\ program \in Program
    /\ request = [r \in Request |-> Idle]
    /\ code = "none"
    /\ tokens = [access |-> "none", refresh |-> "none"]
    /\ cache = "none" /\ cacheLive = FALSE
    /\ shown = "missing" /\ row = "not_started"
    /\ overlapped = FALSE /\ torn = FALSE /\ lost = FALSE

At(r, step) == request[r].at = step
Working == {r \in Request : ~At(r, "idle")}

\* r goes on with a step, or ends.
Goes(r, step) == request' = [request EXCEPT ![r].at = step]
Ends(r) == request' = [request EXCEPT ![r] = Idle]

\* Microsoft issues a refresh token in answer to r, whose slot is next.
Older(token) == IF token = "new" THEN "old" ELSE token

Rotates(r, next) ==
    /\ request' = [s \in Request |-> IF s = r THEN next
                                    ELSE [request[s] EXCEPT !.held = Older(@)]]
    /\ tokens' = [tokens EXCEPT !.refresh = Older(@)]
    /\ cache' = Older(cache)

\* r receives it and goes on with a step, or the answer is lost, or it cannot
\* be read.
Issued(r, step) ==
    Rotates(r, [request[r] EXCEPT !.at = step, !.held = "new"]) /\ lost' = FALSE

IssuedUnread(r, next) == Rotates(r, next) /\ lost' = TRUE

\* r gives up what it holds.
LetsGo(r) == lost' = (lost \/ (request[r].held = "new" /\ tokens.refresh # "new"))

\* The run of easy-auth that used the cache removes the file, if it can, and
\* falls back to the device code.
FallsBack(r) ==
    /\ request' = [request EXCEPT ![r] = [op |-> "easy", at |-> "code", n |-> 0, held |-> "none"]]
    /\ cache' \in {"none", cache}

-----------------------------------------------------------------------------
(* The statements of db.rs, each one written or read on its own. *)

\* save_tokens(): both tokens of the account in one statement.
Store(access, refresh) == tokens' = [access |-> access, refresh |-> refresh]

\* token_ciphertexts(): an account that never logged in has none.
HasTokens == tokens.access # "none"

\* create_auth_session() and get_auth_session_secret().
CreateSession == code' = "waiting"
SessionFound == code # "none"

\* update_account_status() of the column entitlement_status.
Show(status) == shown' = status

-----------------------------------------------------------------------------
(* Requests begin. *)

Begins(r, op, step) ==
    /\ At(r, "idle")
    /\ request' = [request EXCEPT ![r] = [op |-> op, at |-> step, n |-> 1, held |-> "none"]]
    /\ overlapped' = (overlapped \/ Working # {})

\* import_account(): a device code for the account of the e-mail, the first
\* one or another after the last has come to nothing or brought its tokens.
ImportAccount(r) ==
    /\ program = "server" /\ code \in {"none", "expired", "closed"}
    /\ Begins(r, "import", "code")
    /\ UNCHANGED <<program, code, tokens, cacheVars, statusVars, torn, lost>>

\* poll_auth_session(): an expired session answers at once, of
\* any other Microsoft is asked, also if it has brought tokens before.
PollAuthSession(r) ==
    /\ program = "server" /\ SessionFound /\ code # "expired"
    /\ Begins(r, "poll", "asked")
    /\ UNCHANGED <<program, code, tokens, cacheVars, statusVars, torn, lost>>

\* provision_account(), export_account_session() and validate_real_server()
\* with gameplay: a session is provisioned, whatever the account shows.
ProvisionAccount(r) ==
    /\ program = "server" /\ Begins(r, "provision", "begin")
    /\ UNCHANGED <<program, code, tokens, cacheVars, statusVars, torn, lost>>

\* EasyAuth::start(): with a cached token that has not expired it is saved as
\* the account's and provisioned, otherwise a device code is asked for.
StartEasyAuth(r) ==
    /\ program = "easy" /\ Working = {}
    /\ IF cache # "none" /\ cacheLive
       THEN Begins(r, "cached", "restore")
       ELSE Begins(r, "easy", "code")
    /\ UNCHANGED <<program, code, tokens, cacheVars, statusVars, torn, lost>>

\* try_provision_from_cache(): what is left of the token's life decides
\* whether valid_microsoft_access_token() will refresh it.
RestoreCached(r) ==
    /\ At(r, "restore")
    /\ \/ /\ \E access \in {"fresh", "stale"} : Store(access, cache)
          /\ Goes(r, "begin") /\ UNCHANGED cache
       \/ FallsBack(r) /\ UNCHANGED tokens
    /\ UNCHANGED <<program, code, cacheLive, statusVars, overlapped, torn, lost>>

-----------------------------------------------------------------------------
(* Device-code login. *)

\* start_device_auth(): the code Microsoft answers with becomes a session.
\* A run of easy-auth goes on to poll it.
DeviceCode(r) ==
    /\ At(r, "code")
    /\ \/ /\ CreateSession
          /\ IF request[r].op = "easy" THEN Goes(r, "wait") ELSE Ends(r)
       \/ Ends(r) /\ UNCHANGED code
    /\ UNCHANGED <<program, tokens, cacheVars, statusVars, overlapped, torn, lost>>

\* The loop of EasyAuth::start() polls again after poll_interval.
PollAgain(r) ==
    /\ At(r, "wait")
    /\ IF code # "expired" THEN Goes(r, "asked") ELSE Ends(r)
    /\ UNCHANGED <<program, code, tokens, cacheVars, statusVars, overlapped, torn, lost>>

\* request_form_json(): an answer whose status is not a success is an error,
\* whatever its body says.
Readable(http) == http = 200

\* poll_device_auth(): Microsoft answers with the tokens, once.  When the
\* answer does not come through, the request fails.
Granted(r) ==
    /\ At(r, "asked") /\ code = "granted"
    /\ code' = "closed"
    /\ Issued(r, "save") \/ IssuedUnread(r, Idle)
    /\ UNCHANGED <<program, cacheLive, statusVars, overlapped, torn>>

\* It answers that the user has not decided yet (authorization_pending).
StillWaiting(r) ==
    /\ At(r, "asked") /\ code = "waiting"
    /\ \E http \in ErrorHttp :
          IF Readable(http) /\ request[r].op = "easy" THEN Goes(r, "wait") ELSE Ends(r)
    /\ UNCHANGED <<program, code, tokens, cacheVars, statusVars, overlapped, torn, lost>>

\* It answers that the code is denied, used or no longer valid.
Refused(r) ==
    /\ At(r, "asked") /\ code \in {"closed", "expired"}
    /\ Ends(r)
    /\ UNCHANGED <<program, code, tokens, cacheVars, statusVars, overlapped, torn, lost>>

Provisions(r) ==
    request' = [request EXCEPT ![r] =
                   [op |-> "provision", at |-> "begin", n |-> 1, held |-> "none"]]

\* save_microsoft_tokens() after the login; refused, it ends the request.
SaveTokens(r) ==
    /\ At(r, "save")
    /\ \/ /\ Store("fresh", request[r].held) /\ UNCHANGED lost
          /\ IF request[r].op = "easy" THEN Goes(r, "file") ELSE Provisions(r)
       \/ Ends(r) /\ LetsGo(r) /\ UNCHANGED tokens
    /\ UNCHANGED <<program, code, cacheVars, statusVars, overlapped, torn>>

\* save_cached_tokens(): the file of easy-auth is written at the login only,
\* and nobody is told when it cannot be.
SaveCached(r) ==
    /\ At(r, "file")
    /\ (cache' = request[r].held /\ cacheLive' = TRUE) \/ UNCHANGED cacheVars
    /\ Provisions(r)
    /\ UNCHANGED <<program, code, tokens, statusVars, overlapped, torn, lost>>

-----------------------------------------------------------------------------
(* provision(): at most MaxAttempts attempts, one after the other. *)

\* begin_entitlement_provisioning().
Begin(r) ==
    /\ At(r, "begin")
    /\ row' = "in_progress" /\ Goes(r, "pending")
    /\ UNCHANGED <<program, code, tokens, cacheVars, shown, overlapped, torn, lost>>

ShowPending(r) ==
    /\ At(r, "pending")
    /\ Show("pending") /\ Goes(r, "token")
    /\ UNCHANGED <<program, code, tokens, cacheVars, row, overlapped, torn, lost>>

\* A service refuses a step of the attempt or cannot be reached, or the
\* database refuses a statement of it: the attempt has failed.
Fails(r) ==
    request' = [request EXCEPT ![r].at = "record", ![r].held = "none"] /\ UNCHANGED statusVars

\* valid_microsoft_access_token(): the stored token, or a refresh of it.
LoadTokens(r) ==
    /\ At(r, "token")
    /\ \/ Fails(r)
       \/ HasTokens /\ tokens.access = "fresh" /\ Goes(r, "xbox") /\ UNCHANGED statusVars
       \/ /\ HasTokens /\ tokens.access # "fresh"
          /\ request' = [request EXCEPT ![r].at = "refresh", ![r].held = tokens.refresh]
          /\ UNCHANGED statusVars
    /\ UNCHANGED <<program, code, tokens, cacheVars, overlapped, torn, lost>>

\* refresh_microsoft(): the answer may bring a new refresh token.  It may be
\* a refusal, or one that cannot be read although it has brought a token: the
\* attempt has failed, and the next one starts from the token of the row.
Refreshed(r) ==
    /\ At(r, "refresh")
    /\ \/ Issued(r, "resave") /\ UNCHANGED statusVars
       \/ IssuedUnread(r, [request[r] EXCEPT !.at = "record", !.held = "none"])
          /\ UNCHANGED statusVars
       \/ Goes(r, "resave") /\ UNCHANGED <<tokens, cache, lost, statusVars>>
       \/ Fails(r) /\ UNCHANGED <<tokens, cache, lost>>
    /\ UNCHANGED <<program, code, cacheLive, overlapped, torn>>

\* Mutant: the refresh token the answer brought is not stored.
SaveRefreshedOld(r) ==
    /\ At(r, "resave")
    /\ tokens' = [tokens EXCEPT !.access = "fresh"]
    /\ request' = [request EXCEPT ![r].at = "xbox", ![r].held = "none"]
    /\ UNCHANGED <<program, code, cacheVars, statusVars, overlapped, torn, lost>>

\* save_microsoft_tokens() after the refresh; refused, the attempt has failed.
SaveRefreshed(r) ==
    /\ At(r, "resave")
    /\ \/ /\ Store("fresh", request[r].held)
          /\ request' = [request EXCEPT ![r].at = "xbox", ![r].held = "none"]
          /\ UNCHANGED <<statusVars, lost>>
       \/ Fails(r) /\ LetsGo(r) /\ UNCHANGED tokens
    /\ UNCHANGED <<program, code, cacheVars, overlapped, torn>>

\* A step of provision_once() whose service answers as hoped, or not.
Passes(r, step, next) ==
    /\ At(r, step)
    /\ (Goes(r, next) /\ UNCHANGED statusVars) \/ Fails(r)
    /\ UNCHANGED <<program, code, tokens, cacheVars, overlapped, torn, lost>>

\* XboxAuth::authenticate(): the user token,
Xbox(r) == Passes(r, "xbox", "device")

\* the device token, and of the Live flow the title token, without which the
\* attempt fails although the others suffice for the Msal flow.
DeviceToken(r) == Passes(r, "device", IF LiveFlow THEN "title" ELSE "xsts")
TitleToken(r) == Passes(r, "title", "xsts")

\* XstsAuth::authorize(), for Bedrock and for PlayFab.
Xsts(r) == Passes(r, "xsts", "playfab")

\* login_with_xbox().
PlayFab(r) == Passes(r, "playfab", "start")

\* start_minecraft_entitlement_session().
StartSession(r) == Passes(r, "start", "detect")

\* detect_entitlement() cannot fail the attempt, the statements behind it can;
\* the account is shown as provisioned before the last steps.
Detect(r) ==
    /\ At(r, "detect")
    /\ \/ Show("provisioned") /\ Goes(r, "legacy") /\ UNCHANGED row
       \/ Fails(r)
    /\ UNCHANGED <<program, code, tokens, cacheVars, overlapped, torn, lost>>

\* legacy_bedrock_auth().
Legacy(r) == Passes(r, "legacy", "multiplayer")

\* start_minecraft_multiplayer_session().
Multiplayer(r) == Passes(r, "multiplayer", "chain")

\* build_jwt_chain() refuses an empty legacy chain.
Chain(r) == Passes(r, "chain", "upsert")

\* upsert_entitlement().  A run from the cache whose success cannot be logged
\* falls back although it is provisioned.
Upsert(r) ==
    /\ At(r, "upsert")
    /\ \/ row' = "provisioned" /\ Ends(r) /\ UNCHANGED <<shown, cache>>
       \/ row' = "provisioned" /\ request[r].op = "cached" /\ FallsBack(r) /\ UNCHANGED shown
       \/ Fails(r) /\ UNCHANGED cache
    /\ UNCHANGED <<program, code, tokens, cacheLive, overlapped, torn, lost>>

\* record_entitlement_provisioning_failure().
RecordFailure(r) ==
    /\ At(r, "record")
    /\ row' = "failed" /\ Goes(r, "failed")
    /\ UNCHANGED <<program, code, tokens, cacheVars, shown, overlapped, torn, lost>>

\* Mutant: the last failure is returned before it is shown.
ShowFailedButLast(r) ==
    /\ At(r, "failed")
    /\ IF request[r].n < MaxAttempts
       THEN /\ Show("failed")
            /\ request' = [request EXCEPT ![r].at = "begin", ![r].n = @ + 1, ![r].held = "none"]
       ELSE Ends(r) /\ UNCHANGED shown
    /\ UNCHANGED <<program, code, tokens, cacheVars, row, overlapped, torn, lost>>

\* The failure is shown; the next attempt follows at once, or the request
\* fails.  A run of easy-auth from the cache then removes the file and asks
\* for a device code.
ShowFailed(r) ==
    /\ At(r, "failed")
    /\ Show("failed")
    /\ IF request[r].n < MaxAttempts
       THEN /\ request' = [request EXCEPT ![r].at = "begin", ![r].n = @ + 1, ![r].held = "none"]
            /\ UNCHANGED cache
       ELSE IF request[r].op = "cached" THEN FallsBack(r)
       ELSE Ends(r) /\ UNCHANGED cache
    /\ UNCHANGED <<program, code, tokens, cacheLive, row, overlapped, torn, lost>>

-----------------------------------------------------------------------------
(* What goes on around the requests. *)

\* The request stops where it is: its future is dropped, the program ends, or
\* the database refuses a statement of provision() itself, outside the attempt
\* whose errors it catches, and `?` returns from it.
Interrupt(r) ==
    /\ r \in Working
    /\ Ends(r) /\ torn' = TRUE /\ LetsGo(r)
    /\ UNCHANGED <<program, code, tokens, cacheVars, statusVars, overlapped>>

\* Such a refusal sends a run from the cache back to the device code.
CachedRefused(r) ==
    /\ request[r].op = "cached"
    /\ request[r].at \in {"begin", "pending", "token", "record", "failed"}
    /\ FallsBack(r) /\ torn' = TRUE
    /\ UNCHANGED <<program, code, tokens, cacheLive, statusVars, overlapped, lost>>

\* The user approves or denies the code in the browser.
UserDecides ==
    /\ code = "waiting" /\ code' \in {"granted", "closed"}
    /\ UNCHANGED <<program, request, tokens, cacheVars, statusVars,
                   overlapped, torn, lost>>

CodeExpires ==
    /\ code \notin {"none", "expired"} /\ code' = "expired"
    /\ UNCHANGED <<program, request, tokens, cacheVars, statusVars, overlapped,
                   torn, lost>>

\* The access token of the row, or of the file, comes to its end.
TokenExpires ==
    /\ \/ tokens.access = "fresh" /\ tokens' = [tokens EXCEPT !.access = "stale"]
          /\ UNCHANGED cacheLive
       \/ cacheLive /\ cacheLive' = FALSE /\ UNCHANGED tokens
    /\ UNCHANGED <<program, request, code, cache, statusVars, overlapped, torn, lost>>

-----------------------------------------------------------------------------
RequestBegins(r) ==
    \/ ImportAccount(r) \/ PollAuthSession(r) \/ ProvisionAccount(r) \/ StartEasyAuth(r)

\* What brings a request that is at work to its end.
RequestStep(r) ==
    \/ RestoreCached(r) \/ DeviceCode(r) \/ PollAgain(r)
    \/ Granted(r) \/ StillWaiting(r) \/ Refused(r) \/ SaveTokens(r) \/ SaveCached(r)
    \/ Begin(r) \/ ShowPending(r) \/ LoadTokens(r) \/ Refreshed(r) \/ SaveRefreshed(r)
    \/ Xbox(r) \/ DeviceToken(r) \/ TitleToken(r) \/ Xsts(r) \/ PlayFab(r)
    \/ StartSession(r) \/ Detect(r) \/ Legacy(r) \/ Multiplayer(r)
    \/ Chain(r) \/ Upsert(r) \/ RecordFailure(r) \/ ShowFailed(r)

AccountsNext ==
    \/ \E r \in Request :
          RequestBegins(r) \/ RequestStep(r) \/ Interrupt(r) \/ CachedRefused(r)
    \/ UserDecides \/ CodeExpires \/ TokenExpires

AccountsSpec == AccountsInit /\ [][AccountsNext]_accountsVars

-----------------------------------------------------------------------------
(* Properties. *)

\* Steps at which the request has shown 'pending', and those at which it has
\* written 'in_progress', and not yet taken it back.
PendingStep == {"token", "refresh", "resave", "xbox", "device", "title",
                "xsts", "playfab", "start", "detect", "record", "failed"}
ProgressStep == (PendingStep \ {"failed"}) \cup {"pending", "legacy", "multiplayer", "chain", "upsert"}

Step == {"idle", "restore", "code", "wait", "asked", "save", "file", "begin"} \cup PendingStep
            \cup ProgressStep

Token == {"none", "old", "new"}

\* The values of the variables.
AccountsTypeOK ==
    /\ program \in Program
    /\ request \in [Request -> [op : {"none", "import", "poll", "provision", "easy", "cached"},
                                at : Step, n : 0 .. MaxAttempts, held : Token]]
    /\ code \in {"none", "waiting", "granted", "closed", "expired"}
    /\ tokens \in [access : {"none", "fresh", "stale"}, refresh : Token]
    /\ cache \in Token /\ {cacheLive, overlapped, torn, lost} \subseteq BOOLEAN
    /\ shown \in {"missing", "pending", "failed", "provisioned"}
    /\ row \in {"not_started", "in_progress", "failed", "provisioned"}

\* When every request has answered and none was interrupted, no provisioning
\* is shown as going on, whichever way the requests were mixed; and if they
\* came one at a time, what the account shows is what its row of entitlements
\* says (provision(), which sets the one before the other and shows a success
\* before its last steps).
AccountSettles ==
    Working = {} /\ ~torn =>
        /\ shown # "pending" /\ row # "in_progress"
        /\ ~overlapped => /\ (shown = "failed") = (row = "failed")
                          /\ (shown = "provisioned") = (row = "provisioned")

\* An account of the server never goes on with an old refresh token while the
\* newest could have been kept: whenever its row has an old one, the request
\* that was given the newest is about to store it, or it was lost on the way, in
\* a refused save or with a request that was dropped, and provision() retries
\* with the old one (valid_microsoft_access_token()).  This holds over retries,
\* interruptions and logins for requests that come one at a time, and in the
\* server; what overlapping refreshes do, and the file that easy-auth restores
\* over a refreshed row (easy_auth.rs:317), is left out.
NewestToken ==
    program = "server" /\ ~overlapped /\ tokens.refresh = "old"
        => lost \/ \E r \in Request : request[r].held = "new"

\* The same without the limits.  The code does not keep this: of two refreshes
\* at once the older answer may be stored last (token_manager.rs:123), and a
\* run of easy-auth restores the token of its last login.  No run checks it.
NewestTokenAlways ==
    tokens.refresh = "old" => lost \/ \E r \in Request : request[r].held = "new"

\* A run of easy-auth whose user has still to decide goes on waiting
\* (the poll loop of EasyAuth::start(), over request_form_json()).
LoginWaits ==
    [][\A r \in Request :
          StillWaiting(r) /\ request[r].op = "easy" /\ ~torn
              => request'[r].at = "wait"]_accountsVars

=============================================================================
