----------------------------- MODULE EngineProofs -----------------------------
(***************************************************************************)
(* Proofs about the parts of Engine, for any number of requests, attempts, *)
(* tasks and bots: the accounts, the supervisor, the pool, then the whole. *)
(***************************************************************************)
EXTENDS Engine, FiniteSetTheorems, TLAPS

(***************************************************************************)
(* Accounts.                                                               *)
(*                                                                         *)
(* AccountSettles speaks of states in which every request has answered.    *)
(* The invariant behind it says who answers for what an account shows      *)
(* while requests are at work: somebody is at a step that will take back   *)
(* 'pending', somebody at one that will take back 'in_progress', and a     *)
(* request that is alone knows how the two columns differ until its end.   *)
(* NewestToken is proved in the same way: where the token is that the row  *)
(* of the account lacks.                                                   *)
(***************************************************************************)

\* Steps between begin_entitlement_provisioning() and the end of an attempt,
\* and those of them after the account is shown as provisioned.
AttemptStep == ProgressStep \cup {"failed"}
LastStep == {"legacy", "multiplayer", "chain", "upsert"}
EarlyStep == PendingStep \ {"record", "failed"}

\* Somebody will take back what the account shows.
PendingHasOwner ==
    ~torn /\ shown = "pending" => \E r \in Request : request[r].at \in PendingStep

ProgressHasOwner ==
    ~torn /\ row = "in_progress" => \E r \in Request : request[r].at \in ProgressStep

\* Requests that never overlapped come one at a time.
OneAtATime ==
    ~overlapped => \A r, s \in Request : ~At(r, "idle") /\ ~At(s, "idle") => r = s

\* How the two columns of an account differ during an attempt that is alone.
Agreement == /\ (shown = "failed") = (row = "failed")
             /\ (shown = "provisioned") = (row = "provisioned")

Agreed ==
    ~overlapped /\ ~torn =>
        /\ \A r \in Request : request[r].at \in LastStep => shown = "provisioned"
        /\ \A r \in Request : request[r].at = "failed" => row = "failed"
        /\ (\A r \in Request : request[r].at \notin AttemptStep) => Agreement

Owned == PendingHasOwner /\ ProgressHasOwner /\ OneAtATime /\ Agreed

\* Who holds the refresh token the row of the account lacks, unless it is lost.
HolderStep == {"save", "resave"}
Holds(r) == request[r].at \in HolderStep /\ request[r].held = "new"

TokenHeld ==
    program = "server" /\ ~overlapped =>
        /\ \A r \in Request : request[r].at # "restore"
        /\ \A r \in Request : request[r].at = "save" => request[r].held = "new"
        /\ \A r \in Request : request[r].at = "refresh" => request[r].held = tokens.refresh
        /\ \A r \in Request : request[r].at = "resave" =>
               request[r].held = "new" \/ request[r].held = tokens.refresh
        /\ tokens.refresh = "old" => lost \/ \E r \in Request : Holds(r)

AccountsInv == AccountsTypeOK /\ Owned /\ TokenHeld

Slot == [op : {"none", "import", "poll", "provision", "easy", "cached"},
         at : Step, n : 0 .. MaxAttempts, held : Token]

\* r goes to a step, and the others stay at theirs.
Moved(r, step) ==
    /\ request'[r].at = step
    /\ \A s \in Request : s # r => request'[s].at = request[s].at

\* Nobody else's record changes, and r holds a token.
MovedWith(r, step, token) ==
    /\ Moved(r, step)
    /\ request'[r].held = token
    /\ \A s \in Request : s # r => request'[s] = request[s]

-----------------------------------------------------------------------------
(* What the helpers of the actions do to the requests. *)

LEMMA SlotTyped == AccountsTypeOK => request \in [Request -> Slot]
BY DEF AccountsTypeOK, Slot

LEMMA AttemptsNatural == MaxAttempts \in Nat \ {0}
BY AccountsAssumption

LEMMA GoesMoves ==
    ASSUME request \in [Request -> Slot], NEW r \in Request, NEW step \in Step, Goes(r, step)
    PROVE  /\ request' \in [Request -> Slot]
           /\ MovedWith(r, step, request[r].held)
BY DEF Slot, Goes, Moved, MovedWith

LEMMA IdleTyped == Idle \in Slot
BY AttemptsNatural DEF Idle, Slot, Step, Token

LEMMA EndsMoves ==
    ASSUME request \in [Request -> Slot], NEW r \in Request, Ends(r)
    PROVE  /\ request' \in [Request -> Slot]
           /\ MovedWith(r, "idle", "none")
BY IdleTyped DEF Slot, Ends, Idle, Moved, MovedWith

LEMMA HoldsMoves ==
    ASSUME request \in [Request -> Slot], NEW r \in Request, NEW step \in Step,
           NEW token \in Token,
           request' = [request EXCEPT ![r].at = step, ![r].held = token]
    PROVE  /\ request' \in [Request -> Slot]
           /\ MovedWith(r, step, token)
BY DEF Slot, Moved, MovedWith

LEMMA FailsMoves ==
    ASSUME request \in [Request -> Slot], NEW r \in Request, Fails(r)
    PROVE  /\ request' \in [Request -> Slot]
           /\ MovedWith(r, "record", "none")
           /\ UNCHANGED <<shown, row>>
BY DEF Slot, Fails, Moved, MovedWith, Step, PendingStep, Token, statusVars

LEMMA BeginsMoves ==
    ASSUME request \in [Request -> Slot], NEW r \in Request,
           NEW op \in {"import", "poll", "provision", "easy", "cached"}, NEW step \in Step,
           Begins(r, op, step)
    PROVE  /\ request' \in [Request -> Slot]
           /\ MovedWith(r, step, "none")
           /\ overlapped' = (overlapped \/ Working # {})
BY AttemptsNatural DEF Slot, Begins, Moved, MovedWith, Token

LEMMA ProvisionsMoves ==
    ASSUME request \in [Request -> Slot], NEW r \in Request, Provisions(r)
    PROVE  /\ request' \in [Request -> Slot]
           /\ MovedWith(r, "begin", "none")
<1> DEFINE fresh == [op |-> "provision", at |-> "begin", n |-> 1, held |-> "none"]
<1>1. fresh \in Slot
    BY AttemptsNatural DEF Slot, Step, Token
<1>2. request' = [request EXCEPT ![r] = fresh]
    BY DEF Provisions
<1>3. request' \in [Request -> Slot]
    BY <1>1, <1>2
<1>4. request'[r] = fresh /\ \A s \in Request : s # r => request'[s] = request[s]
    BY <1>2
<1> QED BY <1>3, <1>4 DEF Moved, MovedWith

LEMMA FallsBackMoves ==
    ASSUME request \in [Request -> Slot], NEW r \in Request, FallsBack(r)
    PROVE  /\ request' \in [Request -> Slot]
           /\ MovedWith(r, "code", "none")
           /\ cache' \in {"none", cache}
<1> DEFINE fresh == [op |-> "easy", at |-> "code", n |-> 0, held |-> "none"]
<1>1. fresh \in Slot
    BY AttemptsNatural DEF Slot, Step, Token
<1>2. request' = [request EXCEPT ![r] = fresh]
    BY DEF FallsBack
<1>3. request' \in [Request -> Slot]
    BY <1>1, <1>2
<1>4. request'[r] = fresh /\ \A s \in Request : s # r => request'[s] = request[s]
    BY <1>2
<1>5. cache' \in {"none", cache}
    BY DEF FallsBack
<1> QED BY <1>3, <1>4, <1>5 DEF Moved, MovedWith



LEMMA IssuedMoves ==
    ASSUME request \in [Request -> Slot], NEW r \in Request, NEW step \in Step,
           Issued(r, step)
    PROVE  /\ request' \in [Request -> Slot]
           /\ Moved(r, step) /\ request'[r].held = "new"
BY DEF Slot, Issued, Rotates, Older, Moved, Token

LEMMA UnreadMoves ==
    ASSUME request \in [Request -> Slot], NEW r \in Request, NEW next \in Slot,
           IssuedUnread(r, next)
    PROVE  /\ request' \in [Request -> Slot]
           /\ Moved(r, next.at) /\ lost' = TRUE
BY DEF Slot, IssuedUnread, Rotates, Older, Moved, Token

\* The slots of an answer nobody could read.
LEMMA UnreadSlots ==
    ASSUME request \in [Request -> Slot], NEW r \in Request
    PROVE  /\ [request[r] EXCEPT !.at = "record", !.held = "none"] \in Slot
           /\ [request[r] EXCEPT !.at = "record", !.held = "none"].at = "record"
           /\ Idle \in Slot /\ Idle.at = "idle"
<1>1. Idle \in Slot
    BY IdleTyped
<1> QED BY <1>1 DEF Slot, Step, PendingStep, Token, Idle

-----------------------------------------------------------------------------
(* Owned is kept by a request that moves on without writing the columns, ... *)

\* How overlapped changes when r moves: a request that begins may set it.
Counted(r) ==
    \/ ~At(r, "idle") /\ overlapped' = overlapped
    \/ At(r, "idle") /\ overlapped' = (overlapped \/ Working # {})

LEMMA StaysAlone ==
    ASSUME OneAtATime, NEW r \in Request, NEW step, Moved(r, step), Counted(r)
    PROVE  /\ OneAtATime'
           /\ ~overlapped' => /\ ~overlapped
                              /\ \A s \in Request : s # r => At(s, "idle")
<1>1. CASE ~At(r, "idle") /\ overlapped' = overlapped
    BY <1>1 DEF OneAtATime, Moved, At
<1>2. CASE At(r, "idle") /\ overlapped' = (overlapped \/ Working # {})
  <2> SUFFICES ASSUME ~overlapped'
               PROVE  ~overlapped /\ \A s \in Request : s # r => At(s, "idle")
      BY DEF OneAtATime, Moved, At
  <2>1. ~overlapped /\ Working = {}
      BY <1>2
  <2> QED BY <2>1 DEF Working
<1> QED BY <1>1, <1>2 DEF Counted

\* ... outside an attempt,
LEMMA MovesOutside ==
    ASSUME Owned, NEW r \in Request, NEW step, Moved(r, step), Counted(r),
           request[r].at \notin AttemptStep, step \notin AttemptStep,
           UNCHANGED <<shown, row, torn>>
    PROVE  Owned'
<1>1. PendingHasOwner'
    BY DEF Owned, PendingHasOwner, Moved, AttemptStep, ProgressStep
<1>2. ProgressHasOwner'
    BY DEF Owned, ProgressHasOwner, Moved, AttemptStep
<1>3. OneAtATime' /\ (~overlapped' => ~overlapped)
    BY StaysAlone DEF Owned
<1>4. Agreed'
    BY <1>3 DEF Owned, Agreed, Agreement, Moved, AttemptStep, ProgressStep, LastStep
<1> QED BY <1>1, <1>2, <1>3, <1>4 DEF Owned

\* ... or within one.
LEMMA MovesWithin ==
    ASSUME Owned, NEW r \in Request, NEW step, Moved(r, step), overlapped' = overlapped,
           \/ request[r].at \in EarlyStep /\ step \in EarlyStep \cup {"record"}
           \/ request[r].at \in LastStep /\ step \in LastStep \cup {"record"},
           UNCHANGED <<shown, row, torn>>
    PROVE  Owned'
<1> USE DEF EarlyStep, LastStep, PendingStep, ProgressStep, AttemptStep
<1>1. PendingHasOwner'
    BY DEF Owned, PendingHasOwner, Moved
<1>2. ProgressHasOwner'
    BY DEF Owned, ProgressHasOwner, Moved
<1>3. OneAtATime'
    BY DEF Owned, OneAtATime, Moved, At
<1>4. Agreed'
    BY DEF Owned, Agreed, Moved
<1> QED BY <1>1, <1>2, <1>3, <1>4 DEF Owned

-----------------------------------------------------------------------------
(* Every action keeps the types and Owned. *)

Settled == AccountsTypeOK /\ Owned

\* The values of the variables beside the requests.
RestOK ==
    /\ program \in Program
    /\ code \in {"none", "waiting", "granted", "closed", "expired"}
    /\ tokens \in [access : {"none", "fresh", "stale"}, refresh : Token]
    /\ cache \in Token /\ {cacheLive, overlapped, torn, lost} \subseteq BOOLEAN
    /\ shown \in {"missing", "pending", "failed", "provisioned"}
    /\ row \in {"not_started", "in_progress", "failed", "provisioned"}

LEMMA AccountTypeParts ==
    /\ AccountsTypeOK <=> request \in [Request -> Slot] /\ RestOK
    /\ AccountsTypeOK' <=> request' \in [Request -> Slot] /\ RestOK'
BY DEF AccountsTypeOK, RestOK, Slot

LEMMA SettledBegins ==
    ASSUME Settled, NEW r \in Request, RequestBegins(r)
    PROVE  Settled'
<1>1. request \in [Request -> Slot] /\ RestOK
    BY AccountTypeParts DEF Settled
<1>2. PICK op \in {"import", "poll", "provision", "easy", "cached"},
           step \in {"code", "asked", "begin", "restore"} : Begins(r, op, step)
    BY DEF RequestBegins, ImportAccount, PollAuthSession, ProvisionAccount, StartEasyAuth
<1>3. UNCHANGED <<program, code, tokens, cache, cacheLive, shown, row, torn, lost>>
    BY DEF RequestBegins, ImportAccount, PollAuthSession, ProvisionAccount, StartEasyAuth,
           cacheVars, statusVars
<1>4. step \in Step
    BY DEF Step
<1>5. /\ request' \in [Request -> Slot]
      /\ MovedWith(r, step, "none")
      /\ overlapped' = (overlapped \/ Working # {})
    BY <1>1, <1>2, <1>4, BeginsMoves
<1>6. RestOK'
    BY <1>1, <1>3, <1>5 DEF RestOK
<1>7. Owned'
  <2>1. Counted(r) /\ request[r].at \notin AttemptStep
      BY <1>2, <1>5 DEF Begins, Counted, At, AttemptStep, ProgressStep, PendingStep
  <2>2. step \notin AttemptStep
      BY DEF AttemptStep, ProgressStep, PendingStep
  <2> QED BY <1>3, <1>5, <2>1, <2>2, MovesOutside DEF Settled, MovedWith
<1> QED
  <2>1. AccountsTypeOK'
      BY <1>5, <1>6, AccountTypeParts
  <2> QED BY <1>7, <2>1 DEF Settled

\* The steps of a login, and a cached token restored.
LoginStep(r) ==
    \/ RestoreCached(r) \/ DeviceCode(r) \/ PollAgain(r) \/ Granted(r) \/ StillWaiting(r)
    \/ Refused(r) \/ SaveTokens(r) \/ SaveCached(r)

LEMMA SettledLogin ==
    ASSUME Settled, NEW r \in Request, LoginStep(r)
    PROVE  Settled'
<1>1. request \in [Request -> Slot] /\ RestOK
    BY AccountTypeParts DEF Settled
<1>2. /\ UNCHANGED <<program, shown, row, overlapped, torn>>
      /\ request[r].at \in {"restore", "code", "wait", "asked", "save", "file"}
    BY DEF LoginStep, RestoreCached, DeviceCode, PollAgain, Granted, StillWaiting, Refused,
           SaveTokens, SaveCached, statusVars, cacheVars, At
<1>3. PICK step \in {"idle", "begin", "wait", "asked", "save", "file", "code"} :
          request' \in [Request -> Slot] /\ Moved(r, step)
  <2>1. CASE \E step \in {"begin", "wait", "asked", "file"} : Goes(r, step)
      BY <1>1, <2>1, GoesMoves DEF MovedWith, Step
  <2>2. CASE Ends(r)
      BY <1>1, <2>2, EndsMoves DEF MovedWith
  <2>3. CASE Issued(r, "save")
      BY <1>1, <2>3, IssuedMoves DEF Step
  <2>4. CASE Provisions(r)
      BY <1>1, <2>4, ProvisionsMoves DEF MovedWith
  <2>5. CASE FallsBack(r)
      BY <1>1, <2>5, FallsBackMoves DEF MovedWith
  <2>6. CASE IssuedUnread(r, Idle)
      BY <1>1, <2>6, UnreadMoves, UnreadSlots
  <2> QED BY <2>1, <2>2, <2>3, <2>4, <2>5, <2>6
          DEF LoginStep, RestoreCached, DeviceCode, PollAgain, Granted, StillWaiting, Refused,
              SaveTokens, SaveCached
<1>4. request[r].held \in Token
    BY <1>1 DEF Slot
<1>5. RestOK'
  <2>1. code' \in {"none", "waiting", "granted", "closed", "expired"}
      BY <1>1 DEF RestOK, LoginStep, RestoreCached, DeviceCode, PollAgain, Granted,
                  StillWaiting, Refused, SaveTokens, SaveCached, CreateSession
  <2>2. tokens' \in [access : {"none", "fresh", "stale"}, refresh : Token]
      BY <1>1, <1>4 DEF RestOK, LoginStep, RestoreCached, DeviceCode, PollAgain, Granted,
                  StillWaiting, Refused, SaveTokens, SaveCached, Store, Issued, IssuedUnread,
                  Rotates, Older, Token
  <2>3. cache' \in Token /\ cacheLive' \in BOOLEAN
      BY <1>1, <1>4 DEF RestOK, LoginStep, RestoreCached, DeviceCode, PollAgain, Granted,
                  StillWaiting, Refused, SaveTokens, SaveCached, cacheVars, Issued, IssuedUnread,
                  Rotates, Older, Token, FallsBack
  <2>4. lost' \in BOOLEAN
      BY <1>1 DEF RestOK, LoginStep, RestoreCached, DeviceCode, PollAgain, Granted,
                  StillWaiting, Refused, SaveTokens, SaveCached, Issued, IssuedUnread, LetsGo
  <2> QED BY <1>1, <1>2, <2>1, <2>2, <2>3, <2>4 DEF RestOK
<1>6. Owned'
  <2>1. Counted(r) /\ request[r].at \notin AttemptStep /\ step \notin AttemptStep
      BY <1>2 DEF Counted, At, AttemptStep, ProgressStep, PendingStep
  <2> QED BY <1>2, <1>3, <2>1, MovesOutside DEF Settled
<1> QED
  <2>1. AccountsTypeOK'
      BY <1>3, <1>5, AccountTypeParts
  <2> QED BY <1>6, <2>1 DEF Settled

\* The steps of an attempt that write no column.
QuietStep(r) ==
    \/ LoadTokens(r) \/ Refreshed(r) \/ SaveRefreshed(r)
    \/ Xbox(r) \/ DeviceToken(r) \/ TitleToken(r) \/ Xsts(r) \/ PlayFab(r) \/ StartSession(r)
    \/ Legacy(r) \/ Multiplayer(r) \/ Chain(r)

LEMMA SettledQuiet ==
    ASSUME Settled, NEW r \in Request, QuietStep(r)
    PROVE  Settled'
<1>1. request \in [Request -> Slot] /\ RestOK
    BY AccountTypeParts DEF Settled
<1>2. UNCHANGED <<program, code, cacheLive, shown, row, overlapped, torn>>
    BY DEF QuietStep, LoadTokens, Refreshed, SaveRefreshed, Xbox, DeviceToken, TitleToken, Xsts,
           PlayFab, StartSession, Legacy, Multiplayer, Chain, Passes, Fails, statusVars, cacheVars
<1>3. \E step \in Step :
          /\ request' \in [Request -> Slot] /\ Moved(r, step)
          /\ \/ request[r].at \in EarlyStep /\ step \in EarlyStep \cup {"record"}
             \/ request[r].at \in LastStep /\ step \in LastStep \cup {"record"}
  <2> USE <1>1 DEF At, Step, EarlyStep, LastStep, PendingStep, ProgressStep
  <2>1. CASE LoadTokens(r)
    <3>1. request[r].at = "token"
        BY <2>1 DEF LoadTokens
    <3>2. CASE Fails(r)
        BY <3>1, <3>2, FailsMoves DEF MovedWith
    <3>3. CASE Goes(r, "xbox")
        BY <3>1, <3>3, GoesMoves DEF MovedWith
    <3>4. CASE request' = [request EXCEPT ![r].at = "refresh", ![r].held = tokens.refresh]
      <4>1. tokens.refresh \in Token
          BY DEF RestOK
      <4>2. request' \in [Request -> Slot] /\ MovedWith(r, "refresh", tokens.refresh)
          BY <3>4, <4>1, HoldsMoves
      <4> QED BY <3>1, <4>2 DEF MovedWith
    <3> QED BY <2>1, <3>2, <3>3, <3>4 DEF LoadTokens
  <2>2. CASE Refreshed(r)
    <3>1. request[r].at = "refresh"
        BY <2>2 DEF Refreshed
    <3>2. CASE Fails(r)
        BY <3>1, <3>2, FailsMoves DEF MovedWith
    <3>3. CASE Goes(r, "resave")
        BY <3>1, <3>3, GoesMoves DEF MovedWith
    <3>4. CASE Issued(r, "resave")
        BY <3>1, <3>4, IssuedMoves
    <3>5. CASE IssuedUnread(r, [request[r] EXCEPT !.at = "record", !.held = "none"])
      <4>1. request' \in [Request -> Slot] /\ Moved(r, "record")
          BY <3>5, UnreadMoves, UnreadSlots
      <4> QED BY <3>1, <4>1
    <3> QED BY <2>2, <3>2, <3>3, <3>4, <3>5 DEF Refreshed
  <2>3. CASE SaveRefreshed(r)
    <3>1. request[r].at = "resave"
        BY <2>3 DEF SaveRefreshed
    <3>2. CASE Fails(r)
        BY <3>1, <3>2, FailsMoves DEF MovedWith
    <3>3. CASE request' = [request EXCEPT ![r].at = "xbox", ![r].held = "none"]
      <4>1. MovedWith(r, "xbox", "none") /\ request' \in [Request -> Slot]
          BY <3>3, HoldsMoves DEF Token
      <4> QED BY <3>1, <4>1 DEF MovedWith
    <3> QED BY <2>3, <3>2, <3>3 DEF SaveRefreshed
  <2>4. ASSUME NEW from \in EarlyStep \cup LastStep, NEW to \in EarlyStep \cup LastStep,
               (from \in EarlyStep) = (to \in EarlyStep), Passes(r, from, to)
        PROVE  \E step \in Step :
                  /\ request' \in [Request -> Slot] /\ Moved(r, step)
                  /\ \/ request[r].at \in EarlyStep /\ step \in EarlyStep \cup {"record"}
                     \/ request[r].at \in LastStep /\ step \in LastStep \cup {"record"}
    <3>1. request[r].at = from
        BY <2>4 DEF Passes
    <3>2. CASE Fails(r)
        BY <3>1, <3>2, FailsMoves DEF MovedWith
    <3>3. CASE Goes(r, to)
        BY <2>4, <3>1, <3>3, GoesMoves DEF MovedWith
    <3> QED BY <2>4, <3>2, <3>3 DEF Passes
  <2>5. CASE \E from \in {"xbox", "device", "title", "xsts", "playfab", "start"} :
                \E to \in {"device", "title", "xsts", "playfab", "start", "detect"} :
                    Passes(r, from, to)
      BY <2>4, <2>5
  <2>6. CASE \E from \in {"legacy", "multiplayer", "chain"} :
                \E to \in {"multiplayer", "chain", "upsert"} : Passes(r, from, to)
      BY <2>4, <2>6
  <2> HIDE <1>1 DEF At, Step, EarlyStep, LastStep, PendingStep, ProgressStep
  <2> QED BY <2>1, <2>2, <2>3, <2>5, <2>6
          DEF QuietStep, Xbox, DeviceToken, TitleToken, Xsts, PlayFab, StartSession, Legacy,
              Multiplayer, Chain
<1>4. /\ tokens' \in [access : {"none", "fresh", "stale"}, refresh : Token]
      /\ cache' \in Token /\ lost' \in BOOLEAN
  <2>1. request[r].held \in Token
      BY <1>1 DEF Slot
  <2>2. CASE UNCHANGED <<tokens, cache, lost>>
      BY <1>1, <2>2 DEF RestOK
  <2>3. CASE Refreshed(r)
      BY <1>1, <2>3 DEF RestOK, Refreshed, Issued, IssuedUnread, Rotates, Older, Token
  <2>4. CASE SaveRefreshed(r)
    <3>1. tokens' = tokens \/ tokens' = [access |-> "fresh", refresh |-> request[r].held]
        BY <2>4 DEF SaveRefreshed, Store
    <3>2. lost' \in BOOLEAN /\ cache' = cache
        BY <1>1, <2>4 DEF RestOK, SaveRefreshed, LetsGo, cacheVars
    <3> QED BY <1>1, <2>1, <3>1, <3>2 DEF RestOK
  <2> QED BY <2>2, <2>3, <2>4
          DEF QuietStep, LoadTokens, Xbox, DeviceToken, TitleToken, Xsts, PlayFab, StartSession,
              Legacy, Multiplayer, Chain, Passes, cacheVars
<1>5. RestOK'
    BY <1>1, <1>2, <1>4 DEF RestOK
<1>6. Owned'
    BY <1>2, <1>3, MovesWithin DEF Settled
<1> QED
  <2>1. AccountsTypeOK'
      BY <1>3, <1>5, AccountTypeParts
  <2> QED BY <1>6, <2>1 DEF Settled

\* The steps of an attempt that write one of the two columns.
ColumnStep(r) ==
    Begin(r) \/ ShowPending(r) \/ Detect(r) \/ Upsert(r) \/ RecordFailure(r) \/ ShowFailed(r)

LEMMA SettledColumn ==
    ASSUME Settled, NEW r \in Request, ColumnStep(r)
    PROVE  Settled'
<1>1. request \in [Request -> Slot] /\ RestOK /\ Owned
    BY AccountTypeParts DEF Settled
<1>2. UNCHANGED <<program, code, tokens, cacheLive, overlapped, torn, lost>>
    BY DEF ColumnStep, Begin, ShowPending, Detect, Upsert, RecordFailure, ShowFailed, statusVars,
           cacheVars
<1>3. ~At(r, "idle")
    BY DEF ColumnStep, Begin, ShowPending, Detect, Upsert, RecordFailure, ShowFailed, At
<1>4. RestOK'
    BY <1>1, <1>2 DEF RestOK, ColumnStep, Begin, ShowPending, Detect, Upsert, RecordFailure,
                      ShowFailed, cacheVars, Show, Token, Fails, statusVars, FallsBack
<1> HIDE DEF Settled
\* What is left to show of a step: its move and the columns it leaves.
<1>5. ASSUME NEW step \in Step, request' \in [Request -> Slot], Moved(r, step),
             PendingHasOwner', ProgressHasOwner', Agreed'
      PROVE  Settled'
  <2>1. OneAtATime'
      BY <1>1, <1>2, <1>3, <1>5, StaysAlone DEF Owned, Counted
  <2>2. AccountsTypeOK'
      BY <1>4, <1>5, AccountTypeParts
  <2> QED BY <1>5, <2>1, <2>2 DEF Settled, Owned
<1> USE DEF Owned, PendingHasOwner, ProgressHasOwner, Agreed, Agreement, Moved, MovedWith, At,
            PendingStep, ProgressStep, AttemptStep, LastStep
<1>6. CASE Begin(r)
  <2>1. request' \in [Request -> Slot] /\ Moved(r, "pending") /\ "pending" \in Step
      BY <1>1, <1>6, GoesMoves DEF Begin, Step
  <2>2. request[r].at = "begin" /\ row' = "in_progress" /\ shown' = shown
      BY <1>6 DEF Begin
  <2>3. PendingHasOwner'
      BY <1>1, <1>2, <2>1, <2>2
  <2>4. ProgressHasOwner'
      BY <2>1
  <2>5. Agreed'
      BY <1>1, <1>2, <1>3, <2>1, <2>2, StaysAlone DEF Counted
  <2> QED BY <1>5, <2>1, <2>3, <2>4, <2>5
<1>7. CASE ShowPending(r)
  <2>1. request' \in [Request -> Slot] /\ Moved(r, "token") /\ "token" \in Step
      BY <1>1, <1>7, GoesMoves DEF ShowPending, Step
  <2>2. request[r].at = "pending" /\ shown' = "pending" /\ row' = row
      BY <1>7 DEF ShowPending, Show
  <2>3. PendingHasOwner' /\ ProgressHasOwner'
      BY <1>1, <1>2, <2>1, <2>2
  <2>4. Agreed'
      BY <1>1, <1>2, <1>3, <2>1, <2>2, StaysAlone DEF Counted
  <2> QED BY <1>5, <2>1, <2>3, <2>4
<1>8. CASE Detect(r) /\ ~Fails(r)
  <2>1. request' \in [Request -> Slot] /\ Moved(r, "legacy") /\ "legacy" \in Step
      BY <1>1, <1>8, GoesMoves DEF Detect, Step
  <2>2. request[r].at = "detect" /\ shown' = "provisioned" /\ row' = row
      BY <1>8 DEF Detect, Show
  <2>3. PendingHasOwner' /\ ProgressHasOwner'
    <3>1. PendingHasOwner'
        BY <2>2
    <3>2. ProgressHasOwner'
        BY <1>1, <2>1
    <3> QED BY <3>1, <3>2
  <2>4. Agreed'
      BY <1>1, <1>2, <1>3, <2>1, <2>2, StaysAlone DEF Counted
  <2> QED BY <1>5, <2>1, <2>3, <2>4
<1>9. CASE Upsert(r) /\ ~Fails(r)
  <2>1. PICK step \in {"idle", "code"} : request' \in [Request -> Slot] /\ Moved(r, step)
      BY <1>1, <1>9, EndsMoves, FallsBackMoves DEF Upsert
  <2>2. request[r].at = "upsert" /\ row' = "provisioned" /\ shown' = shown
      BY <1>9 DEF Upsert
  <2>3. PendingHasOwner' /\ ProgressHasOwner'
      BY <1>1, <1>2, <2>1, <2>2
  <2>4. Agreed'
      BY <1>1, <1>2, <1>3, <2>1, <2>2, StaysAlone DEF Counted
  <2>5. step \in Step
      BY DEF Step
  <2> QED BY <1>5, <2>1, <2>3, <2>4, <2>5
<1>10. CASE RecordFailure(r)
  <2>1. request' \in [Request -> Slot] /\ Moved(r, "failed") /\ "failed" \in Step
      BY <1>1, <1>10, GoesMoves DEF RecordFailure, Step
  <2>2. request[r].at = "record" /\ row' = "failed" /\ shown' = shown
      BY <1>10 DEF RecordFailure
  <2>3. PendingHasOwner' /\ ProgressHasOwner'
      BY <1>1, <1>2, <2>1, <2>2
  <2>4. Agreed'
      BY <1>1, <1>2, <1>3, <2>1, <2>2, StaysAlone DEF Counted
  <2> QED BY <1>5, <2>1, <2>3, <2>4
<1>11. CASE ShowFailed(r)
  <2>1. PICK step \in {"begin", "idle", "code"} :
            request' \in [Request -> Slot] /\ Moved(r, step)
    <3>1. CASE Ends(r)
        BY <1>1, <3>1, EndsMoves
    <3>2. CASE FallsBack(r)
        BY <1>1, <3>2, FallsBackMoves
    <3>3. CASE /\ request[r].n < MaxAttempts
               /\ request' = [request EXCEPT ![r].at = "begin", ![r].n = @ + 1,
                                             ![r].held = "none"]
        BY <1>1, <3>3, AttemptsNatural DEF Slot, Step, Token
    <3> QED BY <1>11, <3>1, <3>2, <3>3 DEF ShowFailed
  <2>2. request[r].at = "failed" /\ shown' = "failed" /\ row' = row
      BY <1>11 DEF ShowFailed, Show
  <2>3. PendingHasOwner' /\ ProgressHasOwner'
      BY <1>1, <1>2, <2>1, <2>2
  <2>4. Agreed'
      BY <1>1, <1>2, <1>3, <2>1, <2>2, StaysAlone DEF Counted
  <2>5. step \in Step
      BY DEF Step
  <2> QED BY <1>5, <2>1, <2>3, <2>4, <2>5
<1>12. CASE Fails(r) /\ (Detect(r) \/ Upsert(r))
  <2>1. request' \in [Request -> Slot] /\ Moved(r, "record") /\ UNCHANGED <<shown, row>>
      BY <1>1, <1>12, FailsMoves
  <2>2. request[r].at \in EarlyStep \cup LastStep
      BY <1>12 DEF Detect, Upsert, EarlyStep
  <2>3. Owned'
      BY <1>1, <1>2, <2>1, <2>2, MovesWithin
  <2> QED BY <1>4, <2>1, <2>3, AccountTypeParts DEF Settled
<1> QED BY <1>6, <1>7, <1>8, <1>9, <1>10, <1>11, <1>12 DEF ColumnStep

-----------------------------------------------------------------------------
(* TokenHeld is kept: by steps that have nothing to do with tokens, ... *)

LEMMA TokenElsewhere ==
    ASSUME Owned, TokenHeld, NEW r \in Request, NEW step, Moved(r, step), Counted(r),
           step \notin {"restore", "save", "refresh", "resave"},
           UNCHANGED <<program, tokens>>, lost \/ Holds(r) => lost'
    PROVE  TokenHeld'
<1> SUFFICES ASSUME program' = "server", ~overlapped'
             PROVE  TokenHeld'
    BY DEF TokenHeld
<1>1. ~overlapped /\ \A s \in Request : s # r => request[s].at = "idle"
    BY StaysAlone DEF Owned, At
<1>2. tokens.refresh = "old" => lost'
    BY <1>1 DEF TokenHeld, Holds, HolderStep
<1>3. \A s \in Request : request'[s].at \notin {"restore", "save", "refresh", "resave"}
    BY <1>1 DEF Moved
<1> QED BY <1>2, <1>3 DEF TokenHeld

\* ... by an answer that is lost,
LEMMA TokenUnread ==
    ASSUME Settled, TokenHeld, NEW r \in Request, NEW next \in Slot, IssuedUnread(r, next),
           next.at \notin {"restore", "save", "refresh", "resave"},
           ~At(r, "idle"), UNCHANGED <<program, overlapped>>
    PROVE  TokenHeld'
<1>1. request \in [Request -> Slot]
    BY AccountTypeParts DEF Settled
<1>2. Moved(r, next.at) /\ lost' = TRUE
    BY <1>1, UnreadMoves
<1>3. ~overlapped => \A s \in Request : s # r => request[s].at = "idle"
    BY <1>2, StaysAlone DEF Settled, Owned, At, Counted
<1>4. ~overlapped => \A s \in Request : request'[s].at \notin {"restore", "save", "refresh", "resave"}
    BY <1>2, <1>3 DEF Moved
<1> QED BY <1>2, <1>4 DEF TokenHeld

\* ... by the start of a request,
LEMMA TokenBegins ==
    ASSUME Settled, TokenHeld, NEW r \in Request, RequestBegins(r)
    PROVE  TokenHeld'
<1>1. request \in [Request -> Slot]
    BY AccountTypeParts DEF Settled
<1>2. UNCHANGED <<program, tokens, lost>>
    BY DEF RequestBegins, ImportAccount, PollAuthSession, ProvisionAccount, StartEasyAuth
<1>3. CASE StartEasyAuth(r)
    BY <1>2, <1>3 DEF StartEasyAuth, TokenHeld
<1>4. CASE ImportAccount(r) \/ PollAuthSession(r) \/ ProvisionAccount(r)
  <2>1. PICK op \in {"import", "poll", "provision", "easy", "cached"},
             step \in {"code", "asked", "begin"} : Begins(r, op, step)
      BY <1>4 DEF ImportAccount, PollAuthSession, ProvisionAccount
  <2>2. Moved(r, step) /\ overlapped' = (overlapped \/ Working # {}) /\ At(r, "idle")
      BY <1>1, <2>1, BeginsMoves DEF Begins, MovedWith, Step
  <2>3. ~Holds(r)
      BY <2>2 DEF At, Holds, HolderStep
  <2> QED BY <1>2, <2>2, <2>3, TokenElsewhere DEF Settled, Counted, At
<1> QED BY <1>3, <1>4 DEF RequestBegins

\* ... and by its steps.
LEMMA TokenLogin ==
    ASSUME Settled, TokenHeld, NEW r \in Request, LoginStep(r)
    PROVE  TokenHeld'
<1>1. request \in [Request -> Slot] /\ RestOK
    BY AccountTypeParts DEF Settled
<1>2. /\ UNCHANGED <<program, overlapped>>
      /\ request[r].at \in {"restore", "code", "wait", "asked", "save", "file"}
      /\ Counted(r)
    BY DEF LoginStep, RestoreCached, DeviceCode, PollAgain, Granted, StillWaiting, Refused,
           SaveTokens, SaveCached, statusVars, cacheVars, At, Counted
<1>3. CASE RestoreCached(r)
    BY <1>2, <1>3 DEF RestoreCached, At, TokenHeld
<1>4. CASE Granted(r) /\ Issued(r, "save")
  <2>1. Moved(r, "save") /\ request'[r].held = "new" /\ request'[r].at = "save"
      BY <1>1, <1>4, IssuedMoves DEF Step, Moved
  <2>2. ~overlapped' => \A s \in Request : s # r => request'[s].at = "idle"
      BY <1>2, <2>1, StaysAlone DEF Settled, Owned, Moved, At
  <2> QED BY <1>2, <2>1, <2>2 DEF TokenHeld, Holds, HolderStep
<1>7. CASE Granted(r) /\ IssuedUnread(r, Idle)
  <2>1. ~At(r, "idle")
      BY <1>2 DEF At
  <2> QED BY <1>1, <1>2, <1>7, <2>1, TokenUnread, UnreadSlots
<1>8. CASE SaveTokens(r) /\ Ends(r) /\ LetsGo(r) /\ UNCHANGED tokens
  <2>1. Moved(r, "idle") /\ request[r].at = "save"
      BY <1>1, <1>8, EndsMoves DEF MovedWith, SaveTokens, At
  <2>2. ASSUME lost \/ Holds(r), tokens.refresh = "old"
        PROVE  lost'
      BY <1>8, <2>2 DEF LetsGo, Holds
  <2>3. CASE tokens.refresh = "old"
      BY <1>2, <1>8, <2>1, <2>2, <2>3, TokenElsewhere DEF Settled
  <2>4. CASE tokens.refresh # "old"
    <3>1. ~overlapped' => \A s \in Request : request'[s].at \notin {"restore", "save", "refresh", "resave"}
        BY <1>2, <2>1, StaysAlone DEF Settled, Owned, Moved, At
    <3> QED BY <1>8, <2>4, <3>1 DEF TokenHeld
  <2> QED BY <2>3, <2>4
<1>5. CASE SaveTokens(r) /\ Store("fresh", request[r].held) /\ (Goes(r, "file") \/ Provisions(r))
  <2>1. request[r].at = "save" /\ tokens'.refresh = request[r].held
      BY <1>5 DEF SaveTokens, Store, At
  <2>2. PICK step \in {"file", "begin"} : Moved(r, step)
      BY <1>1, <1>5, GoesMoves, ProvisionsMoves DEF SaveTokens, MovedWith, Step
  <2>3. ~overlapped' => \A s \in Request : s # r => request'[s].at = "idle"
      BY <1>2, <2>2, StaysAlone DEF Settled, Owned, Moved, At
  <2>4. program = "server" /\ ~overlapped => tokens'.refresh = "new"
      BY <2>1 DEF TokenHeld
  <2>5. ~overlapped' => \A s \in Request : request'[s].at \notin {"restore", "save", "refresh", "resave"}
      BY <2>2, <2>3 DEF Moved
  <2> QED BY <1>2, <2>4, <2>5 DEF TokenHeld
<1>6. CASE DeviceCode(r) \/ PollAgain(r) \/ StillWaiting(r) \/ Refused(r) \/ SaveCached(r)
  <2>1. tokens' = tokens /\ request[r].at \notin HolderStep /\ lost' = lost
      BY <1>6 DEF DeviceCode, PollAgain, StillWaiting, Refused, SaveCached, At, HolderStep
  <2>2. PICK step \in {"idle", "wait", "asked", "begin"} : Moved(r, step)
    <3>1. CASE \E step \in {"wait", "asked"} : Goes(r, step)
        BY <1>1, <3>1, GoesMoves DEF MovedWith, Step
    <3>2. CASE Ends(r)
        BY <1>1, <3>2, EndsMoves DEF MovedWith
    <3>3. CASE Provisions(r)
        BY <1>1, <3>3, ProvisionsMoves DEF MovedWith
    <3> QED BY <1>6, <3>1, <3>2, <3>3
            DEF DeviceCode, PollAgain, StillWaiting, Refused, SaveCached
  <2> QED BY <1>2, <2>1, <2>2, TokenElsewhere DEF Settled, Holds
<1> QED BY <1>3, <1>4, <1>5, <1>6, <1>7, <1>8 DEF LoginStep, Granted, SaveTokens

LEMMA TokenQuiet ==
    ASSUME Settled, TokenHeld, NEW r \in Request, QuietStep(r)
    PROVE  TokenHeld'
<1>1. request \in [Request -> Slot] /\ RestOK
    BY AccountTypeParts DEF Settled
<1>2. UNCHANGED <<program, overlapped>> /\ Counted(r) /\ ~At(r, "idle")
    BY DEF QuietStep, LoadTokens, Refreshed, SaveRefreshed, Xbox, DeviceToken, TitleToken, Xsts,
           PlayFab, StartSession, Legacy, Multiplayer, Chain, Passes, At, Counted
\* A step after which r is alone at one of the steps that hold a token.
<1>3. ASSUME NEW step, Moved(r, step), ~overlapped'
      PROVE  /\ \A s \in Request : s # r => request[s].at = "idle" /\ request'[s].at = "idle"
             /\ ~overlapped
    BY <1>2, <1>3, StaysAlone DEF Settled, Owned, Moved, At
<1>4. CASE LoadTokens(r)
  <2>1. request[r].at = "token" /\ tokens' = tokens /\ lost' = lost /\ ~Holds(r)
      BY <1>4 DEF LoadTokens, At, Holds, HolderStep
  <2>2. CASE request' = [request EXCEPT ![r].at = "refresh", ![r].held = tokens.refresh]
    <3>1. tokens.refresh \in Token
        BY <1>1 DEF RestOK
    <3>2. Moved(r, "refresh") /\ request'[r].held = tokens.refresh
        BY <1>1, <2>2, <3>1, HoldsMoves DEF MovedWith, Step, PendingStep
    <3> QED BY <1>2, <1>3, <2>1, <3>2 DEF TokenHeld, Moved, Holds, HolderStep
  <2>3. CASE Fails(r) \/ Goes(r, "xbox")
    <3>1. PICK step \in {"record", "xbox"} : Moved(r, step)
        BY <1>1, <2>3, FailsMoves, GoesMoves DEF MovedWith, Step, PendingStep
    <3> QED BY <1>2, <2>1, <3>1, TokenElsewhere DEF Settled
  <2> QED BY <1>4, <2>2, <2>3 DEF LoadTokens
<1>5. CASE Refreshed(r)
  <2>1. request[r].at = "refresh" /\ ~Holds(r)
      BY <1>5 DEF Refreshed, At, Holds, HolderStep
  <2>2. CASE Issued(r, "resave")
    <3>1. Moved(r, "resave") /\ request'[r].held = "new"
        BY <1>1, <2>2, IssuedMoves DEF Step, PendingStep
    <3> QED BY <1>2, <1>3, <3>1 DEF TokenHeld, Moved, Holds, HolderStep
  <2>3. CASE Goes(r, "resave") /\ UNCHANGED <<tokens, lost>>
    <3>1. Moved(r, "resave") /\ request'[r].held = request[r].held
        BY <1>1, <2>3, GoesMoves DEF MovedWith, Step, PendingStep
    <3>2. program = "server" /\ ~overlapped' => (tokens.refresh = "old" => lost)
        BY <1>2, <1>3, <2>1, <3>1 DEF TokenHeld, Holds, HolderStep
    <3> QED BY <1>2, <1>3, <2>1, <2>3, <3>1, <3>2 DEF TokenHeld, Moved
  <2>4. CASE Fails(r) /\ UNCHANGED <<tokens, lost>>
    <3>1. Moved(r, "record")
        BY <1>1, <2>4, FailsMoves DEF MovedWith
    <3> QED BY <1>2, <2>1, <2>4, <3>1, TokenElsewhere DEF Settled
  <2>5. CASE IssuedUnread(r, [request[r] EXCEPT !.at = "record", !.held = "none"])
      BY <1>1, <1>2, <2>5, TokenUnread, UnreadSlots
  <2> QED BY <1>5, <2>2, <2>3, <2>4, <2>5 DEF Refreshed
<1>6. CASE SaveRefreshed(r)
  <2>1. request[r].at = "resave"
      BY <1>6 DEF SaveRefreshed, At
  <2>2. PICK step \in {"xbox", "record"} : Moved(r, step)
      BY <1>1, <1>6, HoldsMoves, FailsMoves
      DEF SaveRefreshed, MovedWith, Step, PendingStep, Token
  <2>3. ASSUME program = "server", ~overlapped, tokens'.refresh = "old"
        PROVE  lost'
    <3>1. tokens.refresh = "old" => lost \/ Holds(r)
        BY <1>2, <1>3, <2>2, <2>3 DEF TokenHeld, Holds, HolderStep
    <3>2. CASE Store("fresh", request[r].held) /\ lost' = lost
      <4>1. request[r].held = "old"
          BY <2>3, <3>2 DEF Store
      <4> QED BY <2>1, <2>3, <3>1, <3>2, <4>1 DEF TokenHeld, Holds
    <3>3. CASE LetsGo(r) /\ UNCHANGED tokens
        BY <2>3, <3>1, <3>3 DEF LetsGo, Holds
    <3> QED BY <1>6, <3>2, <3>3 DEF SaveRefreshed
  <2> QED BY <1>2, <1>3, <2>2, <2>3 DEF TokenHeld, Moved
<1>7. ASSUME NEW from \in EarlyStep \cup LastStep, NEW to \in EarlyStep \cup LastStep,
             from \notin {"resave"}, to \notin {"refresh", "resave"}, Passes(r, from, to)
      PROVE  TokenHeld'
  <2>1. request[r].at = from /\ tokens' = tokens /\ lost' = lost
      BY <1>7 DEF Passes, At
  <2>2. PICK step \in {to, "record"} : Moved(r, step)
      BY <1>1, <1>7, FailsMoves, GoesMoves
      DEF Passes, MovedWith, Step, EarlyStep, LastStep, PendingStep, ProgressStep
  <2>3. from \notin HolderStep /\ step \notin {"restore", "save", "refresh", "resave"}
      BY <1>7 DEF EarlyStep, LastStep, PendingStep, HolderStep
  <2> QED BY <1>2, <2>1, <2>2, <2>3, TokenElsewhere DEF Settled, Holds
<1>8. CASE \E from \in {"xbox", "device", "title", "xsts", "playfab", "start", "legacy",
                        "multiplayer", "chain"} :
              \E to \in {"device", "title", "xsts", "playfab", "start", "detect",
                         "multiplayer", "chain", "upsert"} : Passes(r, from, to)
    BY <1>7, <1>8 DEF EarlyStep, LastStep, PendingStep
<1> QED BY <1>4, <1>5, <1>6, <1>8
        DEF QuietStep, Xbox, DeviceToken, TitleToken, Xsts, PlayFab, StartSession, Legacy,
            Multiplayer, Chain

LEMMA TokenColumn ==
    ASSUME Settled, TokenHeld, NEW r \in Request, ColumnStep(r)
    PROVE  TokenHeld'
<1>1. request \in [Request -> Slot]
    BY AccountTypeParts DEF Settled
<1>2. UNCHANGED <<program, tokens, lost>> /\ Counted(r) /\ ~Holds(r)
    BY DEF ColumnStep, Begin, ShowPending, Detect, Upsert, RecordFailure, ShowFailed, At, Counted,
           Holds, HolderStep
<1>3. PICK step \in {"pending", "token", "legacy", "idle", "failed", "begin", "code", "record"} :
          Moved(r, step)
  <2>1. CASE \E step \in {"pending", "token", "legacy", "failed"} : Goes(r, step)
      BY <1>1, <2>1, GoesMoves DEF MovedWith, Step, PendingStep, ProgressStep
  <2>2. CASE Ends(r)
      BY <1>1, <2>2, EndsMoves DEF MovedWith
  <2>3. CASE FallsBack(r)
      BY <1>1, <2>3, FallsBackMoves DEF MovedWith
  <2>4. CASE request' = [request EXCEPT ![r].at = "begin", ![r].n = @ + 1, ![r].held = "none"]
      BY <1>1, <2>4 DEF Slot, Moved
  <2>5. CASE Fails(r)
      BY <1>1, <2>5, FailsMoves DEF MovedWith
  <2> QED BY <2>1, <2>2, <2>3, <2>4, <2>5
          DEF ColumnStep, Begin, ShowPending, Detect, Upsert, RecordFailure, ShowFailed
<1> QED BY <1>2, <1>3, TokenElsewhere DEF Settled

-----------------------------------------------------------------------------
(* The inductive invariant and the theorems. *)

LEMMA Initially == AccountsInit => AccountsInv
<1> SUFFICES ASSUME AccountsInit
             PROVE  AccountsInv
    OBVIOUS
<1>1. \A r \in Request : request[r] = Idle /\ request[r].at = "idle"
    BY DEF AccountsInit, Idle
<1>2. AccountsTypeOK
  <2>1. request \in [Request -> Slot]
      BY IdleTyped DEF AccountsInit
  <2>2. RestOK
      BY DEF AccountsInit, RestOK, Token
  <2> QED BY <2>1, <2>2, AccountTypeParts
<1>3. Owned
    BY <1>1 DEF AccountsInit, Owned, PendingHasOwner, ProgressHasOwner, OneAtATime, At, Agreed,
                Agreement, LastStep
<1>4. TokenHeld
    BY <1>1 DEF AccountsInit, TokenHeld
<1> QED BY <1>2, <1>3, <1>4 DEF AccountsInv

LEMMA Interrupted ==
    ASSUME Settled, TokenHeld, NEW r \in Request, Interrupt(r) \/ CachedRefused(r)
    PROVE  Settled' /\ TokenHeld'
<1>1. request \in [Request -> Slot] /\ RestOK
    BY AccountTypeParts DEF Settled
<1>2. PICK step \in {"idle", "code"} : request' \in [Request -> Slot] /\ Moved(r, step)
    BY <1>1, EndsMoves, FallsBackMoves DEF Interrupt, CachedRefused, MovedWith
<1>3. torn' = TRUE /\ UNCHANGED <<program, tokens, overlapped>> /\ ~At(r, "idle")
    BY DEF Interrupt, CachedRefused, Working, At
<1>4. RestOK'
    BY <1>1 DEF RestOK, Interrupt, CachedRefused, FallsBack, LetsGo, statusVars, cacheVars, Token
<1>5. AccountsTypeOK'
    BY <1>2, <1>4, AccountTypeParts
<1>6. OneAtATime'
    BY <1>2, <1>3, StaysAlone DEF Settled, Owned, Counted
<1>7. Settled'
    BY <1>3, <1>5, <1>6 DEF Settled, Owned, PendingHasOwner, ProgressHasOwner, Agreed
<1>8. tokens.refresh = "old" /\ (lost \/ Holds(r)) => lost'
    BY DEF Interrupt, CachedRefused, LetsGo, Holds, HolderStep
<1>9. ~overlapped => \A s \in Request : s # r => request[s].at = "idle"
    BY <1>2, <1>3, StaysAlone DEF Settled, Owned, Counted, At
<1>10. TokenHeld'
    BY <1>2, <1>3, <1>8, <1>9 DEF TokenHeld, Moved, Holds, HolderStep
<1> QED BY <1>7, <1>10

\* What goes on around the requests touches none of this.
LEMMA Around ==
    ASSUME Settled, TokenHeld, UserDecides \/ CodeExpires \/ TokenExpires
    PROVE  Settled' /\ TokenHeld'
<1>1. request \in [Request -> Slot] /\ RestOK
    BY AccountTypeParts DEF Settled
<1>2. UNCHANGED <<program, request, cache, shown, row, overlapped, torn, lost>>
    BY DEF UserDecides, CodeExpires, TokenExpires, statusVars, cacheVars
<1>3. tokens' \in [access : {"none", "fresh", "stale"}, refresh : Token]
      /\ tokens'.refresh = tokens.refresh
    BY <1>1 DEF RestOK, UserDecides, CodeExpires, TokenExpires
<1>4. RestOK'
    BY <1>1, <1>2, <1>3 DEF RestOK, UserDecides, CodeExpires, TokenExpires, cacheVars
<1>5. AccountsTypeOK'
    BY <1>1, <1>2, <1>4, AccountTypeParts
<1>6. Owned'
    BY <1>2 DEF Settled, Owned, PendingHasOwner, ProgressHasOwner, OneAtATime, At, Agreed,
                Agreement
<1>7. TokenHeld'
    BY <1>2, <1>3 DEF TokenHeld, Holds
<1> QED BY <1>5, <1>6, <1>7 DEF Settled

LEMMA Inductive == AccountsInv /\ [AccountsNext]_accountsVars => AccountsInv'
<1> SUFFICES ASSUME Settled, TokenHeld, [AccountsNext]_accountsVars
             PROVE  Settled' /\ TokenHeld'
    BY DEF AccountsInv, Settled
<1>1. ASSUME NEW r \in Request, RequestBegins(r)
      PROVE  Settled' /\ TokenHeld'
    BY <1>1, SettledBegins, TokenBegins
<1>2. ASSUME NEW r \in Request, RequestStep(r)
      PROVE  Settled' /\ TokenHeld'
  <2>1. LoginStep(r) \/ QuietStep(r) \/ ColumnStep(r)
      BY <1>2 DEF RequestStep, LoginStep, QuietStep, ColumnStep
  <2> QED BY <2>1, SettledLogin, TokenLogin, SettledQuiet, TokenQuiet, SettledColumn, TokenColumn
<1>3. ASSUME NEW r \in Request, Interrupt(r) \/ CachedRefused(r)
      PROVE  Settled' /\ TokenHeld'
    BY <1>3, Interrupted
<1>4. CASE UserDecides \/ CodeExpires \/ TokenExpires
    BY <1>4, Around
<1>5. CASE UNCHANGED accountsVars
    BY <1>5 DEF accountsVars, statusVars, cacheVars, Settled, AccountsTypeOK, Owned,
                PendingHasOwner, ProgressHasOwner, OneAtATime, At, Agreed, Agreement, TokenHeld,
                Holds
<1> QED BY <1>1, <1>2, <1>3, <1>4, <1>5 DEF AccountsNext

\* The inductive invariant, for any number of requests and attempts: types,
\* who will take back what an account shows, and who holds the newest token of
\* an account of the server that requests reach one at a time, or that it was
\* lost, with every refused save and unread answer among the steps.
THEOREM AccountsInvariance == AccountsSpec => []AccountsInv
<1>1. AccountsInit => AccountsInv
    BY Initially
<1>2. AccountsInv /\ [AccountsNext]_accountsVars => AccountsInv'
    BY Inductive
<1> QED BY <1>1, <1>2, PTL DEF AccountsSpec

\* When every request has answered and none was interrupted, no provisioning
\* is shown as going on, however many requests were mixed (provision()).
THEOREM ProvisioningSettles == AccountsSpec => []AccountSettles
<1>1. AccountsInv => AccountSettles
  <2> SUFFICES ASSUME AccountsInv, Working = {}, ~torn
               PROVE  /\ shown # "pending" /\ row # "in_progress"
                      /\ ~overlapped => Agreement
      BY DEF AccountSettles, Agreement
  <2>1. \A r \in Request : request[r].at = "idle"
      BY DEF Working, At
  <2>2. shown # "pending" /\ row # "in_progress"
      BY <2>1 DEF AccountsInv, Owned, PendingHasOwner, ProgressHasOwner, PendingStep, ProgressStep
  <2>3. ~overlapped => Agreement
      BY <2>1 DEF AccountsInv, Owned, Agreed, AttemptStep, PendingStep, ProgressStep
  <2> QED BY <2>2, <2>3
<1> QED BY <1>1, AccountsInvariance, PTL

\* In the server, while requests come one at a time, whenever the row has an
\* old refresh token the newest is about to be stored, or it was lost, and
\* provision() retries with the old one (valid_microsoft_access_token()).
THEOREM NewestTokenKept == AccountsSpec => []NewestToken
<1>1. AccountsInv => NewestToken
    BY DEF AccountsInv, TokenHeld, NewestToken, Holds
<1> QED BY <1>1, AccountsInvariance, PTL

(***************************************************************************)
(* The supervisor.                                                         *)
(*                                                                         *)
(* OneTask speaks mostly of the time between requests.  The invariant      *)
(* behind it says what a request that is alone finds at each of its steps: *)
(* no task before it spawns one, the one it has spawned before it puts it  *)
(* in the map, none after it has taken one out.                            *)
(***************************************************************************)

RequestSlot == [at : {"idle", "load", "spawn", "insert", "left"}, spawned : Task \cup {NoTask}]

TaskPlace == {"none", "authenticating", "connecting", "pinging", "joining", "resting",
              "leaving", "waiting", "ended"}

\* Requests that never overlapped come one at a time.
RequestsInTurn ==
    ~botOverlap => \A r, s \in BotRequest : ~BotAt(r, "idle") /\ ~BotAt(s, "idle") => r = s

\* The tasks and the row as the request that is alone finds them, ...
FindsNone(r) ==
    /\ botRequest[r].at \in {"load", "spawn", "left"} => registered = NoTask /\ Live = {}
    /\ botRequest[r].at = "spawn" => status # "stopped"

HasSpawned(r) ==
    botRequest[r].at = "insert" =>
        /\ registered = NoTask /\ status # "stopped"
        /\ botRequest[r].spawned \in Task /\ Live \subseteq {botRequest[r].spawned}
        /\ botRequest[r].spawned \notin Live => ~reconnect

\* ... and as they are between requests.
AtRest ==
    /\ Live \subseteq {registered}
    /\ (status = "stopped") = (registered = NoTask)
    /\ registered \notin Live \cup {NoTask} => ~reconnect

Orderly ==
    ~botOverlap /\ ~disturbed =>
        /\ \A r \in BotRequest : FindsNone(r) /\ HasSpawned(r)
        /\ (\A r \in BotRequest : BotAt(r, "idle")) => AtRest

SupervisorInv == SupervisorTypeOK /\ RequestsInTurn /\ Orderly

\* What a task writes is never "stopped".
LateOK == late \subseteq {"authenticating", "connecting", "connected", "error"}

-----------------------------------------------------------------------------
(* Lemmas. *)

\* A request moves to a step, the others stay where they are.
Stepped(r, slot) ==
    /\ botRequest' = [botRequest EXCEPT ![r] = slot]
    /\ slot \in RequestSlot

LEMMA SteppedTyped ==
    ASSUME SupervisorTypeOK, NEW r \in BotRequest, NEW slot, Stepped(r, slot)
    PROVE  /\ botRequest' \in [BotRequest -> RequestSlot]
           /\ botRequest'[r] = slot
           /\ \A s \in BotRequest : s # r => botRequest'[s] = botRequest[s]
BY DEF SupervisorTypeOK, RequestSlot, Stepped

LEMMA BotTypeParts ==
    SupervisorTypeOK <=>
        /\ botRequest \in [BotRequest -> RequestSlot]
        /\ task \in [Task -> TaskPlace]
        /\ registered \in Task \cup {NoTask}
        /\ status \in {"stopped", "starting", "authenticating", "connecting", "connected", "error"}
        /\ {reconnect, botOverlap, disturbed} \subseteq BOOLEAN
BY DEF SupervisorTypeOK, RequestSlot, TaskPlace

LEMMA TakesStep ==
    ASSUME botRequest \in [BotRequest -> RequestSlot], NEW r \in BotRequest,
           NEW step \in {"load", "spawn", "left"}, Takes(r, step)
    PROVE  Stepped(r, [at |-> step, spawned |-> botRequest[r].spawned])
<1>1. botRequest[r] \in RequestSlot
    OBVIOUS
<1>2. [botRequest[r] EXCEPT !.at = step] = [at |-> step, spawned |-> botRequest[r].spawned]
    BY <1>1 DEF RequestSlot
<1>3. botRequest' = [botRequest EXCEPT ![r] = [at |-> step, spawned |-> botRequest[r].spawned]]
    BY <1>2 DEF Takes
<1>4. [at |-> step, spawned |-> botRequest[r].spawned] \in RequestSlot
    BY <1>1 DEF RequestSlot
<1> QED BY <1>3, <1>4 DEF Stepped

LEMMA NotATask == NoTask \notin Task
BY SupervisorAssumption

\* When the requests have come one at a time, the others are idle.
LEMMA OthersIdle ==
    ASSUME SupervisorInv, NEW r \in BotRequest, NEW slot, Stepped(r, slot),
           \/ ~BotAt(r, "idle") /\ botOverlap' = botOverlap
           \/ BotAt(r, "idle") /\ botOverlap' = (botOverlap \/ BotWorking # {})
    PROVE  /\ RequestsInTurn'
           /\ ~botOverlap' =>
                 /\ ~botOverlap
                 /\ \A s \in BotRequest : s # r => BotAt(s, "idle") /\ BotAt(s, "idle")'
<1>1. \A s \in BotRequest : s # r => botRequest'[s] = botRequest[s]
    BY SteppedTyped DEF SupervisorInv
<1>2. CASE ~BotAt(r, "idle") /\ botOverlap' = botOverlap
    BY <1>1, <1>2 DEF SupervisorInv, RequestsInTurn, BotAt
<1>3. CASE BotAt(r, "idle") /\ botOverlap' = (botOverlap \/ BotWorking # {})
  <2> SUFFICES ASSUME ~botOverlap'
               PROVE  ~botOverlap /\ \A s \in BotRequest : BotAt(s, "idle")
      BY <1>1 DEF RequestsInTurn, BotAt
  <2> QED BY <1>3 DEF BotWorking
<1> QED BY <1>2, <1>3

-----------------------------------------------------------------------------
(* The requests. *)

LEMMA StartKeeps ==
    ASSUME SupervisorInv, NEW r \in BotRequest, Start(r)
    PROVE  SupervisorInv'
<1>1. CASE registered # NoTask
    BY <1>1 DEF Start, SupervisorInv, SupervisorTypeOK, RequestsInTurn, BotAt, Orderly, FindsNone,
                HasSpawned, AtRest, Live
<1>2. CASE registered = NoTask
  <2> DEFINE slot == [at |-> "load", spawned |-> botRequest[r].spawned]
  <2>1. Stepped(r, slot)
      BY <1>2, TakesStep, BotTypeParts DEF Start, SupervisorInv
  <2>2. /\ botRequest' \in [BotRequest -> RequestSlot] /\ botRequest'[r].at = "load"
      BY <2>1, SteppedTyped DEF SupervisorInv
  <2>3. /\ BotAt(r, "idle") /\ botOverlap' = (botOverlap \/ BotWorking # {})
        /\ UNCHANGED <<reconnect, task, registered, status, disturbed>>
      BY <1>2 DEF Start
  <2> HIDE DEF slot
  <2>4. /\ RequestsInTurn'
        /\ ~botOverlap' =>
              /\ ~botOverlap
              /\ \A s \in BotRequest : s # r => BotAt(s, "idle") /\ BotAt(s, "idle")'
      BY <2>1, <2>3, OthersIdle
  <2>5. SupervisorTypeOK'
      BY <2>2, <2>3 DEF SupervisorInv, SupervisorTypeOK, RequestSlot
  <2>6. Orderly'
    <3> SUFFICES ASSUME ~botOverlap', ~disturbed'
                 PROVE  Orderly'
        BY DEF Orderly
    <3>1. AtRest
        BY <2>3, <2>4 DEF SupervisorInv, Orderly, BotAt
    <3>2. registered = NoTask /\ Live = {}
        BY <1>2, <3>1, NotATask DEF AtRest, Live
    <3> QED BY <2>2, <2>3, <2>4, <3>2 DEF Orderly, FindsNone, HasSpawned, BotAt, Live
  <2> QED BY <2>4, <2>5, <2>6 DEF SupervisorInv
<1> QED BY <1>1, <1>2

LEMMA StopKeeps ==
    ASSUME SupervisorInv, NEW r \in BotRequest, Stop(r)
    PROVE  SupervisorInv'
<1> DEFINE slot == [at |-> "left", spawned |-> botRequest[r].spawned]
<1>1. Stepped(r, slot)
    BY TakesStep, BotTypeParts DEF Stop, SupervisorInv
<1>2. /\ botRequest' \in [BotRequest -> RequestSlot] /\ botRequest'[r].at = "left"
    BY <1>1, SteppedTyped DEF SupervisorInv
<1>3. /\ BotAt(r, "idle") /\ botOverlap' = (botOverlap \/ BotWorking # {})
      /\ UNCHANGED <<reconnect, status, disturbed>> /\ registered' = NoTask
      /\ task' = [t \in Task |-> IF t = registered THEN "none" ELSE task[t]]
    BY DEF Stop
<1> HIDE DEF slot
<1>4. /\ RequestsInTurn'
      /\ ~botOverlap' =>
            /\ ~botOverlap
            /\ \A s \in BotRequest : s # r => BotAt(s, "idle") /\ BotAt(s, "idle")'
    BY <1>1, <1>3, OthersIdle
<1>5. SupervisorTypeOK'
  <2>1. task' \in [Task -> TaskPlace]
      BY <1>3, BotTypeParts DEF SupervisorInv, TaskPlace
  <2> QED BY <1>2, <1>3, <2>1 DEF SupervisorInv, SupervisorTypeOK, RequestSlot, TaskPlace
<1>6. Orderly'
  <2> SUFFICES ASSUME ~botOverlap', ~disturbed'
               PROVE  Orderly'
      BY DEF Orderly
  <2>1. Live \subseteq {registered}
      BY <1>3, <1>4 DEF SupervisorInv, Orderly, AtRest, BotAt
  <2>2. Live' = {}
      BY <1>3, <2>1 DEF Live
  <2> QED BY <1>2, <1>3, <1>4, <2>2 DEF Orderly, FindsNone, HasSpawned, BotAt
<1> QED BY <1>4, <1>5, <1>6 DEF SupervisorInv

LEMMA RequestStepKeeps ==
    ASSUME SupervisorInv, NEW r \in BotRequest, BotRequestStep(r)
    PROVE  SupervisorInv'
<1>1. ~BotAt(r, "idle") /\ UNCHANGED <<reconnect, botOverlap, disturbed>>
    BY DEF BotRequestStep, LoadBot, Spawn, Insert, MarkStopped, BotAt
<1>2. ASSUME NEW slot, Stepped(r, slot), task' \in [Task -> TaskPlace],
             registered' \in Task \cup {NoTask},
             status' \in {"stopped", "starting", "authenticating", "connecting", "connected",
                          "error"},
             ~botOverlap /\ ~disturbed => /\ FindsNone(r)' /\ HasSpawned(r)'
                                          /\ slot.at = "idle" => AtRest'
      PROVE  SupervisorInv'
  <2>1. botRequest' \in [BotRequest -> RequestSlot] /\ botRequest'[r] = slot
      BY <1>2, SteppedTyped DEF SupervisorInv
  <2>2. /\ RequestsInTurn'
        /\ ~botOverlap' =>
              /\ ~botOverlap
              /\ \A s \in BotRequest : s # r => BotAt(s, "idle") /\ BotAt(s, "idle")'
      BY <1>1, <1>2, OthersIdle
  <2>3. SupervisorTypeOK'
      BY <1>1, <1>2, <2>1 DEF SupervisorInv, SupervisorTypeOK, RequestSlot, TaskPlace
  <2>4. Orderly'
    <3> SUFFICES ASSUME ~botOverlap', ~disturbed'
                 PROVE  Orderly'
        BY DEF Orderly
    <3>1. \A s \in BotRequest : FindsNone(s)' /\ HasSpawned(s)'
        BY <1>1, <1>2, <2>2 DEF FindsNone, HasSpawned, BotAt
    <3>2. (\A s \in BotRequest : BotAt(s, "idle")') => AtRest'
        BY <1>1, <1>2, <2>1 DEF BotAt
    <3> QED BY <3>1, <3>2 DEF Orderly
  <2> QED BY <2>2, <2>3, <2>4 DEF SupervisorInv
<1>3. /\ task \in [Task -> TaskPlace] /\ registered \in Task \cup {NoTask}
      /\ botRequest \in [BotRequest -> RequestSlot]
    BY BotTypeParts DEF SupervisorInv
<1>4. ~botOverlap /\ ~disturbed => FindsNone(r) /\ HasSpawned(r)
    BY DEF SupervisorInv, Orderly
<1>5. CASE LoadBot(r)
  <2> DEFINE slot == [at |-> "spawn", spawned |-> botRequest[r].spawned]
  <2>1. Stepped(r, slot)
      BY <1>3, <1>5, TakesStep DEF LoadBot
  <2>2. botRequest'[r] = slot
      BY <2>1, SteppedTyped DEF SupervisorInv
  <2>3. UNCHANGED <<task, registered>> /\ status' = "starting" /\ botRequest[r].at = "load"
      BY <1>5 DEF LoadBot, BotAt
  <2>4. ~botOverlap /\ ~disturbed => FindsNone(r)' /\ HasSpawned(r)'
      BY <1>4, <2>2, <2>3 DEF FindsNone, HasSpawned, Live
  <2>5. slot.at # "idle"
      OBVIOUS
  <2> QED BY <1>2, <1>3, <2>1, <2>3, <2>4, <2>5
<1>6. CASE Spawn(r)
  <2>1. PICK t \in Task : /\ task[t] = "none" /\ task' = [task EXCEPT ![t] = "authenticating"]
                          /\ botRequest' = [botRequest EXCEPT ![r] = [at |-> "insert", spawned |-> t]]
      BY <1>6 DEF Spawn
  <2> DEFINE slot == [at |-> "insert", spawned |-> t]
  <2>2. Stepped(r, slot)
      BY <2>1 DEF Stepped, RequestSlot
  <2>3. botRequest'[r] = slot
      BY <2>2, SteppedTyped DEF SupervisorInv
  <2>4. UNCHANGED <<registered, status>> /\ botRequest[r].at = "spawn"
      BY <1>6 DEF Spawn, BotAt
  <2>5. Live' = Live \cup {t}
      BY <1>3, <2>1 DEF Live
  <2>6. ~botOverlap /\ ~disturbed => FindsNone(r)' /\ HasSpawned(r)'
      BY <1>4, <2>3, <2>4, <2>5 DEF FindsNone, HasSpawned
  <2>7. task' \in [Task -> TaskPlace]
      BY <1>3, <2>1 DEF TaskPlace
  <2>8. slot.at # "idle"
      OBVIOUS
  <2>9. status' \in {"stopped", "starting", "authenticating", "connecting", "connected", "error"}
      BY <2>4 DEF SupervisorInv, SupervisorTypeOK
  <2> QED BY <1>2, <1>3, <2>2, <2>4, <2>6, <2>7, <2>8, <2>9
<1>7. CASE Insert(r)
  <2>1. Stepped(r, NoRequest)
      BY <1>7 DEF Insert, Answers, Stepped, NoRequest, RequestSlot
  <2>2. botRequest'[r] = NoRequest
      BY <2>1, SteppedTyped DEF SupervisorInv
  <2>3. /\ UNCHANGED <<task, status>> /\ registered' = botRequest[r].spawned
        /\ botRequest[r].at = "insert"
      BY <1>7 DEF Insert, BotAt
  <2>4. Live' = Live
      BY <2>3 DEF Live
  <2>5. ~botOverlap /\ ~disturbed => FindsNone(r)' /\ HasSpawned(r)' /\ AtRest'
      BY <1>1, <1>4, <2>2, <2>3, <2>4, NotATask DEF FindsNone, HasSpawned, AtRest, NoRequest
  <2>6. registered' \in Task \cup {NoTask}
      BY <1>3, <2>3 DEF RequestSlot
  <2>7. status' \in {"stopped", "starting", "authenticating", "connecting", "connected", "error"}
      BY <2>3 DEF SupervisorInv, SupervisorTypeOK
  <2> QED BY <1>2, <1>3, <2>1, <2>3, <2>5, <2>6, <2>7
<1>8. CASE MarkStopped(r)
  <2>1. Stepped(r, NoRequest)
      BY <1>8 DEF MarkStopped, Answers, Stepped, NoRequest, RequestSlot
  <2>2. botRequest'[r] = NoRequest
      BY <2>1, SteppedTyped DEF SupervisorInv
  <2>3. UNCHANGED <<task, registered>> /\ status' = "stopped" /\ botRequest[r].at = "left"
      BY <1>8 DEF MarkStopped, BotAt
  <2>4. Live' = Live
      BY <2>3 DEF Live
  <2>5. ~botOverlap /\ ~disturbed => FindsNone(r)' /\ HasSpawned(r)' /\ AtRest'
      BY <1>4, <2>2, <2>3, <2>4 DEF FindsNone, HasSpawned, AtRest, NoRequest
  <2> QED BY <1>2, <1>3, <2>1, <2>3, <2>5
<1> QED BY <1>5, <1>6, <1>7, <1>8 DEF BotRequestStep

-----------------------------------------------------------------------------
(* The tasks, and what goes on around them. *)

\* A step of a task leaves it alive, or ends it when it is not to reconnect;
\* what it writes is never "stopped".
LEMMA TaskMoves ==
    ASSUME SupervisorInv, NEW t \in Task, TaskStep(t)
    PROVE  /\ UNCHANGED <<botRequest, reconnect, registered, botOverlap>>
           /\ task' \in [Task -> TaskPlace]
           /\ t \in Live /\ (Live' = Live \/ (Live' = Live \ {t} /\ ~reconnect))
           /\ status' = status \/ status' \in {"authenticating", "connecting", "connected", "error"}
           /\ disturbed' = disturbed \/ disturbed' = TRUE
<1>1. task \in [Task -> TaskPlace]
    BY BotTypeParts DEF SupervisorInv
<1>2. PICK from \in TaskPlace \ {"none", "ended"}, to \in TaskPlace \ {"none"} :
          Moves(t, from, to) /\ (to = "ended" => ~reconnect)
  <2>1. CASE Leave(t)
      BY <2>1 DEF Leave, TaskPlace
  <2>2. CASE Authenticating(t) \/ Connecting(t) \/ Joining(t)
      BY <2>2 DEF Authenticating, Connecting, Joining, Update, TaskPlace
  <2>3. CASE Ping(t) \/ Rest(t) \/ Retry(t)
      BY <2>3 DEF Ping, Rest, Retry, TaskPlace
  <2> QED BY <2>1, <2>2, <2>3 DEF TaskStep
<1>3. task' = [task EXCEPT ![t] = to] /\ task[t] = from
    BY <1>2 DEF Moves
<1>4. t \in Live /\ (Live' = Live \/ (Live' = Live \ {t} /\ ~reconnect))
    BY <1>1, <1>2, <1>3 DEF Live
<1>5. /\ UNCHANGED <<botRequest, reconnect, registered, botOverlap>>
      /\ status' = status \/ status' \in {"authenticating", "connecting", "connected", "error"}
      /\ disturbed' = disturbed \/ disturbed' = TRUE
  <2>1. CASE Leave(t)
      BY <2>1 DEF Leave
  <2>2. CASE Authenticating(t) \/ Connecting(t) \/ Joining(t)
      BY <2>2 DEF Authenticating, Connecting, Joining, Update, Writes, taskFrame
  <2>3. CASE Ping(t) \/ Rest(t) \/ Retry(t)
      BY <2>3 DEF Ping, Rest, Retry, taskFrame
  <2> QED BY <2>1, <2>2, <2>3 DEF TaskStep
<1> QED BY <1>1, <1>3, <1>4, <1>5

LEMMA TaskKeeps ==
    ASSUME SupervisorInv, NEW t \in Task, TaskStep(t)
    PROVE  SupervisorInv'
<1>1. /\ UNCHANGED <<botRequest, reconnect, registered, botOverlap>>
      /\ task' \in [Task -> TaskPlace]
      /\ t \in Live /\ (Live' = Live \/ (Live' = Live \ {t} /\ ~reconnect))
      /\ status' = status \/ status' \in {"authenticating", "connecting", "connected", "error"}
      /\ disturbed' = disturbed \/ disturbed' = TRUE
    BY TaskMoves
<1>2. SupervisorTypeOK'
    BY <1>1 DEF SupervisorInv, SupervisorTypeOK, TaskPlace
<1>3. RequestsInTurn'
    BY <1>1 DEF SupervisorInv, RequestsInTurn, BotAt
<1>4. Orderly'
  <2> SUFFICES ASSUME ~botOverlap', ~disturbed'
               PROVE  Orderly'
      BY DEF Orderly
  <2>1. ~botOverlap /\ ~disturbed
      BY <1>1
  <2>2. ASSUME NEW r \in BotRequest
        PROVE  FindsNone(r)' /\ HasSpawned(r)'
      BY <1>1, <2>1 DEF SupervisorInv, Orderly, FindsNone, HasSpawned
  <2>3. ASSUME \A r \in BotRequest : BotAt(r, "idle")
        PROVE  AtRest'
    <3>1. AtRest
        BY <2>1, <2>3 DEF SupervisorInv, Orderly
    <3>2. t = registered /\ registered # NoTask
        BY <1>1, <3>1, NotATask DEF AtRest
    <3> QED BY <1>1, <3>1, <3>2 DEF AtRest
  <2> QED BY <1>1, <2>2, <2>3 DEF Orderly, BotAt
<1> QED BY <1>2, <1>3, <1>4 DEF SupervisorInv

\* After a late write, an interruption or a restart only the types and the
\* turn of the requests are known.
LEMMA DisturbanceKeeps ==
    ASSUME SupervisorInv,
           LateWrite \/ Restart \/ (\E r \in BotRequest : InterruptBot(r)),
           LateOK
    PROVE  SupervisorInv'
<1>1. disturbed' = TRUE /\ botOverlap' = botOverlap
    BY DEF LateWrite, Restart, InterruptBot
<1>2. NoRequest \in RequestSlot
    BY DEF NoRequest, RequestSlot
<1>3. SupervisorTypeOK'
  <2>1. CASE LateWrite
      BY <2>1 DEF LateOK, LateWrite, SupervisorInv, SupervisorTypeOK
  <2>2. CASE Restart
      BY <1>2, <2>2 DEF Restart, SupervisorInv, SupervisorTypeOK, RequestSlot
  <2>3. CASE \E r \in BotRequest : InterruptBot(r)
      BY <1>2, <2>3 DEF InterruptBot, Answers, SupervisorInv, SupervisorTypeOK, RequestSlot
  <2> QED BY <2>1, <2>2, <2>3
<1>4. RequestsInTurn'
    BY <1>1, <1>2, BotTypeParts DEF LateWrite, Restart, InterruptBot, Answers, SupervisorInv, RequestsInTurn,
                      NoRequest, BotAt
<1> QED BY <1>1, <1>3, <1>4 DEF SupervisorInv, Orderly

-----------------------------------------------------------------------------
(* The inductive invariant and the theorem. *)

LEMMA SupervisorInitially == SupervisorInit => SupervisorInv /\ LateOK
<1> SUFFICES ASSUME SupervisorInit
             PROVE  SupervisorInv /\ LateOK
    OBVIOUS
<1>1. SupervisorTypeOK
    BY SupervisorAssumption DEF SupervisorInit, SupervisorTypeOK, NoRequest
<1>2. Live = {}
    BY DEF SupervisorInit, Live
<1>3. RequestsInTurn /\ Orderly
    BY <1>2 DEF SupervisorInit, NoRequest, RequestsInTurn, BotAt, Orderly, FindsNone, HasSpawned,
                AtRest
<1> QED BY <1>1, <1>3 DEF SupervisorInv, LateOK, SupervisorInit

LEMMA LateKept == SupervisorInv /\ LateOK /\ [SupervisorNext]_supervisorVars => LateOK'
<1> SUFFICES ASSUME SupervisorInv, LateOK, [SupervisorNext]_supervisorVars
             PROVE  LateOK'
    OBVIOUS
<1>1. ASSUME NEW r \in BotRequest, Stop(r)
      PROVE  LateOK'
  <2>1. \A place \in DOMAIN Writes :
            Writes[place] \in {"authenticating", "connecting", "connected", "error"}
      BY DEF Writes
  <2>2. late' = late \/ \E place \in DOMAIN Writes : late' = late \cup {Writes[place]}
      BY <1>1 DEF Stop
  <2> QED BY <2>1, <2>2 DEF LateOK
<1>2. ASSUME NEW r \in BotRequest, Start(r) \/ BotRequestStep(r) \/ InterruptBot(r)
      PROVE  LateOK'
    BY <1>2 DEF Start, BotRequestStep, LoadBot, Spawn, Insert, MarkStopped, InterruptBot, LateOK
<1>3. ASSUME NEW t \in Task, TaskStep(t)
      PROVE  LateOK'
    BY <1>3 DEF TaskStep, Authenticating, Connecting, Joining, Update, Ping, Rest, Leave, Retry,
                taskFrame, LateOK
<1>4. CASE LateWrite \/ Restart \/ UNCHANGED supervisorVars
    BY <1>4 DEF LateWrite, Restart, supervisorVars, LateOK
<1> QED BY <1>1, <1>2, <1>3, <1>4 DEF SupervisorNext

LEMMA SupervisorInductive ==
    SupervisorInv /\ LateOK /\ [SupervisorNext]_supervisorVars => SupervisorInv'
<1> SUFFICES ASSUME SupervisorInv, LateOK, [SupervisorNext]_supervisorVars
             PROVE  SupervisorInv'
    OBVIOUS
<1>1. ASSUME NEW r \in BotRequest, Start(r)
      PROVE  SupervisorInv'
    BY <1>1, StartKeeps
<1>2. ASSUME NEW r \in BotRequest, Stop(r)
      PROVE  SupervisorInv'
    BY <1>2, StopKeeps
<1>3. ASSUME NEW r \in BotRequest, BotRequestStep(r)
      PROVE  SupervisorInv'
    BY <1>3, RequestStepKeeps
<1>4. ASSUME NEW t \in Task, TaskStep(t)
      PROVE  SupervisorInv'
    BY <1>4, TaskKeeps
<1>5. CASE LateWrite \/ Restart \/ (\E r \in BotRequest : InterruptBot(r))
    BY <1>5, DisturbanceKeeps
<1>6. CASE UNCHANGED supervisorVars
    BY <1>6 DEF supervisorVars, SupervisorInv, SupervisorTypeOK, RequestsInTurn, BotAt, Orderly,
                FindsNone, HasSpawned, AtRest, Live
<1> QED BY <1>1, <1>2, <1>3, <1>4, <1>5, <1>6 DEF SupervisorNext

\* While requests come one at a time and nothing is interrupted the bot has at
\* most one task; between requests the map names it, and the row says whether
\* it is there (start(), stop() and the loop of the task).
THEOREM OneTaskAtATime == SupervisorSpec => []OneTask
<1>1. SupervisorInit => SupervisorInv /\ LateOK
    BY SupervisorInitially
<1>2. SupervisorInv /\ LateOK /\ [SupervisorNext]_supervisorVars => SupervisorInv' /\ LateOK'
    BY SupervisorInductive, LateKept
<1>3. SupervisorInv => OneTask
  <2> SUFFICES ASSUME SupervisorInv, ~botOverlap, ~disturbed
               PROVE  /\ \A t, u \in Live : t = u
                      /\ BotWorking = {} => AtRest
      BY DEF OneTask, AtRest
  <2>1. BotWorking = {} => AtRest
      BY DEF SupervisorInv, Orderly, BotWorking
  <2>2. \A t, u \in Live : t = u
    <3>1. CASE BotWorking = {}
        BY <2>1, <3>1 DEF AtRest
    <3>2. CASE \E r \in BotRequest : ~BotAt(r, "idle")
      <4>1. PICK r \in BotRequest : ~BotAt(r, "idle")
          BY <3>2
      <4>2. botRequest[r].at \in {"load", "spawn", "insert", "left"}
          BY <4>1, BotTypeParts DEF SupervisorInv, RequestSlot, BotAt
      <4> QED BY <4>2 DEF SupervisorInv, Orderly, FindsNone, HasSpawned
    <3> QED BY <3>1, <3>2 DEF BotWorking
  <2> QED BY <2>1, <2>2
<1> QED BY <1>1, <1>2, <1>3, PTL DEF SupervisorSpec

(***************************************************************************)
(* The pool.                                                               *)
(*                                                                         *)
(* The buffers are the state worth an invariant: those of the queue and    *)
(* those the loops hold are always as many as were made, so that a loop    *)
(* that waits, and so holds none, finds one.                               *)
(***************************************************************************)

PoolInv == PoolTypeOK /\ queue \in [Bot -> Seq(Command)] /\ free \in Nat

\* Counting the bots that hold a buffer.
LEMMA CountHolding ==
    ASSUME NEW H \in SUBSET Bot
    PROVE  /\ Cardinality(H) \in Nat /\ Cardinality(Bot) \in Nat
           /\ \A b \in Bot \ H : /\ Cardinality(H) < Cardinality(Bot)
                                 /\ Cardinality(H \cup {b}) = Cardinality(H) + 1
           /\ \A b \in H : Cardinality(H \ {b}) = Cardinality(H) - 1
<1>1. IsFiniteSet(Bot) /\ IsFiniteSet(H) /\ Cardinality(H) \in Nat /\ Cardinality(Bot) \in Nat
    BY BotPoolAssumption, FS_Subset, FS_CardinalityType
<1>2. ASSUME NEW b \in Bot \ H
      PROVE  /\ Cardinality(H) < Cardinality(Bot)
             /\ Cardinality(H \cup {b}) = Cardinality(H) + 1
    <2>1. Cardinality(H \cup {b}) = Cardinality(H) + 1
        BY <1>1, FS_AddElement
    <2>2. Cardinality(H \cup {b}) <= Cardinality(Bot)
        <3>1. H \cup {b} \in SUBSET Bot
            OBVIOUS
        <3>2. QED
            BY <1>1, <3>1, FS_Subset
    <2>3. QED
        BY <1>1, <2>1, <2>2
<1>3. ASSUME NEW b \in H
      PROVE  Cardinality(H \ {b}) = Cardinality(H) - 1
    BY <1>1, FS_RemoveElement
<1>4. QED
    BY <1>1, <1>2, <1>3

\* There is a buffer for every bot.
LEMMA BuffersEnough == PoolSize \in Nat /\ PoolSize >= Cardinality(Bot)
<1> DEFINE n == Cardinality(Bot)
<1>1. n \in Nat /\ PerBot \in Nat /\ PerBot >= 1
    BY BotPoolAssumption, FS_CardinalityType
<1> HIDE DEF n
<1>2. PerBot * n \in Nat /\ PerBot * n >= n
    BY <1>1
<1>3. QED
    BY <1>2 DEF PoolSize, n

\* A step that leaves the buffers and what the loops hold alone.
LEMMA LoopsKept ==
    ASSUME PoolInv, free' = free, misses' = misses,
           loop' \in [Bot -> {"none", "waiting", "working", "leaving", "ended"}],
           \A b \in Bot : loop'[b] = loop[b] \/ {loop[b], loop'[b]} \subseteq {"none", "waiting", "ended"}
    PROVE  free' + Cardinality(Holding') = PoolSize /\ ~misses'
<1>1. Holding' = Holding
    BY DEF Holding
<1>2. QED
    BY <1>1 DEF PoolInv, PoolTypeOK

\* A command more, or a channel emptied, keeps what is said of the channels.
LEMMA ChannelsKept ==
    ASSUME PoolInv,
           \/ UNCHANGED queue
           \/ \E b \in Bot, command \in Command : Sends(b, command)
           \/ \E b \in Bot : queue[b] # <<>> /\ queue' = [queue EXCEPT ![b] = Tail(@)]
           \/ \E b \in Bot : queue' = [queue EXCEPT ![b] = <<>>]
    PROVE  /\ queue' \in [Bot -> Seq(Command)]
           /\ \A b \in Bot : Len(queue'[b]) <= CommandBuffer
<1>1. /\ queue \in [Bot -> Seq(Command)] /\ CommandBuffer \in Nat
      /\ \A b \in Bot : Len(queue[b]) <= CommandBuffer
    BY BotPoolAssumption DEF PoolInv, PoolTypeOK
<1> DEFINE C == Command
<1> HIDE DEF C
<1>2. CASE UNCHANGED queue
    BY <1>1, <1>2
<1>3. ASSUME NEW b \in Bot, NEW q \in Seq(C), Len(q) <= CommandBuffer,
             queue' = [queue EXCEPT ![b] = q]
      PROVE  /\ queue' \in [Bot -> Seq(C)]
             /\ \A x \in Bot : Len(queue'[x]) <= CommandBuffer
    BY <1>1, <1>3 DEF C
<1>4. ASSUME NEW b \in Bot, NEW command \in Command, Sends(b, command)
      PROVE  /\ queue' \in [Bot -> Seq(C)]
             /\ \A x \in Bot : Len(queue'[x]) <= CommandBuffer
    <2>1. CASE UNCHANGED queue
        BY <1>1, <2>1 DEF C
    <2>2. CASE Len(queue[b]) < CommandBuffer /\ queue' = [queue EXCEPT ![b] = Append(@, command)]
        <3>1. queue[b] \in Seq(C) /\ command \in C
            BY <1>1 DEF C
        <3>2. Append(queue[b], command) \in Seq(C) /\ Len(Append(queue[b], command)) = Len(queue[b]) + 1
            BY <3>1
        <3>3. Len(queue[b]) \in Nat
            BY <3>1
        <3>4. queue' = [queue EXCEPT ![b] = Append(queue[b], command)]
            BY <1>1, <2>2
        <3>5. Len(Append(queue[b], command)) <= CommandBuffer
            BY <1>1, <2>2, <3>2, <3>3
        <3>6. QED
            BY <1>3, <3>2, <3>4, <3>5
    <2>3. QED
        BY <1>4, <2>1, <2>2 DEF Sends
<1>5. ASSUME NEW b \in Bot, queue[b] # <<>>, queue' = [queue EXCEPT ![b] = Tail(@)]
      PROVE  /\ queue' \in [Bot -> Seq(C)]
             /\ \A x \in Bot : Len(queue'[x]) <= CommandBuffer
    <2>1. queue[b] \in Seq(C) /\ Len(queue[b]) <= CommandBuffer
        BY <1>1 DEF C
    <2>2. Tail(queue[b]) \in Seq(C) /\ Len(Tail(queue[b])) = Len(queue[b]) - 1
          /\ Len(queue[b]) \in Nat
        BY <1>5, <2>1
    <2>3. queue' = [queue EXCEPT ![b] = Tail(queue[b])]
        BY <1>1, <1>5
    <2>4. Len(Tail(queue[b])) <= CommandBuffer
        BY <1>1, <2>1, <2>2
    <2>5. QED
        BY <1>3, <2>2, <2>3, <2>4
<1>6. ASSUME NEW b \in Bot, queue' = [queue EXCEPT ![b] = <<>>]
      PROVE  /\ queue' \in [Bot -> Seq(C)]
             /\ \A x \in Bot : Len(queue'[x]) <= CommandBuffer
    <2>1. <<>> \in Seq(C) /\ Len(<<>>) = 0
        OBVIOUS
    <2>2. Len(<<>>) <= CommandBuffer
        BY <1>1, <2>1
    <2>3. QED
        BY <1>3, <1>6, <2>1, <2>2
<1>7. QED
    BY <1>2, <1>4, <1>5, <1>6 DEF C

LEMMA PoolInitially == PoolInit => PoolInv
<1> SUFFICES ASSUME PoolInit
             PROVE  PoolInv
    OBVIOUS
<1>1. Holding = {} /\ Cardinality({}) = 0
    BY FS_EmptySet DEF PoolInit, Holding
<1>2. free + Cardinality(Holding) = PoolSize
    BY <1>1, BuffersEnough DEF PoolInit
<1>3. /\ queue \in [Bot -> Seq(Command)]
      /\ \A b \in Bot : Len(queue[b]) <= CommandBuffer
    BY BotPoolAssumption DEF PoolInit
<1>4. loop \in [Bot -> {"none", "waiting", "working", "leaving", "ended"}]
    BY DEF PoolInit
<1>5. /\ owner \in {"idle", "telling", "joining", "gone"} /\ ~misses
      /\ bots \subseteq Bot /\ untold \subseteq bots /\ joins \subseteq Bot /\ free \in Nat
    BY BuffersEnough DEF PoolInit
<1>6. QED
    BY <1>2, <1>3, <1>4, <1>5, Zenon DEF PoolInv, PoolTypeOK

\* A loop that receives finds a buffer: it has none itself.
LEMMA ReceiveKeeps ==
    ASSUME PoolInv, NEW b \in Bot, Receive(b)
    PROVE  free' + Cardinality(Holding') = PoolSize /\ ~misses'
<1>1. /\ loop \in [Bot -> {"none", "waiting", "working", "leaving", "ended"}]
      /\ free + Cardinality(Holding) = PoolSize /\ ~misses
    BY DEF PoolInv, PoolTypeOK
<1>2. Holding \in SUBSET Bot /\ b \notin Holding
    BY DEF Holding, Receive
<1>3. Holding' = Holding \cup {b}
    BY <1>1 DEF Holding, Receive
<1>4. /\ Cardinality(Holding) \in Nat /\ Cardinality(Holding) < Cardinality(Bot)
      /\ Cardinality(Bot) \in Nat /\ Cardinality(Holding') = Cardinality(Holding) + 1
    BY <1>2, <1>3, CountHolding
<1> DEFINE h == Cardinality(Holding)
           h2 == Cardinality(Holding')
           n == Cardinality(Bot)
<1>5. PoolSize \in Nat /\ PoolSize >= n /\ free + h = PoolSize
    BY <1>1, BuffersEnough
<1>6. free' = IF free > 0 THEN free - 1 ELSE free
    BY DEF Receive
<1>7. misses' = (misses \/ free = 0)
    BY DEF Receive
<1>8. free \in Nat
    BY DEF PoolInv
<1> HIDE DEF h, h2, n
<1>9. h \in Nat /\ n \in Nat /\ h < n /\ h2 = h + 1
    BY <1>4 DEF h, h2, n
<1>10. free # 0
    BY <1>5, <1>8, <1>9
<1>11. free' = free - 1
    BY <1>6, <1>8, <1>10
<1>12. free' + h2 = PoolSize
    BY <1>5, <1>8, <1>9, <1>11
<1>13. ~misses'
    <2>1. ~misses
        BY <1>1
    <2>2. QED
        BY <1>7, <1>10, <2>1
<1>14. QED
    BY <1>12, <1>13 DEF h2

\* The buffer of a loop that is done with its command has its place.
LEMMA ReturnKeeps ==
    ASSUME PoolInv, NEW b \in Bot, Return(b)
    PROVE  free' + Cardinality(Holding') = PoolSize /\ ~misses'
<1>1. /\ loop \in [Bot -> {"none", "waiting", "working", "leaving", "ended"}]
      /\ free + Cardinality(Holding) = PoolSize /\ free \in Nat
    BY DEF PoolInv, PoolTypeOK
<1>2. Holding \in SUBSET Bot /\ b \in Holding
    BY DEF Holding, Return
<1>3. Holding' = Holding \ {b}
    BY <1>1 DEF Holding, Return
<1>4. Holding' \in SUBSET Bot /\ b \in Bot \ Holding'
    BY <1>2, <1>3
<1> DEFINE h == Cardinality(Holding)
           h2 == Cardinality(Holding')
<1>5. h \in Nat /\ h2 \in Nat /\ h2 = h - 1
    BY <1>2, <1>3, <1>4, CountHolding
<1>6. free' = IF free < PoolSize THEN free + 1 ELSE free
    BY DEF Return
<1>7. ~misses /\ UNCHANGED misses
    BY DEF Return, PoolInv, PoolTypeOK
<1>8. PoolSize \in Nat
    BY BuffersEnough
<1> HIDE DEF h, h2
<1>9. free + h = PoolSize
    BY <1>1 DEF h
<1>10. free' + h2 = PoolSize
    BY <1>1, <1>5, <1>6, <1>8, <1>9
<1>11. QED
    BY <1>7, <1>10 DEF h2

LEMMA PoolInductive == PoolInv /\ [PoolNext]_poolVars => PoolInv'
<1> SUFFICES ASSUME PoolInv, [PoolNext]_poolVars
             PROVE  PoolInv'
    OBVIOUS
<1> DEFINE Places == {"none", "waiting", "working", "leaving", "ended"}
           Placed == /\ owner' \in {"idle", "telling", "joining", "gone"}
                     /\ bots' \subseteq Bot /\ untold' \subseteq bots' /\ joins' \subseteq Bot
                     /\ loop' \in [Bot -> Places]
                     /\ free' \in Nat
           Quiet == /\ UNCHANGED <<free, misses>>
                    /\ \A b \in Bot : \/ loop'[b] = loop[b]
                                      \/ {loop[b], loop'[b]} \subseteq {"none", "waiting", "ended"}
           Passed == \/ UNCHANGED queue
                     \/ \E b \in Bot, command \in Command : Sends(b, command)
                     \/ \E b \in Bot : queue[b] # <<>> /\ queue' = [queue EXCEPT ![b] = Tail(@)]
                     \/ \E b \in Bot : queue' = [queue EXCEPT ![b] = <<>>]
           Books == free' + Cardinality(Holding') = PoolSize /\ ~misses'
<1>1. /\ owner \in {"idle", "telling", "joining", "gone"}
      /\ bots \subseteq Bot /\ untold \subseteq bots /\ joins \subseteq Bot
      /\ loop \in [Bot -> Places] /\ free \in Nat
    BY DEF PoolInv, PoolTypeOK
<1>2. ASSUME Placed, Quiet, Passed
      PROVE  PoolInv'
    <2>1. Books
        BY <1>2, LoopsKept
    <2>2. /\ queue' \in [Bot -> Seq(Command)]
          /\ \A b \in Bot : Len(queue'[b]) <= CommandBuffer
        BY <1>2, ChannelsKept
    <2>3. QED
        BY <1>2, <2>1, <2>2 DEF PoolInv, PoolTypeOK
<1>3. ASSUME Placed, Books, Passed
      PROVE  PoolInv'
    <2>1. /\ queue' \in [Bot -> Seq(Command)]
          /\ \A b \in Bot : Len(queue'[b]) <= CommandBuffer
        BY <1>3, ChannelsKept
    <2>2. QED
        BY <1>3, <2>1 DEF PoolInv, PoolTypeOK
<1>4. ASSUME NEW b \in Bot, SpawnBot(b)
      PROVE  PoolInv'
    <2>1. Placed /\ Quiet /\ Passed
        BY <1>1, <1>4 DEF SpawnBot
    <2>2. QED
        BY <1>2, <2>1
<1>5. ASSUME NEW b \in Bot, NEW command \in Command, SendCommand(b, command)
      PROVE  PoolInv'
    <2>1. Placed /\ Quiet /\ Passed
        BY <1>1, <1>5 DEF SendCommand
    <2>2. QED
        BY <1>2, <2>1
<1>6. ASSUME NEW b \in Bot, Receive(b)
      PROVE  PoolInv'
    <2>1. Books
        BY <1>6, ReceiveKeeps
    <2>2. Passed
        BY <1>6 DEF Receive
    <2>3. Placed
        <3>1. free' \in Nat
            BY <1>1, <1>6 DEF Receive
        <3>2. loop' \in [Bot -> Places]
            BY <1>1, <1>6 DEF Receive
        <3>3. QED
            BY <1>1, <1>6, <3>1, <3>2 DEF Receive
    <2>4. QED
        BY <1>3, <2>1, <2>2, <2>3
<1>7. ASSUME NEW b \in Bot, Return(b)
      PROVE  PoolInv'
    <2>1. Books
        BY <1>7, ReturnKeeps
    <2>2. Placed /\ Passed
        BY <1>1, <1>7 DEF Return
    <2>3. QED
        BY <1>3, <2>1, <2>2
<1>8. ASSUME NEW b \in Bot, LoopEnds(b)
      PROVE  PoolInv'
    <2>1. Placed /\ Quiet /\ Passed
        BY <1>1, <1>8 DEF LoopEnds
    <2>2. QED
        BY <1>2, <2>1
<1>9. CASE Shutdown \/ TakeAll \/ ShutDown \/ Abandon \/ DropPool
    <2>1. UNCHANGED <<loop, queue, free, misses>>
        BY <1>9 DEF Shutdown, TakeAll, ShutDown, Abandon, DropPool
    <2>2. owner' \in {"idle", "telling", "joining", "gone"}
        BY <1>9 DEF Shutdown, TakeAll, ShutDown, Abandon, DropPool
    <2>3. bots' \subseteq Bot /\ joins' \subseteq Bot
        BY <1>1, <1>9 DEF Shutdown, TakeAll, ShutDown, Abandon, DropPool
    <2>4. untold' \subseteq bots'
        BY <1>1, <1>9 DEF Shutdown, TakeAll, ShutDown, Abandon, DropPool
    <2>5. Placed
        BY <1>1, <2>1, <2>2, <2>3, <2>4
    <2>6. Quiet /\ Passed
        BY <2>1
    <2>7. QED
        BY <1>2, <2>5, <2>6
<1>10. ASSUME NEW b \in Bot, Tell(b)
       PROVE  PoolInv'
    <2>1. Sends(b, "Disconnect") /\ "Disconnect" \in Command
        BY <1>10 DEF Tell, Command
    <2>2. Passed
        BY <2>1
    <2>3. Placed /\ Quiet
        BY <1>1, <1>10 DEF Tell
    <2>4. QED
        BY <1>2, <2>2, <2>3
<1>11. ASSUME NEW b \in Bot, Join(b)
       PROVE  PoolInv'
    <2>1. Placed /\ Quiet /\ Passed
        BY <1>1, <1>11 DEF Join
    <2>2. QED
        BY <1>2, <2>1
<1>12. CASE UNCHANGED poolVars
    <2>1. Placed /\ Quiet /\ Passed
        BY <1>1, <1>12 DEF poolVars
    <2>2. QED
        BY <1>2, <2>1
<1>13. QED
    BY <1>4, <1>5, <1>6, <1>7, <1>8, <1>9, <1>10, <1>11, <1>12
       DEF PoolNext, LoopStep, ShutdownStep

-----------------------------------------------------------------------------
(* The whole. *)

\* Whatever the parts do, the values keep their types, a channel never holds
\* more commands than it has room for, no bot is told that is not in the map,
\* no buffer of the pool is lost or made twice, and none is ever missing, for
\* any number of bots, requests, attempts and tasks.
THEOREM EngineTypeCorrect == EngineSpec => []EngineTypeOK
<1> DEFINE Inv == AccountsInv /\ SupervisorInv /\ LateOK /\ PoolInv
<1>1. EngineInit => Inv
    BY Initially, SupervisorInitially, PoolInitially DEF EngineInit
<1>2. Inv /\ [EngineNext]_engineVars => Inv'
    <2> SUFFICES ASSUME Inv, [EngineNext]_engineVars
                 PROVE  Inv'
        OBVIOUS
    <2>1. /\ [AccountsNext]_accountsVars /\ [SupervisorNext]_supervisorVars /\ [PoolNext]_poolVars
        BY DEF EngineNext, engineVars
    <2>2. AccountsInv'
        BY <2>1, Inductive
    <2>3. SupervisorInv' /\ LateOK'
        BY <2>1, SupervisorInductive, LateKept
    <2>4. PoolInv'
        BY <2>1, PoolInductive
    <2>5. QED
        BY <2>2, <2>3, <2>4
<1>3. Inv => EngineTypeOK
    BY DEF EngineTypeOK, AccountsInv, SupervisorInv, PoolInv
<1> QED
    BY <1>1, <1>2, <1>3, PTL DEF EngineSpec

=============================================================================
