----------------------------- MODULE DeviceFlow -----------------------------
(* Device-flow login (RFC 8628): the CLI of cli/internal/client/login.go asks  *)
(* for a code and polls for its answer, a signed-in user confirms or denies    *)
(* the code in the browser, and the handlers of api/internal/api/device.go     *)
(* settle the two through the rows of device_codes and api_tokens.             *)
(*                                                                             *)
(* One unit of the clock is the poll interval the API advertises.  Calls and   *)
(* the 200 ms between two polls take no time on that scale, but confirmations  *)
(* may stall between two statements for as long as they like.  Login c owns    *)
(* the grant with its code; confirmation r mints the token r.                  *)
EXTENDS Integers, FiniteSets

CONSTANTS
  Logins,       \* the logins: runs of "sunred login" on one machine
  MaxConfirms,  \* bound on the calls of the confirm and status endpoints
  TTL,          \* how long a code may be confirmed
  MaxDelay,     \* the longest a fresh code takes to reach the CLI
  StartBy,      \* bound on the time a login starts
  MaxClock,     \* bound on the clock
  Cost,         \* credits one request takes from the limiter's bucket
  DeviceRate, DeviceBurst,    \* credits per unit of time, requests in a burst
  ConfirmRate, ConfirmBurst,
  MaxManual,    \* bound on the tokens made by hand
  MaxFaults     \* bound on lost answers, failed deletes and restarts of the API

ASSUME DeviceFlowAssumption ==
  /\ {MaxConfirms, MaxDelay, StartBy, MaxClock, MaxManual, MaxFaults} \subseteq Nat
  /\ {TTL, Cost, DeviceRate, DeviceBurst, ConfirmRate, ConfirmBurst} \subseteq Nat \ {0}

VARIABLES
  clock,
  bucket,    \* the limiter's only bucket: every caller's address is "unknown"
  grant,     \* device_codes: the row of each login's code
  tokens,    \* api_tokens: the live tokens
  login,     \* the process of each login
  made,      \* tokens made by hand so far
  config,    \* the token in the CLI's config file
  confirm,   \* what each confirmation does next
  faults,
  decided,   \* history: which confirmation settled the code of a login
  approved,  \* history: when a login's code was approved
  admitted,  \* history: requests the limiter let through
  restarts,  \* history: how often the API started again
  lost       \* history: tokens whose only plaintext copy is gone

vars == <<clock, bucket, grant, tokens, login, made, config, confirm, faults,
          decided, approved, admitted, restarts, lost>>
limiterVars == <<bucket, admitted>>
decisionVars == <<decided, approved>>

Confirm == 1..MaxConfirms
NoToken == 0
Manual == MaxConfirms+1..MaxConfirms+MaxManual
Token == Confirm \cup Manual
NoLogin == "none"
Never == -1
Undecided == 0

NoBucket == [credit |-> 0, last |-> Never]
NoGrant == [status |-> "none", token |-> NoToken, expires |-> 0, polled |-> Never]
NewLogin == [pc |-> "idle", interval |-> 1, wake |-> 0, deadline |-> 0,
             read |-> "none", token |-> NoToken, why |-> "none"]
NewConfirm == [pc |-> "idle", login |-> NoLogin, told |-> "none"]

Init ==
  /\ clock = 0 /\ bucket = NoBucket /\ grant = [c \in Logins |-> NoGrant]
  /\ tokens = {} /\ login = [c \in Logins |-> NewLogin] /\ made = 0 /\ config = NoToken
  /\ confirm = [r \in Confirm |-> NewConfirm] /\ faults = 0
  /\ decided = [c \in Logins |-> Undecided] /\ approved = [c \in Logins |-> Never]
  /\ admitted = 0 /\ restarts = 0 /\ lost = {}

Fault == faults < MaxFaults /\ faults' = faults + 1

-----------------------------------------------------------------------------
(* The rate limiter: one token bucket, refilled at the rate and capped at the  *)
(* burst of whichever endpoint is called.                                      *)

Least(a, b) == IF a < b THEN a ELSE b

Credit(rate, burst) ==
  IF bucket = NoBucket
  THEN burst * Cost
  ELSE Least(burst * Cost, bucket.credit + (clock - bucket.last) * rate)

Allowed(rate, burst) == Credit(rate, burst) >= Cost

\* Mutation of Admit: the time of the call is not stored.
AdmitUndated(rate, burst) ==
  /\ Allowed(rate, burst)
  /\ bucket' = [credit |-> Credit(rate, burst) - Cost,
                last |-> IF bucket = NoBucket THEN clock ELSE bucket.last]
  /\ admitted' = admitted + 1

Admit(rate, burst) ==
  /\ Allowed(rate, burst)
  /\ bucket' = [credit |-> Credit(rate, burst) - Cost, last |-> clock]
  /\ admitted' = admitted + 1

Refuse(rate, burst) ==
  /\ ~ Allowed(rate, burst)
  /\ bucket' = [credit |-> Credit(rate, burst), last |-> clock]
  /\ UNCHANGED admitted

-----------------------------------------------------------------------------
(* Who may call the endpoints of a signed-in user.                             *)

\* New: a client sends the token of its config, if any, and no cookie.
New(token) == [bearer |-> token, session |-> FALSE]
Browser == [bearer |-> NoToken, session |-> TRUE]

\* Every command reads the file again.
LoadConfig == config
MustClient == New(LoadConfig)

\* Neither kind of token expires, and the browser's session outlives the model.
GetAPITokenByHash(t) == t \in tokens
GetWebSession(session) == session

\* resolveUserID: a request with a token is judged by it alone.
ResolveUserID(caller) ==
  IF caller.bearer # NoToken THEN GetAPITokenByHash(caller.bearer)
  ELSE GetWebSession(caller.session)

\* The list-tokens handler.
ListAPITokens == tokens
ListTokens(caller) == IF ResolveUserID(caller) THEN ListAPITokens ELSE {}

TokensList == ListTokens(MustClient)

-----------------------------------------------------------------------------
(* The CLI and the two endpoints it calls.                                     *)

Fail(c, why) == login' = [login EXCEPT ![c].pc = "failed", ![c].why = why]

CreateDeviceCode(c) ==
  grant' = [grant EXCEPT ![c] = [status |-> "pending", token |-> NoToken,
                                 expires |-> clock + TTL, polled |-> Never]]

\* The CLI counts the code's lifetime from its arrival.
RequestCode(c) ==
  /\ login[c].pc = "idle" /\ clock <= StartBy
  /\ Admit(DeviceRate, DeviceBurst)
  /\ CreateDeviceCode(c)
  /\ \E delay \in 0..MaxDelay :
       login' = [login EXCEPT ![c].pc = "waiting", ![c].wake = clock + delay,
                              ![c].deadline = clock + delay + TTL]
  /\ UNCHANGED <<clock, tokens, made, config, confirm, faults, decisionVars, restarts, lost>>

RefuseCode(c) ==
  /\ login[c].pc = "idle" /\ clock <= StartBy
  /\ Refuse(DeviceRate, DeviceBurst)
  /\ Fail(c, "limited")
  /\ UNCHANGED <<clock, grant, tokens, made, config, confirm, faults, decisionVars, restarts, lost>>

Due(c) == login[c].pc = "waiting" /\ login[c].wake <= clock

GiveUp(c) ==
  /\ Due(c) /\ clock >= login[c].deadline
  /\ Fail(c, "expired")
  /\ UNCHANGED <<clock, limiterVars, grant, tokens, made, config, confirm, faults,
                 decisionVars, restarts, lost>>

Expired(g) == g.status = "pending" /\ clock >= g.expires
TooSoon(g) == g.polled # Never /\ clock - g.polled < 1

\* Mutation of Backoff.
BackoffTripled(interval) == 3 * interval

\* How long the CLI sleeps when it is told to slow down.
Backoff(interval) == 2 * interval

\* The handler reads the row, then refuses, slows down or touches it; a login
\* that is slowed down doubles its pause, whatever the API advertised.
Poll(c) ==
  /\ Due(c) /\ clock < login[c].deadline
  /\ Admit(DeviceRate, DeviceBurst)
  /\ \/ /\ Expired(grant[c]) \/ grant[c] = NoGrant
        /\ Fail(c, "expired")
        /\ UNCHANGED grant
     \/ /\ ~ Expired(grant[c]) /\ grant[c] # NoGrant /\ TooSoon(grant[c])
        /\ login' = [login EXCEPT ![c].interval = Backoff(@),
                                  ![c].wake = clock + Backoff(login[c].interval)]
        /\ UNCHANGED grant
     \/ /\ ~ Expired(grant[c]) /\ grant[c] # NoGrant /\ ~ TooSoon(grant[c])
        /\ grant' = [grant EXCEPT ![c].polled = clock]
        /\ login' = [login EXCEPT ![c].pc = "polling", ![c].read = grant[c].status,
                                  ![c].token = grant[c].token]
  /\ UNCHANGED <<clock, tokens, made, config, confirm, faults, decisionVars, restarts, lost>>

\* A refused poll is no error the CLI knows: it ends the login.
RefusePoll(c) ==
  /\ Due(c) /\ clock < login[c].deadline
  /\ Refuse(DeviceRate, DeviceBurst)
  /\ Fail(c, "limited")
  /\ UNCHANGED <<clock, grant, tokens, made, config, confirm, faults, decisionVars, restarts, lost>>

AnswerPending(c) ==
  /\ login[c].pc = "polling" /\ login[c].read = "pending"
  /\ login' = [login EXCEPT ![c].pc = "waiting", ![c].wake = clock]
  /\ UNCHANGED <<clock, limiterVars, grant, tokens, made, config, confirm, faults,
                 decisionVars, restarts, lost>>

AnswerDenied(c) ==
  /\ login[c].pc = "polling" /\ login[c].read = "denied"
  /\ Fail(c, "denied")
  /\ UNCHANGED <<clock, limiterVars, grant, tokens, made, config, confirm, faults,
                 decisionVars, restarts, lost>>

Consume(c) ==
  grant' = IF grant[c].status = "authorized" THEN [grant EXCEPT ![c] = NoGrant] ELSE grant

\* The row is deleted and the token answered; an error of the delete is ignored.
AnswerToken(c) ==
  /\ login[c].pc = "polling" /\ login[c].read = "authorized"
  /\ \/ Consume(c) /\ UNCHANGED faults
     \/ Fault /\ UNCHANGED grant
  /\ login' = [login EXCEPT ![c].pc = "holding"]
  /\ UNCHANGED <<clock, limiterVars, tokens, made, config, confirm, decisionVars, restarts, lost>>

\* The row is deleted, but the answer does not arrive.
LoseAnswer(c) ==
  /\ login[c].pc = "polling"
  /\ Fault
  /\ IF login[c].read = "authorized"
     THEN Consume(c) /\ lost' = lost \cup {login[c].token}
     ELSE UNCHANGED <<grant, lost>>
  /\ Fail(c, "network")
  /\ UNCHANGED <<clock, limiterVars, tokens, made, config, confirm, decisionVars, restarts>>

\* Mutation of Saved: the config is written back as it was read.
NotSaved(c) == UNCHANGED config

Saved(c) == config' = login[c].token

\* The config read before the login is written back with the token.
SaveConfig(c) ==
  /\ login[c].pc = "holding"
  /\ Saved(c)
  /\ lost' = lost \cup ({config} \ ({NoToken, login[c].token} \cup Manual))
  /\ login' = [login EXCEPT ![c].pc = "done"]
  /\ UNCHANGED <<clock, limiterVars, grant, tokens, made, confirm, faults, decisionVars, restarts>>

-----------------------------------------------------------------------------
(* The endpoints of the signed-in user.                                        *)

Goto(r, pc) == confirm' = [confirm EXCEPT ![r].pc = pc]
Tell(r, what) == confirm' = [confirm EXCEPT ![r].pc = "done", ![r].told = what]

\* GetDeviceCodeByUserCode: what the row allows.
Lookup(c) == IF grant[c].status = "pending" /\ ~ Expired(grant[c]) THEN {"deny", "mint"} ELSE {"done"}

\* device-confirm: the row is read and must be pending, or it is the end.
Ask(r, c) ==
  /\ confirm[r].pc = "idle"
  /\ \A q \in Confirm : q < r => confirm[q].pc # "idle"
  /\ Admit(ConfirmRate, ConfirmBurst)
  /\ \E next \in Lookup(c) :
       confirm' = [confirm EXCEPT ![r].pc = next, ![r].login = c]
  /\ UNCHANGED <<clock, grant, tokens, login, made, config, faults, decisionVars, restarts, lost>>

\* device-status: the row is read, whatever it says.
AskStatus(r, c) ==
  /\ confirm[r].pc = "idle"
  /\ \A q \in Confirm : q < r => confirm[q].pc # "idle"
  /\ Admit(ConfirmRate, ConfirmBurst)
  /\ confirm' = [confirm EXCEPT ![r].pc = "done", ![r].login = c]
  /\ UNCHANGED <<clock, grant, tokens, login, made, config, faults, decisionVars, restarts, lost>>

RefuseAsk(r, c) ==
  /\ confirm[r].pc = "idle"
  /\ \A q \in Confirm : q < r => confirm[q].pc # "idle"
  /\ Refuse(ConfirmRate, ConfirmBurst)
  /\ confirm' = [confirm EXCEPT ![r].pc = "done", ![r].login = c]
  /\ UNCHANGED <<clock, grant, tokens, login, made, config, faults, decisionVars, restarts, lost>>

\* Mutation of Open: the UPDATE does not look at the status again.
OpenStale(c) == grant[c].status # "none" /\ clock < grant[c].expires

\* WHERE status = 'pending' AND expires_at > NOW().
Open(c) == grant[c].status = "pending" /\ clock < grant[c].expires

\* DenyDeviceCode; the caller is told the same when no row was updated.
Deny(r) ==
  LET c == confirm[r].login IN
  /\ confirm[r].pc = "deny"
  /\ IF Open(c)
     THEN /\ grant' = [grant EXCEPT ![c].status = "denied"]
          /\ decided' = [decided EXCEPT ![c] = r]
     ELSE UNCHANGED <<grant, decided>>
  /\ Tell(r, "denied")
  /\ UNCHANGED <<clock, limiterVars, tokens, login, made, config, faults, approved, restarts, lost>>

\* CreateAPIToken.
Mint(r) ==
  /\ confirm[r].pc = "mint"
  /\ tokens' = tokens \cup {r}
  /\ Goto(r, "authorize")
  /\ UNCHANGED <<clock, limiterVars, grant, login, made, config, faults, decisionVars, restarts, lost>>

\* AuthorizeDeviceCode; the caller is told the same when no row was updated.
Authorize(r) ==
  LET c == confirm[r].login IN
  /\ confirm[r].pc = "authorize"
  /\ IF Open(c)
     THEN /\ grant' = [grant EXCEPT ![c].status = "authorized", ![c].token = r]
          /\ decided' = [decided EXCEPT ![c] = r]
          /\ approved' = [approved EXCEPT ![c] = clock]
     ELSE UNCHANGED <<grant, decisionVars>>
  /\ Tell(r, "approved")
  /\ UNCHANGED <<clock, limiterVars, tokens, login, made, config, faults, restarts, lost>>

\* The create-token handler.
CreateToken(caller) ==
  /\ ResolveUserID(caller)
  /\ made < MaxManual
  /\ made' = made + 1
  /\ tokens' = tokens \cup {MaxConfirms + made'}
  /\ UNCHANGED <<clock, limiterVars, grant, login, config, confirm, faults,
                 decisionVars, restarts, lost>>

\* "sunred config set token": the token the file held has no other copy.
ConfigSetToken(t) ==
  /\ t \in Manual /\ t <= MaxConfirms + made
  /\ config' = t
  /\ lost' = lost \cup ({config} \ ({NoToken, t} \cup Manual))
  /\ UNCHANGED <<clock, limiterVars, grant, tokens, made, login, confirm, faults,
                 decisionVars, restarts>>

\* The delete-token handler; the CLI may delete the token it calls with.
Revoke(t, caller) ==
  /\ t \in ListTokens(caller)
  /\ tokens' = tokens \ {t}
  /\ UNCHANGED <<clock, limiterVars, grant, login, made, config, confirm, faults,
                 decisionVars, restarts, lost>>

\* "sunred tokens create" and "sunred tokens delete", and the web page.
TokensCreate == CreateToken(MustClient)
TokensDelete(t) == t \in TokensList /\ Revoke(t, MustClient)
WebTokens == CreateToken(Browser) \/ \E t \in Token : Revoke(t, Browser)

-----------------------------------------------------------------------------
\* The limiter starts empty, and the requests in flight are cut off.
RestartAPI ==
  /\ Fault
  /\ bucket' = NoBucket
  /\ restarts' = restarts + 1
  /\ login' = [c \in Logins |-> IF login[c].pc = "polling"
                                THEN [login[c] EXCEPT !.pc = "failed", !.why = "network"]
                                ELSE login[c]]
  /\ confirm' = [r \in Confirm |-> IF confirm[r].pc \in {"deny", "mint", "authorize"}
                                   THEN [confirm[r] EXCEPT !.pc = "cut"]
                                   ELSE confirm[r]]
  /\ UNCHANGED <<clock, grant, tokens, made, config, decisionVars, admitted, lost>>

\* No time passes while a poll is due or in flight.
Tick ==
  /\ clock < MaxClock
  /\ \A c \in Logins : ~ Due(c) /\ login[c].pc # "polling"
  /\ clock' = clock + 1
  /\ UNCHANGED <<bucket, grant, tokens, login, made, config, confirm, faults,
                 decisionVars, admitted, restarts, lost>>

CLI(c) == RequestCode(c) \/ RefuseCode(c) \/ Poll(c) \/ RefusePoll(c) \/ GiveUp(c)
            \/ AnswerPending(c) \/ AnswerDenied(c) \/ AnswerToken(c)
            \/ LoseAnswer(c) \/ SaveConfig(c)
User(r) == \/ \E c \in Logins : Ask(r, c) \/ AskStatus(r, c) \/ RefuseAsk(r, c)
           \/ Deny(r) \/ Mint(r) \/ Authorize(r)

Next ==
  \/ \E c \in Logins : CLI(c)
  \/ \E r \in Confirm : User(r)
  \/ TokensCreate \/ WebTokens
  \/ \E t \in Token : TokensDelete(t) \/ ConfigSetToken(t)
  \/ RestartAPI
  \/ Tick

Spec == Init /\ [][Next]_vars

-----------------------------------------------------------------------------
Status == {"none", "pending", "authorized", "denied"}

GrantType ==
  [status : Status, token : Token \cup {NoToken}, expires : Nat, polled : Nat \cup {Never}]
LoginType ==
  [pc : {"idle", "waiting", "polling", "holding", "done", "failed"},
   interval : Nat, wake : Nat, deadline : Nat, read : Status,
   token : Token \cup {NoToken},
   why : {"none", "limited", "expired", "denied", "network"}]
ConfirmType ==
  [pc : {"idle", "deny", "mint", "authorize", "done", "cut"}, login : Logins \cup {NoLogin},
   told : {"none", "denied", "approved"}]

\* The types of the variables; in particular the bucket never goes below zero,
\* although two endpoints with different bursts share it.
TypeOK ==
  /\ clock \in Nat /\ bucket \in [credit : Nat, last : Nat \cup {Never}]
  /\ grant \in [Logins -> GrantType]
  /\ tokens \subseteq Token /\ made \in 0..MaxManual /\ config \in Token \cup {NoToken}
  /\ login \in [Logins -> LoginType]
  /\ confirm \in [Confirm -> ConfirmType]
  /\ faults \in 0..MaxFaults /\ decided \in [Logins -> Confirm \cup {Undecided}]
  /\ approved \in [Logins -> Nat \cup {Never}]
  /\ admitted \in Nat /\ restarts \in Nat /\ lost \subseteq Token

\* The places a token can be: about to be stashed, in the row of a code, with a
\* login or in the config file.
InRow(t) == \E c \in Logins : grant[c].status = "authorized" /\ grant[c].token = t
WithLogin(t) == \E c \in Logins : login[c].pc \in {"polling", "holding"} /\ login[c].token = t
Outrun(t) == /\ confirm[t].told = "approved"
             /\ LET c == confirm[t].login IN
                  decided[c] \notin {Undecided, t} \/ (decided[c] = Undecided /\ clock >= TTL)

\* Every token the device flow mints is on its way to the login it was minted
\* for, unless it is in the named ways out of reach: the answer that carried it
\* was lost or its file overwritten, the API stopped between minting it and
\* storing it, or the approval was outrun by another decision or the code's
\* expiry.  Confirmations read the row, mint and update in three statements and
\* ignore what the last one finds (device.go, device-confirm).  The page lists
\* those out of reach too, so that all can be revoked.
TokensAccounted ==
  \A t \in ListTokens(Browser) \cap Confirm :
    \/ confirm[t].pc \in {"authorize", "cut"}
    \/ InRow(t) \/ WithLogin(t) \/ config = t
    \/ t \in lost \/ Outrun(t)
    \/ \E c \in Logins : login[c].why = "network" /\ decided[c] = t

\* A code that was denied or approved stays so, whatever other confirmations
\* had read of it before: it can only be consumed after an approval.
Decided(c) == grant[c].status \in {"denied", "authorized"}
DecisionFinal ==
  [][\A c \in Logins : Decided(c) =>
       \/ grant'[c].status = grant[c].status /\ grant'[c].token = grant[c].token
       \/ grant[c].status = "authorized" /\ grant'[c] = NoGrant]_vars

\* The limiter admits no more than a burst and what the faster of the two rates
\* refills, per run of the API, though the endpoints share one bucket.
Higher(a, b) == IF a > b THEN a ELSE b
AdmissionBounded ==
  admitted * Cost <= (restarts + 1) * Higher(DeviceBurst, ConfirmBurst) * Cost
                       + clock * Higher(DeviceRate, ConfirmRate)

\* A login that ends with "device code expired" was not approved in the first
\* half of the time it waits, less the first pause: the poll that follows every
\* pending answer after 200 ms is always told to slow down, which doubles the
\* pause, so that later approvals may come after the last poll.
EarlyApprovalServed ==
  \A c \in Logins :
    login[c].why = "expired" /\ approved[c] # Never
      => 2 * (approved[c] - (login[c].deadline - TTL)) >= TTL - 2
=============================================================================
