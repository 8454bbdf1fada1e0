----------------------------- MODULE CliProofs -----------------------------
(* Proofs about the two programs of the command line that talk to an instance. *)
(* DeviceFlow: its types, that decisions are final, that every minted token is *)
(* accounted for, that the shared bucket admits no more than its rates, and    *)
(* that an early approval reaches its login.  Tui: its types, that it panics   *)
(* only after a change made elsewhere, that loading is for a call under way,   *)
(* that what is shown is the latest answer, and that marks are the API's.      *)
EXTENDS DeviceFlow, Tui, FiniteSetTheorems, SequenceTheorems, TLAPS

-----------------------------------------------------------------------------
(* Device-flow login                                                           *)

\* The bucket is untouched or was refilled at a time that has passed.
BucketDated == bucket = NoBucket \/ bucket.last \in 0..clock

\* The row of a code, the login that polls for it and the history of its
\* decision agree: it is pending until it is decided, and what is stashed in the
\* row, and with the login, is the token of the confirmation that decided.
Codes ==
  \A c \in Logins :
    /\ login[c].pc = "idle" => grant[c] = NoGrant /\ decided[c] = Undecided /\ approved[c] = Never
    /\ login[c].pc \in {"waiting", "polling"} => grant[c].status # "none"
    /\ grant[c].status = "pending" =>
         decided[c] = Undecided /\ approved[c] = Never /\ grant[c].expires >= TTL
    /\ Decided(c) => decided[c] # Undecided
    /\ grant[c].status = "authorized" <=> grant[c].token # NoToken
    /\ grant[c].token # NoToken => grant[c].token = decided[c]
    /\ login[c].token # NoToken => login[c].token = decided[c]
    /\ login[c].pc = "polling" => (login[c].read = "authorized" <=> login[c].token # NoToken)
    /\ login[c].why # "none" => login[c].pc = "failed"

\* A confirmation under way has read a row, and has decided nothing yet.
Confirmations ==
  \A r \in Confirm :
    /\ confirm[r].told # "none" => confirm[r].pc = "done" /\ confirm[r].login \in Logins
    /\ confirm[r].pc \in {"deny", "mint", "authorize"} =>
         /\ confirm[r].login \in Logins
         /\ grant[confirm[r].login].status # "none" \/ decided[confirm[r].login] # Undecided
    /\ \A c \in Logins : decided[c] = r => confirm[r].pc = "done"

Inv == TypeOK /\ BucketDated /\ Codes /\ Confirmations

\* The credit left and the requests admitted come out of the bursts of the
\* runs and of what was refilled until the bucket was last looked at.
HighBurst == Higher(DeviceBurst, ConfirmBurst)
HighRate == Higher(DeviceRate, ConfirmRate)
Budget ==
  IF bucket = NoBucket
  THEN admitted * Cost <= restarts * (HighBurst * Cost) + clock * HighRate
  ELSE admitted * Cost + bucket.credit
         <= (restarts + 1) * (HighBurst * Cost) + bucket.last * HighRate

\* When a login polls: at first after the delay of its code, then again at once
\* and, told to slow down, after a pause twice as long as the last.  The time of
\* its last good poll and the pause that follows give away how long it has
\* waited, and an approval it has not seen came after that poll.
Begun(c) == login[c].deadline - TTL
Unseen(c) == approved[c] # Never => approved[c] >= grant[c].polled

Fresh(c) ==
  /\ grant[c].polled = Never /\ login[c].interval = 1 /\ login[c].wake = Begun(c)
Polled(c) ==
  /\ grant[c].polled = clock /\ clock = Begun(c) + 2 * login[c].interval - 2
  /\ login[c].interval >= 1 /\ clock < login[c].deadline
BackedOff(c) ==
  /\ grant[c].polled = Begun(c) + login[c].interval - 2 /\ login[c].interval >= 2
  /\ login[c].wake = grant[c].polled + login[c].interval
  /\ Unseen(c)

Paced(c) ==
  /\ login[c].pc = "idle" => login[c].interval = 1
  /\ grant[c].polled <= clock
  /\ grant[c].status = "denied" => approved[c] = Never
  /\ login[c].pc = "waiting" =>
       /\ clock <= login[c].wake
       /\ Fresh(c) \/ (Polled(c) /\ login[c].wake = clock /\ Unseen(c)) \/ BackedOff(c)
  /\ login[c].pc = "polling" =>
       Polled(c) /\ (login[c].read # "authorized" => Unseen(c))
  /\ login[c].why = "expired" =>
       \/ approved[c] # Never /\ 2 * (approved[c] - Begun(c)) >= TTL - 2
       \/ approved[c] = Never /\ (clock >= login[c].deadline \/ grant[c].expires <= clock)
Pace == \A c \in Logins : Paced(c)

-----------------------------------------------------------------------------
(* Types *)

\* Tokens of confirmations and tokens made by hand are different, and neither is
\* the absence of one.
LEMMA TokenTypes ==
  /\ Confirm \subseteq Token /\ Manual \subseteq Token /\ Token \subseteq Nat
  /\ NoToken \notin Token /\ Confirm \cap Manual = {}
BY DeviceFlowAssumption DEF Token, Confirm, Manual, NoToken

(* What the limiter leaves in the bucket, admitting a request or not. *)
LEMMA CreditType ==
  ASSUME TypeOK, BucketDated, NEW rate \in Nat, NEW burst \in Nat
  PROVE  Credit(rate, burst) \in Nat
<1>1. burst * Cost \in Nat
  BY DeviceFlowAssumption
<1>2. CASE bucket = NoBucket
  BY <1>1, <1>2 DEF Credit
<1>3. CASE bucket # NoBucket
  <2>1. clock - bucket.last \in Nat /\ bucket.credit \in Nat
    BY <1>3 DEF BucketDated, TypeOK
  <2>2. (clock - bucket.last) * rate \in Nat
    BY <2>1
  <2>3. bucket.credit + (clock - bucket.last) * rate \in Nat
    BY <2>1, <2>2
  <2>4. QED
    BY <1>1, <1>3, <2>3 DEF Credit, Least
<1>4. QED
  BY <1>2, <1>3

\* Neither admitting nor refusing takes more from the bucket than it holds.
LEMMA LimiterType ==
  ASSUME TypeOK, BucketDated, clock' = clock, NEW rate \in Nat, NEW burst \in Nat,
         Admit(rate, burst) \/ Refuse(rate, burst)
  PROVE  bucket' \in [credit : Nat, last : Nat \cup {Never}] /\ admitted' \in Nat /\ BucketDated'
<1>1. Credit(rate, burst) \in Nat /\ Cost \in Nat \ {0} /\ clock \in Nat /\ admitted \in Nat
  BY CreditType, DeviceFlowAssumption DEF TypeOK
<1>2. CASE Admit(rate, burst)
  <2>1. Credit(rate, burst) - Cost \in Nat
    BY <1>1, <1>2 DEF Admit, Allowed
  <2>2. QED
    BY <1>1, <1>2, <2>1 DEF Admit, BucketDated
<1>3. CASE Refuse(rate, burst)
  BY <1>1, <1>3 DEF Refuse, BucketDated
<1>4. QED
  BY <1>2, <1>3

\* The invariant holds at the start.
LEMMA InitInv == Init => Inv
<1> USE DeviceFlowAssumption DEF Init, NoBucket, NoGrant, NewLogin, NewConfirm, NoToken, Never,
        Undecided, NoLogin
<1> SUFFICES ASSUME Init PROVE Inv
  OBVIOUS
<1>1. TypeOK
  BY DEF TypeOK, Status, GrantType, LoginType, ConfirmType
<1>2. BucketDated
  BY DEF BucketDated
<1>3. Codes
  BY DEF Codes, Decided
<1>4. Confirmations
  BY DEF Confirmations, Confirm
<1>5. QED
  BY <1>1, <1>2, <1>3, <1>4 DEF Inv

\* The steps of a login keep the types.
LEMMA CliTypes ==
  ASSUME Inv, NEW c \in Logins, CLI(c)
  PROVE  TypeOK' /\ BucketDated'
<1> USE DEF decisionVars, limiterVars, Never
<1>1. /\ grant[c] \in GrantType /\ login[c] \in LoginType /\ clock \in Nat /\ TypeOK /\ BucketDated
      /\ {DeviceRate, DeviceBurst} \subseteq Nat /\ TTL \in Nat /\ MaxDelay \in Nat
      /\ NoGrant \in GrantType /\ MaxFaults \in Nat
  BY DeviceFlowAssumption DEF TypeOK, Inv, NoGrant, GrantType, Status, NoToken
<1>2. CASE RequestCode(c)
  <2>1. bucket' \in [credit : Nat, last : Nat \cup {Never}] /\ admitted' \in Nat /\ BucketDated'
    BY <1>1, <1>2, LimiterType DEF RequestCode
  <2>2. grant' \in [Logins -> GrantType]
    <3>1. clock + TTL \in Nat
      BY <1>1
    <3>2. QED
      BY <1>1, <1>2, <3>1 DEF TypeOK, RequestCode, CreateDeviceCode, GrantType, Status
  <2>3. login' \in [Logins -> LoginType]
    <3>1. PICK delay \in 0..MaxDelay :
            login' = [login EXCEPT ![c].pc = "waiting", ![c].wake = clock + delay,
                                   ![c].deadline = clock + delay + TTL]
      BY <1>2 DEF RequestCode
    <3>2. clock + delay \in Nat /\ clock + delay + TTL \in Nat
      BY <1>1
    <3>3. QED
      BY <1>1, <3>1, <3>2 DEF TypeOK, LoginType
  <2>4. QED
    BY <1>1, <1>2, <2>1, <2>2, <2>3 DEF TypeOK, RequestCode
<1>3. CASE RefuseCode(c) \/ RefusePoll(c)
  <2>1. bucket' \in [credit : Nat, last : Nat \cup {Never}] /\ admitted' \in Nat /\ BucketDated'
    BY <1>1, <1>3, LimiterType DEF RefuseCode, RefusePoll
  <2>2. login' \in [Logins -> LoginType]
    BY <1>1, <1>3 DEF TypeOK, RefuseCode, RefusePoll, Fail, LoginType
  <2>3. QED
    BY <1>1, <1>3, <2>1, <2>2 DEF TypeOK, RefuseCode, RefusePoll
<1>4. CASE Poll(c)
  <2>1. bucket' \in [credit : Nat, last : Nat \cup {Never}] /\ admitted' \in Nat /\ BucketDated'
    BY <1>1, <1>4, LimiterType DEF Poll
  <2>2. grant' \in [Logins -> GrantType]
    BY <1>1, <1>4 DEF TypeOK, Poll, GrantType
  <2>3. login' \in [Logins -> LoginType]
    <3>1. Backoff(login[c].interval) \in Nat /\ clock + Backoff(login[c].interval) \in Nat
      BY <1>1 DEF Backoff, LoginType
    <3>2. CASE Fail(c, "expired")
      BY <1>1, <3>2 DEF TypeOK, Fail, LoginType
    <3>3. CASE login' = [login EXCEPT ![c].interval = Backoff(@),
                                      ![c].wake = clock + Backoff(login[c].interval)]
      BY <1>1, <3>1, <3>3 DEF TypeOK, LoginType
    <3>4. CASE login' = [login EXCEPT ![c].pc = "polling", ![c].read = grant[c].status,
                                      ![c].token = grant[c].token]
      BY <1>1, <3>4 DEF TypeOK, LoginType, GrantType
    <3>5. QED
      BY <1>4, <3>2, <3>3, <3>4 DEF Poll
  <2>4. QED
    BY <1>1, <1>4, <2>1, <2>2, <2>3 DEF TypeOK, Poll
<1>5. CASE GiveUp(c) \/ AnswerPending(c) \/ AnswerDenied(c)
  <2>1. login' \in [Logins -> LoginType]
    BY <1>1, <1>5 DEF TypeOK, GiveUp, AnswerPending, AnswerDenied, Fail, LoginType
  <2>2. QED
    BY <1>1, <1>5, <2>1 DEF TypeOK, GiveUp, AnswerPending, AnswerDenied, BucketDated
<1>6. CASE AnswerToken(c) \/ LoseAnswer(c)
  <2>1. login' \in [Logins -> LoginType]
    <3>1. \/ login' = [login EXCEPT ![c].pc = "holding"]
          \/ login' = [login EXCEPT ![c].pc = "failed", ![c].why = "network"]
      <4>1. CASE AnswerToken(c)
        BY <4>1 DEF AnswerToken
      <4>2. CASE LoseAnswer(c)
        BY <4>2 DEF LoseAnswer, Fail
      <4>3. QED
        BY <1>6, <4>1, <4>2
    <3>2. CASE login' = [login EXCEPT ![c].pc = "holding"]
      BY <1>1, <3>2 DEF TypeOK, LoginType
    <3>3. CASE login' = [login EXCEPT ![c].pc = "failed", ![c].why = "network"]
      BY <1>1, <3>3 DEF TypeOK, LoginType
    <3>4. QED
      BY <3>1, <3>2, <3>3
  <2>2. grant' \in [Logins -> GrantType]
    BY <1>1, <1>6 DEF TypeOK, AnswerToken, LoseAnswer, Consume
  <2>3. lost' \subseteq Token
    BY <1>1, <1>6 DEF TypeOK, AnswerToken, LoseAnswer, LoginType, Inv, Codes
  <2>4. faults' \in 0..MaxFaults
    BY <1>1, <1>6 DEF TypeOK, AnswerToken, LoseAnswer, Fault
  <2>5. QED
    BY <1>1, <1>6, <2>1, <2>2, <2>3, <2>4 DEF TypeOK, AnswerToken, LoseAnswer, BucketDated
<1>7. CASE SaveConfig(c)
  <2>1. login' \in [Logins -> LoginType] /\ config' \in Token \cup {NoToken} /\ lost' \subseteq Token
    BY <1>1, <1>7 DEF TypeOK, SaveConfig, Saved, LoginType
  <2>2. QED
    BY <1>1, <1>7, <2>1 DEF TypeOK, SaveConfig, BucketDated
<1>8. QED
  BY <1>2, <1>3, <1>4, <1>5, <1>6, <1>7 DEF CLI

\* The steps of a confirmation keep the types.
LEMMA UserTypes ==
  ASSUME Inv, NEW r \in Confirm, User(r)
  PROVE  TypeOK' /\ BucketDated'
<1> USE DEF decisionVars, limiterVars, Never
<1>1. /\ confirm[r] \in ConfirmType /\ clock \in Nat /\ TypeOK /\ BucketDated
      /\ {ConfirmRate, ConfirmBurst} \subseteq Nat /\ r \in Token
  BY TokenTypes, DeviceFlowAssumption DEF TypeOK, Inv
<1>2. ASSUME NEW c \in Logins, Ask(r, c) \/ AskStatus(r, c) \/ RefuseAsk(r, c)
      PROVE  TypeOK' /\ BucketDated'
  <2>1. bucket' \in [credit : Nat, last : Nat \cup {Never}] /\ admitted' \in Nat /\ BucketDated'
    BY <1>1, <1>2, LimiterType DEF Ask, AskStatus, RefuseAsk
  <2>2. confirm' \in [Confirm -> ConfirmType]
    <3>1. PICK next \in {"deny", "mint", "done"} :
            confirm' = [confirm EXCEPT ![r].pc = next, ![r].login = c]
      BY <1>2 DEF Ask, AskStatus, RefuseAsk, Lookup
    <3>2. QED
      BY <1>1, <3>1 DEF TypeOK, ConfirmType
  <2>3. QED
    BY <1>1, <1>2, <2>1, <2>2 DEF TypeOK, Ask, AskStatus, RefuseAsk
<1>3. CASE Deny(r) \/ Authorize(r)
  <2>1. confirm' \in [Confirm -> ConfirmType]
    BY <1>1, <1>3 DEF TypeOK, Deny, Authorize, Tell, ConfirmType
  <2>2. confirm[r].login \in Logins
    BY <1>3 DEF Deny, Authorize, Inv, Confirmations
  <2>3. grant' \in [Logins -> GrantType]
    BY <1>1, <1>3, <2>2 DEF TypeOK, Deny, Authorize, GrantType, Status
  <2>4. decided' \in [Logins -> Confirm \cup {Undecided}] /\ approved' \in [Logins -> Nat \cup {Never}]
    BY <1>1, <1>3, <2>2 DEF TypeOK, Deny, Authorize
  <2>5. QED
    BY <1>1, <1>3, <2>1, <2>3, <2>4 DEF TypeOK, Deny, Authorize, BucketDated
<1>4. CASE Mint(r)
  <2>1. confirm' \in [Confirm -> ConfirmType]
    BY <1>1, <1>4 DEF TypeOK, Mint, Goto, ConfirmType
  <2>2. QED
    BY <1>1, <1>4, <2>1 DEF TypeOK, Mint, BucketDated
<1>5. QED
  BY <1>2, <1>3, <1>4 DEF User

\* The steps that belong to no one login or confirmation.
TokenStep ==
  TokensCreate \/ WebTokens \/ \E t \in Token : TokensDelete(t) \/ ConfigSetToken(t)

\* Tokens made, set and deleted by hand, restarts and time keep the types.
LEMMA OtherTypes ==
  ASSUME Inv, TokenStep \/ RestartAPI \/ Tick
  PROVE  TypeOK' /\ BucketDated'
<1> USE DEF decisionVars, limiterVars, Never
<1>1. /\ TypeOK /\ BucketDated /\ clock \in Nat /\ made \in 0..MaxManual
      /\ MaxConfirms \in Nat /\ MaxFaults \in Nat /\ MaxManual \in Nat
  BY DeviceFlowAssumption DEF TypeOK, Inv
<1>2. ASSUME NEW caller, CreateToken(caller)
      PROVE  TypeOK' /\ BucketDated'
  <2>1. made' \in 0..MaxManual /\ MaxConfirms + made' \in Token
    BY <1>1, <1>2 DEF CreateToken, Token, Manual
  <2>2. QED
    BY <1>1, <1>2, <2>1 DEF TypeOK, CreateToken, BucketDated
<1>3. ASSUME NEW t, NEW caller, Revoke(t, caller)
      PROVE  TypeOK' /\ BucketDated'
  BY <1>1, <1>3 DEF TypeOK, Revoke, BucketDated, Inv
<1>4. ASSUME NEW t \in Token, ConfigSetToken(t)
      PROVE  TypeOK' /\ BucketDated'
  BY <1>1, <1>4 DEF TypeOK, ConfigSetToken, BucketDated, Inv
<1>5. CASE RestartAPI
  <2>1. login' \in [Logins -> LoginType]
    <3>1. ASSUME NEW c \in Logins
          PROVE  [login[c] EXCEPT !.pc = "failed", !.why = "network"] \in LoginType
      <4>1. login[c] \in LoginType
        BY <1>1 DEF TypeOK
      <4>2. QED
        BY <4>1 DEF LoginType
    <3>2. QED
      BY <1>1, <1>5, <3>1 DEF TypeOK, RestartAPI
  <2>2. confirm' \in [Confirm -> ConfirmType]
    <3>1. \A r \in Confirm : [confirm[r] EXCEPT !.pc = "cut"] \in ConfirmType
      BY <1>1 DEF TypeOK, ConfirmType
    <3>2. QED
      BY <1>1, <1>5, <3>1 DEF TypeOK, RestartAPI
  <2>3. faults' \in 0..MaxFaults /\ restarts' \in Nat
    <3>1. faults < MaxFaults /\ faults' = faults + 1 /\ restarts' = restarts + 1
      BY <1>5 DEF RestartAPI, Fault
    <3>2. QED
      BY <1>1, <3>1 DEF TypeOK
  <2>4. bucket' \in [credit : Nat, last : Nat \cup {Never}] /\ BucketDated'
    BY <1>5 DEF RestartAPI, BucketDated, NoBucket
  <2>5. QED
    BY <1>1, <1>5, <2>1, <2>2, <2>3, <2>4 DEF TypeOK, RestartAPI, Inv
<1>6. CASE Tick
  <2>1. clock' \in Nat /\ BucketDated'
    BY <1>1, <1>6 DEF Tick, BucketDated
  <2>2. QED
    BY <1>1, <1>6, <2>1 DEF TypeOK, Tick, Inv
<1>7. QED
  BY <1>2, <1>3, <1>4, <1>5, <1>6 DEF TokenStep, TokensCreate, WebTokens, TokensDelete

-----------------------------------------------------------------------------
(* Codes and confirmations *)

(* Consuming a row empties it, and only a stashed token goes with it. *)
LEMMA Consumed ==
  ASSUME TypeOK, NEW c \in Logins, Consume(c) \/ UNCHANGED grant
  PROVE  /\ \A d \in Logins : d # c => grant'[d] = grant[d]
         /\ grant'[c] = grant[c] \/ (grant[c].status = "authorized" /\ grant'[c] = NoGrant)
BY DEF Consume, TypeOK

\* The steps of a login keep the row of its code and its history in agreement.
LEMMA CliCodes ==
  ASSUME Inv, NEW c \in Logins, CLI(c)
  PROVE  Codes' /\ Confirmations'
<1> USE DEF decisionVars, Undecided, NoToken
<1>1. TypeOK /\ Codes /\ Confirmations /\ TTL \in Nat /\ clock \in Nat /\ c \in Logins
  BY DeviceFlowAssumption DEF Inv, TypeOK
<1>2. CASE RequestCode(c)
  <2>1. PICK delay \in 0..MaxDelay :
          login' = [login EXCEPT ![c].pc = "waiting", ![c].wake = clock + delay,
                                 ![c].deadline = clock + delay + TTL]
    BY <1>2 DEF RequestCode
  <2>2. /\ grant' = [grant EXCEPT ![c] = [status |-> "pending", token |-> NoToken,
                                          expires |-> clock + TTL, polled |-> Never]]
        /\ login[c].pc = "idle" /\ UNCHANGED <<decided, approved, confirm>>
    BY <1>2 DEF RequestCode, CreateDeviceCode
  <2>3. Codes'
    BY <1>1, <2>1, <2>2 DEF Codes, TypeOK, LoginType, GrantType, Decided
  <2>4. Confirmations'
    BY <1>1, <2>2 DEF Confirmations, TypeOK, GrantType, Codes
  <2>5. QED
    BY <2>3, <2>4
<1>3. CASE RefuseCode(c) \/ RefusePoll(c) \/ GiveUp(c) \/ AnswerDenied(c)
  <2>1. \E why \in {"limited", "expired", "denied"} : Fail(c, why)
    BY <1>3 DEF RefuseCode, RefusePoll, GiveUp, AnswerDenied
  <2>2. UNCHANGED <<grant, decided, approved, confirm>>
    BY <1>3 DEF RefuseCode, RefusePoll, GiveUp, AnswerDenied
  <2>3. Codes'
    BY <1>1, <2>1, <2>2 DEF Codes, Fail, TypeOK, LoginType, Decided
  <2>4. Confirmations'
    BY <1>1, <2>2 DEF Confirmations
  <2>5. QED
    BY <2>3, <2>4
<1>4. CASE Poll(c)
  <2>1. UNCHANGED <<decided, approved, confirm>> /\ login[c].pc = "waiting"
    BY <1>4 DEF Poll, Due
  <2>2. /\ \A d \in Logins : d # c => grant'[d] = grant[d] /\ login'[d] = login[d]
        /\ grant'[c].status = grant[c].status /\ grant'[c].token = grant[c].token
        /\ grant'[c].expires = grant[c].expires
    BY <1>1, <1>4 DEF Poll, Fail, TypeOK, GrantType
  <2>3. \/ login'[c].pc = "failed" /\ login'[c].token = login[c].token
        \/ login'[c].pc = "waiting" /\ login'[c].token = login[c].token
             /\ login'[c].why = login[c].why
        \/ login'[c].pc = "polling" /\ login'[c].token = grant[c].token
             /\ login'[c].read = grant[c].status /\ login'[c].why = login[c].why
    <3>1. CASE Fail(c, "expired")
      BY <1>1, <3>1 DEF Fail, TypeOK, LoginType
    <3>2. CASE login' = [login EXCEPT ![c].interval = Backoff(@),
                                      ![c].wake = clock + Backoff(login[c].interval)]
      BY <1>1, <2>1, <3>2 DEF TypeOK, LoginType
    <3>3. CASE login' = [login EXCEPT ![c].pc = "polling", ![c].read = grant[c].status,
                                      ![c].token = grant[c].token]
      BY <1>1, <3>3 DEF TypeOK, LoginType
    <3>4. QED
      BY <1>4, <3>1, <3>2, <3>3 DEF Poll
  <2>4. Codes'
    BY <1>1, <2>1, <2>2, <2>3 DEF Codes, Decided
  <2>5. Confirmations'
    BY <1>1, <2>1, <2>2 DEF Confirmations, TypeOK, ConfirmType
  <2>6. QED
    BY <2>4, <2>5
<1>5. CASE AnswerPending(c)
  <2>1. UNCHANGED <<grant, decided, approved, confirm>> /\ login[c].pc = "polling"
        /\ login[c].read = "pending" /\ login[c].token = NoToken
    BY <1>1, <1>5 DEF AnswerPending, Codes
  <2>2. /\ \A d \in Logins : d # c => login'[d] = login[d]
        /\ login'[c].pc = "waiting" /\ login'[c].token = login[c].token
        /\ login'[c].why = login[c].why
    BY <1>1, <1>5 DEF AnswerPending, TypeOK, LoginType
  <2>3. grant[c].status # "none"
    BY <1>1, <2>1 DEF Codes
  <2>4. Codes'
    BY <1>1, <2>1, <2>2, <2>3 DEF Codes, Decided
  <2>5. Confirmations'
    BY <1>1, <2>1 DEF Confirmations
  <2>6. QED
    BY <2>4, <2>5
<1>6. CASE AnswerToken(c) \/ LoseAnswer(c)
  <2>1. UNCHANGED <<decided, approved, confirm>> /\ login[c].pc = "polling"
    BY <1>6 DEF AnswerToken, LoseAnswer
  <2>2. Consume(c) \/ UNCHANGED grant
    BY <1>6 DEF AnswerToken, LoseAnswer
  <2>3. /\ \A d \in Logins : d # c => login'[d] = login[d]
        /\ login'[c].token = login[c].token
        /\ \/ login'[c].pc = "holding" /\ login'[c].why = login[c].why
           \/ login'[c].pc = "failed"
    BY <1>1, <1>6 DEF AnswerToken, LoseAnswer, Fail, TypeOK, LoginType
  <2>4. NoGrant.status = "none" /\ NoGrant.token = NoToken
    BY DEF NoGrant
  <2>5. Codes'
    BY <1>1, <2>1, <2>2, <2>3, <2>4, Consumed DEF Codes, Decided
  <2>6. Confirmations'
    BY <1>1, <2>1, <2>2, Consumed DEF Confirmations, Codes, Decided
  <2>7. QED
    BY <2>5, <2>6
<1>7. CASE SaveConfig(c)
  <2>1. Codes'
    BY <1>1, <1>7 DEF SaveConfig, Codes, TypeOK, LoginType, Decided
  <2>2. Confirmations'
    BY <1>1, <1>7 DEF SaveConfig, Confirmations
  <2>3. QED
    BY <2>1, <2>2
<1>8. QED
  BY <1>2, <1>3, <1>4, <1>5, <1>6, <1>7 DEF CLI

\* A confirmation decides only what is undecided, and only once.
LEMMA UserCodes ==
  ASSUME Inv, NEW r \in Confirm, User(r)
  PROVE  Codes' /\ Confirmations'
<1> USE DEF decisionVars, Undecided, NoToken, Never
<1>1. TypeOK /\ Codes /\ Confirmations /\ TTL \in Nat /\ clock \in Nat /\ r \in Nat \ {0}
  BY DeviceFlowAssumption DEF Inv, TypeOK, Confirm
<1>2. ASSUME NEW c \in Logins, Ask(r, c) \/ AskStatus(r, c) \/ RefuseAsk(r, c)
      PROVE  Codes' /\ Confirmations'
  <2>1. UNCHANGED <<grant, login, decided, approved>> /\ confirm[r].pc = "idle"
    BY <1>2 DEF Ask, AskStatus, RefuseAsk
  <2>2. PICK next \in {"deny", "mint", "done"} :
          /\ confirm' = [confirm EXCEPT ![r].pc = next, ![r].login = c]
          /\ next # "done" => grant[c].status # "none"
    BY <1>2 DEF Ask, AskStatus, RefuseAsk, Lookup
  <2>3. Codes'
    BY <1>1, <2>1 DEF Codes, Decided
  <2>4. Confirmations'
    BY <1>1, <2>1, <2>2 DEF Confirmations, TypeOK, ConfirmType
  <2>5. QED
    BY <2>3, <2>4
<1>3. CASE Deny(r) \/ Authorize(r)
  <2> DEFINE c == confirm[r].login
  <2>1. c \in Logins /\ UNCHANGED login /\ confirm[r].pc \in {"deny", "authorize"}
    BY <1>1, <1>3 DEF Deny, Authorize, Confirmations
  <2>2. /\ \A d \in Logins : d # c => /\ grant'[d] = grant[d] /\ decided'[d] = decided[d]
                                      /\ approved'[d] = approved[d]
        /\ \/ UNCHANGED <<grant, decided, approved>>
           \/ /\ grant[c].status = "pending" /\ decided'[c] = r
              /\ \/ grant'[c].status = "denied" /\ grant'[c].token = grant[c].token
                 \/ grant'[c].status = "authorized" /\ grant'[c].token = r
    BY <1>1, <1>3, <2>1 DEF Deny, Authorize, Open, TypeOK, GrantType
  <2>3. \E what \in {"denied", "approved"} : Tell(r, what)
    BY <1>3 DEF Deny, Authorize
  <2>4. Codes'
    BY <1>1, <2>1, <2>2 DEF Codes, Decided, NoGrant
  <2>5. Confirmations'
    BY <1>1, <2>1, <2>2, <2>3 DEF Confirmations, Tell, TypeOK, ConfirmType
  <2>6. QED
    BY <2>4, <2>5
<1>4. CASE Mint(r)
  <2>1. Codes'
    BY <1>1, <1>4 DEF Mint, Codes, Decided
  <2>2. Confirmations'
    BY <1>1, <1>4 DEF Mint, Goto, Confirmations, TypeOK, ConfirmType
  <2>3. QED
    BY <2>1, <2>2
<1>5. QED
  BY <1>2, <1>3, <1>4 DEF User

\* No other step touches a row, a decision or what a confirmation has read.
LEMMA OtherCodes ==
  ASSUME Inv, TokenStep \/ RestartAPI \/ Tick
  PROVE  Codes' /\ Confirmations'
<1> USE DEF decisionVars
<1>1. TypeOK /\ Codes /\ Confirmations
  BY DEF Inv
<1>2. CASE TokenStep \/ Tick
  <2>1. UNCHANGED <<grant, login, confirm, decided, approved>>
    BY <1>2 DEF TokenStep, TokensCreate, WebTokens, TokensDelete, CreateToken, Revoke,
                ConfigSetToken, Tick
  <2>2. QED
    BY <1>1, <2>1 DEF Codes, Decided, Confirmations
<1>3. CASE RestartAPI
  <2>1. UNCHANGED <<grant, decided, approved>>
    BY <1>3 DEF RestartAPI
  <2>2. \A c \in Logins : /\ login'[c].token = login[c].token
                          /\ \/ login'[c] = login[c]
                             \/ login[c].pc = "polling" /\ login'[c].pc = "failed"
    BY <1>1, <1>3 DEF RestartAPI, TypeOK, LoginType
  <2>3. \A r \in Confirm : /\ confirm'[r].told = confirm[r].told
                           /\ confirm'[r].login = confirm[r].login
                           /\ \/ confirm'[r] = confirm[r]
                              \/ /\ confirm[r].pc \in {"deny", "mint", "authorize"}
                                 /\ confirm'[r].pc = "cut"
    BY <1>1, <1>3 DEF RestartAPI, TypeOK, ConfirmType
  <2>4. Codes'
    BY <1>1, <2>1, <2>2 DEF Codes, Decided
  <2>5. Confirmations'
    BY <1>1, <2>1, <2>3 DEF Confirmations
  <2>6. QED
    BY <2>4, <2>5
<1>4. QED
  BY <1>2, <1>3

\* The actors of the next-state relation.
LEMMA NextCases ==
  ASSUME Next
  PROVE  \/ \E c \in Logins : CLI(c)
         \/ \E r \in Confirm : User(r)
         \/ TokenStep \/ RestartAPI \/ Tick
BY DEF Next, TokenStep

(* The invariant is inductive. *)
LEMMA NextInv ==
  ASSUME Inv, [Next]_vars
  PROVE  Inv'
<1>1. CASE UNCHANGED vars
  BY <1>1 DEF vars, limiterVars, decisionVars, Inv, TypeOK, BucketDated, Codes, Decided, Confirmations
<1>2. CASE Next
  BY <1>2, NextCases, CliTypes, UserTypes, OtherTypes, CliCodes, UserCodes, OtherCodes DEF Inv
<1>3. QED
  BY <1>1, <1>2

(* Every variable keeps its type; the tokens stashed, answered and written to  *)
(* the file are tokens that were minted for a confirmation or made by hand,    *)
(* and the bucket never goes below zero.                                       *)
THEOREM DeviceTypes == Spec => []TypeOK
<1>1. Inv => TypeOK
  BY DEF Inv
<1>2. QED
  BY InitInv, NextInv, <1>1, PTL DEF Spec

\* The invariant holds in every reachable state.
LEMMA InvHolds == Spec => []Inv
BY InitInv, NextInv, PTL DEF Spec

(* A code that was denied or approved stays so, however many confirmations     *)
(* read it as pending before: only the login it was approved for consumes it.  *)
THEOREM DecisionsFinal == Spec => DecisionFinal
<1> DEFINE Kept(c) == \/ grant'[c].status = grant[c].status /\ grant'[c].token = grant[c].token
                      \/ grant[c].status = "authorized" /\ grant'[c] = NoGrant
<1>1. ASSUME Inv, Next, NEW c \in Logins, Decided(c)
      PROVE  Kept(c)
  <2> USE DEF Decided, vars
  <2>1. ASSUME NEW d \in Logins, CLI(d) PROVE Kept(c)
    <3>1. CASE RequestCode(d)
      <4>1. d # c
        BY <1>1, <3>1 DEF RequestCode, Inv, Codes, NoGrant
      <4>2. QED
        BY <1>1, <3>1, <4>1 DEF RequestCode, CreateDeviceCode, Inv, TypeOK
    <3>2. CASE Poll(d)
      BY <1>1, <3>2 DEF Poll, Inv, TypeOK, GrantType
    <3>3. CASE AnswerToken(d) \/ LoseAnswer(d)
      <4>1. Consume(d) \/ UNCHANGED grant
        BY <3>3 DEF AnswerToken, LoseAnswer
      <4>2. QED
        BY <1>1, <4>1, Consumed DEF Inv
    <3>4. QED
      BY <2>1, <3>1, <3>2, <3>3
      DEF CLI, RefuseCode, RefusePoll, GiveUp, AnswerPending, AnswerDenied, SaveConfig
  <2>2. ASSUME NEW r \in Confirm, User(r) PROVE Kept(c)
    BY <1>1, <2>2 DEF User, Ask, AskStatus, RefuseAsk, Deny, Mint, Authorize, Open, Inv, TypeOK
  <2>3. CASE TokenStep \/ RestartAPI \/ Tick
    BY <2>3 DEF TokenStep, TokensCreate, WebTokens, TokensDelete, CreateToken, Revoke,
                ConfigSetToken, RestartAPI, Tick
  <2>4. QED
    BY <1>1, <2>1, <2>2, <2>3, NextCases
<1>2. Inv /\ [Next]_vars =>
        [\A c \in Logins : Decided(c) =>
           \/ grant'[c].status = grant[c].status /\ grant'[c].token = grant[c].token
           \/ grant[c].status = "authorized" /\ grant'[c] = NoGrant]_vars
  BY <1>1
<1>3. QED
  BY <1>2, InvHolds, PTL DEF Spec, DecisionFinal

-----------------------------------------------------------------------------
(* Where the minted tokens are *)

\* One of the places TokensAccounted names.
Accounted(t) ==
  \/ confirm[t].pc \in {"authorize", "cut"}
  \/ InRow(t) \/ WithLogin(t) \/ config = t
  \/ t \in lost \/ Outrun(t)
  \/ \E c \in Logins : login[c].why = "network" /\ decided[c] = t

\* The browser's session lists every live token.
LEMMA BrowserLists ==
  /\ ListTokens(Browser) = tokens
  /\ TokensAccounted <=> \A t \in tokens \cap Confirm : Accounted(t)
<1>1. ListTokens(Browser) = tokens
  BY DEF ListTokens, Browser, ResolveUserID, GetWebSession, ListAPITokens
<1>2. QED
  BY <1>1 DEF TokensAccounted, Accounted

(* A decision does not change once it is made. *)
LEMMA DecidedOnce ==
  ASSUME Inv, Next, NEW c \in Logins, decided[c] # Undecided
  PROVE  decided'[c] = decided[c]
<1> USE DEF decisionVars, Undecided
<1>1. ASSUME NEW r \in Confirm, Deny(r) \/ Authorize(r)
      PROVE  decided'[c] = decided[c]
  BY <1>1 DEF Deny, Authorize, Open, Inv, TypeOK, Codes
<1>2. CASE \A r \in Confirm : ~ (Deny(r) \/ Authorize(r))
  BY <1>2, NextCases
  DEF CLI, RequestCode, RefuseCode, Poll, RefusePoll, GiveUp, AnswerPending, AnswerDenied,
      AnswerToken, LoseAnswer, SaveConfig, User, Ask, AskStatus, RefuseAsk, Mint, TokenStep,
      TokensCreate, WebTokens, TokensDelete, CreateToken, Revoke, ConfigSetToken, RestartAPI, Tick
<1>3. QED
  BY <1>1, <1>2

(* A token of a confirmation is stashed in one row and with one login, those of *)
(* the code it decided.                                                         *)
LEMMA TokenPlaces ==
  ASSUME Inv, NEW t \in Confirm
  PROVE  /\ t # NoToken /\ t # Undecided /\ t \notin Manual
         /\ \A c \in Logins : grant[c].token = t \/ login[c].token = t => decided[c] = t
BY TokenTypes DEF Inv, Codes, Undecided, NoToken, TypeOK, Token

(* A token that was outrun stays so. *)
LEMMA OutrunStays ==
  ASSUME Inv, Next, NEW t \in Confirm, Outrun(t), confirm'[t] = confirm[t],
         clock' >= clock, \A r \in Confirm : (Deny(r) \/ Authorize(r)) => r # t
  PROVE  Outrun(t)'
<1> DEFINE c == confirm[t].login
<1>1. c \in Logins /\ clock \in Nat /\ clock' \in Int /\ TTL \in Nat
  BY NextInv, DeviceFlowAssumption DEF Outrun, Inv, Confirmations, TypeOK
<1>2. CASE decided[c] \notin {Undecided, t}
  BY <1>1, <1>2, DecidedOnce DEF Outrun
<1>3. CASE decided[c] = Undecided /\ clock >= TTL
  <2>1. decided'[c] # t
    <3>1. ASSUME NEW r \in Confirm, Deny(r) \/ Authorize(r)
          PROVE  decided'[c] # t
      BY <1>1, <1>3, <3>1, TokenPlaces DEF Deny, Authorize, Inv, TypeOK, Confirmations, decisionVars
    <3>2. CASE \A r \in Confirm : ~ (Deny(r) \/ Authorize(r))
      BY <1>3, <3>2, NextCases, TokenPlaces
      DEF CLI, RequestCode, RefuseCode, Poll, RefusePoll, GiveUp, AnswerPending, AnswerDenied,
          AnswerToken, LoseAnswer, SaveConfig, User, Ask, AskStatus, RefuseAsk, Mint, TokenStep,
          TokensCreate, WebTokens, TokensDelete, CreateToken, Revoke, ConfigSetToken, RestartAPI,
          Tick, decisionVars
    <3>3. QED
      BY <3>1, <3>2
  <2>2. QED
    BY <1>1, <1>3, <2>1 DEF Outrun
<1>4. QED
  BY <1>2, <1>3 DEF Outrun

(* The token of an answer goes from the row to the login and from there to the *)
(* file, or is lost with an answer or a file.                                  *)
LEMMA CliAccounts ==
  ASSUME Inv, NEW c \in Logins, CLI(c), NEW t \in Confirm, t \in tokens, Accounted(t)
  PROVE  Accounted(t)'
<1> USE DEF decisionVars, limiterVars
<1>1. /\ TypeOK /\ Codes /\ c \in Logins /\ clock \in Nat /\ t # NoToken /\ t \notin Manual
      /\ \A d \in Logins : grant[d].token = t \/ login[d].token = t => decided[d] = t
  BY TokenPlaces DEF Inv, TypeOK
<1>2. UNCHANGED <<tokens, confirm, decided, clock>> /\ Next
  BY DEF CLI, RequestCode, RefuseCode, Poll, RefusePoll, GiveUp, AnswerPending, AnswerDenied,
         AnswerToken, LoseAnswer, SaveConfig, Next
<1>3. Outrun(t) => Outrun(t)'
  BY <1>2 DEF Outrun
<1>4. \A d \in Logins : d # c => grant'[d] = grant[d] /\ login'[d] = login[d]
  BY <1>1 DEF CLI, RequestCode, CreateDeviceCode, RefuseCode, Poll, RefusePoll, GiveUp, AnswerPending,
         AnswerDenied, AnswerToken, LoseAnswer, SaveConfig, Fail, Consume, TypeOK
<1>5. (lost \subseteq lost' /\ config' = config) \/ SaveConfig(c)
  BY DEF CLI, RequestCode, RefuseCode, Poll, RefusePoll, GiveUp, AnswerPending, AnswerDenied,
         AnswerToken, LoseAnswer
<1>6. CASE SaveConfig(c)
  <2>1. config' = login[c].token /\ login[c].pc = "holding" /\ grant' = grant /\ login'[c].pc = "done"
        /\ login'[c].why = login[c].why
        /\ lost' = lost \cup ({config} \ ({NoToken, login[c].token} \cup Manual))
    BY <1>1, <1>6 DEF SaveConfig, Saved, TypeOK, LoginType
  <2>2. CASE WithLogin(t)
    <3>1. PICK d \in Logins : login[d].pc \in {"polling", "holding"} /\ login[d].token = t
      BY <2>2 DEF WithLogin
    <3>2. CASE d = c
      BY <2>1, <3>1, <3>2 DEF Accounted
    <3>3. CASE d # c
      BY <1>4, <3>1, <3>3 DEF Accounted, WithLogin
    <3>4. QED
      BY <3>2, <3>3
  <2>3. CASE config = t
    BY <1>1, <2>1, <2>3 DEF Accounted
  <2>4. CASE InRow(t)
    BY <2>1, <2>4 DEF Accounted, InRow
  <2>5. CASE \E d \in Logins : login[d].why = "network" /\ decided[d] = t
    BY <1>2, <1>4, <2>1, <2>5 DEF Accounted
  <2>6. QED
    BY <1>2, <1>3, <2>1, <2>2, <2>3, <2>4, <2>5 DEF Accounted
<1>7. CASE ~ SaveConfig(c)
  <2>1. lost \subseteq lost' /\ config' = config
    BY <1>5, <1>7
  <2>2. CASE \E d \in Logins : login[d].why = "network" /\ decided[d] = t
    <3>1. login[c].why = "network" => login[c].pc = "failed"
      BY <1>1 DEF Codes
    <3>2. ~ login[c].pc = "failed"
      BY DEF CLI, RequestCode, RefuseCode, Poll, RefusePoll, GiveUp, AnswerPending, AnswerDenied,
             AnswerToken, LoseAnswer, SaveConfig, Due
    <3>3. QED
      BY <1>2, <1>4, <2>2, <3>1, <3>2 DEF Accounted
  <2>3. CASE \E d \in Logins \ {c} : \/ grant[d].status = "authorized" /\ grant[d].token = t
                                     \/ login[d].pc \in {"polling", "holding"} /\ login[d].token = t
    BY <1>4, <2>3 DEF Accounted, InRow, WithLogin
  <2>4. CASE grant[c].status = "authorized" /\ grant[c].token = t
    <3>1. login[c].pc # "idle"
      BY <1>1, <2>4 DEF Codes, NoGrant
    <3>2. CASE AnswerToken(c)
      <4>1. login[c].token = t /\ login[c].pc = "polling"
        BY <1>1, <2>4, <3>2 DEF AnswerToken, Codes
      <4>2. login'[c].token = t /\ login'[c].pc = "holding"
        BY <1>1, <3>2, <4>1 DEF AnswerToken, TypeOK, LoginType
      <4>3. QED
        BY <4>2 DEF Accounted, WithLogin
    <3>3. CASE LoseAnswer(c)
      <4>1. login[c].read = "authorized" => login[c].token = t
        BY <1>1, <2>4, <3>3 DEF LoseAnswer, Codes
      <4>2. CASE login[c].read = "authorized"
        BY <4>1, <4>2, <3>3 DEF LoseAnswer, Accounted
      <4>3. CASE login[c].read # "authorized"
        BY <2>4, <3>3, <4>3 DEF LoseAnswer, Accounted, InRow
      <4>4. QED
        BY <4>2, <4>3
    <3>4. CASE ~ AnswerToken(c) /\ ~ LoseAnswer(c)
      <4>1. grant'[c].status = grant[c].status /\ grant'[c].token = grant[c].token
        <5>1. CASE Poll(c)
          BY <1>1, <5>1 DEF Poll, TypeOK, GrantType
        <5>2. CASE ~ Poll(c)
          <6>1. UNCHANGED grant
            BY <1>7, <3>1, <3>4, <5>2
            DEF CLI, RequestCode, RefuseCode, RefusePoll, GiveUp, AnswerPending, AnswerDenied
          <6>2. QED
            BY <6>1
        <5>3. QED
          BY <5>1, <5>2
      <4>2. QED
        BY <2>4, <4>1 DEF Accounted, InRow
    <3>5. QED
      BY <3>2, <3>3, <3>4
  <2>5. CASE login[c].pc \in {"polling", "holding"} /\ login[c].token = t
    <3>1. login[c].pc = "polling" => login[c].read = "authorized"
      BY <1>1, <2>5 DEF Codes
    <3>2. AnswerToken(c) \/ LoseAnswer(c)
      BY <1>7, <2>5, <3>1
      DEF CLI, RequestCode, RefuseCode, Poll, RefusePoll, GiveUp, AnswerPending, AnswerDenied,
          SaveConfig, Due
    <3>3. CASE AnswerToken(c)
      <4>1. login'[c].token = t /\ login'[c].pc = "holding"
        BY <1>1, <2>5, <3>3 DEF AnswerToken, TypeOK, LoginType
      <4>2. QED
        BY <4>1 DEF Accounted, WithLogin
    <3>4. CASE LoseAnswer(c)
      BY <2>5, <3>1, <3>4 DEF LoseAnswer, Accounted
    <3>5. QED
      BY <3>2, <3>3, <3>4
  <2>6. QED
    BY <1>2, <1>3, <2>1, <2>2, <2>3, <2>4, <2>5 DEF Accounted, InRow, WithLogin
<1>8. QED
  BY <1>2, <1>6, <1>7

(* A confirmation mints its token, stashes it in the row it may still decide,  *)
(* or was outrun; it disturbs no other's token.                                *)
LEMMA UserAccounts ==
  ASSUME Inv, NEW r \in Confirm, User(r), NEW t \in Confirm,
         t \in tokens => Accounted(t), t \in tokens'
  PROVE  Accounted(t)'
<1> USE DEF decisionVars, limiterVars
<1>1. /\ TypeOK /\ Codes /\ Confirmations /\ clock \in Nat /\ t # NoToken /\ t # Undecided
      /\ \A d \in Logins : grant[d].token = t \/ login[d].token = t => decided[d] = t
  BY TokenPlaces DEF Inv, TypeOK
<1>2. UNCHANGED <<login, config, lost, clock>> /\ Next
  BY DEF User, Ask, AskStatus, RefuseAsk, Deny, Mint, Authorize, Next
<1>3. CASE Mint(r)
  <2>1. CASE r = t
    BY <1>1, <1>3, <2>1 DEF Mint, Goto, Accounted, TypeOK, ConfirmType
  <2>2. CASE r # t
    <3>1. UNCHANGED <<grant, decided>> /\ confirm'[t] = confirm[t] /\ t \in tokens
      BY <1>1, <1>3, <2>2 DEF Mint, Goto, TypeOK
    <3>2. QED
      BY <1>2, <3>1 DEF Accounted, InRow, WithLogin, Outrun
  <2>3. QED
    BY <2>1, <2>2
<1>4. ASSUME NEW c \in Logins, Ask(r, c) \/ AskStatus(r, c) \/ RefuseAsk(r, c)
      PROVE  Accounted(t)'
  <2>1. UNCHANGED <<grant, decided, tokens>> /\ confirm[r].pc = "idle"
    BY <1>4 DEF Ask, AskStatus, RefuseAsk
  <2>2. r # t => confirm'[t] = confirm[t]
    BY <1>1, <1>4 DEF Ask, AskStatus, RefuseAsk, TypeOK
  <2>3. r = t => ~ Outrun(t) /\ confirm[t].pc \notin {"authorize", "cut"}
    BY <1>1, <2>1 DEF Outrun, Confirmations
  <2>4. QED
    BY <1>2, <2>1, <2>2, <2>3 DEF Accounted, InRow, WithLogin, Outrun
<1>5. CASE Deny(r) \/ Authorize(r)
  <2> DEFINE c == confirm[r].login
  <2>1. c \in Logins /\ UNCHANGED tokens /\ confirm[r].pc \in {"deny", "authorize"}
    BY <1>1, <1>5 DEF Deny, Authorize, Confirmations
  <2>2. \A d \in Logins : decided[d] # Undecided => decided'[d] = decided[d]
    BY <1>2, DecidedOnce
  <2>3. \A d \in Logins : grant[d].status = "authorized" => grant'[d] = grant[d]
    BY <1>1, <1>5, <2>1 DEF Deny, Authorize, Open, TypeOK
  <2>4. CASE r = t /\ Deny(r)
    <3>1. ~ Outrun(t) /\ confirm[t].pc \notin {"authorize", "cut"}
      BY <1>1, <2>1, <2>4 DEF Outrun, Confirmations, Deny
    <3>2. QED
      BY <1>1, <1>2, <2>1, <2>2, <2>3, <3>1 DEF Accounted, InRow, WithLogin
  <2>5. CASE r = t /\ Authorize(r)
    <3>1. confirm'[t].told = "approved" /\ confirm'[t].login = c
      BY <1>1, <2>5 DEF Authorize, Tell, TypeOK, ConfirmType
    <3>2. CASE Open(c)
      <4>1. grant'[c].status = "authorized" /\ grant'[c].token = t
        BY <1>1, <2>1, <2>5, <3>2 DEF Authorize, TypeOK, GrantType
      <4>2. QED
        BY <2>1, <4>1 DEF Accounted, InRow
    <3>3. CASE ~ Open(c)
      <4>1. decided' = decided
        BY <2>5, <3>3 DEF Authorize
      <4>2. decided[c] # t
        BY <1>1, <2>1, <2>5 DEF Confirmations
      <4>3. decided[c] = Undecided => clock >= TTL
        <5>1. CASE grant[c].status = "pending"
          <6>1. grant[c].expires >= TTL /\ grant[c].expires \in Nat
            BY <1>1, <2>1, <5>1 DEF Codes, TypeOK, GrantType
          <6>2. QED
            BY <1>1, <3>3, <5>1, <6>1, DeviceFlowAssumption DEF Open
        <5>2. CASE grant[c].status # "pending"
          <6>1. grant[c].status \in {"none", "authorized", "denied"}
            BY <1>1, <2>1, <5>2 DEF TypeOK, GrantType, Status
          <6>2. QED
            BY <1>1, <2>1, <6>1 DEF Codes, Decided, Confirmations
        <5>3. QED
          BY <5>1, <5>2
      <4>4. QED
        BY <1>2, <3>1, <4>1, <4>2, <4>3 DEF Accounted, Outrun
    <3>4. QED
      BY <3>2, <3>3
  <2>6. CASE r # t
    <3>1. confirm'[t] = confirm[t]
      BY <1>1, <1>5, <2>6 DEF Deny, Authorize, Tell, TypeOK
    <3>2. \A q \in Confirm : (Deny(q) \/ Authorize(q)) => q # t
      <4>1. SUFFICES ASSUME Deny(t) \/ Authorize(t) PROVE FALSE
        OBVIOUS
      <4>2. confirm'[t].pc = "done" /\ confirm[t].pc # "done"
        BY <1>1, <4>1 DEF Deny, Authorize, Tell, TypeOK, ConfirmType
      <4>3. QED
        BY <3>1, <4>2
    <3>3. Outrun(t) => Outrun(t)'
      BY <1>1, <1>2, <3>1, <3>2, OutrunStays
    <3>4. QED
      BY <1>1, <1>2, <2>1, <2>2, <2>3, <3>1, <3>3 DEF Accounted, InRow, WithLogin
  <2>7. QED
    BY <1>5, <2>4, <2>5, <2>6
<1>6. QED
  BY <1>3, <1>4, <1>5 DEF User

\* Every other step leaves a minted token where it is, or loses it by name.
LEMMA OtherAccounts ==
  ASSUME Inv, TokenStep \/ RestartAPI \/ Tick, NEW t \in Confirm,
         t \in tokens => Accounted(t), t \in tokens'
  PROVE  Accounted(t)'
<1> USE DEF decisionVars, limiterVars
<1>1. /\ TypeOK /\ Codes /\ clock \in Nat /\ t # NoToken /\ t \notin Manual /\ TTL \in Nat
      /\ \A d \in Logins : grant[d].token = t \/ login[d].token = t => decided[d] = t
  BY TokenPlaces, DeviceFlowAssumption DEF Inv, TypeOK
<1>2. CASE TokenStep
  <2>1. UNCHANGED <<grant, login, confirm, decided, clock>>
    BY <1>2 DEF TokenStep, TokensCreate, WebTokens, TokensDelete, CreateToken, Revoke, ConfigSetToken
  <2>2. t \in tokens
    <3>1. ASSUME NEW caller, CreateToken(caller) PROVE t \in tokens
      <4>1. MaxConfirms + made' \in Manual
        BY <1>1, <3>1, DeviceFlowAssumption DEF CreateToken, Manual, TypeOK
      <4>2. QED
        BY <1>1, <3>1, <4>1 DEF CreateToken
    <3>2. QED
      BY <1>2, <3>1
      DEF TokenStep, TokensCreate, WebTokens, TokensDelete, Revoke, ConfigSetToken
  <2>3. config = t => config' = t \/ t \in lost'
    BY <1>1, <1>2 DEF TokenStep, TokensCreate, WebTokens, TokensDelete, CreateToken, Revoke,
                      ConfigSetToken
  <2>4. lost \subseteq lost'
    BY <1>2 DEF TokenStep, TokensCreate, WebTokens, TokensDelete, CreateToken, Revoke,
                ConfigSetToken
  <2>5. QED
    BY <2>1, <2>2, <2>3, <2>4 DEF Accounted, InRow, WithLogin, Outrun
<1>3. CASE RestartAPI
  <2>1. UNCHANGED <<grant, tokens, config, decided, lost, clock>>
    BY <1>3 DEF RestartAPI
  <2>2. \A c \in Logins : \/ login'[c] = login[c]
                          \/ login[c].pc = "polling" /\ login'[c].why = "network"
    BY <1>1, <1>3 DEF RestartAPI, TypeOK, LoginType
  <2>3. /\ confirm'[t].told = confirm[t].told /\ confirm'[t].login = confirm[t].login
        /\ confirm[t].pc \in {"authorize", "cut"} => confirm'[t].pc = "cut"
    BY <1>1, <1>3 DEF RestartAPI, TypeOK, ConfirmType
  <2>4. WithLogin(t) => Accounted(t)'
    BY <1>1, <2>1, <2>2 DEF WithLogin, Accounted
  <2>5. (\E c \in Logins : login[c].why = "network" /\ decided[c] = t) => Accounted(t)'
    BY <2>1, <2>2 DEF Accounted
  <2>6. QED
    BY <2>1, <2>3, <2>4, <2>5 DEF Accounted, InRow, Outrun
<1>4. CASE Tick
  <2>1. UNCHANGED <<grant, tokens, login, config, confirm, decided, lost>> /\ clock' = clock + 1
    BY <1>4 DEF Tick
  <2>2. QED
    BY <1>1, <2>1 DEF Accounted, InRow, WithLogin, Outrun
<1>5. QED
  BY <1>2, <1>3, <1>4

(* Every live token that was minted for a confirmation is on its way to the    *)
(* login it was minted for, or out of reach in one of the named ways, whatever *)
(* confirmations, logins, lost answers and restarts come together.             *)
THEOREM TokensSafe == Spec => []TokensAccounted
<1>1. Init => TokensAccounted
  <2>1. Init => tokens = {}
    BY DEF Init
  <2>2. QED
    BY <2>1, BrowserLists
<1>2. Inv /\ TokensAccounted /\ [Next]_vars => TokensAccounted'
  <2> SUFFICES ASSUME Inv, TokensAccounted, [Next]_vars PROVE TokensAccounted'
    OBVIOUS
  <2>1. \A t \in tokens \cap Confirm : Accounted(t)
    BY BrowserLists
  <2>2. \A t \in tokens' \cap Confirm : Accounted(t)'
    <3>1. ASSUME NEW c \in Logins, CLI(c), NEW t \in Confirm, t \in tokens' PROVE Accounted(t)'
      <4>1. t \in tokens
        BY <3>1 DEF CLI, RequestCode, RefuseCode, Poll, RefusePoll, GiveUp, AnswerPending,
                    AnswerDenied, AnswerToken, LoseAnswer, SaveConfig
      <4>2. QED
        BY <2>1, <3>1, <4>1, CliAccounts
    <3>2. CASE Next
      BY <2>1, <3>1, <3>2, NextCases, UserAccounts, OtherAccounts
    <3>3. CASE UNCHANGED vars
      BY <2>1, <3>3 DEF vars, Accounted, InRow, WithLogin, Outrun
    <3>4. QED
      BY <3>2, <3>3
  <2>3. ListTokens(Browser)' = tokens'
    BY DEF ListTokens, Browser, ResolveUserID, GetWebSession, ListAPITokens
  <2>4. QED
    BY <2>2, <2>3 DEF TokensAccounted, Accounted
<1>3. QED
  BY <1>1, <1>2, InvHolds, PTL DEF Spec

-----------------------------------------------------------------------------
(* What the limiter admits *)

\* The larger of two numbers bounds both of them.
LEMMA HigherBounds ==
  /\ HighBurst \in Nat /\ HighRate \in Nat
  /\ DeviceBurst <= HighBurst /\ ConfirmBurst <= HighBurst
  /\ DeviceRate <= HighRate /\ ConfirmRate <= HighRate
BY DeviceFlowAssumption DEF HighBurst, HighRate, Higher

\* Multiplication is monotonic, and distributes over a difference.
LEMMA Products ==
  ASSUME NEW a \in Nat, NEW b \in Nat, a <= b, NEW n \in Nat
  PROVE  /\ a * n \in Nat /\ b * n \in Nat /\ n * a \in Nat /\ n * b \in Nat
         /\ a * n <= b * n /\ n * a <= n * b
         /\ (b - a) * n = b * n - a * n
         /\ (a + 1) * n = a * n + n
<1>1. PICK d \in Nat : b = a + d
  <2>1. b - a \in Nat /\ b = a + (b - a)
    OBVIOUS
  <2>2. QED
    BY <2>1
<1>2. d * n \in Nat /\ a * n \in Nat /\ n * a \in Nat /\ n * d \in Nat
  OBVIOUS
<1>3. b * n = a * n + d * n /\ n * b = n * a + n * d /\ b - a = d
  BY <1>1
<1>4. QED
  BY <1>2, <1>3

\* A request takes what it needs from the bucket, or leaves what was refilled;
\* neither puts more into it than the time since the last look brings.
LEMMA LimiterBudget ==
  ASSUME TypeOK, BucketDated, Budget, clock' = clock, restarts' = restarts,
         NEW rate \in Nat, NEW burst \in Nat, rate <= HighRate, burst <= HighBurst,
         Admit(rate, burst) \/ Refuse(rate, burst)
  PROVE  Budget'
<1> DEFINE full == HighBurst * Cost
<1> DEFINE taken == admitted * Cost
<1>1. /\ Cost \in Nat /\ clock \in Nat /\ admitted \in Nat /\ restarts \in Nat
      /\ HighBurst \in Nat /\ HighRate \in Nat
  BY HigherBounds, DeviceFlowAssumption DEF TypeOK
<1>2. /\ full \in Nat /\ taken \in Nat /\ clock * HighRate \in Nat
      /\ restarts * full \in Nat /\ (restarts + 1) * full = restarts * full + full
      /\ burst * Cost \in Nat /\ burst * Cost <= full
  BY <1>1, Products
<1>3. Credit(rate, burst) \in Nat
  BY CreditType
<1>4. bucket'.last = clock /\ bucket' # NoBucket
  BY <1>1 DEF Admit, Refuse, NoBucket, Never
<1>5. admitted' * Cost + bucket'.credit = taken + Credit(rate, burst)
  <2>1. CASE Admit(rate, burst)
    <3>1. admitted' * Cost = taken + Cost
      BY <1>1, <2>1 DEF Admit
    <3>2. bucket'.credit = Credit(rate, burst) - Cost
      BY <2>1 DEF Admit
    <3> HIDE DEF taken
    <3>3. QED
      BY <1>1, <1>2, <1>3, <3>1, <3>2
  <2>2. CASE Refuse(rate, burst)
    BY <2>2 DEF Refuse
  <2>3. QED
    BY <2>1, <2>2
<1>6. taken + Credit(rate, burst) <= (restarts + 1) * full + clock * HighRate
  <2>1. CASE bucket = NoBucket
    <3>1. Credit(rate, burst) = burst * Cost
      BY <2>1 DEF Credit
    <3>2. taken <= restarts * full + clock * HighRate
      BY <2>1 DEF Budget
    <3> HIDE DEF taken, full
    <3>3. QED
      BY <1>2, <3>1, <3>2
  <2>2. CASE bucket # NoBucket
    <3>1. bucket.last \in Nat /\ bucket.last <= clock /\ bucket.credit \in Nat
      BY <2>2 DEF BucketDated, TypeOK
    <3>2. clock - bucket.last \in Nat
      BY <1>1, <3>1
    <3>3. /\ (clock - bucket.last) * rate \in Nat
          /\ (clock - bucket.last) * rate <= (clock - bucket.last) * HighRate
      BY <1>1, <3>2, Products
    <3>4. /\ (clock - bucket.last) * HighRate = clock * HighRate - bucket.last * HighRate
          /\ bucket.last * HighRate \in Nat
      BY <1>1, <3>1, Products
    <3>5. Credit(rate, burst) <= bucket.credit + (clock - bucket.last) * rate
      BY <1>2, <2>2, <3>1, <3>3 DEF Credit, Least
    <3>6. taken + bucket.credit <= (restarts + 1) * full + bucket.last * HighRate
      BY <2>2 DEF Budget
    <3>7. (restarts + 1) * full \in Nat
      BY <1>2
    <3> DEFINE old == bucket.last * HighRate
    <3> DEFINE new == clock * HighRate
    <3> DEFINE runs == (restarts + 1) * full
    <3>8. Credit(rate, burst) <= bucket.credit + (new - old)
      BY <1>2, <1>3, <3>1, <3>3, <3>4, <3>5
    <3> HIDE DEF old, new, runs, taken
    <3>9. taken + Credit(rate, burst) <= runs + new
      <4>1. old \in Nat /\ new \in Nat /\ runs \in Nat /\ taken \in Nat
        BY <1>2, <3>4, <3>7 DEF old, new, runs, taken
      <4>2. taken + bucket.credit <= runs + old
        BY <3>6 DEF old, runs, taken
      <4>3. QED
        BY <1>3, <3>1, <3>8, <4>1, <4>2
    <3>10. QED
      BY <3>9 DEF runs, new, taken
  <2>3. QED
    BY <2>1, <2>2
<1>7. admitted' * Cost + bucket'.credit <= (restarts' + 1) * full + bucket'.last * HighRate
  BY <1>4, <1>5, <1>6
<1>8. QED
  BY <1>4, <1>7 DEF Budget, HighBurst, HighRate

\* A run of the API ends with no more admitted than its budget, and time only
\* adds to it.
LEMMA OtherBudget ==
  ASSUME TypeOK, BucketDated, Budget, RestartAPI \/ Tick
  PROVE  Budget'
<1> DEFINE full == HighBurst * Cost
<1> DEFINE taken == admitted * Cost
<1>1. /\ Cost \in Nat /\ clock \in Nat /\ admitted \in Nat /\ restarts \in Nat
      /\ HighBurst \in Nat /\ HighRate \in Nat /\ bucket.credit \in Nat
  BY HigherBounds, DeviceFlowAssumption DEF TypeOK
<1>2. /\ full \in Nat /\ taken \in Nat /\ clock * HighRate \in Nat
      /\ restarts * full \in Nat /\ (restarts + 1) * full = restarts * full + full
      /\ (clock + 1) * HighRate = clock * HighRate + HighRate
  BY <1>1, Products
<1>3. CASE RestartAPI
  <2>1. bucket' = NoBucket /\ restarts' = restarts + 1 /\ UNCHANGED <<admitted, clock>>
    BY <1>3 DEF RestartAPI
  <2>2. taken <= (restarts + 1) * full + clock * HighRate
    <3>1. CASE bucket = NoBucket
      <4>1. taken <= restarts * full + clock * HighRate
        BY <3>1 DEF Budget
      <4> HIDE DEF taken, full
      <4>2. QED
        BY <1>2, <4>1
    <3>2. CASE bucket # NoBucket
      <4>1. bucket.last \in Nat /\ bucket.last <= clock
        BY <3>2 DEF BucketDated, TypeOK
      <4>2. bucket.last * HighRate \in Nat /\ bucket.last * HighRate <= clock * HighRate
        BY <1>1, <4>1, Products
      <4>3. taken + bucket.credit <= (restarts + 1) * full + bucket.last * HighRate
        BY <3>2 DEF Budget
      <4> HIDE DEF taken, full
      <4>4. QED
        BY <1>1, <1>2, <4>2, <4>3
    <3>3. QED
      BY <3>1, <3>2
  <2>3. QED
    BY <2>1, <2>2 DEF Budget, HighBurst, HighRate
<1>4. CASE Tick
  <2>1. clock' = clock + 1 /\ UNCHANGED <<bucket, admitted, restarts>>
    BY <1>4 DEF Tick
  <2>2. CASE bucket = NoBucket
    <3>1. taken <= restarts * full + clock * HighRate
      BY <2>2 DEF Budget
    <3> HIDE DEF taken, full
    <3>2. taken <= restarts * full + (clock + 1) * HighRate
      BY <1>1, <1>2, <3>1
    <3>3. QED
      BY <2>1, <2>2, <3>2 DEF Budget, HighBurst, HighRate, taken, full
  <2>3. CASE bucket # NoBucket
    BY <2>1, <2>3 DEF Budget, HighBurst, HighRate
  <2>4. QED
    BY <2>2, <2>3
<1>5. QED
  BY <1>3, <1>4

\* Every other step leaves the bucket alone or goes through the limiter.
LEMMA NextBudget ==
  ASSUME Inv, Budget, [Next]_vars
  PROVE  Budget'
<1> USE DEF limiterVars
<1>1. TypeOK /\ BucketDated /\ DeviceRate \in Nat /\ DeviceBurst \in Nat /\ ConfirmRate \in Nat
      /\ ConfirmBurst \in Nat
  BY DeviceFlowAssumption DEF Inv
<1>2. ASSUME NEW rate \in {DeviceRate, ConfirmRate}, NEW burst \in {DeviceBurst, ConfirmBurst},
             Admit(rate, burst) \/ Refuse(rate, burst), clock' = clock, restarts' = restarts
      PROVE  Budget'
  BY <1>1, <1>2, LimiterBudget, HigherBounds
<1>3. CASE UNCHANGED <<bucket, admitted, clock, restarts>>
  BY <1>3 DEF Budget, HighBurst, HighRate
<1>4. ASSUME NEW c \in Logins, CLI(c) PROVE Budget'
  <2>1. CASE RequestCode(c) \/ Poll(c)
    BY <1>2, <2>1 DEF RequestCode, Poll
  <2>2. CASE RefuseCode(c) \/ RefusePoll(c)
    BY <1>2, <2>2 DEF RefuseCode, RefusePoll
  <2>3. CASE ~ (RequestCode(c) \/ Poll(c)) /\ ~ (RefuseCode(c) \/ RefusePoll(c))
    BY <1>3, <1>4, <2>3
    DEF CLI, GiveUp, AnswerPending, AnswerDenied, AnswerToken, LoseAnswer, SaveConfig
  <2>4. QED
    BY <2>1, <2>2, <2>3
<1>5. ASSUME NEW r \in Confirm, User(r) PROVE Budget'
  <2>1. ASSUME NEW c \in Logins, Ask(r, c) \/ AskStatus(r, c) PROVE Budget'
    BY <1>2, <2>1 DEF Ask, AskStatus
  <2>2. ASSUME NEW c \in Logins, RefuseAsk(r, c) PROVE Budget'
    BY <1>2, <2>2 DEF RefuseAsk
  <2>3. CASE Deny(r) \/ Mint(r) \/ Authorize(r)
    BY <1>3, <2>3 DEF Deny, Mint, Authorize
  <2>4. QED
    BY <1>5, <2>1, <2>2, <2>3 DEF User
<1>6. CASE TokenStep
  BY <1>3, <1>6
  DEF TokenStep, TokensCreate, WebTokens, TokensDelete, CreateToken, Revoke, ConfigSetToken
<1>7. CASE UNCHANGED vars
  BY <1>3, <1>7 DEF vars
<1>8. QED
  BY <1>1, <1>4, <1>5, <1>6, <1>7, OtherBudget, NextCases

(* The limiter admits no more than a burst for every run of the API and what   *)
(* the faster rate refills in the time that passed, though endpoints with      *)
(* different bursts and rates share the bucket of every caller.                *)
THEOREM AdmissionsBounded == Spec => []AdmissionBounded
<1>1. Init => Budget
  <2> SUFFICES ASSUME Init PROVE Budget
    OBVIOUS
  <2>1. bucket = NoBucket /\ admitted = 0 /\ restarts = 0 /\ clock = 0
    BY DEF Init
  <2>2. HighBurst * Cost \in Nat /\ HighRate \in Nat /\ Cost \in Nat
    BY HigherBounds, DeviceFlowAssumption
  <2>3. QED
    BY <2>1, <2>2 DEF Budget
<1>2. Inv /\ Budget => AdmissionBounded
  <2> SUFFICES ASSUME Inv, Budget PROVE AdmissionBounded
    OBVIOUS
  <2> DEFINE full == HighBurst * Cost
  <2> DEFINE taken == admitted * Cost
  <2>1. /\ Cost \in Nat /\ clock \in Nat /\ admitted \in Nat /\ restarts \in Nat
        /\ HighBurst \in Nat /\ HighRate \in Nat /\ bucket.credit \in Nat
    BY HigherBounds, DeviceFlowAssumption DEF TypeOK, Inv
  <2>2. /\ full \in Nat /\ taken \in Nat /\ clock * HighRate \in Nat
        /\ restarts * full \in Nat /\ (restarts + 1) * full = restarts * full + full
    BY <2>1, Products
  <2>3. (restarts + 1) * HighBurst * Cost = (restarts + 1) * full
    BY <2>1
  <2>4. taken <= (restarts + 1) * full + clock * HighRate
    <3>1. CASE bucket = NoBucket
      <4>1. taken <= restarts * full + clock * HighRate
        BY <3>1 DEF Budget
      <4> HIDE DEF taken, full
      <4>2. QED
        BY <2>2, <4>1
    <3>2. CASE bucket # NoBucket
      <4>1. bucket.last \in Nat /\ bucket.last <= clock
        BY <3>2 DEF BucketDated, TypeOK, Inv
      <4>2. bucket.last * HighRate \in Nat /\ bucket.last * HighRate <= clock * HighRate
        BY <2>1, <4>1, Products
      <4>3. taken + bucket.credit <= (restarts + 1) * full + bucket.last * HighRate
        BY <3>2 DEF Budget
      <4> HIDE DEF taken, full
      <4>4. QED
        BY <2>1, <2>2, <4>2, <4>3
    <3>3. QED
      BY <3>1, <3>2
  <2>5. QED
    BY <2>3, <2>4 DEF AdmissionBounded, HighBurst, HighRate
<1>3. QED
  BY <1>1, <1>2, NextBudget, InvHolds, PTL DEF Spec

-----------------------------------------------------------------------------
(* When a login polls *)

\* The numbers the pace of a login is made of.
LEMMA Numbers ==
  ASSUME TypeOK, NEW c \in Logins
  PROVE  /\ clock \in Nat /\ TTL \in Nat /\ TTL >= 1
         /\ login[c].interval \in Nat /\ login[c].wake \in Nat /\ login[c].deadline \in Nat
         /\ grant[c].expires \in Nat /\ grant[c].polled \in Int /\ approved[c] \in Int
         /\ Never \in Int /\ Begun(c) \in Int /\ Begun(c) = login[c].deadline - TTL
<1>1. TTL \in Nat /\ TTL >= 1 /\ Never \in Int /\ clock \in Nat
  BY DeviceFlowAssumption DEF TypeOK, Never
<1>2. login[c] \in LoginType /\ grant[c] \in GrantType /\ approved[c] \in Nat \cup {Never}
  BY DEF TypeOK
<1>3. /\ login[c].interval \in Nat /\ login[c].wake \in Nat /\ login[c].deadline \in Nat
      /\ grant[c].expires \in Nat /\ grant[c].polled \in Int /\ approved[c] \in Int
  BY <1>1, <1>2 DEF LoginType, GrantType
<1>4. QED
  BY <1>1, <1>3 DEF Begun

\* A login disturbed by no step keeps its pace.
LEMMA PaceKept ==
  ASSUME NEW c \in Logins, Paced(c), clock' = clock, approved'[c] = approved[c],
         login'[c] = login[c], grant'[c] = grant[c]
  PROVE  Paced(c)'
BY DEF Paced, Fresh, Polled, BackedOff, Unseen, Begun

\* A login that polls no more keeps what it is told at its end.
LEMMA PaceEnds ==
  ASSUME NEW c \in Logins, Paced(c), clock' = clock, approved'[c] = approved[c],
         login'[c].pc \in {"holding", "done", "failed"}, login'[c].deadline = login[c].deadline,
         grant'[c].polled <= clock, grant'[c].expires = grant[c].expires \/ login[c].why # "expired",
         grant'[c].status \in {grant[c].status, "none"},
         login'[c].why \in {login[c].why, "none", "limited", "denied", "network"}
  PROVE  Paced(c)'
BY DEF Paced, Begun

\* A first poll comes when the code does; one that is told to slow down follows
\* a good one, and the next comes after the pause; an approval that no poll has
\* seen is no older than the last good poll.
LEMMA PollPaced ==
  ASSUME TypeOK, Codes, NEW c \in Logins, Paced(c), Poll(c)
  PROVE  Paced(c)'
<1> USE DEF decisionVars
<1>1. /\ login[c] \in LoginType /\ grant[c] \in GrantType /\ clock' = clock
      /\ approved'[c] = approved[c] /\ login[c].pc = "waiting" /\ login[c].wake <= clock
      /\ clock < login[c].deadline /\ clock <= login[c].wake
      /\ Fresh(c) \/ (Polled(c) /\ login[c].wake = clock /\ Unseen(c)) \/ BackedOff(c)
      /\ login[c].why = "none"
  BY DEF Poll, Due, Paced, TypeOK, Codes
<1>2. CASE (Expired(grant[c]) \/ grant[c] = NoGrant) /\ Fail(c, "expired") /\ UNCHANGED grant
  <2>1. Expired(grant[c])
    BY <1>1, <1>2 DEF Codes, NoGrant
  <2>2. approved[c] = Never /\ grant[c].expires <= clock
    BY <1>1, <2>1, Numbers DEF Codes, Expired
  <2>3. login'[c].pc = "failed" /\ login'[c].deadline = login[c].deadline
    BY <1>1, <1>2 DEF Fail, TypeOK, LoginType
  <2>4. QED
    BY <1>1, <1>2, <2>2, <2>3 DEF Paced, Begun
<1>3. CASE /\ TooSoon(grant[c]) /\ UNCHANGED grant
           /\ login' = [login EXCEPT ![c].interval = Backoff(@),
                                     ![c].wake = clock + Backoff(login[c].interval)]
  <2>1. /\ login'[c].interval = 2 * login[c].interval
        /\ login'[c].wake = clock + 2 * login[c].interval
        /\ login'[c].deadline = login[c].deadline /\ login'[c].pc = "waiting"
        /\ login'[c].why = "none"
    BY <1>1, <1>3 DEF TypeOK, LoginType, Backoff
  <2>2. Polled(c) /\ Unseen(c)
    BY <1>1, <1>3, Numbers DEF TooSoon, Fresh, BackedOff, Polled
  <2>3. BackedOff(c)'
    BY <1>1, <1>3, <2>1, <2>2, Numbers DEF BackedOff, Polled, Unseen, Begun
  <2>4. clock' <= login'[c].wake
    BY <1>1, <2>1, Numbers
  <2>5. QED
    BY <1>1, <1>3, <2>1, <2>3, <2>4 DEF Paced
<1>4. CASE /\ ~ TooSoon(grant[c]) /\ grant' = [grant EXCEPT ![c].polled = clock]
           /\ login' = [login EXCEPT ![c].pc = "polling", ![c].read = grant[c].status,
                                     ![c].token = grant[c].token]
  <2>1. /\ login'[c].interval = login[c].interval /\ login'[c].pc = "polling"
        /\ login'[c].deadline = login[c].deadline /\ login'[c].why = "none"
        /\ login'[c].read = grant[c].status
        /\ grant'[c].polled = clock /\ grant'[c].status = grant[c].status
    BY <1>1, <1>4 DEF TypeOK, LoginType, GrantType
  <2>2. clock = Begun(c) + 2 * login[c].interval - 2 /\ login[c].interval >= 1
    <3>1. ~ Polled(c)
      BY <1>1, <1>4, Numbers DEF TooSoon, Polled, Never
    <3>2. clock = login[c].wake /\ (Fresh(c) \/ BackedOff(c))
      BY <1>1, <3>1, Numbers
    <3>3. QED
      BY <3>2, Numbers DEF Fresh, BackedOff
  <2>3. Polled(c)'
    BY <1>1, <2>1, <2>2 DEF Polled, Begun
  <2>4. login'[c].read # "authorized" => approved[c] = Never
    <3>1. grant[c].status \in {"pending", "denied", "authorized"}
      BY <1>1 DEF Codes, GrantType, Status
    <3>2. QED
      BY <2>1, <3>1 DEF Codes, Paced
  <2>5. grant'[c].polled <= clock'
    BY <1>1, <2>1, Numbers
  <2>6. QED
    BY <1>1, <2>1, <2>3, <2>4, <2>5 DEF Paced, Unseen
<1>5. QED
  BY <1>2, <1>3, <1>4 DEF Poll

\* A login gives up after a pause that reaches past its deadline: what it has
\* not seen by then was approved in the second half of its wait.
LEMMA GiveUpPaced ==
  ASSUME TypeOK, Codes, NEW c \in Logins, Paced(c), GiveUp(c)
  PROVE  Paced(c)'
<1> USE DEF decisionVars
<1>1. /\ login[c] \in LoginType /\ UNCHANGED <<clock, grant, approved>>
      /\ login[c].pc = "waiting" /\ login[c].wake <= clock
      /\ clock >= login[c].deadline /\ clock <= login[c].wake
      /\ Fresh(c) \/ (Polled(c) /\ login[c].wake = clock /\ Unseen(c)) \/ BackedOff(c)
  BY DEF GiveUp, Due, Paced, TypeOK
<1>2. login'[c].pc = "failed" /\ login'[c].deadline = login[c].deadline
  BY <1>1 DEF GiveUp, Fail, TypeOK, LoginType
<1>3. BackedOff(c)
  BY <1>1, Numbers DEF Fresh, Polled
<1>4. approved[c] # Never => 2 * (approved[c] - Begun(c)) >= TTL - 2
  BY <1>1, <1>3, Numbers DEF BackedOff, Unseen
<1>5. QED
  BY <1>1, <1>2, <1>4 DEF Paced, Begun

\* The CLI's other steps start the pace, take it up again or end it.
LEMMA CliPaced ==
  ASSUME TypeOK, Codes, NEW c \in Logins, Paced(c), CLI(c)
  PROVE  Paced(c)'
<1> USE DEF decisionVars, limiterVars
<1>1. login[c] \in LoginType /\ grant[c] \in GrantType /\ grant[c].polled <= clock
  BY DEF TypeOK, Paced
<1>2. clock' = clock /\ UNCHANGED approved
  BY DEF CLI, RequestCode, RefuseCode, Poll, RefusePoll, GiveUp, AnswerPending, AnswerDenied,
         AnswerToken, LoseAnswer, SaveConfig
<1>3. CASE RequestCode(c)
  <2>1. PICK delay \in 0..MaxDelay :
          login' = [login EXCEPT ![c].pc = "waiting", ![c].wake = clock + delay,
                                 ![c].deadline = clock + delay + TTL]
    BY <1>3 DEF RequestCode
  <2>2. /\ login'[c].pc = "waiting" /\ login'[c].wake = clock + delay
        /\ login'[c].deadline = clock + delay + TTL /\ login'[c].interval = 1
        /\ login'[c].why = "none"
    BY <1>1, <1>3, <2>1 DEF RequestCode, Paced, Codes, TypeOK, LoginType
  <2>3. grant'[c].polled = Never /\ grant'[c].status = "pending"
    BY <1>3 DEF RequestCode, CreateDeviceCode, TypeOK
  <2>4. delay \in Nat
    BY DeviceFlowAssumption
  <2>5. Fresh(c)'
    BY <1>2, <2>2, <2>3, <2>4, Numbers DEF Fresh, Begun
  <2>6. clock' <= login'[c].wake /\ grant'[c].polled <= clock'
    BY <1>2, <2>2, <2>3, <2>4, Numbers DEF Never
  <2>7. QED
    BY <2>2, <2>3, <2>5, <2>6 DEF Paced
<1>4. CASE AnswerPending(c)
  <2>1. /\ login'[c].pc = "waiting" /\ login'[c].wake = clock /\ login'[c].why = login[c].why
        /\ login'[c].interval = login[c].interval /\ login'[c].deadline = login[c].deadline
        /\ grant' = grant
    BY <1>1, <1>4 DEF AnswerPending, TypeOK, LoginType
  <2>2. Polled(c) /\ Unseen(c)
    BY <1>4 DEF AnswerPending, Paced
  <2>3. Polled(c)' /\ Unseen(c)' /\ login[c].why = "none"
    BY <1>2, <1>4, <2>1, <2>2 DEF Polled, Unseen, Begun, AnswerPending, Codes
  <2>4. clock' <= login'[c].wake
    BY <1>2, <2>1, Numbers
  <2>5. QED
    BY <1>2, <2>1, <2>3, <2>4, <1>1 DEF Paced
<1>5. CASE RefuseCode(c) \/ RefusePoll(c) \/ AnswerDenied(c) \/ SaveConfig(c)
  <2>1. grant' = grant
    BY <1>5 DEF RefuseCode, RefusePoll, AnswerDenied, SaveConfig
  <2>2. /\ login'[c].pc \in {"done", "failed"} /\ login'[c].deadline = login[c].deadline
        /\ login'[c].why \in {login[c].why, "limited", "denied"}
    BY <1>1, <1>5 DEF RefuseCode, RefusePoll, AnswerDenied, SaveConfig, Fail, TypeOK, LoginType
  <2>3. QED
    BY <1>1, <1>2, <2>1, <2>2, PaceEnds
<1>6. CASE AnswerToken(c) \/ LoseAnswer(c)
  <2>1. Consume(c) \/ UNCHANGED grant
    BY <1>6 DEF AnswerToken, LoseAnswer
  <2>2. grant'[c] = grant[c] \/ grant'[c] = NoGrant
    BY <2>1, Consumed
  <2>3. grant'[c].polled <= clock /\ grant'[c].status \in {grant[c].status, "none"}
    BY <1>1, <2>2, Numbers DEF NoGrant, Never
  <2>4. /\ login'[c].pc \in {"holding", "failed"} /\ login'[c].deadline = login[c].deadline
        /\ login'[c].why \in {login[c].why, "network"} /\ login[c].why = "none"
    BY <1>1, <1>6 DEF AnswerToken, LoseAnswer, Fail, TypeOK, LoginType, Codes
  <2>5. QED
    BY <1>2, <2>3, <2>4, PaceEnds
<1>7. QED
  BY <1>3, <1>4, <1>5, <1>6, PollPaced, GiveUpPaced DEF CLI

\* An approval comes no earlier than the last poll; one that finds its login
\* expired comes after the deadline.
LEMMA UserPaced ==
  ASSUME TypeOK, Codes, Confirmations, NEW r \in Confirm, User(r), NEW c \in Logins, Paced(c)
  PROVE  Paced(c)'
<1> USE DEF decisionVars, limiterVars
<1>1. UNCHANGED <<clock, login>>
  BY DEF User, Ask, AskStatus, RefuseAsk, Deny, Mint, Authorize
<1>2. CASE grant'[c] = grant[c] /\ approved'[c] = approved[c]
  BY <1>1, <1>2, PaceKept
<1>3. CASE Deny(r) /\ confirm[r].login = c /\ Open(c)
  <2>1. /\ grant'[c].status = "denied" /\ grant'[c].polled = grant[c].polled
        /\ grant'[c].expires = grant[c].expires /\ approved' = approved /\ approved[c] = Never
    BY <1>3 DEF Deny, Open, Codes, TypeOK, GrantType
  <2>2. QED
    BY <1>1, <2>1 DEF Paced, Fresh, Polled, BackedOff, Unseen, Begun
<1>4. CASE Authorize(r) /\ confirm[r].login = c /\ Open(c)
  <2>1. /\ grant'[c].status = "authorized" /\ grant'[c].polled = grant[c].polled
        /\ grant'[c].expires = grant[c].expires /\ approved'[c] = clock /\ approved[c] = Never
        /\ clock < grant[c].expires
    BY <1>4 DEF Authorize, Open, Codes, TypeOK, GrantType
  <2>2. Unseen(c)' /\ approved'[c] # Never
    BY <1>1, <2>1, Numbers DEF Unseen, Paced, Never
  <2>3. login[c].why = "expired" => 2 * (clock - Begun(c)) >= TTL - 2
    <3>1. SUFFICES ASSUME login[c].why = "expired" PROVE 2 * (clock - Begun(c)) >= TTL - 2
      OBVIOUS
    <3>2. clock >= login[c].deadline
      BY <2>1, <3>1, Numbers DEF Paced
    <3>3. QED
      BY <3>2, Numbers
  <2>4. QED
    BY <1>1, <2>1, <2>2, <2>3 DEF Paced, Fresh, Polled, BackedOff, Begun
<1>5. CASE ~ (Deny(r) /\ confirm[r].login = c /\ Open(c))
           /\ ~ (Authorize(r) /\ confirm[r].login = c /\ Open(c))
  <2>1. grant'[c] = grant[c] /\ approved'[c] = approved[c]
    BY <1>5 DEF User, Ask, AskStatus, RefuseAsk, Deny, Mint, Authorize, TypeOK
  <2>2. QED
    BY <1>2, <2>1
<1>6. QED
  BY <1>3, <1>4, <1>5

\* Time stands still while a login is due, and passes nothing else by.
LEMMA NextPace ==
  ASSUME Inv, Pace, [Next]_vars
  PROVE  Pace'
<1> USE DEF decisionVars, limiterVars
<1> SUFFICES ASSUME NEW c \in Logins PROVE Paced(c)'
  BY DEF Pace
<1>1. TypeOK /\ Codes /\ Confirmations /\ Paced(c)
  BY DEF Inv, Pace
<1>2. ASSUME NEW d \in Logins, CLI(d) PROVE Paced(c)'
  <2>1. CASE d = c
    BY <1>1, <1>2, <2>1, CliPaced
  <2>2. CASE d # c
    <3>1. clock' = clock /\ approved' = approved /\ login'[c] = login[c] /\ grant'[c] = grant[c]
      BY <1>1, <1>2, <2>2
      DEF CLI, RequestCode, CreateDeviceCode, RefuseCode, Poll, RefusePoll, GiveUp, AnswerPending,
          AnswerDenied, AnswerToken, LoseAnswer, SaveConfig, Fail, Consume, TypeOK
    <3>2. QED
      BY <1>1, <3>1, PaceKept
  <2>3. QED
    BY <2>1, <2>2
<1>3. ASSUME NEW r \in Confirm, User(r) PROVE Paced(c)'
  BY <1>1, <1>3, UserPaced
<1>4. CASE TokenStep \/ UNCHANGED vars
  <2>1. UNCHANGED <<clock, approved, login, grant>>
    BY <1>4 DEF TokenStep, TokensCreate, WebTokens, TokensDelete, CreateToken, Revoke,
                ConfigSetToken, vars
  <2>2. QED
    BY <1>1, <2>1, PaceKept
<1>5. CASE RestartAPI
  <2>1. UNCHANGED <<clock, approved, grant>>
    BY <1>5 DEF RestartAPI
  <2>2. \/ login'[c] = login[c]
        \/ /\ login'[c].pc = "failed" /\ login'[c].why = "network"
           /\ login'[c].deadline = login[c].deadline
    BY <1>1, <1>5 DEF RestartAPI, TypeOK, LoginType
  <2>3. QED
    BY <1>1, <2>1, <2>2, PaceKept DEF Paced
<1>6. CASE Tick
  <2>1. /\ clock' = clock + 1 /\ UNCHANGED <<approved, login, grant>>
        /\ ~ Due(c) /\ login[c].pc # "polling"
    BY <1>6 DEF Tick
  <2>2. grant[c].polled <= clock'
    BY <1>1, <2>1, Numbers DEF Paced
  <2>3. login[c].pc = "waiting" => /\ clock' <= login[c].wake
                                   /\ Fresh(c) \/ BackedOff(c)
    BY <1>1, <2>1, Numbers DEF Paced, Due
  <2>4. clock >= login[c].deadline => clock' >= login[c].deadline
    BY <1>1, <2>1, Numbers
  <2>5. grant[c].expires <= clock => grant[c].expires <= clock'
    BY <1>1, <2>1, Numbers
  <2>6. QED
    BY <1>1, <2>1, <2>2, <2>3, <2>4, <2>5 DEF Paced, Fresh, BackedOff, Unseen, Begun
<1>7. QED
  BY <1>2, <1>3, <1>4, <1>5, <1>6, NextCases

(* A login that ends with "device code expired" was not approved in the first  *)
(* half of its wait, less the first pause: although every good poll is told to *)
(* slow down at once and the pause doubles, the last poll comes late enough.   *)
THEOREM EarlyApprovalsServed == Spec => []EarlyApprovalServed
<1>1. Init => Pace
  BY DeviceFlowAssumption
  DEF Init, Pace, Paced, NewLogin, NoGrant, Never
<1>2. Pace => EarlyApprovalServed
  BY DEF Pace, Paced, EarlyApprovalServed, Begun
<1>3. QED
  BY <1>1, <1>2, NextPace, InvHolds, PTL DEF Spec
-----------------------------------------------------------------------------
(* The terminal browser                                                        *)

\* What is asked for: an item of the sidebar, a search, or a preview.
Item == Feeds \cup {Tab, Folder}

\* Each kind of call asks for something of its own, and what was served fits it.
CallRight(c) ==
  /\ c.kind = "list" => c.of \in Item
  /\ c.kind = "search" => c.of = "search"
  /\ c.kind = "get" => c.of = "preview"
  /\ c.kind = "subs" => c.of \in Feeds
  /\ c.kind \in {"mark", "url"} => c.of \in Entries /\ c.mark \in Marks
  /\ c.kind \in {"list", "search", "get"} => c.rows \subseteq Entries \X Marks
  /\ c.kind = "feeds" => c.rows \subseteq Feeds \X {None, Folder}
  /\ c.kind = "folders" => c.rows \subseteq {Folder}
  /\ c.phase = "sent" => c.rows = {} /\ c.old = {}

\* What a served call carries is the API's, but for entries changed since.
CarriesRight(c) ==
  c.phase = "served" =>
    /\ c.kind \in {"list", "search", "get"} => \A r \in c.rows : r[1] \notin c.old => r[2] = status[r[1]]
    /\ \A e \in Marked(c) \ c.old : status[e] = Read(c)

\* The cursor of the list is on a row.
Within == entries # <<>> => at + 1 \in DOMAIN entries

\* Unless something was changed elsewhere, what is loaded and what is on its way is
\* what the API has, so the sidebar only grows and its cursor is on an item.
Grown == feeds \in {{}, FeedRows} /\ (folders => FolderRows = {Folder})
OnItem ==
  ~altered =>
    /\ Grown /\ (cursor = 0 \/ InRange(cursor))
    /\ \A i \in DOMAIN calls : calls[i].phase = "served" =>
         /\ calls[i].kind = "feeds" => calls[i].rows = FeedRows
         /\ calls[i].kind = "folders" => calls[i].rows = FolderRows

\* "Loading..." is on the screen for a call.
LoadingRight == loading => UnderWay(Main \cup {"feeds"}) \/ unlisted

\* The last of the panel's calls is the one that was asked for last, and once it is
\* answered the panel shows what it asked for.
LastFor(i) ==
  /\ calls[i].kind \in Main /\ \A j \in i + 1 .. Len(calls) : calls[j].kind \notin Main
  /\ due # None => calls[i].of = due
PanelRight ==
  /\ ~settled => \E i \in DOMAIN calls : LastFor(i)
  /\ settled /\ due # None => IF due = "preview" THEN preview.open ELSE ~preview.open /\ shown = due

\* A search that was asked for is typed, and a preview is not asked for while one is.
SearchRight ==
  mode # "panic" =>
    /\ due = "search" => mode = "search" \/ query > 0
    /\ mode = "search" /\ query > 0 => due # "preview"

\* The item that was asked for is the one under the cursor.
LitRight == due \in Item /\ ~unlisted => Selected = due

\* The counts are those of the item last loaded.
CountsRight == subsLast # None => subsLast = subsFor /\ subsLast \in cache

\* A row shows the API's mark, unless the panel missed a change of it, or will get it
\* with the answer to a call of one of these kinds.
RowsRight(rows, known, kinds) ==
  \A k \in DOMAIN rows : rows[k].entry \in known =>
    \/ rows[k].mark = status[rows[k].entry]
    \/ \E i \in DOMAIN calls : /\ calls[i].kind \in kinds /\ calls[i].phase = "served"
                               /\ rows[k].entry \in Marked(calls[i]) \ calls[i].old
MarksRight ==
  /\ RowsRight(entries, fresh, {"mark", "all"})
  /\ RowsRight(preview.rows, preview.fresh, {"url"})
  /\ ~preview.open => preview.rows = <<>>

TuiInv ==
  /\ TuiTypes
  /\ \A i \in DOMAIN calls : CallRight(calls[i]) /\ CarriesRight(calls[i])
  /\ Within /\ OnItem /\ PanicsOnlyAfterChange /\ LoadingRight
  /\ PanelRight /\ SearchRight /\ LitRight /\ CountsRight /\ MarksRight

-----------------------------------------------------------------------------
(* Sequences of calls                                                          *)

\* A sequence of calls with one more, and with one taken out.
LEMMA RemoveAtElements ==
  ASSUME NEW S, NEW s \in Seq(S), NEW n \in DOMAIN s, NEW t, t = RemoveAt(s, n)
  PROVE  /\ t \in Seq(S) /\ Len(t) = Len(s) - 1 /\ DOMAIN t = 1..Len(s) - 1
         /\ DOMAIN s = 1..Len(s) /\ Len(s) \in Nat
         /\ \A k \in 1..Len(s) - 1 : t[k] = IF k < n THEN s[k] ELSE s[k + 1]
<1> DEFINE a == SubSeq(s, 1, n - 1)
           b == SubSeq(s, n + 1, Len(s))
<1>0. t = a \o b
  BY DEF RemoveAt
<1>1. Len(s) \in Nat /\ DOMAIN s = 1..Len(s) /\ n \in 1..Len(s) /\ \A i \in 1..Len(s) : s[i] \in S
  BY LenProperties, ElementOfSeq
<1>2. a \in Seq(S) /\ Len(a) = n - 1 /\ \A i \in 1..n - 1 : a[i] = s[i]
  <2>1. \A i \in 1..n - 1 : s[i] \in S
    BY <1>1
  <2>2. /\ a \in Seq(S) /\ Len(a) = IF 1 <= n - 1 THEN n - 1 - 1 + 1 ELSE 0
        /\ \A i \in 1..(n - 1 - 1 + 1) : a[i] = s[1 + i - 1]
    BY <1>1, <2>1, SubSeqProperties
  <2>3. Len(a) = n - 1
    BY <1>1, <2>2
  <2>4. ASSUME NEW i \in 1..n - 1 PROVE a[i] = s[i]
    <3>1. i \in 1..(n - 1 - 1 + 1) /\ 1 + i - 1 = i
      BY <1>1
    <3>2. QED
      BY <2>2, <3>1
  <2>5. QED
    BY <2>2, <2>3, <2>4
<1>3. b \in Seq(S) /\ Len(b) = Len(s) - n /\ \A i \in 1..Len(s) - n : b[i] = s[n + i]
  <2>1. \A i \in n + 1..Len(s) : s[i] \in S
    BY <1>1
  <2>2. /\ b \in Seq(S) /\ Len(b) = IF n + 1 <= Len(s) THEN Len(s) - (n + 1) + 1 ELSE 0
        /\ \A i \in 1..(Len(s) - (n + 1) + 1) : b[i] = s[(n + 1) + i - 1]
    BY <1>1, <2>1, SubSeqProperties
  <2>3. Len(b) = Len(s) - n
    BY <1>1, <2>2
  <2>4. ASSUME NEW i \in 1..Len(s) - n PROVE b[i] = s[n + i]
    <3>1. i \in 1..(Len(s) - (n + 1) + 1) /\ (n + 1) + i - 1 = n + i
      BY <1>1
    <3>2. QED
      BY <2>2, <3>1
  <2>5. QED
    BY <2>2, <2>3, <2>4
<1> HIDE DEF a, b
<1>4. /\ t \in Seq(S) /\ Len(t) = Len(a) + Len(b)
      /\ \A i \in 1..Len(a) + Len(b) : t[i] = IF i <= Len(a) THEN a[i] ELSE b[i - Len(a)]
  BY <1>0, <1>2, <1>3, ConcatProperties
<1>5. Len(t) = Len(s) - 1
  BY <1>1, <1>2, <1>3, <1>4
<1>6. ASSUME NEW k \in 1..Len(s) - 1
      PROVE  t[k] = IF k < n THEN s[k] ELSE s[k + 1]
  <2>1. k \in 1..Len(a) + Len(b) /\ k \in Int
    BY <1>1, <1>2, <1>3
  <2>2. CASE k < n
    <3>1. k <= Len(a) /\ k \in 1..n - 1
      BY <1>1, <1>2, <2>2
    <3>2. QED
      BY <1>2, <1>4, <2>1, <2>2, <3>1
  <2>3. CASE ~ (k < n)
    <3>1. ~ (k <= Len(a)) /\ k - Len(a) \in 1..Len(s) - n /\ n + (k - Len(a)) = k + 1
      BY <1>1, <1>2, <2>3
    <3>2. QED
      BY <1>3, <1>4, <2>1, <2>3, <3>1
  <2>4. QED
    BY <2>2, <2>3
<1>7. QED
  BY <1>1, <1>4, <1>5, <1>6, LenProperties

\* What is sent goes behind what is under way.
LEMMA Behind ==
  ASSUME NEW S, NEW p \in Seq(S), NEW more \in Seq(S), NEW t, t = p \o more
  PROVE  /\ t \in Seq(S) /\ Len(t) = Len(p) + Len(more) /\ DOMAIN t = 1..Len(p) + Len(more)
         /\ Len(p) \in Nat /\ Len(more) \in Nat /\ DOMAIN p = 1..Len(p) /\ DOMAIN more = 1..Len(more)
         /\ \A k \in 1..Len(p) : t[k] = p[k]
         /\ \A k \in 1..Len(more) : t[Len(p) + k] = more[k]
<1>1. /\ t \in Seq(S) /\ Len(t) = Len(p) + Len(more)
      /\ \A i \in 1..Len(p) + Len(more) : t[i] = IF i <= Len(p) THEN p[i] ELSE more[i - Len(p)]
  BY ConcatProperties
<1>2. /\ Len(p) \in Nat /\ Len(more) \in Nat /\ DOMAIN p = 1..Len(p) /\ DOMAIN more = 1..Len(more)
      /\ DOMAIN t = 1..Len(t)
  BY <1>1, LenProperties
<1>3. ASSUME NEW k \in 1..Len(p) PROVE t[k] = p[k]
  BY <1>1, <1>2
<1>4. ASSUME NEW k \in 1..Len(more) PROVE t[Len(p) + k] = more[k]
  <2>1. Len(p) + k \in 1..Len(p) + Len(more) /\ ~ (Len(p) + k <= Len(p)) /\ Len(p) + k - Len(p) = k
    BY <1>2
  <2>2. QED
    BY <1>1, <2>1
<1>5. QED
  BY <1>1, <1>2, <1>3, <1>4

\* A set that is finite is put in a sequence of its elements.
LEMMA SetToSeqType ==
  ASSUME NEW S, IsFiniteSet(S)
  PROVE  SetToSeq(S) \in Seq(S) /\ Len(SetToSeq(S)) = Cardinality(S) /\ Cardinality(S) \in Nat
<1> DEFINE n == Cardinality(S)
<1>1. n \in Nat /\ ExistsBijection(1..n, S)
  BY FS_CardinalityType
<1>2. \E f \in [1..n -> S] : IsInjective(f)
  BY <1>1 DEF ExistsBijection, Bijection, Injection
<1>3. SetToSeq(S) \in [1..n -> S]
  <2>1. SetToSeq(S) = CHOOSE f \in [1..n -> S] : IsInjective(f)
    BY DEF SetToSeq
  <2> HIDE DEF n
  <2>2. QED
    BY <1>2, <2>1
<1> HIDE DEF n
<1>4. SetToSeq(S) \in Seq(S) /\ Len(SetToSeq(S)) = n
  BY <1>1, <1>3
<1>5. QED
  BY <1>1, <1>4 DEF n

-----------------------------------------------------------------------------
(* The sidebar                                                                 *)

\* Items, as a function of what has been loaded.
Placed(fs, place) == {f \in Feeds : <<f, place>> \in fs}
Shape(fs, fo, re) ==
  IF ~re THEN <<>>
  ELSE <<Tab>> \o InOrder[Placed(fs, None)]
       \o (IF fo THEN <<Folder>> \o InOrder[Placed(fs, Folder)] ELSE <<>>)

\* The sidebar is the shape of what has been loaded, before a step and after it.
LEMMA ItemsShape ==
  Items = Shape(feeds, folders, rebuilt) /\ Items' = Shape(feeds', folders', rebuilt')
BY DEF Items, Shape, In, Placed

\* A step that loads nothing into the sidebar leaves its items and the one selected.
LEMMA SameItems ==
  ASSUME UNCHANGED sidebar
  PROVE  /\ Items' = Items
         /\ cursor' = cursor => Selected' = Selected /\ (InRange(cursor)' <=> InRange(cursor))
<1>1. Items' = Items
  BY ItemsShape DEF sidebar
<1>2. QED
  BY <1>1 DEF Selected, InRange

\* A set of feeds in order.
LEMMA InOrderType ==
  ASSUME NEW S \in SUBSET Feeds
  PROVE  /\ InOrder[S] \in Seq(Item) /\ InOrder[S] \in Seq(Feeds)
         /\ Len(InOrder[S]) = Cardinality(S) /\ Cardinality(S) \in Nat
<1>1. IsFiniteSet(S)
  BY TuiAssumption, FS_Subset
<1>2. InOrder[S] = SetToSeq(S)
  BY DEF InOrder
<1>3. SetToSeq(S) \in Seq(S) /\ Len(SetToSeq(S)) = Cardinality(S) /\ Cardinality(S) \in Nat
  BY <1>1, SetToSeqType
<1>4. S \subseteq Item /\ S \subseteq Feeds
  BY DEF Item
<1>5. QED
  BY <1>2, <1>3, <1>4

\* The items are the fixed one, the feeds outside the folder, then the folder and its
\* feeds once they are loaded.
LEMMA ShapeIs ==
  ASSUME NEW fs, NEW fo \in BOOLEAN
  PROVE  LET top == Shape(fs, FALSE, TRUE)
         IN /\ Shape(fs, fo, TRUE) \in Seq(Item)
            /\ Len(top) = 1 + Cardinality(Placed(fs, None)) /\ Len(top) \in Nat /\ Len(top) > 0
            /\ Len(Shape(fs, TRUE, TRUE)) = 2 + Cardinality(Placed(fs, None)) + Cardinality(Placed(fs, Folder))
            /\ \A k \in 1..Len(top) : Shape(fs, TRUE, TRUE)[k] = top[k]
            /\ Cardinality(Placed(fs, None)) \in Nat /\ Cardinality(Placed(fs, Folder)) \in Nat
<1> DEFINE out == InOrder[Placed(fs, None)]
           in == InOrder[Placed(fs, Folder)]
           head == <<Tab>> \o out
           tail == <<Folder>> \o in
<1>0. Placed(fs, None) \in SUBSET Feeds /\ Placed(fs, Folder) \in SUBSET Feeds
  BY DEF Placed
<1>1. /\ out \in Seq(Item) /\ Len(out) = Cardinality(Placed(fs, None)) /\ Cardinality(Placed(fs, None)) \in Nat
      /\ in \in Seq(Item) /\ Len(in) = Cardinality(Placed(fs, Folder)) /\ Cardinality(Placed(fs, Folder)) \in Nat
  BY <1>0, InOrderType
<1>2. <<Tab>> \in Seq(Item) /\ Len(<<Tab>>) = 1 /\ <<Folder>> \in Seq(Item) /\ Len(<<Folder>>) = 1
      /\ <<>> \in Seq(Item) /\ Len(<<>>) = 0
  BY DEF Item
<1>3. Shape(fs, FALSE, TRUE) = head \o <<>> /\ Shape(fs, TRUE, TRUE) = head \o tail
  BY DEF Shape
<1> HIDE DEF out, in
<1>4. head \in Seq(Item) /\ Len(head) = 1 + Len(out)
  BY <1>1, <1>2, Behind
<1>5. tail \in Seq(Item) /\ Len(tail) = 1 + Len(in)
  BY <1>1, <1>2, Behind
<1> HIDE DEF head, tail
<1>6. head \o <<>> = head
  BY <1>4, ConcatEmptySeq
<1> PICK first : first = head
  OBVIOUS
<1> PICK second : second = tail
  OBVIOUS
<1> PICK both : both = first \o second
  OBVIOUS
<1>7. /\ head \o tail \in Seq(Item) /\ Len(head \o tail) = Len(head) + Len(tail)
      /\ \A k \in 1..Len(head) : (head \o tail)[k] = head[k]
  <2>1. /\ both \in Seq(Item) /\ Len(both) = Len(first) + Len(second)
        /\ \A k \in 1..Len(first) : both[k] = first[k]
    <3>1. first \in Seq(Item) /\ second \in Seq(Item)
      BY <1>4, <1>5
    <3>2. QED
      BY <3>1, Behind
  <2>2. QED
    BY <2>1
<1>8. Len(head) = 1 + Cardinality(Placed(fs, None)) /\ Len(head) \in Nat /\ Len(head) > 0
  BY <1>1, <1>4
<1>9. Len(head \o tail) = 2 + Cardinality(Placed(fs, None)) + Cardinality(Placed(fs, Folder))
  BY <1>1, <1>4, <1>5, <1>7
<1>10. fo = TRUE \/ fo = FALSE
  OBVIOUS
<1>11. Shape(fs, fo, TRUE) \in Seq(Item)
  BY <1>3, <1>4, <1>6, <1>7, <1>10
<1>12. QED
  BY <1>1, <1>3, <1>6, <1>7, <1>8, <1>9, <1>11

\* The selected item, if the cursor is on one.
LEMMA ItemsType ==
  ASSUME TuiTypes
  PROVE  /\ Items \in Seq(Item) /\ Len(Items) \in Nat /\ (Items # <<>> => Len(Items) > 0)
         /\ (Items = <<>> => Len(Items) = 0) /\ DOMAIN Items = 1..Len(Items)
         /\ \A c \in Nat : InRange(c) => Items[c + 1] \in Item
         /\ Selected \in Item \cup {None} /\ (InRange(cursor) => Selected \in Item)
         /\ None \notin Item
<1>1. folders \in BOOLEAN /\ rebuilt \in BOOLEAN /\ cursor \in Nat
  BY InOrderType, TuiAssumption, FS_CardinalityType DEF TuiTypes
<1>2. Items \in Seq(Item)
  <2>1. CASE rebuilt
    <3>1. Items = Shape(feeds, folders, TRUE)
      BY <2>1, ItemsShape DEF Shape
    <3>2. QED
      BY <1>1, <3>1, ShapeIs
  <2>2. CASE ~rebuilt
    BY <2>2, ItemsShape DEF Shape
  <2>3. QED
    BY <2>1, <2>2
<1>3. Len(Items) \in Nat /\ (Items # <<>> => Len(Items) > 0) /\ (Items = <<>> => Len(Items) = 0)
      /\ DOMAIN Items = 1..Len(Items) /\ \A k \in 1..Len(Items) : Items[k] \in Item
  BY <1>2, LenProperties, ElementOfSeq, EmptySeq
<1>4. ASSUME NEW c \in Nat, InRange(c) PROVE Items[c + 1] \in Item
  <2>1. c + 1 \in 1..Len(Items)
    BY <1>3, <1>4 DEF InRange
  <2>2. QED
    BY <1>3, <2>1
<1>5. Selected \in Item \cup {None} /\ (InRange(cursor) => Selected \in Item)
  BY <1>1, <1>4 DEF Selected
<1>6. None \notin Item
  BY TuiAssumption DEF Item
<1>7. QED
  BY <1>2, <1>3, <1>4, <1>5, <1>6

\* When what is loaded only adds to what was, the cursor stays on an item.
LEMMA SidebarGrows ==
  ASSUME TuiTypes, cursor' = cursor, rebuilt' = TRUE, feeds = {} \/ feeds = feeds', folders' \in BOOLEAN, folders => folders'
  PROVE  cursor = 0 \/ InRange(cursor) => InRange(cursor)'
<1>1. folders \in BOOLEAN /\ rebuilt \in BOOLEAN /\ cursor \in Nat
  BY TuiAssumption, FS_CardinalityType DEF TuiTypes
<1>2. Items' = Shape(feeds', folders', TRUE) /\ Items = Shape(feeds, folders, rebuilt)
  BY ItemsShape
<1> PICK gs : gs = feeds
  OBVIOUS
<1> PICK fs : fs = feeds'
  OBVIOUS
<1> PICK go \in BOOLEAN : go = folders
  BY <1>1
<1> PICK fo \in BOOLEAN : fo = folders'
  OBVIOUS
<1> DEFINE o == Cardinality(Placed(gs, None))
           i == Cardinality(Placed(gs, Folder))
           p == Cardinality(Placed(fs, None))
           q == Cardinality(Placed(fs, Folder))
<1>3. Len(Shape(gs, FALSE, TRUE)) = 1 + o /\ Len(Shape(gs, TRUE, TRUE)) = 2 + o + i /\ o \in Nat /\ i \in Nat
  BY ShapeIs
<1>4. Len(Shape(fs, FALSE, TRUE)) = 1 + p /\ Len(Shape(fs, TRUE, TRUE)) = 2 + p + q /\ p \in Nat /\ q \in Nat
  BY ShapeIs
<1>5. o <= p /\ i <= q
  <2>1. CASE gs = fs
    BY <1>3, <2>1
  <2>2. CASE gs = {}
    <3>1. Placed(gs, None) = {} /\ Placed(gs, Folder) = {}
      BY <2>2 DEF Placed
    <3>2. o = 0 /\ i = 0
      BY <3>1, FS_EmptySet
    <3>3. QED
      BY <1>4, <3>2
  <2>3. QED
    BY <2>1, <2>2
<1> HIDE DEF o, i, p, q
<1>6. Len(Items') = IF fo THEN 2 + p + q ELSE 1 + p
  BY <1>2, <1>4
<1>7. Len(Items) = IF ~rebuilt THEN 0 ELSE IF go THEN 2 + o + i ELSE 1 + o
  BY <1>1, <1>2, <1>3 DEF Shape
<1>8. go => fo
  OBVIOUS
<1>9. Len(Items) <= Len(Items') /\ Len(Items') > 0 /\ Len(Items') \in Nat /\ Len(Items) \in Nat
  BY <1>3, <1>4, <1>5, <1>6, <1>7, <1>8
<1>10. QED
  BY <1>1, <1>9 DEF InRange

\* What the API would answer, and what is loaded, when neither changes.
LEMMA SameRows ==
  ASSUME UNCHANGED <<subscribed, filed, folder>>
  PROVE  FeedRows' = FeedRows /\ FolderRows' = FolderRows /\ (UNCHANGED sidebar => (Grown' <=> Grown))
<1>1. FeedRows' = FeedRows /\ FolderRows' = FolderRows
  BY DEF FeedRows, FolderRows
<1>2. QED
  BY <1>1 DEF Grown, sidebar

-----------------------------------------------------------------------------
(* Calls under way                                                             *)

\* A call that was just made.
Asked(c) == c \in CallType /\ c.phase = "sent" /\ CallRight(c)

\* Calls that were under way already, and those of some kinds that all still are.
FromCalls(p) == p \in Seq(CallType) /\ \A k \in DOMAIN p : \E j \in DOMAIN calls : p[k] = calls[j]
StillIn(p, kinds) ==
  \A j \in DOMAIN calls : calls[j].kind \in kinds => \E k \in DOMAIN p : p[k] = calls[j]

\* Of a step: every call after it was there before or is new; calls of these kinds stay.
OldOrNew ==
  calls' \in Seq(CallType) /\ \A k \in DOMAIN calls' : Asked(calls'[k]) \/ \E j \in DOMAIN calls : calls'[k] = calls[j]
Keeps(kinds) == StillIn(calls', kinds)

\* What the calls are, element by element.
LEMMA CallsType ==
  ASSUME TuiTypes
  PROVE  /\ calls \in Seq(CallType) /\ DOMAIN calls = 1..Len(calls) /\ Len(calls) \in Nat
         /\ \A i \in DOMAIN calls : calls[i] \in CallType /\ i \in Nat
BY LenProperties, ElementOfSeq DEF TuiTypes

\* A command is a new call, and asks for what it was made for.
LEMMA NewCalls ==
  /\ Asked(LoadFeeds) /\ LoadFeeds.kind = "feeds" /\ Asked(LoadFolders) /\ LoadFolders.kind = "folders"
  /\ \A item \in Item : Asked(LoadEntries(item)) /\ LoadEntries(item).kind = "list" /\ LoadEntries(item).of = item
  /\ Asked(SearchEntries) /\ SearchEntries.kind = "search" /\ SearchEntries.of = "search"
  /\ \A f \in Feeds : /\ Asked(FetchFeedSubs(f)) /\ FetchFeedSubs(f).kind = "subs"
                      /\ Asked(RefreshFeed(f)) /\ RefreshFeed(f).kind = "refresh"
                      /\ Asked(MarkFeedRead(f)) /\ MarkFeedRead(f).kind = "all"
  /\ Asked(GetFeed) /\ GetFeed.kind = "get" /\ GetFeed.of = "preview"
  /\ \A e \in Entries, m \in Marks :
       /\ Asked(SetEntryStatusByUrl(e, m)) /\ SetEntryStatusByUrl(e, m).kind = "url"
       /\ Asked(SetEntryStatus(e, m)) /\ SetEntryStatus(e, m).kind = "mark"
<1>1. ASSUME NEW kind \in {"feeds", "folders", "list", "search", "subs", "get", "mark", "url", "refresh", "all"},
             NEW of \in Feeds \cup Entries \cup {Tab, Folder, None, "search", "preview"},
             NEW mark \in Marks \cup {None}, NEW c,
             c = [kind |-> kind, of |-> of, mark |-> mark, phase |-> "sent", rows |-> {}, old |-> {}]
      PROVE  /\ c \in CallType /\ c.kind = kind /\ c.of = of /\ c.mark = mark /\ c.phase = "sent"
             /\ c.rows = {} /\ c.old = {}
  <2>1. {} \in (SUBSET (Entries \X Marks)) \cup (SUBSET (Feeds \X {None, Folder})) \cup SUBSET {Folder} /\ {} \in SUBSET Entries
    BY Zenon
  <2>2. "sent" \in {"sent", "served", "failed", "refused"}
    OBVIOUS
  <2> HIDE DEF Marks
  <2>3. c \in CallType
    BY <1>1, <2>1, <2>2 DEF CallType
  <2>4. QED
    BY <1>1, <2>3
<1>2. ASSUME NEW of \in Feeds \cup Entries \cup {Tab, Folder, None, "search", "preview"},
             NEW kind \in {"feeds", "folders", "list", "search", "subs", "get", "refresh", "all"},
             kind = "list" => of \in Item, kind = "search" => of = "search", kind = "get" => of = "preview",
             kind = "subs" => of \in Feeds
      PROVE  Asked(Call(kind, of)) /\ Call(kind, of).kind = kind /\ Call(kind, of).of = of
  <2> DEFINE c == Call(kind, of)
  <2>0. c = [kind |-> kind, of |-> of, mark |-> None, phase |-> "sent", rows |-> {}, old |-> {}]
    BY DEF Call
  <2>9. None \in Marks \cup {None}
    BY Zenon
  <2> HIDE DEF c
  <2>1. /\ c \in CallType /\ c.kind = kind /\ c.of = of /\ c.phase = "sent" /\ c.rows = {} /\ c.old = {}
    BY <1>1, <2>0, <2>9
  <2>2. CallRight(c)
    BY <1>2, <2>1 DEF CallRight
  <2>3. QED
    BY <2>1, <2>2 DEF Asked, c
<1>3. ASSUME NEW e \in Entries, NEW m \in Marks, NEW kind \in {"mark", "url"}
      PROVE  LET c == [Call(kind, e) EXCEPT !.mark = m] IN Asked(c) /\ c.kind = kind
  <2> DEFINE c == [Call(kind, e) EXCEPT !.mark = m]
  <2>0. c = [kind |-> kind, of |-> e, mark |-> m, phase |-> "sent", rows |-> {}, old |-> {}]
    BY DEF Call
  <2>1. /\ c \in CallType /\ c.kind = kind /\ c.of = e /\ c.mark = m /\ c.phase = "sent" /\ c.rows = {} /\ c.old = {}
    BY <1>1, <2>0
  <2> HIDE DEF c
  <2>2. CallRight(c)
    BY <1>3, <2>1 DEF CallRight
  <2>3. QED
    BY <2>1, <2>2 DEF Asked, c
<1>4. Item \subseteq Feeds \cup Entries \cup {Tab, Folder, None, "search", "preview"}
  BY DEF Item
<1>5. Asked(LoadFeeds) /\ LoadFeeds.kind = "feeds" /\ Asked(LoadFolders) /\ LoadFolders.kind = "folders"
  BY <1>2 DEF LoadFeeds, LoadFolders
<1>6. ASSUME NEW item \in Item
      PROVE  Asked(LoadEntries(item)) /\ LoadEntries(item).kind = "list" /\ LoadEntries(item).of = item
  BY <1>2, <1>4 DEF LoadEntries
<1>7. /\ Asked(SearchEntries) /\ SearchEntries.kind = "search" /\ SearchEntries.of = "search"
      /\ Asked(GetFeed) /\ GetFeed.kind = "get" /\ GetFeed.of = "preview"
  BY <1>2 DEF SearchEntries, GetFeed
<1>8. ASSUME NEW f \in Feeds
      PROVE  /\ Asked(FetchFeedSubs(f)) /\ FetchFeedSubs(f).kind = "subs"
             /\ Asked(RefreshFeed(f)) /\ RefreshFeed(f).kind = "refresh"
             /\ Asked(MarkFeedRead(f)) /\ MarkFeedRead(f).kind = "all"
  BY <1>2 DEF FetchFeedSubs, RefreshFeed, MarkFeedRead
<1>9. ASSUME NEW e \in Entries, NEW m \in Marks
      PROVE  /\ Asked(SetEntryStatusByUrl(e, m)) /\ SetEntryStatusByUrl(e, m).kind = "url"
             /\ Asked(SetEntryStatus(e, m)) /\ SetEntryStatus(e, m).kind = "mark"
  BY <1>3 DEF SetEntryStatusByUrl, SetEntryStatus
<1>10. QED
  BY <1>5, <1>6, <1>7, <1>8, <1>9

\* Sequences of one call and of two.
LEMMA OneOrTwo ==
  ASSUME NEW a, Asked(a)
  PROVE  /\ <<a>> \in Seq(CallType) /\ Len(<<a>>) = 1 /\ \A k \in DOMAIN <<a>> : <<a>>[k] = a
         /\ <<a>> \o <<>> = <<a>>
         /\ \A b : Asked(b) => \A both \in {<<a>> \o <<b>>, <<a, b>>} :
              /\ both \in Seq(CallType) /\ Len(both) = 2 /\ both[1] = a /\ both[2] = b
              /\ DOMAIN both = 1..2 /\ \A k \in DOMAIN both : both[k] \in {a, b}
<1>1. a \in CallType
  BY DEF Asked
<1>2. <<a>> \in Seq(CallType) /\ Len(<<a>>) = 1 /\ <<a>>[1] = a /\ \A k \in DOMAIN <<a>> : <<a>>[k] = a
  BY <1>1
<1>3. <<a>> \o <<>> = <<a>>
  BY <1>2, ConcatEmptySeq
<1>4. ASSUME NEW b, Asked(b), NEW both \in {<<a>> \o <<b>>, <<a, b>>}
      PROVE  /\ both \in Seq(CallType) /\ Len(both) = 2 /\ both[1] = a /\ both[2] = b
             /\ DOMAIN both = 1..2 /\ \A k \in DOMAIN both : both[k] \in {a, b}
  <2>1. b \in CallType
    BY <1>4 DEF Asked
  <2>2. <<b>> \in Seq(CallType) /\ Len(<<b>>) = 1 /\ <<b>>[1] = b
    BY <2>1
  <2>3. CASE both = <<a>> \o <<b>>
    <3>1. /\ both \in Seq(CallType) /\ Len(both) = 2
          /\ \A k \in 1..1 : both[k] = <<a>>[k]
          /\ \A k \in 1..1 : both[1 + k] = <<b>>[k]
      BY <1>2, <2>2, <2>3, Behind
    <3>2. both[1] = a /\ both[1 + 1] = b /\ 1 + 1 = 2
      BY <1>2, <2>2, <3>1
    <3>3. QED
      BY <3>1, <3>2
  <2>4. CASE both = <<a, b>>
    BY <1>1, <2>1, <2>4
  <2>5. both \in Seq(CallType) /\ Len(both) = 2 /\ both[1] = a /\ both[2] = b
    BY <1>4, <2>3, <2>4
  <2>6. DOMAIN both = 1..2
    BY <2>5, LenProperties
  <2>7. QED
    BY <2>5, <2>6
<1>5. QED
  BY <1>2, <1>3, <1>4

\* Sending commands behind calls that were under way.
LEMMA SentBehind ==
  ASSUME NEW p, FromCalls(p), NEW more \in Seq(CallType), \A k \in DOMAIN more : Asked(more[k]),
         calls' = p \o more
  PROVE  /\ OldOrNew /\ Len(calls') = Len(p) + Len(more) /\ DOMAIN calls' = 1..Len(p) + Len(more)
         /\ Len(p) \in Nat /\ Len(more) \in Nat /\ DOMAIN p = 1..Len(p) /\ DOMAIN more = 1..Len(more)
         /\ \A k \in 1..Len(p) : calls'[k] = p[k]
         /\ \A k \in 1..Len(more) : calls'[Len(p) + k] = more[k]
         /\ \A kinds : StillIn(p, kinds) => Keeps(kinds)
<1>0. p \in Seq(CallType)
  BY DEF FromCalls
<1>1. /\ calls' \in Seq(CallType) /\ Len(calls') = Len(p) + Len(more) /\ DOMAIN calls' = 1..Len(p) + Len(more)
      /\ Len(p) \in Nat /\ Len(more) \in Nat /\ DOMAIN p = 1..Len(p) /\ DOMAIN more = 1..Len(more)
      /\ \A k \in 1..Len(p) : calls'[k] = p[k]
      /\ \A k \in 1..Len(more) : calls'[Len(p) + k] = more[k]
  BY <1>0, Behind
<1>2. ASSUME NEW k \in DOMAIN calls'
      PROVE  Asked(calls'[k]) \/ \E j \in DOMAIN calls : calls'[k] = calls[j]
  <2>1. CASE k \in 1..Len(p)
    BY <1>1, <2>1 DEF FromCalls
  <2>2. CASE k \notin 1..Len(p)
    <3>1. k - Len(p) \in 1..Len(more) /\ Len(p) + (k - Len(p)) = k
      BY <1>1, <2>2
    <3>2. calls'[k] = more[k - Len(p)] /\ k - Len(p) \in DOMAIN more
      BY <1>1, <3>1
    <3>3. QED
      BY <3>2
  <2>3. QED
    BY <2>1, <2>2
<1>3. ASSUME NEW kinds, StillIn(p, kinds) PROVE Keeps(kinds)
  <2>1. ASSUME NEW j \in DOMAIN calls, calls[j].kind \in kinds
        PROVE  \E k \in DOMAIN calls' : calls'[k] = calls[j]
    <3>1. PICK k \in DOMAIN p : p[k] = calls[j]
      BY <1>3, <2>1 DEF StillIn
    <3>2. k \in DOMAIN calls' /\ calls'[k] = calls[j]
      BY <1>1, <3>1
    <3>3. QED
      BY <3>2
  <2>2. QED
    BY <2>1 DEF Keeps, StillIn
<1>4. QED
  BY <1>1, <1>2, <1>3 DEF OldOrNew

\* All the calls are calls that were under way.
LEMMA AllStay ==
  ASSUME TuiTypes
  PROVE  FromCalls(calls) /\ \A kinds : StillIn(calls, kinds)
<1>1. FromCalls(calls)
  BY CallsType DEF FromCalls
<1>2. QED
  BY <1>1 DEF StillIn

\* The calls that are left when one is taken.
LEMMA OneTaken ==
  ASSUME TuiTypes, NEW i \in DOMAIN calls, NEW p, p = Pending(i)
  PROVE  /\ FromCalls(p) /\ Len(p) = Len(calls) - 1 /\ DOMAIN p = 1..Len(calls) - 1
         /\ i \in 1..Len(calls) /\ Len(calls) \in Nat /\ DOMAIN calls = 1..Len(calls)
         /\ \A k \in DOMAIN p : p[k] = IF k < i THEN calls[k] ELSE calls[k + 1]
         /\ \A j \in DOMAIN calls \ {i} : \E k \in DOMAIN p : p[k] = calls[j]
         /\ \A kinds : calls[i].kind \notin kinds => StillIn(p, kinds)
<1>0. calls \in Seq(CallType)
  BY CallsType
<1>1. /\ p \in Seq(CallType) /\ Len(p) = Len(calls) - 1 /\ DOMAIN p = 1..Len(calls) - 1
      /\ DOMAIN calls = 1..Len(calls) /\ Len(calls) \in Nat
      /\ \A k \in 1..Len(calls) - 1 : p[k] = IF k < i THEN calls[k] ELSE calls[k + 1]
  <2>1. p = RemoveAt(calls, i)
    BY DEF Pending
  <2>2. QED
    BY <1>0, <2>1, RemoveAtElements
<1>2. ASSUME NEW k \in DOMAIN p PROVE \E j \in DOMAIN calls : p[k] = calls[j]
  <2>1. CASE k < i
    BY <1>1, <2>1
  <2>2. CASE ~ (k < i)
    <3>1. k + 1 \in DOMAIN calls /\ p[k] = calls[k + 1]
      BY <1>1, <2>2
    <3>2. QED
      BY <3>1
  <2>3. QED
    BY <2>1, <2>2
<1>3. ASSUME NEW j \in DOMAIN calls, j # i PROVE \E k \in DOMAIN p : p[k] = calls[j]
  <2>1. CASE j < i
    <3>1. j \in DOMAIN p /\ p[j] = calls[j]
      BY <1>1, <2>1
    <3>2. QED
      BY <3>1
  <2>2. CASE ~ (j < i)
    <3>1. j - 1 \in 1..Len(calls) - 1 /\ ~ (j - 1 < i) /\ (j - 1) + 1 = j
      BY <1>1, <1>3, <2>2
    <3>2. j - 1 \in DOMAIN p /\ p[j - 1] = calls[j]
      BY <1>1, <3>1
    <3>3. QED
      BY <3>2
  <2>3. QED
    BY <2>1, <2>2
<1>4. QED
  BY <1>1, <1>2, <1>3 DEF FromCalls, StillIn

\* What is true of every call under way stays true when calls go and new ones come.
LEMMA CallsStayRight ==
  ASSUME TuiInv, OldOrNew, status' = status
  PROVE  (\A i \in DOMAIN calls : CallRight(calls[i]) /\ CarriesRight(calls[i]))'
<1>1. ASSUME NEW k \in DOMAIN calls'
      PROVE  CallRight(calls[k])' /\ CarriesRight(calls[k])'
  <2>1. CASE Asked(calls'[k])
    BY <2>1 DEF Asked, CarriesRight
  <2>2. CASE \E j \in DOMAIN calls : calls'[k] = calls[j]
    <3>1. PICK j \in DOMAIN calls : calls'[k] = calls[j]
      BY <2>2
    <3>2. CallRight(calls[j]) /\ CarriesRight(calls[j])
      BY DEF TuiInv
    <3>3. CallRight(calls[k])'
      BY <3>1, <3>2
    <3>4. CarriesRight(calls[k])'
      BY <3>1, <3>2 DEF CarriesRight
    <3>5. QED
      BY <3>3, <3>4
  <2>3. QED
    BY <2>1, <2>2 DEF OldOrNew
<1>2. QED
  BY <1>1

\* The sidebar's cursor and the feeds on their way, when calls go and new ones come.
LEMMA StaysOnItem ==
  ASSUME TuiInv, OldOrNew, UNCHANGED <<subscribed, filed, folder, altered>>,
         ~altered => Grown' /\ (cursor' = 0 \/ InRange(cursor)')
  PROVE  OnItem'
<1>0. FeedRows' = FeedRows /\ FolderRows' = FolderRows
  BY SameRows
<1>1. ASSUME ~altered, NEW k \in DOMAIN calls', calls'[k].phase = "served"
      PROVE  /\ calls'[k].kind = "feeds" => calls'[k].rows = FeedRows'
             /\ calls'[k].kind = "folders" => calls'[k].rows = FolderRows'
  <2>1. ~ Asked(calls'[k])
    BY <1>1 DEF Asked
  <2>2. PICK j \in DOMAIN calls : calls'[k] = calls[j]
    BY <2>1 DEF OldOrNew
  <2>3. /\ calls[j].kind = "feeds" => calls[j].rows = FeedRows
        /\ calls[j].kind = "folders" => calls[j].rows = FolderRows
    BY <1>1, <2>2 DEF TuiInv, OnItem
  <2>4. QED
    BY <1>0, <2>2, <2>3
<1>2. QED
  BY <1>1 DEF OnItem

\* The marks on the screen, when what is shown is kept or emptied and the answers to
\* marks stay on their way.
LEMMA MarksStayRight ==
  ASSUME TuiInv, status' = status, Keeps({"mark", "all"}), Keeps({"url"}),
         entries' = <<>> \/ (entries' = entries /\ fresh' = fresh),
         preview' \in {preview, NoPreview}
  PROVE  MarksRight'
<1>1. ASSUME NEW kinds, NEW rows, NEW known, RowsRight(rows, known, kinds), Keeps(kinds)
      PROVE  RowsRight(rows, known, kinds)'
  <2>1. ASSUME NEW k \in DOMAIN rows, rows[k].entry \in known
        PROVE  \/ rows[k].mark = status'[rows[k].entry]
               \/ \E i \in DOMAIN calls' : /\ calls'[i].kind \in kinds /\ calls'[i].phase = "served"
                                           /\ rows[k].entry \in Marked(calls'[i]) \ calls'[i].old
    <3>1. CASE rows[k].mark = status[rows[k].entry]
      BY <3>1
    <3>2. CASE rows[k].mark # status[rows[k].entry]
      <4>1. PICK j \in DOMAIN calls : /\ calls[j].kind \in kinds /\ calls[j].phase = "served"
                                      /\ rows[k].entry \in Marked(calls[j]) \ calls[j].old
        BY <1>1, <2>1, <3>2 DEF RowsRight
      <4>2. PICK i \in DOMAIN calls' : calls'[i] = calls[j]
        BY <1>1, <4>1 DEF Keeps, StillIn
      <4>3. /\ calls'[i].kind \in kinds /\ calls'[i].phase = "served"
            /\ rows[k].entry \in Marked(calls'[i]) \ calls'[i].old
        BY <4>1, <4>2
      <4>4. QED
        BY <4>3
    <3>3. QED
      BY <3>1, <3>2
  <2>2. QED
    BY <2>1 DEF RowsRight
<1>2. MarksRight
  BY DEF TuiInv
<1>3. RowsRight(entries, fresh, {"mark", "all"})'
  <2>1. CASE entries' = <<>>
    BY <2>1 DEF RowsRight
  <2>2. CASE entries' = entries /\ fresh' = fresh
    <3> PICK rows : rows = entries
      OBVIOUS
    <3> PICK known : known = fresh
      OBVIOUS
    <3>1. RowsRight(rows, known, {"mark", "all"})
      BY <1>2 DEF MarksRight
    <3>2. RowsRight(rows, known, {"mark", "all"})'
      BY <1>1, <3>1
    <3>3. QED
      BY <2>2, <3>2
  <2>3. QED
    BY <2>1, <2>2
<1>4. RowsRight(preview.rows, preview.fresh, {"url"})' /\ (~preview.open => preview.rows = <<>>)'
  <2>1. CASE preview' = NoPreview
    BY <2>1 DEF RowsRight, NoPreview
  <2>2. CASE preview' = preview
    <3> PICK rows : rows = preview.rows
      OBVIOUS
    <3> PICK known : known = preview.fresh
      OBVIOUS
    <3>1. RowsRight(rows, known, {"url"}) /\ (~preview.open => preview.rows = <<>>)
      BY <1>2 DEF MarksRight
    <3>2. RowsRight(rows, known, {"url"})'
      BY <1>1, <3>1
    <3>3. QED
      BY <2>2, <3>1, <3>2
  <2>3. QED
    BY <2>1, <2>2
<1>5. QED
  BY <1>3, <1>4 DEF MarksRight

\* The last of the panel's calls is so still when others are sent behind it.
LEMMA LastBehind ==
  ASSUME TuiTypes, due' \in {due, None}, NEW more \in Seq(CallType), \A k \in DOMAIN more : Asked(more[k]) /\ more[k].kind \notin Main,
         calls' = calls \o more, \E i \in DOMAIN calls : LastFor(i)
  PROVE  \E i \in DOMAIN calls' : LastFor(i)'
<1>1. /\ DOMAIN calls' = 1..Len(calls) + Len(more) /\ Len(calls') = Len(calls) + Len(more)
      /\ Len(calls) \in Nat /\ Len(more) \in Nat /\ DOMAIN calls = 1..Len(calls) /\ DOMAIN more = 1..Len(more)
      /\ \A k \in 1..Len(calls) : calls'[k] = calls[k]
      /\ \A k \in 1..Len(more) : calls'[Len(calls) + k] = more[k]
  BY AllStay, SentBehind
<1>2. PICK i \in DOMAIN calls : LastFor(i)
  OBVIOUS
<1>3. ASSUME NEW j \in i + 1..Len(calls') PROVE calls'[j].kind \notin Main
  <2>1. CASE j <= Len(calls)
    BY <1>1, <1>2, <2>1 DEF LastFor
  <2>2. CASE ~ (j <= Len(calls))
    <3>1. j - Len(calls) \in 1..Len(more) /\ Len(calls) + (j - Len(calls)) = j
      BY <1>1, <2>2
    <3>2. calls'[j] = more[j - Len(calls)]
      BY <1>1, <3>1
    <3>3. QED
      BY <1>1, <3>1, <3>2
  <2>3. QED
    BY <2>1, <2>2
<1>4. calls'[i] = calls[i] /\ i \in DOMAIN calls'
  BY <1>1
<1>5. LastFor(i)'
  BY <1>2, <1>3, <1>4 DEF LastFor
<1>6. QED
  BY <1>4, <1>5

\* It is so still when another call is taken that is none of the panel's, or when it
\* was made after the one that is taken.
LEMMA LastTaken ==
  ASSUME TuiTypes, due' \in {due, None}, NEW t \in DOMAIN calls, calls' = Pending(t),
         \E i \in DOMAIN calls : LastFor(i),
         calls[t].kind \in Main => \E j \in t + 1..Len(calls) : calls[j].kind \in Main
  PROVE  \E i \in DOMAIN calls' : LastFor(i)'
<1>1. /\ Len(calls') = Len(calls) - 1 /\ DOMAIN calls' = 1..Len(calls) - 1
      /\ t \in 1..Len(calls) /\ Len(calls) \in Nat /\ DOMAIN calls = 1..Len(calls)
      /\ \A k \in DOMAIN calls' : calls'[k] = IF k < t THEN calls[k] ELSE calls[k + 1]
  BY OneTaken
<1>2. PICK i \in DOMAIN calls : LastFor(i)
  OBVIOUS
<1>3. i # t
  BY <1>1, <1>2 DEF LastFor
<1>4. CASE i < t
  <2>1. i \in DOMAIN calls' /\ calls'[i] = calls[i]
    BY <1>1, <1>4
  <2>2. ASSUME NEW j \in i + 1..Len(calls') PROVE calls'[j].kind \notin Main
    <3>1. j \in DOMAIN calls' /\ j \in i + 1..Len(calls) /\ j + 1 \in i + 1..Len(calls)
      BY <1>1
    <3>2. calls'[j] = calls[j] \/ calls'[j] = calls[j + 1]
      BY <1>1, <3>1
    <3>3. QED
      BY <1>2, <3>1, <3>2 DEF LastFor
  <2>3. LastFor(i)'
    BY <1>2, <2>1, <2>2 DEF LastFor
  <2>4. QED
    BY <2>1, <2>3
<1>5. CASE i > t
  <2> DEFINE m == i - 1
  <2>1. m \in DOMAIN calls' /\ ~ (m < t) /\ m + 1 = i
    BY <1>1, <1>5
  <2>2. calls'[m] = calls[i]
    BY <1>1, <2>1
  <2>3. ASSUME NEW j \in m + 1..Len(calls') PROVE calls'[j].kind \notin Main
    <3>1. j \in DOMAIN calls' /\ ~ (j < t) /\ j + 1 \in i + 1..Len(calls)
      BY <1>1, <1>5
    <3>2. calls'[j] = calls[j + 1]
      BY <1>1, <3>1
    <3>3. QED
      BY <1>2, <3>1, <3>2 DEF LastFor
  <2> HIDE DEF m
  <2>4. LastFor(m)'
    BY <1>2, <2>2, <2>3 DEF LastFor
  <2>5. QED
    BY <2>1, <2>4
<1>6. QED
  BY <1>1, <1>3, <1>4, <1>5

\* A step that changes no call's kind nor what it asks for leaves the last in its place.
LEMMA LastStays ==
  ASSUME due' = due, calls \in Seq(CallType), calls' \in Seq(CallType), DOMAIN calls' = DOMAIN calls, Len(calls') = Len(calls),
         \A i \in DOMAIN calls : calls'[i].kind = calls[i].kind /\ calls'[i].of = calls[i].of,
         \E i \in DOMAIN calls : LastFor(i)
  PROVE  \E i \in DOMAIN calls' : LastFor(i)'
<1>1. PICK i \in DOMAIN calls : LastFor(i)
  OBVIOUS
<1>2. DOMAIN calls = 1..Len(calls) /\ Len(calls) \in Nat
  BY LenProperties
<1>3. ASSUME NEW j \in i + 1..Len(calls') PROVE calls'[j].kind \notin Main
  <2>1. j \in DOMAIN calls /\ j \in i + 1..Len(calls)
    BY <1>2
  <2>2. QED
    BY <1>1, <2>1 DEF LastFor
<1>4. LastFor(i)'
  BY <1>1, <1>3 DEF LastFor
<1>5. QED
  BY <1>4

\* Something is under way still if a call of its kind is.
LEMMA StaysUnderWay ==
  ASSUME NEW kinds, Keeps(kinds), UnderWay(kinds)
  PROVE  UnderWay(kinds)'
<1>1. PICK j \in DOMAIN calls : calls[j].kind \in kinds
  BY DEF UnderWay
<1>2. PICK k \in DOMAIN calls' : calls'[k] = calls[j]
  BY <1>1 DEF Keeps, StillIn
<1>3. QED
  BY <1>1, <1>2 DEF UnderWay

-----------------------------------------------------------------------------
(* Keys                                                                        *)

\* When the panel is asked for something, the call that asks is the panel's last.
LEMMA Asks ==
  ASSUME NEW p, FromCalls(p), NEW more \in Seq(CallType), \A k \in DOMAIN more : Asked(more[k]), NEW what,
         1 \in DOMAIN more, more[1].kind \in Main, more[1].of = what,
         \A k \in DOMAIN more : k # 1 => more[k].kind \notin Main,
         calls' = p \o more, due' = what, settled' = FALSE
  PROVE  /\ OldOrNew /\ PanelRight' /\ LoadingRight'
         /\ Len(calls') = Len(p) + Len(more)
         /\ \A kinds : StillIn(p, kinds) => Keeps(kinds)
<1>1. /\ OldOrNew /\ Len(calls') = Len(p) + Len(more) /\ DOMAIN calls' = 1..Len(p) + Len(more)
      /\ Len(p) \in Nat /\ Len(more) \in Nat /\ DOMAIN p = 1..Len(p) /\ DOMAIN more = 1..Len(more)
      /\ \A k \in 1..Len(p) : calls'[k] = p[k]
      /\ \A k \in 1..Len(more) : calls'[Len(p) + k] = more[k]
      /\ \A kinds : StillIn(p, kinds) => Keeps(kinds)
  BY SentBehind
<1> DEFINE n == Len(p) + 1
<1>2. n \in DOMAIN calls' /\ calls'[n] = more[1]
  BY <1>1
<1>3. ASSUME NEW j \in n + 1..Len(calls') PROVE calls'[j].kind \notin Main
  <2>1. j - Len(p) \in 1..Len(more) /\ Len(p) + (j - Len(p)) = j /\ j - Len(p) # 1
    BY <1>1
  <2>2. calls'[j] = more[j - Len(p)]
    BY <1>1, <2>1
  <2>3. QED
    BY <1>1, <2>1, <2>2
<1> HIDE DEF n
<1>4. LastFor(n)'
  BY <1>2, <1>3 DEF LastFor
<1>5. PanelRight'
  BY <1>2, <1>4 DEF PanelRight
<1>6. LoadingRight'
  BY <1>2 DEF LoadingRight, UnderWay
<1>7. QED
  BY <1>1, <1>5, <1>6

\* Loading an item asks the panel for it, and the counts are those of the item.
LEMMA LoadsSelection ==
  ASSUME TuiInv, NEW p, FromCalls(p), NEW item \in Item, LoadSelection(p, item), cache' = cache
  PROVE  /\ OldOrNew /\ PanelRight' /\ LoadingRight' /\ CountsRight' /\ Len(calls') <= MaxCalls
         /\ \A kinds : StillIn(p, kinds) => Keeps(kinds)
         /\ loading' = TRUE /\ due' = item /\ settled' = FALSE /\ unlisted' = FALSE
         /\ {subsLoading', subsFor', subsLast'} \subseteq Feeds \cup {None}
<1> DEFINE fetch == item \in Feeds /\ item \notin cache
           more == <<LoadEntries(item)>> \o (IF fetch THEN <<FetchFeedSubs(item)>> ELSE <<>>)
<1>1. /\ Len(p) + Len(more) <= MaxCalls /\ calls' = p \o more
      /\ loading' = TRUE /\ due' = item /\ settled' = FALSE /\ unlisted' = FALSE
      /\ subsFor' = (IF item \in Feeds THEN item ELSE None)
      /\ subsLast' = (IF item \in Feeds /\ ~fetch THEN item ELSE None)
      /\ subsLoading' = (IF fetch THEN item ELSE subsLoading)
  BY DEF LoadSelection, AskFor, Send
<1>2. Asked(LoadEntries(item)) /\ LoadEntries(item).kind = "list" /\ LoadEntries(item).of = item
  BY NewCalls
<1>3. /\ more \in Seq(CallType) /\ 1 \in DOMAIN more /\ more[1] = LoadEntries(item)
      /\ \A k \in DOMAIN more : Asked(more[k]) /\ (k # 1 => more[k].kind \notin Main)
  <2>1. CASE fetch
    <3>1. Asked(FetchFeedSubs(item)) /\ FetchFeedSubs(item).kind = "subs"
      BY <2>1, NewCalls
    <3>2. more = <<LoadEntries(item)>> \o <<FetchFeedSubs(item)>>
      BY <2>1
    <3> HIDE DEF more
    <3> HIDE DEF fetch
    <3>3. /\ more \in Seq(CallType) /\ Len(more) = 2
          /\ more[1] = LoadEntries(item) /\ more[2] = FetchFeedSubs(item)
          /\ DOMAIN more = 1..2 /\ \A k \in DOMAIN more : more[k] \in {LoadEntries(item), FetchFeedSubs(item)}
      BY <1>2, <3>1, <3>2, OneOrTwo
    <3>4. \A k \in DOMAIN more : k # 1 => k = 2
      BY <3>3
    <3>5. \A k \in DOMAIN more : k # 1 => more[k].kind \notin Main
      BY <3>1, <3>3, <3>4 DEF Main
    <3>6. \A k \in DOMAIN more : Asked(more[k])
      BY <1>2, <3>1, <3>3
    <3>7. QED
      BY <3>3, <3>5, <3>6
  <2>2. CASE ~fetch
    <3>1. more = <<LoadEntries(item)>>
      BY <1>2, <2>2, OneOrTwo
    <3> HIDE DEF more
    <3>2. /\ more \in Seq(CallType) /\ Len(more) = 1 /\ \A k \in DOMAIN more : more[k] = LoadEntries(item)
      BY <1>2, <3>1, OneOrTwo
    <3>3. DOMAIN more = 1..1
      BY <3>2, LenProperties
    <3>4. QED
      BY <1>2, <3>2, <3>3
  <2>3. QED
    BY <2>1, <2>2
<1>4. more[1].kind \in Main /\ more[1].of = item
  BY <1>2, <1>3 DEF Main
<1> HIDE DEF more
<1>5. /\ OldOrNew /\ PanelRight' /\ LoadingRight'
      /\ Len(calls') = Len(p) + Len(more)
      /\ \A kinds : StillIn(p, kinds) => Keeps(kinds)
  BY <1>1, <1>3, <1>4, Asks
<1>6. subsLoading \in Feeds \cup {None}
  BY DEF TuiInv, TuiTypes
<1>7. CountsRight'
  BY <1>1 DEF CountsRight
<1>8. QED
  BY <1>1, <1>5, <1>6, <1>7

\* A key that only sends commands of no panel, or none, and moves no list.
LEMMA QuietKey ==
  ASSUME TuiInv, UNCHANGED <<Apart, cursor, entries, preview, shown, fresh, subs, asked>>,
         NEW more \in Seq(CallType), \A k \in DOMAIN more : Asked(more[k]) /\ more[k].kind \notin Main,
         calls' = calls \o more, Len(calls) + Len(more) <= MaxCalls,
         focus' \in {"sidebar", "entries"}, mode' \in {"keys", "search", "url", "panic"}, query' \in 0..MaxQuery,
         at' \in Nat \cup {-1}, loading' \in BOOLEAN, events' \in 0..MaxEvents,
         Within', PanicsOnlyAfterChange', SearchRight',
         loading' => loading \/ UnderWay(Main \cup {"feeds"})'
  PROVE  TuiInv'
<1>0. TuiTypes
  BY DEF TuiInv
<1>1. /\ OldOrNew /\ Len(calls') = Len(calls) + Len(more)
      /\ \A kinds : Keeps(kinds)
  <2>1. FromCalls(calls) /\ \A kinds : StillIn(calls, kinds)
    BY <1>0, AllStay
  <2> PICK p : p = calls
    OBVIOUS
  <2>2. FromCalls(p) /\ calls' = p \o more /\ \A kinds : StillIn(p, kinds)
    BY <2>1
  <2>3. /\ OldOrNew /\ Len(calls') = Len(p) + Len(more)
        /\ \A kinds : StillIn(p, kinds) => Keeps(kinds)
    BY <2>2, SentBehind
  <2>4. QED
    BY <2>2, <2>3
<1>2. TuiTypes'
  BY <1>0, <1>1 DEF TuiTypes, Apart, server, sidebar, subs, asked, OldOrNew
<1>3. (\A i \in DOMAIN calls : CallRight(calls[i]) /\ CarriesRight(calls[i]))'
  BY <1>1, CallsStayRight DEF Apart, server
<1>4. Selected' = Selected /\ (InRange(cursor)' <=> InRange(cursor))
  BY SameItems DEF Apart, sidebar
<1>5. OnItem'
  <2>1. ~altered => Grown' /\ (cursor' = 0 \/ InRange(cursor)')
    BY <1>4, SameRows DEF TuiInv, OnItem, Apart, server
  <2>2. QED
    BY <1>1, <2>1, StaysOnItem DEF Apart, server
<1>6. LoadingRight'
  <2>1. UnderWay(Main \cup {"feeds"}) => UnderWay(Main \cup {"feeds"})'
    BY <1>1, StaysUnderWay
  <2>2. unlisted' = unlisted
    BY DEF asked
  <2>3. QED
    BY <2>1, <2>2 DEF TuiInv, LoadingRight
<1>7. PanelRight'
  <2>1. due' = due /\ settled' = settled
    BY DEF asked
  <2>2. ~settled => \E i \in DOMAIN calls : LastFor(i)
    BY DEF TuiInv, PanelRight
  <2>3. ~settled => \E i \in DOMAIN calls' : LastFor(i)'
    BY <1>0, <2>1, <2>2, LastBehind
  <2>4. QED
    BY <2>1, <2>3 DEF TuiInv, PanelRight
<1>8. LitRight'
  BY <1>4 DEF TuiInv, LitRight, asked
<1>9. CountsRight'
  BY DEF TuiInv, CountsRight, subs, Apart
<1>10. MarksRight'
  BY <1>1, MarksStayRight DEF Apart, server
<1>11. QED
  BY <1>2, <1>3, <1>5, <1>6, <1>7, <1>8, <1>9, <1>10 DEF TuiInv

\* A key that sends nothing either.
LEMMA IdleKey ==
  ASSUME TuiInv, UNCHANGED <<Apart, cursor, entries, preview, shown, fresh, subs, asked, calls, loading>>,
         focus' \in {"sidebar", "entries"}, mode' \in {"keys", "search", "url", "panic"}, query' \in 0..MaxQuery,
         at' \in Nat \cup {-1}, events' \in 0..MaxEvents,
         Within', PanicsOnlyAfterChange', SearchRight'
  PROVE  TuiInv'
<1>1. calls \in Seq(CallType) /\ Len(calls) <= MaxCalls /\ Len(calls) \in Nat /\ loading \in BOOLEAN
  BY CallsType DEF TuiInv, TuiTypes
<1> DEFINE more == <<>>
<1>2. more \in Seq(CallType) /\ Len(more) = 0 /\ DOMAIN more = {}
  OBVIOUS
<1>3. calls' = calls \o more
  BY <1>1, ConcatEmptySeq
<1> HIDE DEF more
<1>4. Len(calls) + Len(more) <= MaxCalls /\ \A k \in DOMAIN more : Asked(more[k]) /\ more[k].kind \notin Main
  BY <1>1, <1>2, TuiAssumption
<1>5. QED
  BY <1>1, <1>2, <1>3, <1>4, QuietKey

\* A key that loads the item its cursor is on then.
LEMMA SelectionKey ==
  ASSUME TuiInv, UNCHANGED Apart, Emptied, preview' = NoPreview,
         NEW c \in 0..Cardinality(Feeds) + 1, cursor' = c, InRange(c), LoadSelection(calls, Items[c + 1]),
         focus' \in {"sidebar", "entries"}, mode' = "keys", query' \in 0..MaxQuery,
         at' \in Nat \cup {-1}, events' \in 0..MaxEvents
  PROVE  TuiInv'
<1>0. TuiTypes
  BY DEF TuiInv
<1>1. c \in Nat
  BY TuiAssumption, FS_CardinalityType
<1>2. Items[c + 1] \in Item
  BY <1>0, <1>1, ItemsType
<1> PICK item \in Item : item = Items[c + 1]
  BY <1>2
<1> PICK p : p = calls
  OBVIOUS
<1>3. FromCalls(p) /\ \A kinds : StillIn(p, kinds)
  BY <1>0, AllStay
<1>4. LoadSelection(p, item)
  BY DEF LoadSelection, AskFor, Send
<1>5. /\ OldOrNew /\ PanelRight' /\ LoadingRight' /\ CountsRight' /\ Len(calls') <= MaxCalls
      /\ \A kinds : Keeps(kinds)
      /\ loading' = TRUE /\ due' = item /\ settled' = FALSE /\ unlisted' = FALSE
      /\ {subsLoading', subsFor', subsLast'} \subseteq Feeds \cup {None}
  BY <1>3, <1>4, LoadsSelection DEF Apart
<1>6. item \in Feeds \cup {Tab, Folder} /\ item \notin {"search", "preview", None}
  BY TuiAssumption DEF Item
<1>7. NoPreview \in [open : BOOLEAN, rows : Seq(Row), fresh : SUBSET Entries] /\ <<>> \in Seq(Row)
  <2>1. {} \in SUBSET Entries /\ <<>> \in Seq(Row)
    OBVIOUS
  <2>2. QED
    BY <2>1 DEF NoPreview
<1>8. TuiTypes'
  BY <1>0, <1>5, <1>6, <1>7 DEF TuiTypes, Apart, server, sidebar, OldOrNew, Emptied
<1>9. (\A i \in DOMAIN calls : CallRight(calls[i]) /\ CarriesRight(calls[i]))'
  BY <1>5, CallsStayRight DEF Apart, server
<1>10. Items' = Items
  BY SameItems DEF Apart, sidebar
<1>11. InRange(cursor)' /\ Selected' = item
  BY <1>10 DEF InRange, Selected
<1>12. OnItem'
  <2>1. ~altered => Grown'
    BY SameRows DEF TuiInv, OnItem, Apart, server
  <2>2. QED
    BY <1>5, <1>11, <2>1, StaysOnItem DEF Apart, server
<1>13. MarksRight'
  BY <1>5, MarksStayRight DEF Apart, server, Emptied
<1>14. LitRight'
  BY <1>5, <1>11 DEF LitRight
<1>15. SearchRight'
  BY <1>5, <1>6 DEF SearchRight
<1>16. Within' /\ PanicsOnlyAfterChange'
  BY DEF Within, PanicsOnlyAfterChange, Emptied
<1>17. QED
  BY <1>5, <1>8, <1>9, <1>12, <1>13, <1>14, <1>15, <1>16 DEF TuiInv

\* A key that asks the panel for a search or a preview.
LEMMA AskingKey ==
  ASSUME TuiInv, UNCHANGED <<Apart, cursor, subs>>, NEW m, Asked(m), m.kind \in Main,
         NEW what \in {"search", "preview"}, m.of = what, AskFor(calls, <<m>>, what),
         (Emptied /\ preview' = preview) \/ (UNCHANGED <<entries, shown, fresh>> /\ preview' = NoPreview),
         focus' \in {"sidebar", "entries"}, mode' \in {"keys", "search", "url"}, query' \in 0..MaxQuery,
         at' \in Nat \cup {-1}, events' \in 0..MaxEvents, Within', SearchRight'
  PROVE  TuiInv'
<1>0. TuiTypes
  BY DEF TuiInv
<1> DEFINE more == <<m>>
<1>1. /\ more \in Seq(CallType) /\ Len(more) = 1 /\ DOMAIN more = 1..1 /\ 1 \in DOMAIN more
      /\ \A k \in DOMAIN more : more[k] = m
  <2>1. more \in Seq(CallType) /\ Len(more) = 1 /\ \A k \in DOMAIN more : more[k] = m
    BY OneOrTwo
  <2> HIDE DEF more
  <2>2. DOMAIN more = 1..1
    BY <2>1, LenProperties
  <2>3. QED
    BY <2>1, <2>2
<1>2. /\ Len(calls) + Len(more) <= MaxCalls /\ calls' = calls \o more
      /\ loading' = TRUE /\ due' = what /\ settled' = FALSE /\ unlisted' = FALSE
  BY DEF AskFor, Send
<1> HIDE DEF more
<1>3. /\ OldOrNew /\ PanelRight' /\ LoadingRight'
      /\ Len(calls') = Len(calls) + Len(more)
      /\ \A kinds : Keeps(kinds)
  <2> PICK p : p = calls
    OBVIOUS
  <2>1. FromCalls(p) /\ \A kinds : StillIn(p, kinds)
    BY <1>0, AllStay
  <2>2. \A k \in DOMAIN more : k = 1
    BY <1>1
  <2>3. /\ OldOrNew /\ PanelRight' /\ LoadingRight'
        /\ Len(calls') = Len(p) + Len(more)
        /\ \A kinds : StillIn(p, kinds) => Keeps(kinds)
    BY <1>1, <1>2, <2>1, <2>2, Asks
  <2>4. QED
    BY <2>1, <2>3
<1>4. what \notin Item
  BY TuiAssumption DEF Item
<1>5. NoPreview \in [open : BOOLEAN, rows : Seq(Row), fresh : SUBSET Entries] /\ <<>> \in Seq(Row)
  <2>1. {} \in SUBSET Entries /\ <<>> \in Seq(Row)
    OBVIOUS
  <2>2. QED
    BY <2>1 DEF NoPreview
<1>6. TuiTypes'
  BY <1>0, <1>2, <1>3, <1>5 DEF TuiTypes, Apart, server, sidebar, subs, OldOrNew, Emptied
<1>7. (\A i \in DOMAIN calls : CallRight(calls[i]) /\ CarriesRight(calls[i]))'
  BY <1>3, CallsStayRight DEF Apart, server
<1>8. InRange(cursor)' <=> InRange(cursor)
  BY SameItems DEF Apart, sidebar
<1>9. OnItem'
  <2>1. ~altered => Grown' /\ (cursor' = 0 \/ InRange(cursor)')
    BY <1>8, SameRows DEF TuiInv, OnItem, Apart, server
  <2>2. QED
    BY <1>3, <2>1, StaysOnItem DEF Apart, server
<1>10. MarksRight'
  BY <1>3, MarksStayRight DEF Apart, server, Emptied
<1>11. LitRight'
  BY <1>2, <1>4 DEF LitRight
<1>12. CountsRight'
  BY DEF TuiInv, CountsRight, subs, Apart
<1>13. PanicsOnlyAfterChange'
  BY DEF PanicsOnlyAfterChange
<1>14. QED
  BY <1>3, <1>6, <1>7, <1>9, <1>10, <1>11, <1>12, <1>13 DEF TuiInv

\* The program dies only where the invariant lets it.
LEMMA PanicKeeps ==
  ASSUME TuiInv, Panic, events' \in 0..MaxEvents, altered, ~InRange(cursor)
  PROVE  TuiInv'
<1>1. Items' = Items /\ (InRange(cursor)' <=> InRange(cursor))
  BY SameItems DEF Panic
<1>2. PanicsOnlyAfterChange'
  BY <1>1 DEF Panic, PanicsOnlyAfterChange, server
<1>3. Within' /\ SearchRight'
  BY DEF Panic, panel, TuiInv, Within, SearchRight
<1>4. QED
  BY <1>2, <1>3, IdleKey DEF Panic, Apart, panel, TuiInv, TuiTypes

\* Where a key would read past the sidebar something was changed elsewhere.
LEMMA OffItem ==
  ASSUME TuiInv, ~InRange(cursor), cursor # 0 \/ Items # <<>>
  PROVE  altered
<1>1. Len(Items) \in Nat /\ (Items # <<>> => Len(Items) > 0)
  BY ItemsType DEF TuiInv
<1>2. ~altered => cursor = 0
  BY DEF TuiInv, OnItem
<1>3. altered \in BOOLEAN
  BY DEF TuiInv, TuiTypes
<1>4. QED
  BY <1>1, <1>2, <1>3 DEF InRange

\* Keys that only move between the panels and the inputs.
LEMMA PlainKeys ==
  ASSUME TuiInv, events' \in 0..MaxEvents, mode # "panic",
         SearchKey \/ URLKey \/ LeaveURL \/ MoveEntry \/ ToSidebar
  PROVE  TuiInv'
<1>0. TuiTypes
  BY DEF TuiInv
<1>1. UNCHANGED <<Apart, cursor, entries, preview, shown, fresh, subs, asked, calls, loading>>
  BY DEF SearchKey, URLKey, LeaveURL, MoveEntry, ToSidebar, panel, input
<1>2. /\ focus' \in {"sidebar", "entries"} /\ mode' \in {"keys", "search", "url"} /\ query' \in 0..MaxQuery
  BY <1>0, TuiAssumption DEF SearchKey, URLKey, LeaveURL, MoveEntry, ToSidebar, panel, input, TuiTypes, KeysOnly, OnEntries
<1>3. /\ Len(entries) \in Nat /\ DOMAIN entries = 1..Len(entries) /\ (entries = <<>> <=> Len(entries) = 0)
      /\ at \in Nat \cup {-1} /\ (entries # <<>> => at + 1 \in 1..Len(entries))
  <2>1. entries \in Seq(Row)
    BY <1>0 DEF TuiTypes
  <2>2. Len(entries) \in Nat /\ DOMAIN entries = 1..Len(entries) /\ (entries = <<>> <=> Len(entries) = 0)
    BY <2>1, LenProperties, EmptySeq
  <2>3. QED
    BY <1>0, <2>2 DEF TuiInv, TuiTypes, Within
<1>4. at' \in Nat \cup {-1} /\ (entries # <<>> => at' + 1 \in 1..Len(entries))
  <2>1. CASE MoveEntry
    BY <1>3, <2>1 DEF MoveEntry
  <2>2. CASE at' = at
    BY <1>3, <2>2
  <2>3. QED
    BY <2>1, <2>2 DEF SearchKey, URLKey, LeaveURL, ToSidebar, panel
<1>5. Within'
  BY <1>1, <1>3, <1>4 DEF Within
<1>6. PanicsOnlyAfterChange'
  BY <1>2 DEF PanicsOnlyAfterChange
<1>7. SearchRight'
  <2>1. due' = due
    BY <1>1 DEF asked
  <2>2. \/ mode' = "search" /\ query' = 0
        \/ mode' # "search" /\ mode # "search" /\ query' = query
        \/ mode' = mode /\ query' = query
    <3>1. CASE SearchKey
      BY <3>1 DEF SearchKey
    <3>2. CASE URLKey
      BY <3>2 DEF URLKey, KeysOnly
    <3>3. CASE LeaveURL
      BY <3>3 DEF LeaveURL
    <3>4. CASE MoveEntry
      BY <3>4 DEF MoveEntry, input
    <3>5. CASE ToSidebar
      BY <3>5 DEF ToSidebar
    <3>6. QED
      BY <3>1, <3>2, <3>3, <3>4, <3>5
  <2>3. 0 \in Int /\ ~(0 > 0)
    OBVIOUS
  <2>4. SearchRight
    BY DEF TuiInv
  <2>5. QED
    BY <2>1, <2>2, <2>3, <2>4 DEF SearchRight
<1>8. QED
  BY <1>1, <1>2, <1>4, <1>5, <1>6, <1>7, IdleKey

\* Keys that send commands of no panel.
LEMMA CommandKeys ==
  ASSUME TuiInv, events' \in 0..MaxEvents, mode # "panic",
         ReloadKey \/ FeedKey \/ \E m \in Marks : MarkEntry(m) \/ MarkPreviewed(m)
  PROVE  TuiInv'
<1>0. TuiTypes
  BY DEF TuiInv
<1>1. ASSUME UNCHANGED <<Apart, cursor, input, panel, subs, asked>>,
             NEW more \in Seq(CallType), \A k \in DOMAIN more : Asked(more[k]) /\ more[k].kind \notin Main,
             calls' = calls \o more, Len(calls) + Len(more) <= MaxCalls, loading' \in BOOLEAN,
             loading' => loading \/ UnderWay(Main \cup {"feeds"})'
      PROVE  TuiInv'
  <2>1. Within' /\ PanicsOnlyAfterChange' /\ SearchRight'
    BY <1>1 DEF TuiInv, Within, PanicsOnlyAfterChange, SearchRight, input, panel, asked
  <2>2. /\ focus' \in {"sidebar", "entries"} /\ mode' \in {"keys", "search", "url", "panic"} /\ query' \in 0..MaxQuery
        /\ at' \in Nat \cup {-1}
    BY <1>0, <1>1 DEF TuiTypes, input, panel
  <2>3. UNCHANGED <<entries, preview, shown, fresh>>
    BY <1>1 DEF panel
  <2>4. QED
    BY <1>1, <2>1, <2>2, <2>3, QuietKey
<1>2. ASSUME UNCHANGED <<Apart, cursor, input, loading, panel, subs, asked>>,
             NEW c, Asked(c), c.kind \notin Main, Send(calls, <<c>>)
      PROVE  TuiInv'
  <2>1. <<c>> \in Seq(CallType) /\ \A k \in DOMAIN <<c>> : <<c>>[k] = c
    BY <1>2, OneOrTwo
  <2>2. calls' = calls \o <<c>> /\ Len(calls) + Len(<<c>>) <= MaxCalls
    BY <1>2 DEF Send
  <2>3. loading \in BOOLEAN
    BY <1>0 DEF TuiTypes
  <2> DEFINE more == <<c>>
  <2> HIDE DEF more
  <2>4. /\ more \in Seq(CallType) /\ \A k \in DOMAIN more : Asked(more[k]) /\ more[k].kind \notin Main
        /\ calls' = calls \o more /\ Len(calls) + Len(more) <= MaxCalls
    BY <1>2, <2>1, <2>2 DEF more
  <2>5. QED
    BY <1>1, <1>2, <2>3, <2>4
<1>3. CASE ReloadKey
  <2>1. Asked(LoadFeeds) /\ Asked(LoadFolders) /\ LoadFeeds.kind = "feeds" /\ LoadFolders.kind = "folders"
    BY NewCalls
  <2> PICK more : more = <<LoadFeeds, LoadFolders>>
    OBVIOUS
  <2>2. /\ calls' = calls \o more /\ Len(calls) + Len(more) <= MaxCalls /\ loading' = TRUE
        /\ UNCHANGED <<Apart, cursor, input, panel, subs, asked>>
    BY <1>3 DEF ReloadKey, Send
  <2>4. /\ more \in Seq(CallType) /\ Len(more) = 2 /\ more[1] = LoadFeeds /\ DOMAIN more = 1..2
        /\ \A k \in DOMAIN more : more[k] \in {LoadFeeds, LoadFolders}
    <3> PICK a : a = LoadFeeds
      OBVIOUS
    <3> PICK b : b = LoadFolders
      OBVIOUS
    <3>1. Asked(a) /\ Asked(b) /\ more \in {<<a>> \o <<b>>, <<a, b>>}
      BY <2>1
    <3>2. /\ more \in Seq(CallType) /\ Len(more) = 2 /\ more[1] = a /\ more[2] = b
          /\ DOMAIN more = 1..2 /\ \A k \in DOMAIN more : more[k] \in {a, b}
      BY <3>1, OneOrTwo, Zenon
    <3>3. QED
      BY <3>2
  <2>5. \A k \in DOMAIN more : Asked(more[k]) /\ more[k].kind \notin Main
    BY <2>1, <2>4 DEF Main
  <2>6. UnderWay(Main \cup {"feeds"})'
    <3> PICK p : p = calls
      OBVIOUS
    <3>1. /\ DOMAIN calls' = 1..Len(p) + Len(more) /\ Len(p) \in Nat
          /\ \A k \in 1..Len(more) : calls'[Len(p) + k] = more[k]
      <4>1. FromCalls(p) /\ calls' = p \o more
        BY <1>0, <2>2, AllStay
      <4>2. QED
        BY <2>4, <2>5, <4>1, SentBehind
    <3>2. Len(p) + 1 \in DOMAIN calls' /\ calls'[Len(p) + 1].kind = "feeds"
      <4>1. Len(p) + 1 \in 1..Len(p) + Len(more) /\ 1 \in 1..Len(more)
        BY <2>4, <3>1
      <4>2. QED
        BY <2>1, <2>4, <3>1, <4>1
    <3>3. QED
      BY <3>2 DEF UnderWay
  <2>7. loading' \in BOOLEAN /\ (loading' => loading \/ UnderWay(Main \cup {"feeds"})')
    BY <2>2, <2>6
  <2>8. QED
    BY <1>1, <2>2, <2>4, <2>5, <2>7
<1>4. CASE FeedKey
  <2>1. UNCHANGED <<Apart, cursor, input, loading, panel, subs, asked>>
    BY <1>4 DEF FeedKey
  <2>2. PICK f \in Feeds : Send(calls, <<RefreshFeed(f)>>) \/ Send(calls, <<MarkFeedRead(f)>>)
    BY <1>4 DEF FeedKey
  <2>3. /\ Asked(RefreshFeed(f)) /\ RefreshFeed(f).kind \notin Main
        /\ Asked(MarkFeedRead(f)) /\ MarkFeedRead(f).kind \notin Main
    BY NewCalls DEF Main
  <2>4. QED
    BY <1>2, <2>1, <2>2, <2>3
<1>5. ASSUME NEW m \in Marks, MarkPreviewed(m)
      PROVE  TuiInv'
  <2>1. UNCHANGED <<Apart, cursor, input, loading, panel, subs, asked>>
    BY <1>5 DEF MarkPreviewed
  <2>2. PICK k \in DOMAIN preview.rows : Send(calls, <<SetEntryStatusByUrl(preview.rows[k].entry, m)>>)
    BY <1>5 DEF MarkPreviewed
  <2>3. preview.rows \in Seq(Row)
    BY <1>0 DEF TuiTypes
  <2>4. preview.rows[k].entry \in Entries
    <3>1. preview.rows[k] \in Row
      BY <2>3, ElementOfSeq, LenProperties
    <3>2. QED
      BY <3>1 DEF Row
  <2> PICK e \in Entries : e = preview.rows[k].entry
    BY <2>4
  <2>5. Asked(SetEntryStatusByUrl(e, m)) /\ SetEntryStatusByUrl(e, m).kind \notin Main
    BY NewCalls DEF Main
  <2>6. Send(calls, <<SetEntryStatusByUrl(e, m)>>)
    BY <2>2
  <2> DEFINE c == SetEntryStatusByUrl(e, m)
  <2> HIDE DEF c
  <2>7. Asked(c) /\ c.kind \notin Main /\ Send(calls, <<c>>)
    BY <2>5, <2>6 DEF c
  <2>8. QED
    BY <1>2, <2>1, <2>7
<1>6. ASSUME NEW m \in Marks, MarkEntry(m)
      PROVE  TuiInv'
  <2>1. entries # <<>> /\ at + 1 \in DOMAIN entries
    BY <1>6 DEF MarkEntry, TuiInv, Within
  <2>2. UNCHANGED <<Apart, cursor, input, loading, panel, subs, asked>>
    BY <1>6, <2>1 DEF MarkEntry
  <2>3. Send(calls, <<SetEntryStatus(entries[at + 1].entry, m)>>)
    BY <1>6, <2>1 DEF MarkEntry
  <2>4. entries \in Seq(Row)
    BY <1>0 DEF TuiTypes
  <2>5. entries[at + 1].entry \in Entries
    <3>1. entries[at + 1] \in Row
      BY <2>1, <2>4, ElementOfSeq, LenProperties
    <3>2. QED
      BY <3>1 DEF Row
  <2> PICK e \in Entries : e = entries[at + 1].entry
    BY <2>5
  <2>6. Asked(SetEntryStatus(e, m)) /\ SetEntryStatus(e, m).kind \notin Main
    BY NewCalls DEF Main
  <2>7. Send(calls, <<SetEntryStatus(e, m)>>)
    BY <2>3
  <2> DEFINE c == SetEntryStatus(e, m)
  <2> HIDE DEF c
  <2>8. Asked(c) /\ c.kind \notin Main /\ Send(calls, <<c>>)
    BY <2>6, <2>7 DEF c
  <2>9. QED
    BY <1>2, <2>2, <2>8
<1>7. QED
  BY <1>3, <1>4, <1>5, <1>6

\* Fetching the address that was typed.
LEMMA EnterURLKeeps ==
  ASSUME TuiInv, events' \in 0..MaxEvents, EnterURL
  PROVE  TuiInv'
<1>1. Asked(GetFeed) /\ GetFeed.kind = "get" /\ GetFeed.of = "preview"
  BY NewCalls
<1> DEFINE m == GetFeed
<1>2. Asked(m) /\ m.kind \in Main /\ m.of = "preview" /\ AskFor(calls, <<m>>, "preview")
  BY <1>1 DEF EnterURL, Main
<1> HIDE DEF m
<1>3. /\ UNCHANGED <<Apart, cursor, subs, entries, shown, fresh, at, focus, query>> /\ preview' = NoPreview
      /\ mode' = "keys"
  BY DEF EnterURL
<1>4. due' = "preview"
  BY DEF EnterURL, AskFor
<1>5. Within' /\ SearchRight'
  BY <1>3, <1>4 DEF TuiInv, Within, SearchRight
<1>6. focus' \in {"sidebar", "entries"} /\ query' \in 0..MaxQuery /\ at' \in Nat \cup {-1}
  BY <1>3 DEF TuiInv, TuiTypes
<1>7. QED
  BY <1>2, <1>3, <1>5, <1>6, AskingKey

\* Typing a search.
LEMMA EditSearchKeeps ==
  ASSUME TuiInv, events' \in 0..MaxEvents, NEW n \in 0..MaxQuery, EditSearch(n)
  PROVE  TuiInv'
<1>0. /\ UNCHANGED <<Apart, focus, mode, cursor, subs>> /\ query' = n /\ mode = "search"
      /\ focus' \in {"sidebar", "entries"} /\ at \in Nat \cup {-1}
  BY DEF EditSearch, TuiInv, TuiTypes
<1>1. CASE n = 0
  <2>1. UNCHANGED <<calls, loading, asked, panel>>
    BY <1>1 DEF EditSearch
  <2>2. Within' /\ PanicsOnlyAfterChange'
    BY <1>0, <2>1 DEF TuiInv, Within, PanicsOnlyAfterChange, panel
  <2>3. SearchRight'
    BY <1>0, <1>1, <2>1 DEF SearchRight, asked
  <2>4. UNCHANGED <<entries, preview, shown, fresh, at>>
    BY <2>1 DEF panel
  <2>5. QED
    BY <1>0, <2>1, <2>2, <2>3, <2>4, IdleKey
<1>2. CASE n # 0
  <2>1. AskFor(calls, <<SearchEntries>>, "search") /\ Emptied /\ at' = 0 /\ UNCHANGED preview
    BY <1>2 DEF EditSearch
  <2>2. Asked(SearchEntries) /\ SearchEntries.kind = "search" /\ SearchEntries.of = "search"
    BY NewCalls
  <2> DEFINE m == SearchEntries
  <2>3. Asked(m) /\ m.kind \in Main /\ m.of = "search" /\ AskFor(calls, <<m>>, "search")
    BY <2>1, <2>2 DEF Main
  <2> HIDE DEF m
  <2>4. due' = "search"
    BY <2>1 DEF AskFor
  <2>5. Within' /\ SearchRight'
    BY <1>0, <2>1, <2>4 DEF Within, Emptied, SearchRight
  <2>6. QED
    BY <1>0, <2>1, <2>3, <2>5, AskingKey
<1>3. QED
  BY <1>1, <1>2

\* A key that would restore the selection before there is a sidebar.
LEMMA NoSelectionKey ==
  ASSUME TuiInv, events' \in 0..MaxEvents,
         UNCHANGED <<Apart, cursor, calls, subs>>, Emptied \/ UNCHANGED <<entries, shown, fresh>>,
         preview' \in {preview, NoPreview}, due' = None, settled' = settled,
         loading' \in BOOLEAN, loading' => loading \/ unlisted', unlisted => unlisted', unlisted' \in BOOLEAN,
         focus' \in {"sidebar", "entries"}, mode' = "keys", query' \in 0..MaxQuery, Within', at' \in Nat \cup {-1}
  PROVE  TuiInv'
<1>0. TuiTypes
  BY DEF TuiInv
<1>1. OldOrNew /\ \A kinds : Keeps(kinds)
  BY <1>0, AllStay DEF OldOrNew, Keeps, FromCalls, StillIn
<1>2. preview' \in [open : BOOLEAN, rows : Seq(Row), fresh : SUBSET Entries] /\ <<>> \in Seq(Row)
  <2>1. {} \in SUBSET Entries /\ <<>> \in Seq(Row)
    OBVIOUS
  <2>2. NoPreview \in [open : BOOLEAN, rows : Seq(Row), fresh : SUBSET Entries]
    BY <2>1 DEF NoPreview
  <2>3. preview \in [open : BOOLEAN, rows : Seq(Row), fresh : SUBSET Entries]
    BY <1>0 DEF TuiTypes
  <2>4. QED
    BY <2>1, <2>2, <2>3
<1>3. TuiTypes'
  BY <1>0, <1>2 DEF TuiTypes, Apart, server, sidebar, subs, Emptied
<1>4. (\A i \in DOMAIN calls : CallRight(calls[i]) /\ CarriesRight(calls[i]))'
  BY <1>1, CallsStayRight DEF Apart, server
<1>5. InRange(cursor)' <=> InRange(cursor)
  BY SameItems DEF Apart, sidebar
<1>6. OnItem'
  <2>1. ~altered => Grown' /\ (cursor' = 0 \/ InRange(cursor)')
    BY <1>5, SameRows DEF TuiInv, OnItem, Apart, server
  <2>2. QED
    BY <1>1, <2>1, StaysOnItem DEF Apart, server
<1>7. MarksRight'
  BY <1>1, MarksStayRight DEF Apart, server, Emptied
<1>8. LoadingRight'
  BY DEF TuiInv, LoadingRight, UnderWay
<1>9. PanelRight'
  <2>1. ~settled => \E i \in DOMAIN calls : LastFor(i)
    BY DEF TuiInv, PanelRight
  <2>2. ~settled => \E i \in DOMAIN calls' : LastFor(i)'
    BY <2>1 DEF LastFor
  <2>3. QED
    BY <2>2 DEF PanelRight
<1>10. LitRight' /\ SearchRight' /\ PanicsOnlyAfterChange'
  <2>1. None \notin Item /\ None # "search" /\ None # "preview"
    BY TuiAssumption DEF Item, None
  <2>2. QED
    BY <2>1 DEF LitRight, SearchRight, PanicsOnlyAfterChange
<1>11. CountsRight'
  BY DEF TuiInv, CountsRight, subs, Apart
<1>12. QED
  BY <1>3, <1>4, <1>6, <1>7, <1>8, <1>9, <1>10, <1>11 DEF TuiInv

\* A search that is confirmed stays on the screen.
LEMMA ConfirmedSearch ==
  ASSUME TuiInv, events' \in 0..MaxEvents, EnterSearch, query > 0
  PROVE  TuiInv'
<1>0. TuiTypes
  BY DEF TuiInv
<1>1. /\ UNCHANGED <<Apart, query, cursor, entries, shown, fresh, loading, calls, asked, subs>>
      /\ mode' = "keys" /\ focus' = "entries" /\ at' = 0 /\ preview' = NoPreview /\ mode = "search"
  <2>1. query # 0
    BY <1>0 DEF TuiTypes
  <2>2. QED
    BY <2>1 DEF EnterSearch
<1>2. OldOrNew /\ \A kinds : Keeps(kinds)
  BY <1>0, <1>1, AllStay DEF OldOrNew, Keeps, FromCalls, StillIn
<1>3. preview' \in [open : BOOLEAN, rows : Seq(Row), fresh : SUBSET Entries]
  <2>1. {} \in SUBSET Entries /\ <<>> \in Seq(Row)
    OBVIOUS
  <2>2. QED
    BY <1>1, <2>1 DEF NoPreview
<1>4. TuiTypes'
  BY <1>0, <1>1, <1>3 DEF TuiTypes, Apart, server, sidebar, subs, asked
<1>5. (\A i \in DOMAIN calls : CallRight(calls[i]) /\ CarriesRight(calls[i]))'
  BY <1>1, <1>2, CallsStayRight DEF Apart, server
<1>6. Selected' = Selected /\ (InRange(cursor)' <=> InRange(cursor))
  BY <1>1, SameItems DEF Apart, sidebar
<1>7. OnItem'
  <2>1. ~altered => Grown' /\ (cursor' = 0 \/ InRange(cursor)')
    BY <1>1, <1>6, SameRows DEF TuiInv, OnItem, Apart, server
  <2>2. QED
    BY <1>1, <1>2, <2>1, StaysOnItem DEF Apart, server
<1>8. MarksRight'
  BY <1>1, <1>2, MarksStayRight DEF Apart, server
<1>9. LoadingRight'
  BY <1>1 DEF TuiInv, LoadingRight, UnderWay, asked
<1>10. PanelRight'
  <2>1. ~settled => \E i \in DOMAIN calls : LastFor(i)
    BY DEF TuiInv, PanelRight
  <2>2. ~settled => \E i \in DOMAIN calls' : LastFor(i)'
    BY <1>1, <2>1 DEF LastFor, asked
  <2>3. due # "preview"
    BY <1>1 DEF TuiInv, SearchRight
  <2>4. QED
    BY <1>1, <2>2, <2>3 DEF TuiInv, PanelRight, asked, NoPreview
<1>11. LitRight' /\ CountsRight'
  BY <1>1, <1>6 DEF TuiInv, LitRight, CountsRight, asked, subs, Apart
<1>12. SearchRight' /\ PanicsOnlyAfterChange'
  BY <1>1 DEF TuiInv, SearchRight, PanicsOnlyAfterChange, asked
<1>13. Within'
  <2>1. entries \in Seq(Row)
    BY <1>0 DEF TuiTypes
  <2>2. entries # <<>> => 0 + 1 \in DOMAIN entries
    BY <2>1, LenProperties, EmptySeq
  <2>3. QED
    BY <1>1, <2>2 DEF Within
<1>14. QED
  BY <1>4, <1>5, <1>7, <1>8, <1>9, <1>10, <1>11, <1>12, <1>13 DEF TuiInv

\* Keys that load the item under the cursor, or restore it.
LEMMA SelectionKeys ==
  ASSUME TuiInv, events' \in 0..MaxEvents, mode # "panic",
         EscSearch \/ EnterSearch \/ OpenItem \/ LeavePreview
           \/ \E c \in 0..Cardinality(Feeds) + 1 : MoveTo(c)
  PROVE  TuiInv'
<1>0. /\ TuiTypes /\ cursor \in 0..Cardinality(Feeds) + 1 /\ cursor \in Nat /\ focus \in {"sidebar", "entries"}
      /\ query \in 0..MaxQuery /\ 0 \in 0..MaxQuery /\ at \in Nat \cup {-1}
      /\ Len(Items) \in Nat /\ (Items # <<>> => Len(Items) > 0) /\ (Items = <<>> => Len(Items) = 0)
  BY ItemsType, TuiAssumption, FS_CardinalityType DEF TuiInv, TuiTypes
<1> PICK at0 \in 0..Cardinality(Feeds) + 1 : at0 = cursor
  BY <1>0
<1>1. ASSUME UNCHANGED <<Apart, cursor>>, Emptied, preview' = NoPreview, InRange(cursor), LoadSelection(calls, Items[cursor + 1]),
             focus' \in {"sidebar", "entries"}, mode' = "keys", query' \in 0..MaxQuery, at' \in Nat \cup {-1}
      PROVE  TuiInv'
  <2>1. LoadSelection(calls, Items[at0 + 1]) /\ InRange(at0) /\ cursor' = at0
    BY <1>1
  <2>2. QED
    BY <1>1, <2>1, SelectionKey
<1>2. ASSUME Panic, Items # <<>> /\ ~InRange(cursor)
      PROVE  TuiInv'
  BY <1>2, OffItem, PanicKeeps
<1>3. entries' = <<>> \/ (entries' = entries /\ at' = at) => Within'
  BY DEF Within, TuiInv
<1>4. loading \in BOOLEAN /\ unlisted \in BOOLEAN
  BY <1>0 DEF TuiTypes
<1>5. CASE EscSearch
  <2>1. CASE Items # <<>> /\ ~InRange(cursor)
    BY <1>2, <1>5, <2>1 DEF EscSearch
  <2>2. CASE Items = <<>>
    <3>1. /\ UNCHANGED <<Apart, focus, cursor, calls, subs, loading, settled, unlisted>> /\ due' = None
          /\ mode' = "keys" /\ query' = 0 /\ UNCHANGED <<entries, shown, fresh, preview, at>>
      BY <1>5, <2>2 DEF EscSearch, panel
    <3>2. Within'
      BY <1>3, <3>1
    <3>3. QED
      BY <1>0, <1>4, <3>1, <3>2, NoSelectionKey
  <2>3. CASE Items # <<>> /\ InRange(cursor)
    <3>1. /\ UNCHANGED <<Apart, focus, cursor, at>> /\ mode' = "keys" /\ query' = 0
          /\ Emptied /\ preview' = NoPreview /\ LoadSelection(calls, Items[cursor + 1])
      BY <1>5, <2>3 DEF EscSearch
    <3>2. QED
      BY <1>0, <1>1, <2>3, <3>1
  <2>4. QED
    BY <2>1, <2>2, <2>3
<1>6. CASE EnterSearch
  <2>1. CASE query > 0
    BY <1>6, <2>1, ConfirmedSearch
  <2>2. CASE query = 0 /\ Items # <<>> /\ ~InRange(cursor)
    BY <1>2, <1>6, <2>2 DEF EnterSearch
  <2>3. CASE query = 0 /\ Items = <<>>
    <3>1. /\ UNCHANGED <<Apart, query, cursor, settled, calls, subs>> /\ Emptied
          /\ mode' = "keys" /\ focus' = "entries" /\ at' = 0 /\ preview' = NoPreview
          /\ loading' = TRUE /\ due' = None /\ unlisted' = TRUE
      BY <1>6, <2>3 DEF EnterSearch
    <3>2. Within'
      BY <1>3, <3>1 DEF Emptied
    <3>3. QED
      BY <1>0, <3>1, <3>2, NoSelectionKey
  <2>4. CASE query = 0 /\ Items # <<>> /\ InRange(cursor)
    <3>1. /\ UNCHANGED <<Apart, query, cursor>> /\ mode' = "keys" /\ focus' = "entries" /\ at' = 0
          /\ Emptied /\ preview' = NoPreview /\ LoadSelection(calls, Items[cursor + 1])
      BY <1>6, <2>4 DEF EnterSearch
    <3>2. QED
      BY <1>0, <1>1, <2>4, <3>1
  <2>5. query > 0 \/ query = 0
    BY <1>0
  <2>6. QED
    BY <2>1, <2>2, <2>3, <2>4, <2>5
<1>7. CASE OpenItem
  <2>1. CASE ~InRange(cursor)
    BY <1>2, <1>7, <2>1 DEF OpenItem
  <2>2. CASE InRange(cursor)
    <3>1. /\ UNCHANGED <<Apart, mode, cursor, at>> /\ focus' = "entries" /\ query' = 0 /\ mode = "keys"
          /\ Emptied /\ preview' = NoPreview /\ LoadSelection(calls, Items[cursor + 1])
      BY <1>7, <2>2 DEF OpenItem, KeysOnly
    <3>2. QED
      BY <1>0, <1>1, <2>2, <3>1
  <2>3. QED
    BY <2>1, <2>2
<1>8. CASE LeavePreview
  <2>0. mode = "keys"
    BY <1>8 DEF LeavePreview, OnPreview, KeysOnly
  <2>1. CASE Items # <<>> /\ ~InRange(cursor)
    BY <1>2, <1>8, <2>1 DEF LeavePreview
  <2>2. CASE Items = <<>>
    <3>1. /\ UNCHANGED <<Apart, mode, query, cursor, at, settled, unlisted, loading, calls, subs, entries, shown, fresh>>
          /\ preview' = NoPreview /\ focus' = "sidebar" /\ due' = None
      BY <1>8, <2>2 DEF LeavePreview
    <3>2. Within'
      BY <1>3, <3>1
    <3>3. QED
      BY <1>0, <1>4, <2>0, <3>1, <3>2, NoSelectionKey
  <2>3. CASE Items # <<>> /\ InRange(cursor)
    <3>1. /\ UNCHANGED <<Apart, mode, query, cursor, at>> /\ focus' = "sidebar"
          /\ Emptied /\ preview' = NoPreview /\ LoadSelection(calls, Items[cursor + 1])
      BY <1>8, <2>3 DEF LeavePreview
    <3>2. QED
      BY <1>0, <1>1, <2>0, <2>3, <3>1
  <2>4. QED
    BY <2>1, <2>2, <2>3
<1>9. ASSUME NEW c \in 0..Cardinality(Feeds) + 1, MoveTo(c)
      PROVE  TuiInv'
  <2>0. c \in Nat /\ mode = "keys"
    BY <1>9, TuiAssumption, FS_CardinalityType DEF MoveTo, KeysOnly
  <2>1. CASE ~InRange(c)
    <3>1. Panic
      BY <1>9, <2>1 DEF MoveTo
    <3>2. cursor > 0 /\ ~InRange(cursor)
      BY <1>0, <1>9, <2>0, <2>1 DEF MoveTo, InRange
    <3>3. QED
      BY <1>0, <3>1, <3>2, OffItem, PanicKeeps
  <2>2. CASE InRange(c)
    <3>1. /\ UNCHANGED <<Apart, focus, mode, at>> /\ cursor' = c /\ query' = 0
          /\ Emptied /\ preview' = NoPreview /\ LoadSelection(calls, Items[c + 1])
      BY <1>9, <2>2 DEF MoveTo
    <3>2. QED
      BY <1>0, <2>0, <2>2, <3>1, SelectionKey
  <2>3. QED
    BY <2>1, <2>2
<1>10. QED
  BY <1>5, <1>6, <1>7, <1>8, <1>9

\* No key breaks the invariant.
LEMMA KeysKeep ==
  ASSUME TuiInv, mode # "panic", events' \in 0..MaxEvents, Key
  PROVE  TuiInv'
BY PlainKeys, CommandKeys, EnterURLKeeps, EditSearchKeeps, SelectionKeys DEF Key

-----------------------------------------------------------------------------
(* The API                                                                     *)

\* A call marks entries, and each for good.
LEMMA MarkedType ==
  ASSUME NEW c \in CallType, CallRight(c)
  PROVE  /\ Marked(c) \subseteq Entries /\ Read(c) \in Marks
         /\ Marked(c) # {} => c.kind \in {"mark", "url", "all"}
         /\ c.kind \in {"mark", "url"} => Marked(c) = {c.of}
         /\ c.kind = "all" => Marked(c) = {e \in Entries : FeedOf[e] = c.of}
BY DEF Marked, Read, CallRight, Marks

\* What two calls mark is the same if they are of one kind and for one thing.
LEMMA SameMarked ==
  ASSUME NEW c, NEW d, c.kind = d.kind, c.of = d.of, c.mark = d.mark
  PROVE  Marked(c) = Marked(d) /\ Read(c) = Read(d)
BY DEF Marked, Read

\* A step that moves no call, and leaves what is shown in its place.
LEMMA InPlace ==
  ASSUME TuiInv,
         UNCHANGED <<altered, sidebar, cursor, input, loading, entries, at, shown, cache, subs, asked>>,
         preview'.open = preview.open, calls' \in Seq(CallType), DOMAIN calls' = DOMAIN calls, Len(calls') = Len(calls),
         \A j \in DOMAIN calls : calls'[j].kind = calls[j].kind /\ calls'[j].of = calls[j].of
  PROVE  Within' /\ PanicsOnlyAfterChange' /\ LoadingRight' /\ PanelRight' /\ SearchRight' /\ LitRight' /\ CountsRight'
<1>1. Within' /\ SearchRight' /\ CountsRight'
  BY DEF TuiInv, Within, SearchRight, CountsRight, input, asked, subs
<1>2. Selected' = Selected /\ (InRange(cursor)' <=> InRange(cursor))
  BY SameItems
<1>3. PanicsOnlyAfterChange' /\ LitRight'
  BY <1>2 DEF TuiInv, PanicsOnlyAfterChange, LitRight, input, asked
<1>4. LoadingRight'
  <2>1. UnderWay(Main \cup {"feeds"}) => UnderWay(Main \cup {"feeds"})'
    BY DEF UnderWay
  <2>2. QED
    BY <2>1 DEF TuiInv, LoadingRight, asked
<1>5. PanelRight'
  <2>1. ~settled => \E j \in DOMAIN calls : LastFor(j)
    BY DEF TuiInv, PanelRight
  <2>2. calls \in Seq(CallType) /\ due' = due
    BY DEF TuiInv, TuiTypes, asked
  <2>3. ~settled => \E j \in DOMAIN calls' : LastFor(j)'
    BY <2>1, <2>2, LastStays
  <2>4. QED
    BY <2>3 DEF TuiInv, PanelRight, asked
<1>6. QED
  BY <1>1, <1>3, <1>4, <1>5

\* What one call becomes when another is served: its rows may go out of date.
LEMMA OutdatedCall ==
  ASSUME NEW d \in CallType, NEW changed \in SUBSET Entries, NEW x, x = [d EXCEPT !.old = @ \cup (changed \cap Carried(d))]
  PROVE  /\ x \in CallType /\ x.kind = d.kind /\ x.of = d.of /\ x.mark = d.mark /\ x.phase = d.phase /\ x.rows = d.rows
         /\ x.old = d.old \cup (changed \cap Carried(d))
<1> DEFINE o == d.old \cup (changed \cap Carried(d))
<1>1. o \in SUBSET Entries /\ x = [d EXCEPT !.old = o]
  BY DEF CallType
<1> HIDE DEF o
<1>2. x \in CallType
  BY <1>1 DEF CallType
<1>3. x.kind = d.kind /\ x.of = d.of /\ x.mark = d.mark /\ x.phase = d.phase /\ x.rows = d.rows /\ x.old = o
  BY <1>1 DEF CallType
<1>4. QED
  BY <1>2, <1>3 DEF o

\* Serving a call.
LEMMA ServeKeeps ==
  ASSUME TuiInv, UNCHANGED events, NEW i \in DOMAIN calls, Serve(i)
  PROVE  TuiInv'
<1>0. TuiTypes
  BY DEF TuiInv
<1> PICK c : c = calls[i]
  OBVIOUS
<1> PICK changed : changed = {e \in Marked(c) : status[e] # Read(c)}
  OBVIOUS
<1> PICK R : R = CASE c.kind \in {"list", "search"} -> {<<e, status[e]>> : e \in Listed(c.of)}
                   [] c.kind = "get" -> {<<e, status[e]>> : e \in {e \in Entries : FeedOf[e] = Previewed}}
                   [] c.kind = "feeds" -> FeedRows
                   [] c.kind = "folders" -> FolderRows
                   [] OTHER -> {}
  OBVIOUS
<1> DEFINE x == [c EXCEPT !.phase = "served", !.rows = R]
<1>1. /\ calls \in Seq(CallType) /\ DOMAIN calls = 1..Len(calls) /\ Len(calls) \in Nat
      /\ \A j \in DOMAIN calls : calls[j] \in CallType
      /\ \A j \in DOMAIN calls : CallRight(calls[j]) /\ CarriesRight(calls[j])
  BY <1>0, CallsType DEF TuiInv
<1>2. /\ c \in CallType /\ CallRight(c) /\ c.phase = "sent" /\ c.kind \notin Timeless /\ c.rows = {} /\ c.old = {}
  BY <1>1 DEF Serve, CallRight
<1>3. /\ Marked(c) \subseteq Entries /\ Read(c) \in Marks /\ changed \in SUBSET Entries /\ changed \subseteq Marked(c)
      /\ changed # {} => c.kind \in {"mark", "url", "all"}
  BY <1>2, MarkedType
<1>4. /\ status' = [e \in Entries |-> IF e \in changed THEN Read(c) ELSE status[e]]
      /\ fresh' = (IF c.kind = "url" THEN fresh \ changed ELSE fresh)
      /\ preview' = (IF c.kind = "url" THEN preview ELSE [preview EXCEPT !.fresh = @ \ changed])
      /\ UNCHANGED <<subscribed, filed, folder, altered, sidebar, cursor, input, loading, err, entries, at, shown, cache, subs, asked>>
      /\ calls' = [Outdated(changed) EXCEPT ![i].phase = "served", ![i].rows = R]
  BY DEF Serve
<1>5. status \in [Entries -> Marks]
  BY <1>0 DEF TuiTypes
<1>6. /\ c.kind \in {"list", "search", "get"} => R \subseteq Entries \X Marks /\ \A r \in R : r[2] = status[r[1]]
      /\ c.kind = "feeds" => R = FeedRows /\ R \subseteq Feeds \X {None, Folder}
      /\ c.kind = "folders" => R = FolderRows /\ R \subseteq {Folder}
      /\ R \in (SUBSET (Entries \X Marks)) \cup (SUBSET (Feeds \X {None, Folder})) \cup SUBSET {Folder}
  <2>1. CASE c.kind \in {"list", "search"}
    <3>1. R = {<<e, status[e]>> : e \in Listed(c.of)}
      BY <2>1
    <3>2. Listed(c.of) \subseteq Entries
      BY DEF Listed
    <3>3. R \subseteq Entries \X Marks /\ \A r \in R : r[2] = status[r[1]]
      BY <1>5, <3>1, <3>2
    <3>4. QED
      BY <2>1, <3>3
  <2>2. CASE c.kind = "get"
    <3>1. R = {<<e, status[e]>> : e \in {e \in Entries : FeedOf[e] = Previewed}}
      BY <2>2
    <3>3. R \subseteq Entries \X Marks /\ \A r \in R : r[2] = status[r[1]]
      BY <1>5, <3>1
    <3>4. QED
      BY <2>2, <3>3
  <2>3. CASE c.kind = "feeds"
    <3>1. R = FeedRows /\ subscribed \subseteq Feeds
      BY <1>0, <2>3 DEF TuiTypes
    <3>2. R \subseteq Feeds \X {None, Folder}
      BY <3>1 DEF FeedRows
    <3>3. QED
      BY <2>3, <3>1, <3>2
  <2>4. CASE c.kind = "folders"
    <3>1. R = FolderRows
      BY <2>4
    <3>2. R \subseteq {Folder}
      BY <3>1 DEF FolderRows
    <3>3. QED
      BY <2>4, <3>1, <3>2
  <2>5. CASE c.kind \notin {"list", "search", "get", "feeds", "folders"}
    <3>1. R = {}
      BY <2>5
    <3>2. {} \in SUBSET {Folder}
      OBVIOUS
    <3>3. QED
      BY <2>5, <3>1, <3>2
  <2>6. QED
    BY <2>1, <2>2, <2>3, <2>4, <2>5
<1>7. x \in CallType /\ x.phase = "served"
  BY <1>2, <1>6 DEF CallType
<1>8. x.kind = c.kind /\ x.of = c.of /\ x.mark = c.mark /\ x.rows = R /\ x.old = {}
  BY <1>2 DEF CallType
<1> DEFINE Late(j) == IF calls[j].phase = "served"
                      THEN [calls[j] EXCEPT !.old = @ \cup (changed \cap Carried(calls[j]))] ELSE calls[j]
<1>9. /\ calls' = [j \in DOMAIN calls |-> IF j = i THEN x ELSE Late(j)]
  <2>1. Outdated(changed) = [j \in DOMAIN calls |-> Late(j)] /\ Late(i) = c
    BY <1>2 DEF Outdated
  <2> DEFINE f == Outdated(changed)
  <2>2. /\ calls' = [f EXCEPT ![i].phase = "served", ![i].rows = R] /\ DOMAIN f = DOMAIN calls
        /\ f[i] = c /\ \A j \in DOMAIN calls : f[j] = Late(j)
    BY <1>4, <2>1
  <2> HIDE DEF f, Late
  <2>3. QED
    BY <2>2
<1> HIDE DEF x
<1>10. ASSUME NEW j \in DOMAIN calls, j # i
       PROVE  /\ Late(j) \in CallType
              /\ Late(j).kind = calls[j].kind /\ Late(j).of = calls[j].of /\ Late(j).mark = calls[j].mark
              /\ Late(j).phase = calls[j].phase /\ Late(j).rows = calls[j].rows
              /\ calls[j].phase # "served" => Late(j) = calls[j]
              /\ calls[j].phase = "served" => Late(j).old = calls[j].old \cup (changed \cap Carried(calls[j]))
  <2>1. CASE calls[j].phase = "served"
    <3> PICK d : d = calls[j]
      OBVIOUS
    <3>1. d \in CallType /\ d.phase = "served"
      BY <1>1, <2>1
    <3>2. Late(j) = [d EXCEPT !.old = @ \cup (changed \cap Carried(d))]
      BY <2>1
    <3> HIDE DEF Late
    <3>3. /\ Late(j) \in CallType /\ Late(j).kind = d.kind /\ Late(j).of = d.of /\ Late(j).mark = d.mark
          /\ Late(j).phase = d.phase /\ Late(j).rows = d.rows
          /\ Late(j).old = d.old \cup (changed \cap Carried(d))
      BY <1>3, <3>1, <3>2, OutdatedCall
    <3>4. QED
      BY <2>1, <3>1, <3>3
  <2>2. CASE calls[j].phase # "served"
    BY <1>1, <2>2
  <2>3. QED
    BY <2>1, <2>2
<1> HIDE DEF Late
<1>11. /\ calls' \in Seq(CallType) /\ DOMAIN calls' = DOMAIN calls /\ Len(calls') = Len(calls)
       /\ calls'[i] = x /\ \A j \in DOMAIN calls : j # i => calls'[j] = Late(j)
  <2>1. \A j \in DOMAIN calls : (IF j = i THEN x ELSE Late(j)) \in CallType
    BY <1>7, <1>10
  <2>2. calls' \in [1..Len(calls) -> CallType]
    BY <1>1, <1>9, <2>1
  <2>3. calls' \in Seq(CallType) /\ Len(calls') = Len(calls)
    BY <1>1, <2>2
  <2>4. QED
    BY <1>9, <2>3
<1>12. \A j \in DOMAIN calls : calls'[j].kind = calls[j].kind /\ calls'[j].of = calls[j].of
  BY <1>8, <1>10, <1>11
<1>13. preview' \in [open : BOOLEAN, rows : Seq(Row), fresh : SUBSET Entries] /\ preview'.open = preview.open /\ preview'.rows = preview.rows
       /\ preview'.fresh = (IF c.kind = "url" THEN preview.fresh ELSE preview.fresh \ changed)
  <2>1. preview \in [open : BOOLEAN, rows : Seq(Row), fresh : SUBSET Entries]
    BY <1>0 DEF TuiTypes
  <2>2. QED
    BY <1>4, <2>1
<1>14. TuiTypes'
  <2>1. status' \in [Entries -> Marks] /\ fresh' \subseteq Entries
    BY <1>0, <1>3, <1>4, <1>5 DEF TuiTypes
  <2>2. QED
    BY <1>0, <1>4, <1>11, <1>13, <2>1 DEF TuiTypes, sidebar, input, subs, asked
<1>15. Within' /\ PanicsOnlyAfterChange' /\ LoadingRight' /\ PanelRight' /\ SearchRight' /\ LitRight' /\ CountsRight'
  BY <1>4, <1>11, <1>12, <1>13, InPlace
<1>16. ASSUME NEW j \in DOMAIN calls' PROVE CallRight(calls[j])' /\ CarriesRight(calls[j])'
  <2>1. CASE j = i
    <3>1. CallRight(x)
      BY <1>0, <1>2, <1>6, <1>7, <1>8 DEF CallRight, TuiTypes
    <3>2. Marked(x) = Marked(c) /\ Read(x) = Read(c)
      BY <1>8, SameMarked
    <3>3. ASSUME NEW e \in Marked(c) PROVE status'[e] = Read(c)
      BY <1>3, <1>4, <3>3
    <3>4. ASSUME c.kind \in {"list", "search", "get"}, NEW r \in x.rows PROVE r[2] = status'[r[1]]
      <4>1. changed = {}
        BY <1>3, <3>4
      <4>2. r[2] = status[r[1]] /\ r[1] \in Entries
        BY <1>6, <1>8, <3>4
      <4>3. QED
        BY <1>4, <4>1, <4>2
    <3>5. QED
      BY <1>8, <1>11, <2>1, <3>1, <3>2, <3>3, <3>4 DEF CarriesRight
  <2>2. CASE j # i
    <3> PICK d : d = calls[j]
      OBVIOUS
    <3> PICK y : y = Late(j)
      OBVIOUS
    <3>1. d \in CallType /\ CallRight(d) /\ CarriesRight(d) /\ j \in DOMAIN calls
      BY <1>1, <1>11
    <3>2. /\ calls'[j] = y /\ y.kind = d.kind /\ y.of = d.of /\ y.mark = d.mark /\ y.phase = d.phase /\ y.rows = d.rows
          /\ d.phase # "served" => y = d
          /\ d.phase = "served" => y.old = d.old \cup (changed \cap Carried(d))
      BY <1>10, <1>11, <2>2, <3>1
    <3>3. CallRight(y)
      BY <3>1, <3>2 DEF CallRight
    <3>4. CASE d.phase # "served"
      BY <3>2, <3>3, <3>4 DEF CarriesRight
    <3>5. CASE d.phase = "served"
      <4>1. Marked(y) = Marked(d) /\ Read(y) = Read(d) /\ Marked(d) \subseteq Entries
        BY <3>1, <3>2, SameMarked, MarkedType
      <4>2. ASSUME NEW e \in Marked(d) \ y.old PROVE status'[e] = Read(d)
        <5>1. e \notin d.old /\ e \notin changed /\ e \in Entries
          BY <3>2, <3>5, <4>1, <4>2 DEF Carried
        <5>2. status[e] = Read(d)
          BY <3>1, <3>5, <4>2, <5>1 DEF CarriesRight
        <5>3. QED
          BY <1>4, <5>1, <5>2
      <4>3. ASSUME d.kind \in {"list", "search", "get"}, NEW r \in d.rows, r[1] \notin y.old PROVE r[2] = status'[r[1]]
        <5>1. r \in Entries \X Marks
          BY <3>1, <4>3 DEF CallRight
        <5>2. <<r[1], r[2]>> = r /\ r[1] \in Entries /\ r[2] \in Marks
          BY <5>1
        <5>3. r[1] \in Carried(d)
          BY <4>3, <5>2 DEF Carried
        <5>4. r[1] \notin d.old /\ r[1] \notin changed
          BY <3>2, <3>5, <4>3, <5>3
        <5>5. r[2] = status[r[1]]
          BY <3>1, <3>5, <4>3, <5>4 DEF CarriesRight
        <5>6. QED
          BY <1>4, <5>2, <5>4, <5>5
      <4>4. CarriesRight(calls[j])'
        BY <3>2, <4>1, <4>2, <4>3 DEF CarriesRight
      <4>5. QED
        BY <3>2, <3>3, <4>4
    <3>6. QED
      BY <3>4, <3>5
  <2>3. QED
    BY <2>1, <2>2
<1>17. OnItem'
  <2>1. InRange(cursor)' <=> InRange(cursor)
    BY <1>4, SameItems
  <2>2. FeedRows' = FeedRows /\ FolderRows' = FolderRows /\ (Grown' <=> Grown)
    BY <1>4, SameRows
  <2>3. ASSUME ~altered, NEW k \in DOMAIN calls', calls'[k].phase = "served"
        PROVE  /\ calls'[k].kind = "feeds" => calls'[k].rows = FeedRows'
               /\ calls'[k].kind = "folders" => calls'[k].rows = FolderRows'
    <3>1. CASE k = i
      BY <1>6, <1>8, <1>11, <2>2, <3>1
    <3>2. CASE k # i
      <4>1. /\ k \in DOMAIN calls /\ calls[k].phase = "served"
            /\ calls'[k].kind = calls[k].kind /\ calls'[k].rows = calls[k].rows
        BY <1>10, <1>11, <2>3, <3>2
      <4>2. QED
        BY <2>2, <2>3, <4>1 DEF TuiInv, OnItem
    <3>3. QED
      BY <3>1, <3>2
  <2>4. ~altered => cursor = 0 \/ InRange(cursor)
    BY DEF TuiInv, OnItem
  <2>5. ~altered => Grown
    BY DEF TuiInv, OnItem
  <2>6. QED
    BY <1>4, <2>1, <2>2, <2>3, <2>4, <2>5 DEF OnItem
<1>18. ASSUME NEW rows \in Seq(Row), NEW known, NEW later \in SUBSET known, NEW kinds, RowsRight(rows, known, kinds),
              later \cap changed = {} \/ c.kind \in kinds
       PROVE  RowsRight(rows, later, kinds)'
  <2>1. ASSUME NEW k \in DOMAIN rows, rows[k].entry \in later
        PROVE  \/ rows[k].mark = status'[rows[k].entry]
               \/ \E j \in DOMAIN calls' : /\ calls'[j].kind \in kinds /\ calls'[j].phase = "served"
                                           /\ rows[k].entry \in Marked(calls'[j]) \ calls'[j].old
    <3> PICK e : e = rows[k].entry
      OBVIOUS
    <3>1. e \in Entries
      <4>1. rows[k] \in Row
        BY ElementOfSeq, LenProperties
      <4>2. QED
        BY <4>1 DEF Row
    <3>2. CASE e \in changed
      <4>1. c.kind \in kinds /\ e \in Marked(c)
        BY <1>3, <1>18, <2>1, <3>2
      <4>2. Marked(x) = Marked(c)
        BY <1>8, SameMarked
      <4>3. i \in DOMAIN calls' /\ calls'[i].kind \in kinds /\ calls'[i].phase = "served" /\ e \in Marked(calls'[i]) \ calls'[i].old
        BY <1>7, <1>8, <1>11, <4>1, <4>2
      <4>4. QED
        BY <4>3
    <3>3. CASE e \notin changed
      <4>1. status'[e] = status[e]
        BY <1>4, <3>1, <3>3
      <4>2. CASE rows[k].mark = status[e]
        BY <4>1, <4>2
      <4>3. CASE rows[k].mark # status[e]
        <5>1. PICK j \in DOMAIN calls : calls[j].kind \in kinds /\ calls[j].phase = "served" /\ e \in Marked(calls[j]) \ calls[j].old
          BY <1>18, <2>1, <4>3 DEF RowsRight
        <5>2. j # i
          BY <1>2, <5>1
        <5> PICK d : d = calls[j]
          OBVIOUS
        <5> PICK y : y = Late(j)
          OBVIOUS
        <5>3. calls'[j] = y /\ y.kind = d.kind /\ y.of = d.of /\ y.mark = d.mark /\ y.phase = d.phase
              /\ y.old = d.old \cup (changed \cap Carried(d))
          BY <1>10, <1>11, <5>1, <5>2
        <5>4. Marked(y) = Marked(d)
          BY <5>3, SameMarked
        <5>5. j \in DOMAIN calls' /\ calls'[j].kind \in kinds /\ calls'[j].phase = "served" /\ e \in Marked(calls'[j]) \ calls'[j].old
          BY <1>11, <3>3, <5>1, <5>3, <5>4
        <5>6. QED
          BY <5>5
      <4>4. QED
        BY <4>2, <4>3
    <3>4. QED
      BY <3>2, <3>3
  <2>2. QED
    BY <2>1 DEF RowsRight
<1>19. MarksRight'
  <2>0. /\ RowsRight(entries, fresh, {"mark", "all"}) /\ RowsRight(preview.rows, preview.fresh, {"url"})
        /\ (~preview.open => preview.rows = <<>>)
        /\ entries \in Seq(Row) /\ preview.rows \in Seq(Row)
    BY <1>0 DEF TuiInv, MarksRight, TuiTypes
  <2> PICK rows \in Seq(Row) : rows = entries
    BY <2>0
  <2> PICK seen \in Seq(Row) : seen = preview.rows
    BY <2>0
  <2> PICK known : known = fresh
    OBVIOUS
  <2> PICK heard : heard = preview.fresh
    OBVIOUS
  <2> DEFINE later == IF c.kind = "url" THEN known \ changed ELSE known
             told == IF c.kind = "url" THEN heard ELSE heard \ changed
  <2>1. later \in SUBSET known /\ (later \cap changed = {} \/ c.kind \in {"mark", "all"})
    BY <1>3
  <2>2. told \in SUBSET heard /\ (told \cap changed = {} \/ c.kind \in {"url"})
    BY <1>3
  <2>3. fresh' = later /\ preview'.fresh = told /\ entries' = rows /\ preview'.rows = seen
    BY <1>4, <1>13
  <2> HIDE DEF later, told
  <2>4. RowsRight(rows, later, {"mark", "all"})'
    BY <1>18, <2>0, <2>1
  <2>5. RowsRight(seen, told, {"url"})'
    BY <1>18, <2>0, <2>2
  <2>6. RowsRight(entries, fresh, {"mark", "all"})'
    BY <2>3, <2>4 DEF RowsRight
  <2>7. RowsRight(preview.rows, preview.fresh, {"url"})'
    BY <2>3, <2>5 DEF RowsRight
  <2>8. QED
    BY <1>13, <2>0, <2>6, <2>7 DEF MarksRight
<1>20. QED
  BY <1>14, <1>15, <1>16, <1>17, <1>19 DEF TuiInv

\* A call that will bring nothing: what it marked, if it had, no panel will hear of.
LEMMA SpoiltCall ==
  ASSUME TuiInv, events' \in 0..MaxEvents, NEW i \in DOMAIN calls, NEW ph \in {"failed", "refused"}, calls' = [calls EXCEPT ![i].phase = ph],
         UNCHANGED <<server, sidebar, cursor, input, loading, err, entries, at, shown, cache, subs, asked>>,
         fresh' \in SUBSET fresh, preview'.open = preview.open, preview'.rows = preview.rows, preview'.fresh \in SUBSET preview.fresh,
         preview' \in [open : BOOLEAN, rows : Seq(Row), fresh : SUBSET Entries],
         calls[i].phase = "served" => fresh' \cap Marked(calls[i]) = {} /\ preview'.fresh \cap Marked(calls[i]) = {}
  PROVE  TuiInv'
<1>0. TuiTypes
  BY DEF TuiInv
<1> PICK c : c = calls[i]
  OBVIOUS
<1> DEFINE x == [c EXCEPT !.phase = ph]
<1>1. /\ calls \in Seq(CallType) /\ DOMAIN calls = 1..Len(calls) /\ Len(calls) \in Nat
      /\ \A j \in DOMAIN calls : calls[j] \in CallType
      /\ \A j \in DOMAIN calls : CallRight(calls[j]) /\ CarriesRight(calls[j])
  BY <1>0, CallsType DEF TuiInv
<1>2. c \in CallType /\ CallRight(c)
  BY <1>1
<1>3. x \in CallType /\ x.phase = ph
  BY <1>2 DEF CallType
<1>4. x.kind = c.kind /\ x.of = c.of /\ x.mark = c.mark /\ x.rows = c.rows /\ x.old = c.old
  BY <1>2 DEF CallType
<1>5. calls' = [calls EXCEPT ![i] = x]
  BY <1>1
<1> HIDE DEF x
<1>6. /\ calls' \in Seq(CallType) /\ DOMAIN calls' = DOMAIN calls /\ Len(calls') = Len(calls)
      /\ calls'[i] = x /\ \A j \in DOMAIN calls : j # i => calls'[j] = calls[j]
  <2>1. calls' \in [1..Len(calls) -> CallType]
    BY <1>1, <1>3, <1>5
  <2>2. calls' \in Seq(CallType) /\ Len(calls') = Len(calls)
    BY <1>1, <2>1
  <2>3. QED
    BY <1>1, <1>5, <2>2
<1>7. TuiTypes'
  BY <1>0, <1>6 DEF TuiTypes, server, sidebar, input, subs, asked
<1>8. Within' /\ PanicsOnlyAfterChange' /\ LoadingRight' /\ PanelRight' /\ SearchRight' /\ LitRight' /\ CountsRight'
  <2>1. \A j \in DOMAIN calls : calls'[j].kind = calls[j].kind /\ calls'[j].of = calls[j].of
    BY <1>4, <1>6
  <2>2. QED
    BY <1>6, <2>1, InPlace DEF server
<1>9. ASSUME NEW j \in DOMAIN calls' PROVE CallRight(calls[j])' /\ CarriesRight(calls[j])'
  <2>1. CASE j = i
    BY <1>2, <1>3, <1>4, <1>6, <2>1 DEF CallRight, CarriesRight
  <2>2. CASE j # i
    <3>1. calls'[j] = calls[j] /\ CallRight(calls[j]) /\ CarriesRight(calls[j]) /\ status' = status
      BY <1>1, <1>6, <2>2 DEF server
    <3>2. QED
      BY <3>1 DEF CarriesRight
  <2>3. QED
    BY <2>1, <2>2
<1>10. OnItem'
  <2>1. InRange(cursor)' <=> InRange(cursor)
    BY SameItems
  <2>2. \A k \in DOMAIN calls' : calls'[k].phase = "served" => calls'[k] = calls[k] /\ k \in DOMAIN calls
    BY <1>3, <1>6
  <2>3. FeedRows' = FeedRows /\ FolderRows' = FolderRows /\ (Grown' <=> Grown)
    BY SameRows DEF server
  <2>4. QED
    BY <2>1, <2>2, <2>3 DEF TuiInv, OnItem, server
<1>11. ASSUME NEW rows, NEW known, NEW later \in SUBSET known, NEW kinds, RowsRight(rows, known, kinds),
              c.phase = "served" => later \cap Marked(c) = {}
       PROVE  RowsRight(rows, later, kinds)'
  <2>1. ASSUME NEW k \in DOMAIN rows, rows[k].entry \in later
        PROVE  \/ rows[k].mark = status'[rows[k].entry]
               \/ \E j \in DOMAIN calls' : /\ calls'[j].kind \in kinds /\ calls'[j].phase = "served"
                                           /\ rows[k].entry \in Marked(calls'[j]) \ calls'[j].old
    <3>0. status' = status
      BY DEF server
    <3>1. CASE rows[k].mark = status[rows[k].entry]
      BY <3>0, <3>1
    <3>2. CASE rows[k].mark # status[rows[k].entry]
      <4>1. PICK j \in DOMAIN calls : calls[j].kind \in kinds /\ calls[j].phase = "served" /\ rows[k].entry \in Marked(calls[j]) \ calls[j].old
        BY <1>11, <2>1, <3>2 DEF RowsRight
      <4>2. j # i
        BY <1>11, <2>1, <4>1
      <4>3. j \in DOMAIN calls' /\ calls'[j] = calls[j]
        BY <1>6, <4>2
      <4>4. QED
        BY <4>1, <4>3
    <3>3. QED
      BY <3>1, <3>2
  <2>2. QED
    BY <2>1 DEF RowsRight
<1>12. MarksRight'
  <2>0. /\ RowsRight(entries, fresh, {"mark", "all"}) /\ RowsRight(preview.rows, preview.fresh, {"url"})
        /\ (~preview.open => preview.rows = <<>>)
    BY DEF TuiInv, MarksRight
  <2> PICK rows : rows = entries
    OBVIOUS
  <2> PICK seen : seen = preview.rows
    OBVIOUS
  <2> PICK known : known = fresh
    OBVIOUS
  <2> PICK heard : heard = preview.fresh
    OBVIOUS
  <2> PICK later : later = fresh'
    OBVIOUS
  <2> PICK told : told = preview'.fresh
    OBVIOUS
  <2>1. RowsRight(rows, later, {"mark", "all"})'
    BY <1>11, <2>0
  <2>2. RowsRight(seen, told, {"url"})'
    BY <1>11, <2>0
  <2>3. RowsRight(entries, fresh, {"mark", "all"})'
    BY <2>1 DEF RowsRight
  <2>4. RowsRight(preview.rows, preview.fresh, {"url"})'
    BY <2>2 DEF RowsRight
  <2>5. QED
    BY <2>0, <2>3, <2>4 DEF MarksRight
<1>13. QED
  BY <1>7, <1>8, <1>9, <1>10, <1>12 DEF TuiInv

\* Calls that fail or are refused, and what is changed elsewhere.
LEMMA MishapsKeep ==
  ASSUME TuiInv, mode # "panic", events' \in 0..MaxEvents, Mishap
  PROVE  TuiInv'
<1>0. /\ TuiTypes /\ preview \in [open : BOOLEAN, rows : Seq(Row), fresh : SUBSET Entries]
      /\ \A i \in DOMAIN calls : calls[i] \in CallType /\ CallRight(calls[i])
  BY CallsType DEF TuiInv, TuiTypes
<1>1. ASSUME NEW i \in DOMAIN calls, CallFails(i)
      PROVE  TuiInv'
  <2> PICK M : M = Marked(calls[i])
    OBVIOUS
  <2>1. /\ calls' = [calls EXCEPT ![i].phase = "failed"]
        /\ UNCHANGED <<server, sidebar, cursor, input, loading, err, entries, at, shown, cache, subs, asked>>
        /\ fresh' = (IF Good(i) THEN fresh \ M ELSE fresh)
        /\ preview' = (IF Good(i) THEN [preview EXCEPT !.fresh = @ \ M] ELSE preview)
    BY <1>1 DEF CallFails
  <2>2. preview' \in [open : BOOLEAN, rows : Seq(Row), fresh : SUBSET Entries]
        /\ preview'.open = preview.open /\ preview'.rows = preview.rows
        /\ preview'.fresh = (IF Good(i) THEN preview.fresh \ M ELSE preview.fresh)
    BY <1>0, <2>1
  <2>3. calls[i].phase = "served" => Good(i)
    BY <1>1 DEF CallFails
  <2>4. fresh' \in SUBSET fresh /\ preview'.fresh \in SUBSET preview.fresh
    BY <2>1, <2>2
  <2>5. calls[i].phase = "served" => fresh' \cap Marked(calls[i]) = {} /\ preview'.fresh \cap Marked(calls[i]) = {}
    BY <2>1, <2>2, <2>3
  <2>6. QED
    BY <2>1, <2>2, <2>4, <2>5, SpoiltCall
<1>2. ASSUME NEW i \in DOMAIN calls, CallRefused(i)
      PROVE  TuiInv'
  <2>1. /\ calls' = [calls EXCEPT ![i].phase = "refused"] /\ calls[i].phase = "sent"
        /\ UNCHANGED <<server, sidebar, cursor, input, loading, err, entries, at, shown, cache, subs, asked, fresh, preview>>
    BY <1>2 DEF CallRefused, panel
  <2>2. QED
    BY <1>0, <2>1, SpoiltCall
<1>3. ASSUME Elsewhere, subscribed' \subseteq Feeds, filed' \subseteq Feeds, folder' \in {"later", "there", "gone"}
      PROVE  TuiInv'
  <2>1. /\ altered' = TRUE /\ status' = status
        /\ UNCHANGED <<sidebar, cursor, input, loading, err, panel, cache, subs, calls, asked>>
    BY <1>3 DEF Elsewhere
  <2>2. TuiTypes'
    BY <1>0, <1>3, <2>1 DEF TuiTypes, sidebar, input, panel, subs, asked
  <2>3. Selected' = Selected
    BY <2>1, SameItems
  <2>4. Within' /\ PanicsOnlyAfterChange' /\ LoadingRight' /\ PanelRight' /\ SearchRight' /\ LitRight' /\ CountsRight' /\ OnItem'
    <3>1. Within' /\ SearchRight' /\ LitRight' /\ CountsRight'
      BY <2>1, <2>3 DEF TuiInv, Within, SearchRight, LitRight, CountsRight, input, panel, subs, asked
    <3>2. PanicsOnlyAfterChange' /\ LoadingRight'
      BY <2>1 DEF TuiInv, PanicsOnlyAfterChange, LoadingRight, UnderWay, input, asked
    <3>3. PanelRight'
      BY <2>1 DEF TuiInv, PanelRight, LastFor, asked, panel
    <3>4. OnItem'
      BY <2>1 DEF OnItem
    <3>5. QED
      BY <3>1, <3>2, <3>3, <3>4
  <2>5. (\A i \in DOMAIN calls : CallRight(calls[i]) /\ CarriesRight(calls[i]))'
    BY <2>1 DEF TuiInv, CarriesRight
  <2>6. MarksRight'
    BY <2>1 DEF TuiInv, MarksRight, RowsRight, panel
  <2>7. QED
    BY <2>2, <2>4, <2>5, <2>6 DEF TuiInv
<1>4. subscribed \subseteq Feeds /\ filed \subseteq Feeds /\ folder \in {"later", "there", "gone"}
  BY <1>0 DEF TuiTypes
<1>5. ASSUME NEW f \in Feeds, Subscribe(f) \/ Unsubscribe(f) \/ Refile(f)
      PROVE  Elsewhere /\ subscribed' \subseteq Feeds /\ filed' \subseteq Feeds /\ folder' \in {"later", "there", "gone"}
  BY <1>4, <1>5 DEF Subscribe, Unsubscribe, Refile
<1>6. ASSUME CreateFolder \/ DeleteFolder
      PROVE  Elsewhere /\ subscribed' \subseteq Feeds /\ filed' \subseteq Feeds /\ folder' \in {"later", "there", "gone"}
  BY <1>4, <1>6 DEF CreateFolder, DeleteFolder
<1>7. QED
  BY <1>1, <1>2, <1>3, <1>5, <1>6 DEF Mishap

-----------------------------------------------------------------------------
(* Answers                                                                     *)

\* Rows with marks on them keep their places.
LEMMA ShownRows ==
  ASSUME NEW rows \in Seq(Row), NEW es, NEW m \in Marks, NEW t, t = Shown(rows, es, m)
  PROVE  /\ t \in Seq(Row) /\ DOMAIN t = DOMAIN rows /\ (rows = <<>> <=> t = <<>>)
         /\ \A k \in DOMAIN rows : /\ t[k].entry = rows[k].entry /\ rows[k].entry \in Entries
                                   /\ t[k].mark = IF rows[k].entry \in es THEN m ELSE rows[k].mark
<1>1. DOMAIN rows = 1..Len(rows) /\ Len(rows) \in Nat /\ \A k \in DOMAIN rows : rows[k] \in Row
  BY LenProperties, ElementOfSeq
<1>2. t = [k \in DOMAIN rows |-> IF rows[k].entry \in es THEN [rows[k] EXCEPT !.mark = m] ELSE rows[k]]
  BY DEF Shown
<1>3. ASSUME NEW k \in DOMAIN rows
      PROVE  /\ t[k] \in Row /\ t[k].entry = rows[k].entry /\ rows[k].entry \in Entries
             /\ t[k].mark = IF rows[k].entry \in es THEN m ELSE rows[k].mark
  BY <1>1, <1>2 DEF Row
<1>4. t \in [1..Len(rows) -> Row]
  <2>1. DOMAIN t = 1..Len(rows) /\ t = [k \in DOMAIN rows |-> t[k]]
    BY <1>1, <1>2
  <2>2. QED
    BY <1>1, <1>3, <2>1
<1>5. t \in Seq(Row) /\ Len(t) = Len(rows) /\ DOMAIN t = DOMAIN rows
  BY <1>1, <1>4
<1>6. rows = <<>> <=> t = <<>>
  BY <1>5, EmptySeq
<1>7. QED
  BY <1>3, <1>5, <1>6

\* The rows of an answer are put in a sequence.
LEMMA RowsOf ==
  ASSUME NEW rs \in SUBSET (Entries \X Marks), NEW t, t = Rows(rs)
  PROVE  /\ t \in Seq(Row) /\ (t # <<>> => 1 \in DOMAIN t)
         /\ \A k \in DOMAIN t : \E r \in rs : t[k].entry = r[1] /\ t[k].mark = r[2]
<1> DEFINE S == {[entry |-> r[1], mark |-> r[2]] : r \in rs}
           f == [r \in Entries \X Marks |-> [entry |-> r[1], mark |-> r[2]]]
<1>1. IsFiniteSet(Row)
  <2>1. IsFiniteSet(Marks)
    <3>1. IsFiniteSet({"read"}) /\ IsFiniteSet({"unread"})
      BY FS_Singleton
    <3>2. Marks = {"read"} \cup {"unread"}
      BY DEF Marks
    <3>3. QED
      BY <3>1, <3>2, FS_Union
  <2>2. IsFiniteSet(Entries \X Marks)
    BY <2>1, TuiAssumption, FS_Product
  <2>3. f \in [Entries \X Marks -> Row]
    BY DEF Row
  <2>4. ASSUME NEW row \in Row PROVE \E r \in Entries \X Marks : f[r] = row
    <3>1. <<row.entry, row.mark>> \in Entries \X Marks /\ row = [entry |-> row.entry, mark |-> row.mark]
      BY DEF Row
    <3>2. f[<<row.entry, row.mark>>] = row
      BY <3>1
    <3>3. QED
      BY <3>1, <3>2
  <2> HIDE DEF f
  <2>5. f \in Surjection(Entries \X Marks, Row)
    BY <2>3, <2>4 DEF Surjection
  <2>6. QED
    BY <2>2, <2>5, FS_Surjection
<1>2. S \subseteq Row
  BY DEF Row
<1>3. IsFiniteSet(S)
  BY <1>1, <1>2, FS_Subset
<1>4. t = SetToSeq(S)
  BY DEF Rows
<1> HIDE DEF S
<1>5. t \in Seq(S)
  BY <1>3, <1>4, SetToSeqType
<1>6. DOMAIN t = 1..Len(t) /\ Len(t) \in Nat /\ \A k \in DOMAIN t : t[k] \in S
  BY <1>5, LenProperties, ElementOfSeq
<1>7. t \in Seq(Row)
  BY <1>2, <1>5
<1>8. t # <<>> => 1 \in DOMAIN t
  BY <1>5, <1>6, EmptySeq
<1>9. ASSUME NEW k \in DOMAIN t PROVE \E r \in rs : t[k].entry = r[1] /\ t[k].mark = r[2]
  <2>1. PICK r \in rs : t[k] = [entry |-> r[1], mark |-> r[2]]
    BY <1>6 DEF S
  <2>2. QED
    BY <2>1
<1>10. QED
  BY <1>7, <1>8, <1>9

\* What is under way once an answer is taken.
LEMMA TakenCalls ==
  ASSUME TuiInv, status' = status, NEW i \in DOMAIN calls, calls' = Pending(i)
  PROVE  /\ OldOrNew /\ Len(calls') <= MaxCalls
         /\ (\A j \in DOMAIN calls : CallRight(calls[j]) /\ CarriesRight(calls[j]))'
         /\ \A j \in DOMAIN calls : j # i => \E k \in DOMAIN calls' : calls'[k] = calls[j]
         /\ \A kinds : calls[i].kind \notin kinds => Keeps(kinds)
         /\ calls[i] \in CallType /\ CallRight(calls[i]) /\ CarriesRight(calls[i])
<1>0. TuiTypes
  BY DEF TuiInv
<1> PICK p : p = Pending(i)
  OBVIOUS
<1>1. /\ FromCalls(p) /\ Len(p) = Len(calls) - 1
      /\ Len(calls) \in Nat
      /\ \A j \in DOMAIN calls \ {i} : \E k \in DOMAIN p : p[k] = calls[j]
      /\ \A kinds : calls[i].kind \notin kinds => StillIn(p, kinds)
  BY <1>0, OneTaken
<1>2. calls' = p
  OBVIOUS
<1>3. OldOrNew
  BY <1>1, <1>2 DEF OldOrNew, FromCalls
<1>4. Len(calls') <= MaxCalls
  BY <1>0, <1>1, <1>2, TuiAssumption DEF TuiTypes
<1>5. \A kinds : calls[i].kind \notin kinds => Keeps(kinds)
  BY <1>1, <1>2 DEF Keeps
<1>6. (\A j \in DOMAIN calls : CallRight(calls[j]) /\ CarriesRight(calls[j]))'
  BY <1>3, CallsStayRight
<1>7. calls[i] \in CallType /\ CallRight(calls[i]) /\ CarriesRight(calls[i])
  BY <1>0, CallsType DEF TuiInv
<1>8. QED
  BY <1>1, <1>2, <1>3, <1>4, <1>5, <1>6, <1>7

\* Rows that an answer does not touch, when it is none that brings their marks.
LEMMA RowsStay ==
  ASSUME TuiInv, status' = status, NEW i \in DOMAIN calls, calls' = Pending(i),
         NEW rows, NEW known, NEW kinds, RowsRight(rows, known, kinds),
         calls[i].phase # "served" \/ calls[i].kind \notin kinds
  PROVE  RowsRight(rows, known, kinds)'
<1>1. \A j \in DOMAIN calls : j # i => \E k \in DOMAIN calls' : calls'[k] = calls[j]
  BY TakenCalls
<1>2. ASSUME NEW k \in DOMAIN rows, rows[k].entry \in known
      PROVE  \/ rows[k].mark = status'[rows[k].entry]
             \/ \E j \in DOMAIN calls' : /\ calls'[j].kind \in kinds /\ calls'[j].phase = "served"
                                         /\ rows[k].entry \in Marked(calls'[j]) \ calls'[j].old
  <2>1. CASE rows[k].mark = status[rows[k].entry]
    BY <2>1
  <2>2. CASE rows[k].mark # status[rows[k].entry]
    <3>1. PICK j \in DOMAIN calls : calls[j].kind \in kinds /\ calls[j].phase = "served" /\ rows[k].entry \in Marked(calls[j]) \ calls[j].old
      BY <1>2, <2>2 DEF RowsRight
    <3>2. PICK n \in DOMAIN calls' : calls'[n] = calls[j]
      BY <1>1, <3>1
    <3>3. QED
      BY <3>1, <3>2
  <2>3. QED
    BY <2>1, <2>2
<1>3. QED
  BY <1>2 DEF RowsRight

\* Rows that an answer marks, where it marks all that it was to bring.
LEMMA RowsMarked ==
  ASSUME TuiInv, status' = status, NEW i \in DOMAIN calls, calls' = Pending(i),
         NEW rows \in Seq(Row), NEW known, NEW kinds, RowsRight(rows, known, kinds),
         NEW es, NEW m \in Marks, NEW later, Marked(calls[i]) \subseteq es,
         \A e \in later \cap es : m = status[e], later \ es \subseteq known
  PROVE  RowsRight(Shown(rows, es, m), later, kinds)'
<1>1. \A j \in DOMAIN calls : j # i => \E k \in DOMAIN calls' : calls'[k] = calls[j]
  BY TakenCalls
<1> PICK t : t = Shown(rows, es, m)
  OBVIOUS
<1>2. /\ DOMAIN t = DOMAIN rows
      /\ \A k \in DOMAIN rows : /\ t[k].entry = rows[k].entry
                                /\ t[k].mark = IF rows[k].entry \in es THEN m ELSE rows[k].mark
  BY ShownRows
<1>3. ASSUME NEW k \in DOMAIN t, t[k].entry \in later
      PROVE  \/ t[k].mark = status'[t[k].entry]
             \/ \E j \in DOMAIN calls' : /\ calls'[j].kind \in kinds /\ calls'[j].phase = "served"
                                         /\ t[k].entry \in Marked(calls'[j]) \ calls'[j].old
  <2> PICK e : e = rows[k].entry
    OBVIOUS
  <2>0. k \in DOMAIN rows /\ t[k].entry = e /\ t[k].mark = IF e \in es THEN m ELSE rows[k].mark
    BY <1>2
  <2>1. CASE e \in es
    BY <1>3, <2>0, <2>1
  <2>2. CASE e \notin es /\ rows[k].mark = status[e]
    BY <2>0, <2>2
  <2>3. CASE e \notin es /\ rows[k].mark # status[e]
    <3>1. e \in known
      BY <1>3, <2>0, <2>3
    <3>2. PICK j \in DOMAIN calls : calls[j].kind \in kinds /\ calls[j].phase = "served" /\ e \in Marked(calls[j]) \ calls[j].old
      BY <2>0, <2>3, <3>1 DEF RowsRight
    <3>3. j # i
      BY <2>3, <3>2
    <3>4. PICK n \in DOMAIN calls' : calls'[n] = calls[j]
      BY <1>1, <3>2, <3>3
    <3>5. QED
      BY <2>0, <3>2, <3>4
  <2>4. QED
    BY <2>1, <2>2, <2>3
<1>4. RowsRight(t, later, kinds)'
  BY <1>3 DEF RowsRight
<1>5. QED
  BY <1>4 DEF RowsRight

\* An answer that is none of the panel's and does not bring the feeds.
LEMMA SideTake ==
  ASSUME TuiInv, mode # "panic", events' \in 0..MaxEvents, NEW i \in DOMAIN calls, calls' = Pending(i),
         calls[i].kind \notin Main \cup {"feeds"},
         UNCHANGED <<server, cursor, input, loading, at, shown, due, settled, feeds>>, preview'.open = preview.open,
         entries' \in Seq(Row), DOMAIN entries' = DOMAIN entries, entries = <<>> => entries' = <<>>,
         fresh' \in SUBSET Entries, preview' \in [open : BOOLEAN, rows : Seq(Row), fresh : SUBSET Entries],
         folders' \in BOOLEAN, rebuilt' \in BOOLEAN, err' \in BOOLEAN, cache' \subseteq Feeds,
         {subsLoading', subsFor', subsLast'} \subseteq Feeds \cup {None},
         ~altered => Grown' /\ (cursor = 0 \/ InRange(cursor)'),
         unlisted' \in BOOLEAN, ~unlisted' => ~unlisted /\ Selected' = Selected, MarksRight', CountsRight'
  PROVE  TuiInv'
<1>0. TuiTypes
  BY DEF TuiInv
<1>1. /\ OldOrNew /\ Len(calls') <= MaxCalls
      /\ (\A j \in DOMAIN calls : CallRight(calls[j]) /\ CarriesRight(calls[j]))'
      /\ \A kinds : calls[i].kind \notin kinds => Keeps(kinds)
  BY TakenCalls DEF server
<1>2. TuiTypes'
  BY <1>0, <1>1 DEF TuiTypes, OldOrNew, server, input
<1>3. Within' /\ SearchRight' /\ PanicsOnlyAfterChange'
  <2>1. SearchRight' /\ PanicsOnlyAfterChange'
    BY DEF TuiInv, SearchRight, PanicsOnlyAfterChange, input, server
  <2>2. Within'
    BY DEF TuiInv, Within
  <2>3. QED
    BY <2>1, <2>2
<1>4. OnItem'
  BY <1>1, StaysOnItem DEF server
<1>5. LoadingRight'
  <2>1. UnderWay(Main \cup {"feeds"}) => UnderWay(Main \cup {"feeds"})'
    BY <1>1, StaysUnderWay
  <2>2. QED
    BY <1>0, <2>1 DEF TuiInv, TuiTypes, LoadingRight
<1>6. PanelRight'
  <2>1. ~settled => \E j \in DOMAIN calls : LastFor(j)
    BY DEF TuiInv, PanelRight
  <2>2. calls[i].kind \notin Main /\ due' \in {due, None}
    OBVIOUS
  <2>3. ~settled => \E j \in DOMAIN calls' : LastFor(j)'
    BY <1>0, <2>1, <2>2, LastTaken
  <2>4. QED
    BY <2>3 DEF TuiInv, PanelRight
<1>7. LitRight'
  BY DEF TuiInv, LitRight
<1>8. QED
  BY <1>1, <1>2, <1>3, <1>4, <1>5, <1>6, <1>7 DEF TuiInv

\* The answers to marks reach the rows they were made from.
LEMMA MarksTaken ==
  ASSUME TuiInv, mode # "panic", events' \in 0..MaxEvents, NEW i \in DOMAIN calls, TakeMark(i) \/ TakeMarkByURL(i) \/ TakeMarkedFeed(i)
  PROVE  TuiInv'
<1>0. /\ TuiTypes /\ entries \in Seq(Row) /\ preview \in [open : BOOLEAN, rows : Seq(Row), fresh : SUBSET Entries]
      /\ preview.rows \in Seq(Row) /\ fresh \subseteq Entries /\ preview.fresh \in SUBSET Entries
      /\ {err, folders, rebuilt, loading} \subseteq BOOLEAN /\ cache \subseteq Feeds
      /\ {subsLoading, subsFor, subsLast} \subseteq Feeds \cup {None}
  BY DEF TuiInv, TuiTypes
<1>1. /\ RowsRight(entries, fresh, {"mark", "all"}) /\ RowsRight(preview.rows, preview.fresh, {"url"})
      /\ (~preview.open => preview.rows = <<>>)
  BY DEF TuiInv, MarksRight
<1> PICK c : c = calls[i]
  OBVIOUS
<1>2. /\ calls' = Pending(i) /\ c.kind \in {"mark", "url", "all"} /\ c.phase # "sent"
      /\ UNCHANGED <<server, sidebar, cursor, input, loading, at, shown, cache, subs, asked>>
      /\ preview'.open = preview.open
  BY <1>0 DEF TakeMark, TakeMarkByURL, TakeMarkedFeed, Answered, Timeless
<1>3. /\ c \in CallType /\ CallRight(c) /\ CarriesRight(c) /\ c.old \subseteq Entries
  <2>1. c \in CallType /\ CallRight(c) /\ CarriesRight(c)
    BY <1>2, TakenCalls DEF server
  <2>2. QED
    BY <2>1 DEF CallType
<1>4. /\ Marked(c) \subseteq Entries /\ Read(c) \in Marks
      /\ c.kind \in {"mark", "url"} => Marked(c) = {c.of} /\ c.of \in Entries /\ Read(c) = c.mark
      /\ c.kind = "all" => Read(c) = "read"
      /\ Good(i) <=> c.phase = "served"
  BY <1>2, <1>3, MarkedType DEF CallRight, Read, Good, Timeless
<1>5. c.phase = "served" => \A e \in Marked(c) \ c.old : status[e] = Read(c)
  BY <1>3 DEF CarriesRight
<1>6. Selected' = Selected /\ (InRange(cursor)' <=> InRange(cursor)) /\ CountsRight' /\ feeds' = feeds
      /\ {folders', rebuilt'} \subseteq BOOLEAN /\ cache' \subseteq Feeds
      /\ {subsLoading', subsFor', subsLast'} \subseteq Feeds \cup {None} /\ status' = status
  <2>1. Selected' = Selected /\ (InRange(cursor)' <=> InRange(cursor))
    BY <1>2, SameItems
  <2>2. CountsRight'
    BY <1>2 DEF TuiInv, CountsRight, subs
  <2>3. QED
    BY <1>0, <1>2, <2>1, <2>2 DEF sidebar, subs, server
<1>7. /\ c.kind \notin Main \cup {"feeds"} /\ UNCHANGED <<due, settled, unlisted>> /\ unlisted' \in BOOLEAN
      /\ ~altered => Grown' /\ (cursor = 0 \/ InRange(cursor)')
  <2>1. ~altered => Grown' /\ (cursor = 0 \/ InRange(cursor)')
    BY <1>2, <1>6, SameRows DEF TuiInv, OnItem, server
  <2>2. UNCHANGED <<due, settled, unlisted>> /\ unlisted' \in BOOLEAN
    BY <1>0, <1>2 DEF asked, TuiInv, TuiTypes
  <2>3. c.kind \notin Main \cup {"feeds"}
    BY <1>2 DEF Main
  <2>4. QED
    BY <2>1, <2>2, <2>3
<1>8. SUFFICES /\ entries' \in Seq(Row) /\ DOMAIN entries' = DOMAIN entries /\ (entries = <<>> => entries' = <<>>)
               /\ fresh' \in SUBSET Entries /\ preview' \in [open : BOOLEAN, rows : Seq(Row), fresh : SUBSET Entries]
               /\ err' \in BOOLEAN /\ MarksRight'
  BY <1>2, <1>6, <1>7, SideTake
<1> PICK rows \in Seq(Row) : rows = entries
  BY <1>0
<1> PICK seen \in Seq(Row) : seen = preview.rows
  BY <1>0
<1> PICK known \in SUBSET Entries : known = fresh
  BY <1>0
<1> PICK heard \in SUBSET Entries : heard = preview.fresh
  BY <1>0
<1>9. c.kind # "url" \/ c.phase # "served" => RowsRight(seen, heard, {"url"})'
  BY <1>1, <1>2, <1>6, RowsStay
<1>10. c.kind = "url" \/ c.phase # "served" => RowsRight(rows, known, {"mark", "all"})'
  BY <1>1, <1>2, <1>6, RowsStay
<1>11. entries' = rows /\ fresh' = known /\ RowsRight(rows, known, {"mark", "all"})' => RowsRight(entries, fresh, {"mark", "all"})'
  BY DEF RowsRight
<1>12. preview'.rows = seen /\ preview'.fresh = heard /\ RowsRight(seen, heard, {"url"})' => RowsRight(preview.rows, preview.fresh, {"url"})'
  BY DEF RowsRight
<1>13. CASE c.kind = "mark"
  <2>1. /\ IF c.phase = "failed" THEN UNCHANGED <<entries, fresh>>
           ELSE /\ entries' = Shown(entries, {c.of}, c.mark)
                /\ fresh' = (IF Good(i) /\ c.old = {} THEN fresh \cup {c.of} ELSE fresh \ {c.of})
        /\ UNCHANGED <<preview, err>>
    BY <1>13 DEF TakeMark, TakeMarkByURL, TakeMarkedFeed
  <2>2. RowsRight(preview.rows, preview.fresh, {"url"})' /\ (~preview.open => preview.rows = <<>>)'
    BY <1>1, <1>9, <1>12, <1>13, <2>1
  <2>3. CASE c.phase = "failed"
    <3>1. entries' = rows /\ fresh' = known
      BY <2>1, <2>3
    <3>2. RowsRight(entries, fresh, {"mark", "all"})'
      BY <1>10, <1>11, <2>3, <3>1
    <3>3. QED
      BY <1>0, <2>1, <2>2, <3>1, <3>2 DEF MarksRight
  <2>4. CASE c.phase # "failed"
    <3> PICK later : later = IF c.phase = "served" /\ c.old = {} THEN known \cup {c.of} ELSE known \ {c.of}
      OBVIOUS
    <3>1. entries' = Shown(rows, {c.of}, c.mark) /\ fresh' = later /\ c.mark \in Marks
      BY <1>4, <1>13, <2>1, <2>4
    <3>2. \A e \in later \cap {c.of} : c.mark = status[e]
      BY <1>4, <1>5, <1>13
    <3>3. RowsRight(entries, fresh, {"mark", "all"})'
      <4> PICK es : es = {c.of}
        OBVIOUS
      <4> PICK m \in Marks : m = c.mark
        BY <3>1
      <4>1. Marked(c) \subseteq es /\ later \ es \subseteq known /\ \A e \in later \cap es : m = status[e]
        BY <1>4, <1>13, <3>2
      <4>2. RowsRight(Shown(rows, es, m), later, {"mark", "all"})'
        BY <1>1, <1>2, <1>6, <4>1, RowsMarked
      <4> PICK t : t = Shown(rows, es, m)
        OBVIOUS
      <4>3. entries' = t /\ fresh' = later /\ RowsRight(t, later, {"mark", "all"})'
        BY <3>1, <4>2 DEF RowsRight
      <4>4. QED
        BY <4>3 DEF RowsRight
    <3>4. entries' \in Seq(Row) /\ DOMAIN entries' = DOMAIN entries /\ (entries = <<>> => entries' = <<>>)
      BY <3>1, ShownRows
    <3>5. later \in SUBSET Entries
      BY <1>4, <1>13
    <3>6. QED
      BY <1>0, <2>1, <2>2, <3>1, <3>3, <3>4, <3>5 DEF MarksRight
  <2>5. QED
    BY <2>3, <2>4
<1>14. CASE c.kind = "all"
  <2>1. /\ IF Good(i)
           THEN /\ entries' = Shown(entries, Marked(c), "read")
                /\ fresh' = (fresh \cup Marked(c)) \ c.old
                /\ UNCHANGED err
           ELSE ShowError /\ UNCHANGED <<entries, fresh>>
        /\ UNCHANGED preview
    BY <1>14 DEF TakeMark, TakeMarkByURL, TakeMarkedFeed
  <2>2. RowsRight(preview.rows, preview.fresh, {"url"})' /\ (~preview.open => preview.rows = <<>>)'
    BY <1>1, <1>9, <1>12, <1>14, <2>1
  <2>3. CASE ~Good(i)
    <3>1. entries' = rows /\ fresh' = known /\ err' = TRUE
      BY <2>1, <2>3 DEF ShowError
    <3>2. RowsRight(entries, fresh, {"mark", "all"})'
      BY <1>4, <1>10, <1>11, <2>3, <3>1
    <3>3. QED
      BY <1>0, <2>1, <2>2, <3>1, <3>2 DEF MarksRight
  <2>4. CASE Good(i)
    <3> PICK es : es = Marked(c)
      OBVIOUS
    <3> PICK later : later = (known \cup es) \ c.old
      OBVIOUS
    <3>1. entries' = Shown(rows, es, "read") /\ fresh' = later /\ "read" \in Marks
      BY <1>4, <1>14, <2>1, <2>4
    <3>2. \A e \in later \cap es : "read" = status[e]
      BY <1>4, <1>5, <1>14, <2>4
    <3>3. RowsRight(entries, fresh, {"mark", "all"})'
      <4> PICK m \in Marks : m = "read"
        BY <3>1
      <4>1. Marked(c) \subseteq es /\ later \ es \subseteq known /\ \A e \in later \cap es : m = status[e]
        BY <3>2
      <4>2. RowsRight(Shown(rows, es, m), later, {"mark", "all"})'
        BY <1>1, <1>2, <1>6, <4>1, RowsMarked
      <4> PICK t : t = Shown(rows, es, m)
        OBVIOUS
      <4>3. entries' = t /\ fresh' = later /\ RowsRight(t, later, {"mark", "all"})'
        BY <3>1, <4>2 DEF RowsRight
      <4>4. QED
        BY <4>3 DEF RowsRight
    <3>4. entries' \in Seq(Row) /\ DOMAIN entries' = DOMAIN entries /\ (entries = <<>> => entries' = <<>>)
      BY <3>1, ShownRows
    <3>5. later \in SUBSET Entries
      BY <1>4
    <3>6. QED
      BY <1>0, <2>1, <2>2, <2>4, <3>1, <3>3, <3>4, <3>5 DEF MarksRight
  <2>5. QED
    BY <2>3, <2>4
<1>15. CASE c.kind = "url"
  <2>1. /\ err' = (c.phase = "failed") /\ UNCHANGED <<entries, fresh>>
        /\ preview' =
             IF c.phase = "failed" \/ ~preview.open THEN preview
             ELSE [preview EXCEPT !.rows = Shown(@, {c.of}, c.mark),
                                  !.fresh = IF Good(i) /\ c.old = {} THEN @ \cup {c.of} ELSE @ \ {c.of}]
    BY <1>15 DEF TakeMark, TakeMarkByURL, TakeMarkedFeed
  <2>2. RowsRight(entries, fresh, {"mark", "all"})' /\ entries' = entries /\ err' \in BOOLEAN
    BY <1>10, <1>11, <1>15, <2>1
  <2>3. CASE c.phase = "failed"
    <3>1. preview' = preview
      BY <2>1, <2>3
    <3>2. RowsRight(preview.rows, preview.fresh, {"url"})'
      BY <1>9, <1>12, <2>3, <3>1
    <3>3. QED
      BY <1>0, <1>1, <2>1, <2>2, <3>1, <3>2 DEF MarksRight
  <2>4. CASE c.phase # "failed" /\ ~preview.open
    <3>1. preview' = preview /\ preview.rows = <<>>
      BY <1>1, <2>1, <2>4
    <3>2. RowsRight(preview.rows, preview.fresh, {"url"})'
      BY <3>1 DEF RowsRight
    <3>3. QED
      BY <1>0, <1>1, <2>1, <2>2, <3>1, <3>2 DEF MarksRight
  <2>5. CASE c.phase # "failed" /\ preview.open
    <3> PICK later : later = IF c.phase = "served" /\ c.old = {} THEN heard \cup {c.of} ELSE heard \ {c.of}
      OBVIOUS
    <3> PICK t : t = Shown(seen, {c.of}, c.mark)
      OBVIOUS
    <3>1. preview' = [preview EXCEPT !.rows = t, !.fresh = later] /\ c.mark \in Marks
      BY <1>4, <1>15, <2>1, <2>5
    <3>2. \A e \in later \cap {c.of} : c.mark = status[e]
      BY <1>4, <1>5, <1>15
    <3>3. t \in Seq(Row) /\ later \in SUBSET Entries
      BY <1>4, <1>15, <3>1, ShownRows
    <3>4. preview'.rows = t /\ preview'.fresh = later /\ preview'.open = TRUE
          /\ preview' \in [open : BOOLEAN, rows : Seq(Row), fresh : SUBSET Entries]
      BY <1>0, <2>5, <3>1, <3>3
    <3>5. RowsRight(Shown(seen, {c.of}, c.mark), later, {"url"})'
      <4>1. Marked(c) \subseteq {c.of} /\ later \ {c.of} \subseteq heard
        BY <1>4, <1>15
      <4> PICK es : es = {c.of}
        OBVIOUS
      <4> PICK m \in Marks : m = c.mark
        BY <3>1
      <4>2. Marked(calls[i]) \subseteq es /\ later \ es \subseteq heard /\ \A e \in later \cap es : m = status[e]
        BY <3>2, <4>1
      <4>3. RowsRight(Shown(seen, es, m), later, {"url"})'
        BY <1>1, <1>2, <1>6, <4>2, RowsMarked
      <4>4. QED
        BY <4>3
    <3>6. RowsRight(preview.rows, preview.fresh, {"url"})'
      <4>1. RowsRight(t, later, {"url"})'
        BY <3>5 DEF RowsRight
      <4>2. QED
        BY <3>4, <4>1 DEF RowsRight
    <3>7. QED
      BY <1>0, <2>1, <2>2, <3>4, <3>6 DEF MarksRight
  <2>6. QED
    BY <2>3, <2>4, <2>5
<1>16. QED
  BY <1>2, <1>13, <1>14, <1>15

\* The folder, counts, and what a refresh comes to.
LEMMA SidesTaken ==
  ASSUME TuiInv, mode # "panic", events' \in 0..MaxEvents, NEW i \in DOMAIN calls, TakeFolders(i) \/ TakeSubs(i) \/ TakeRefreshed(i)
  PROVE  TuiInv'
<1>0. /\ TuiTypes /\ entries \in Seq(Row) /\ preview \in [open : BOOLEAN, rows : Seq(Row), fresh : SUBSET Entries]
      /\ fresh \subseteq Entries /\ {err, folders, rebuilt, loading} \subseteq BOOLEAN /\ cache \subseteq Feeds
      /\ {subsLoading, subsFor, subsLast} \subseteq Feeds \cup {None} /\ unlisted \in BOOLEAN
  BY DEF TuiInv, TuiTypes
<1>1. /\ calls' = Pending(i) /\ calls[i].kind \in {"folders", "subs", "refresh"}
      /\ UNCHANGED <<server, cursor, input, loading, panel, due, settled, feeds>>
  BY DEF TakeFolders, TakeSubs, TakeRefreshed, ShowError, sidebar, asked
<1>2. /\ OldOrNew /\ calls[i] \in CallType /\ CallRight(calls[i]) /\ \A kinds : calls[i].kind \notin kinds => Keeps(kinds)
  BY <1>1, TakenCalls DEF server
<1>3. UNCHANGED <<entries, at, preview, shown, fresh>> /\ status' = status
  BY <1>1 DEF panel, server
<1>4. MarksRight'
  <2>1. Keeps({"mark", "all"}) /\ Keeps({"url"})
    BY <1>1, <1>2
  <2>2. QED
    BY <1>3, <2>1, MarksStayRight
<1>5. calls[i].kind \notin Main \cup {"feeds"}
  BY <1>1 DEF Main
<1>6. SUFFICES /\ {folders', rebuilt', err'} \subseteq BOOLEAN /\ cache' \subseteq Feeds
               /\ {subsLoading', subsFor', subsLast'} \subseteq Feeds \cup {None}
               /\ ~altered => Grown' /\ (cursor = 0 \/ InRange(cursor)')
               /\ unlisted' \in BOOLEAN /\ (~unlisted' => ~unlisted /\ Selected' = Selected) /\ CountsRight'
  BY <1>0, <1>1, <1>3, <1>4, <1>5, SideTake
<1>7. CASE TakeFolders(i)
  <2>1. UNCHANGED <<cache, subs>> /\ err' \in BOOLEAN
    BY <1>0, <1>7 DEF TakeFolders, ShowError
  <2>2. CountsRight' /\ cache' \subseteq Feeds /\ {subsLoading', subsFor', subsLast'} \subseteq Feeds \cup {None}
    BY <1>0, <2>1 DEF TuiInv, CountsRight, subs
  <2>3. CASE Good(i)
    <3>1. /\ folders' = (Folder \in calls[i].rows) /\ rebuilt' = TRUE /\ feeds' = feeds /\ cursor' = cursor
          /\ unlisted' = (unlisted \/ Selected' # Selected) /\ calls[i].kind = "folders"
      BY <1>1, <1>7, <2>3 DEF TakeFolders
    <3>2. calls[i].phase = "served"
      BY <2>3, <3>1 DEF Good, Timeless
    <3>3. FeedRows' = FeedRows /\ FolderRows' = FolderRows
      BY <1>1, SameRows DEF server
    <3>4. ASSUME ~altered PROVE Grown' /\ (cursor = 0 \/ InRange(cursor)')
      <4>1. calls[i].rows = FolderRows /\ Grown /\ (cursor = 0 \/ InRange(cursor))
        BY <3>1, <3>2, <3>4 DEF TuiInv, OnItem
      <4>2. FolderRows \in {{}, {Folder}}
        BY DEF FolderRows
      <4>3. folders' \in BOOLEAN /\ (folders => folders')
        <5>1. folders' \in BOOLEAN
          BY <3>1
        <5>2. folders => Folder \in calls[i].rows
          BY <4>1 DEF Grown
        <5>3. QED
          BY <3>1, <5>1, <5>2
      <4>4. Grown'
        BY <3>1, <3>3, <4>1, <4>2 DEF Grown
      <4>5. InRange(cursor)'
        BY <1>0, <3>1, <4>1, <4>3, SidebarGrows
      <4>6. QED
        BY <4>4, <4>5
    <3>5. unlisted' \in BOOLEAN /\ (~unlisted' => ~unlisted /\ Selected' = Selected)
      BY <3>1, Zenon
    <3>6. folders' \in BOOLEAN /\ rebuilt' \in BOOLEAN
      BY <3>1
    <3>7. QED
      BY <2>1, <2>2, <3>4, <3>5, <3>6
  <2>4. CASE ~Good(i)
    <3>1. UNCHANGED <<sidebar, cursor, unlisted>>
      BY <1>1, <1>7, <2>4 DEF TakeFolders
    <3>2. Selected' = Selected /\ (InRange(cursor)' <=> InRange(cursor))
      BY <3>1, SameItems
    <3>3. ~altered => Grown' /\ (cursor = 0 \/ InRange(cursor)')
      BY <1>1, <3>1, <3>2, SameRows DEF TuiInv, OnItem, server
    <3>4. QED
      BY <1>0, <2>1, <2>2, <3>1, <3>2, <3>3 DEF sidebar
  <2>5. QED
    BY <2>3, <2>4
<1>8. CASE TakeSubs(i) \/ TakeRefreshed(i)
  <2>1. UNCHANGED <<sidebar, cursor, unlisted>> /\ err' \in BOOLEAN
    BY <1>0, <1>1, <1>8 DEF TakeSubs, TakeRefreshed, ShowError, asked
  <2>2. /\ Selected' = Selected /\ {folders', rebuilt'} \subseteq BOOLEAN
        /\ ~altered => Grown' /\ (cursor = 0 \/ InRange(cursor)')
    <3>1. Selected' = Selected /\ (InRange(cursor)' <=> InRange(cursor)) /\ {folders', rebuilt'} \subseteq BOOLEAN
      BY <1>0, <2>1, SameItems DEF sidebar
    <3>2. ~altered => Grown' /\ (cursor = 0 \/ InRange(cursor)')
      BY <1>1, <2>1, <3>1, SameRows DEF TuiInv, OnItem, server
    <3>3. QED
      BY <3>1, <3>2
  <2>3. CountsRight' /\ cache' \subseteq Feeds /\ {subsLoading', subsFor', subsLast'} \subseteq Feeds \cup {None}
    <3>1. CASE TakeRefreshed(i)
      BY <1>0, <3>1 DEF TakeRefreshed, TuiInv, CountsRight, subs
    <3>2. CASE TakeSubs(i)
      <4>1. calls[i].of \in Feeds
        BY <1>2, <3>2 DEF TakeSubs, CallRight
      <4> PICK f \in Feeds : f = calls[i].of
        BY <4>1
      <4>2. /\ subsLoading' = (IF subsLoading = f THEN None ELSE subsLoading) /\ subsFor' = subsFor
            /\ IF Good(i) THEN /\ cache' = cache \cup {f}
                               /\ subsLast' = (IF subsFor = f THEN f ELSE subsLast)
               ELSE UNCHANGED <<cache, subsLast>>
        BY <3>2 DEF TakeSubs
      <4>3. CountsRight
        BY DEF TuiInv
      <4>4. CountsRight'
        BY <4>2, <4>3 DEF CountsRight
      <4>5. QED
        BY <1>0, <4>2, <4>4
    <3>3. QED
      BY <1>8, <3>1, <3>2
  <2>4. QED
    BY <1>0, <2>1, <2>2, <2>3
<1>9. QED
  BY <1>7, <1>8

\* One of the panel's calls is answered: the last of them settles the panel.
LEMMA SettlesPanel ==
  ASSUME TuiInv, NEW i \in DOMAIN calls, calls[i].kind \in Main, calls' = Pending(i), Settle(i),
         Good(i) => IF calls[i].of = "preview" THEN preview'.open ELSE ~preview'.open /\ shown' = calls[i].of
  PROVE  PanelRight' /\ due' \in {due, None} /\ settled' \in BOOLEAN /\ unlisted' = unlisted
<1>0. TuiTypes
  BY DEF TuiInv
<1>1. i \in 1..Len(calls) /\ Len(calls) \in Nat /\ DOMAIN calls = 1..Len(calls)
  BY <1>0, CallsType
<1> PICK last \in BOOLEAN : last = (~settled /\ \A j \in i + 1..Len(calls) : calls[j].kind \notin Main)
  OBVIOUS
<1>2. /\ settled' = (settled \/ last) /\ unlisted' = unlisted
      /\ due' = (IF settled \/ (last /\ ~Good(i)) THEN None ELSE due)
  BY DEF Settle
<1>3. due' \in {due, None} /\ settled' \in BOOLEAN
  BY <1>0, <1>2 DEF TuiTypes
<1>4. ASSUME ~settled' PROVE \E j \in DOMAIN calls' : LastFor(j)'
  <2>1. ~settled /\ ~last
    BY <1>2, <1>4
  <2>2. \E j \in i + 1..Len(calls) : calls[j].kind \in Main
    BY <2>1
  <2>3. \E j \in DOMAIN calls : LastFor(j)
    BY <2>1 DEF TuiInv, PanelRight
  <2>4. QED
    BY <1>0, <1>3, <2>2, <2>3, LastTaken
<1>5. ASSUME settled', due' # None PROVE IF due' = "preview" THEN preview'.open ELSE ~preview'.open /\ shown' = due'
  <2>1. ~settled /\ last /\ Good(i) /\ due' = due
    BY <1>2, <1>5
  <2>2. PICK m \in DOMAIN calls : LastFor(m)
    BY <2>1 DEF TuiInv, PanelRight
  <2>3. m = i
    <3>1. CASE m < i
      <4>1. i \in m + 1..Len(calls)
        BY <1>1, <3>1
      <4>2. QED
        BY <2>2, <4>1 DEF LastFor
    <3>2. CASE m > i
      <4>1. m \in i + 1..Len(calls)
        BY <1>1, <3>2
      <4>2. QED
        BY <2>1, <2>2, <4>1 DEF LastFor
    <3>3. QED
      BY <1>1, <3>1, <3>2
  <2>4. calls[i].of = due
    BY <1>5, <2>1, <2>2, <2>3 DEF LastFor
  <2>5. QED
    BY <2>1, <2>4
<1>6. PanelRight'
  BY <1>4, <1>5 DEF PanelRight
<1>7. QED
  BY <1>2, <1>3, <1>6

\* A list, a search or a preview arrives: what it brings is all that is shown.
LEMMA PanelTaken ==
  ASSUME TuiInv, mode # "panic", events' \in 0..MaxEvents, NEW i \in DOMAIN calls, TakeEntries(i) \/ TakePreview(i)
  PROVE  TuiInv'
<1>0. /\ TuiTypes /\ entries \in Seq(Row) /\ preview \in [open : BOOLEAN, rows : Seq(Row), fresh : SUBSET Entries]
      /\ fresh \subseteq Entries /\ mode \in {"keys", "search", "url", "panic"} /\ focus \in {"sidebar", "entries"}
      /\ err \in BOOLEAN /\ at \in Nat \cup {-1}
  BY DEF TuiInv, TuiTypes
<1> PICK c : c = calls[i]
  OBVIOUS
<1>1. /\ calls' = Pending(i) /\ c.kind \in Main /\ Answered(i) /\ Settle(i) /\ loading' = FALSE
      /\ UNCHANGED <<server, sidebar, cursor, query, cache, subs>>
  BY DEF TakeEntries, TakePreview, Main, input
<1>2. /\ OldOrNew /\ Len(calls') <= MaxCalls
      /\ (\A j \in DOMAIN calls : CallRight(calls[j]) /\ CarriesRight(calls[j]))'
      /\ \A kinds : c.kind \notin kinds => Keeps(kinds)
      /\ c \in CallType /\ CallRight(c) /\ CarriesRight(c)
  BY <1>1, TakenCalls DEF server
<1>3. Keeps({"mark", "all"}) /\ Keeps({"url"})
  BY <1>1, <1>2 DEF Main
<1>4. c.rows \in SUBSET (Entries \X Marks) /\ c.old \in SUBSET Entries
  BY <1>1, <1>2 DEF CallRight, CallType, Main
<1>5. Good(i) <=> c.phase = "served"
  BY <1>1 DEF Good, Main, Timeless
<1> PICK t : t = Rows(c.rows)
  OBVIOUS
<1>6. /\ t \in Seq(Row) /\ (t # <<>> => 1 \in DOMAIN t)
      /\ \A k \in DOMAIN t : \E r \in c.rows : t[k].entry = r[1] /\ t[k].mark = r[2]
  BY <1>4, RowsOf
<1>7. ASSUME NEW kinds, Good(i) PROVE RowsRight(t, Entries \ c.old, kinds)'
  <2>1. \A r \in c.rows : r[1] \notin c.old => r[2] = status[r[1]]
    BY <1>1, <1>2, <1>5, <1>7 DEF CarriesRight, Main
  <2>2. status' = status
    BY <1>1 DEF server
  <2>3. ASSUME NEW k \in DOMAIN t, t[k].entry \in Entries \ c.old PROVE t[k].mark = status'[t[k].entry]
    BY <1>6, <2>1, <2>2, <2>3
  <2>4. QED
    BY <2>3 DEF RowsRight
<1>8. NoPreview \in [open : BOOLEAN, rows : Seq(Row), fresh : SUBSET Entries] /\ ~NoPreview.open /\ NoPreview.rows = <<>>
  <2>1. {} \in SUBSET Entries /\ <<>> \in Seq(Row)
    OBVIOUS
  <2>2. QED
    BY <2>1 DEF NoPreview
<1>9. Selected' = Selected /\ (InRange(cursor)' <=> InRange(cursor))
  BY <1>1, SameItems
<1>10. OnItem'
  <2>1. ~altered => Grown' /\ (cursor' = 0 \/ InRange(cursor)')
    BY <1>1, <1>9, SameRows DEF TuiInv, OnItem, server
  <2>2. QED
    BY <1>1, <1>2, <2>1, StaysOnItem DEF server
<1>11. CountsRight' /\ LoadingRight'
  BY <1>1 DEF TuiInv, CountsRight, LoadingRight, subs
<1>12. ASSUME due' \in {due, None}, settled' \in BOOLEAN, unlisted' = unlisted, PanelRight', MarksRight', Within',
              entries' \in Seq(Row), at' \in Nat \cup {-1}, fresh' \in SUBSET Entries, err' \in BOOLEAN,
              preview' \in [open : BOOLEAN, rows : Seq(Row), fresh : SUBSET Entries],
              shown' \in {shown, c.of}, focus' \in {"sidebar", "entries"},
              mode' = mode \/ (mode = "url" /\ mode' = "keys")
       PROVE  TuiInv'
  <2>1. c.of \in Feeds \cup {Tab, Folder, None, "search", "preview"}
    BY <1>1, <1>2 DEF CallRight, Main, Item
  <2>2. TuiTypes'
    <3>1. subscribed' \subseteq Feeds /\ filed' \subseteq Feeds /\ folder' \in {"later", "there", "gone"}
          /\ status' \in [Entries -> Marks] /\ altered' \in BOOLEAN
      BY <1>0, <1>1 DEF TuiTypes, server
    <3>2. feeds' \subseteq Feeds \X {None, Folder} /\ folders' \in BOOLEAN /\ rebuilt' \in BOOLEAN /\ cursor' \in 0 .. Cardinality(Feeds) + 1
      BY <1>0, <1>1 DEF TuiTypes, sidebar
    <3>3. mode' \in {"keys", "search", "url", "panic"} /\ query' \in 0 .. MaxQuery
      BY <1>0, <1>1, <1>12 DEF TuiTypes
    <3>4. {loading', err', settled', unlisted'} \subseteq BOOLEAN
      BY <1>0, <1>1, <1>12 DEF TuiTypes
    <3>5. cache' \subseteq Feeds /\ {subsLoading', subsFor', subsLast'} \subseteq Feeds \cup {None}
      BY <1>0, <1>1 DEF TuiTypes, subs
    <3>6. {due', shown'} \subseteq Feeds \cup {Tab, Folder, None, "search", "preview"}
      BY <1>0, <1>12, <2>1 DEF TuiTypes
    <3>7. QED
      BY <1>2, <1>12, <3>1, <3>2, <3>3, <3>4, <3>5, <3>6 DEF TuiTypes, OldOrNew
  <2>3. None \notin Item /\ None # "search" /\ None # "preview"
    BY TuiAssumption DEF Item, None
  <2>4. LitRight'
    BY <1>9, <1>12, <2>3 DEF TuiInv, LitRight
  <2>5. SearchRight' /\ PanicsOnlyAfterChange'
    BY <1>1, <1>12, <2>3 DEF TuiInv, SearchRight, PanicsOnlyAfterChange
  <2>6. QED
    BY <1>2, <1>10, <1>11, <1>12, <2>2, <2>4, <2>5 DEF TuiInv
<1>13. ASSUME ~Good(i), UNCHANGED <<entries, fresh, at, shown>>, preview' \in {preview, NoPreview}, err' \in BOOLEAN, focus' = focus,
              mode' = mode \/ (mode = "url" /\ mode' = "keys")
       PROVE  TuiInv'
  <2>1. PanelRight' /\ due' \in {due, None} /\ settled' \in BOOLEAN /\ unlisted' = unlisted
    BY <1>1, <1>13, SettlesPanel
  <2>2. MarksRight'
    BY <1>1, <1>3, <1>13, MarksStayRight DEF server
  <2>3. Within'
    BY <1>13 DEF TuiInv, Within
  <2>4. preview' \in [open : BOOLEAN, rows : Seq(Row), fresh : SUBSET Entries]
    BY <1>0, <1>8, <1>13
  <2>5. QED
    BY <1>0, <1>12, <1>13, <2>1, <2>2, <2>3, <2>4
<1>14. CASE TakeEntries(i)
  <2>1. /\ c.kind \in {"list", "search"} /\ mode' = mode /\ focus' = focus
        /\ IF Good(i)
           THEN /\ entries' = t /\ at' = 0 /\ preview' = NoPreview /\ err' = FALSE /\ shown' = c.of
                /\ fresh' = Entries \ c.old
           ELSE ShowError /\ UNCHANGED panel
    BY <1>14 DEF TakeEntries, input
  <2>2. CASE ~Good(i)
    BY <1>13, <2>1, <2>2 DEF panel, ShowError
  <2>3. CASE Good(i)
    <3>1. c.of # "preview"
      BY <1>2, <2>1, TuiAssumption DEF CallRight, Item
    <3>2. PanelRight' /\ due' \in {due, None} /\ settled' \in BOOLEAN /\ unlisted' = unlisted
      BY <1>1, <1>8, <2>1, <2>3, <3>1, SettlesPanel
    <3>3. MarksRight'
      <4>1. RowsRight(t, Entries \ c.old, {"mark", "all"})'
        BY <1>7, <2>3
      <4>2. RowsRight(entries, fresh, {"mark", "all"})'
        BY <2>1, <2>3, <4>1 DEF RowsRight
      <4>3. RowsRight(preview.rows, preview.fresh, {"url"})' /\ (~preview.open => preview.rows = <<>>)'
        BY <1>8, <2>1, <2>3 DEF RowsRight
      <4>4. QED
        BY <4>2, <4>3 DEF MarksRight
    <3>4. Within' /\ at' \in Nat \cup {-1}
      BY <1>6, <2>1, <2>3 DEF Within
    <3>5. QED
      BY <1>0, <1>6, <1>8, <1>12, <2>1, <2>3, <3>2, <3>3, <3>4
  <2>4. QED
    BY <2>2, <2>3
<1>15. CASE TakePreview(i)
  <2>1. /\ c.kind = "get" /\ mode' = (IF mode = "url" THEN "keys" ELSE mode)
        /\ preview' = (IF Good(i) THEN [open |-> TRUE, rows |-> t, fresh |-> Entries \ c.old] ELSE NoPreview)
        /\ err' = ~Good(i) /\ focus' = (IF Good(i) THEN "entries" ELSE focus)
        /\ UNCHANGED <<entries, at, shown, fresh>>
    BY <1>15 DEF TakePreview
  <2>2. CASE ~Good(i)
    BY <1>13, <2>1, <2>2
  <2>3. CASE Good(i)
    <3>1. c.of = "preview" /\ preview'.open = TRUE /\ preview'.rows = t /\ preview'.fresh = Entries \ c.old
      BY <1>2, <2>1, <2>3 DEF CallRight
    <3>2. PanelRight' /\ due' \in {due, None} /\ settled' \in BOOLEAN /\ unlisted' = unlisted
      BY <1>1, <3>1, SettlesPanel
    <3>3. MarksRight'
      <4>1. RowsRight(t, Entries \ c.old, {"url"})'
        BY <1>7, <2>3
      <4>2. RowsRight(preview.rows, preview.fresh, {"url"})' /\ (~preview.open => preview.rows = <<>>)'
        BY <3>1, <4>1 DEF RowsRight
      <4>3. RowsRight(entries, fresh, {"mark", "all"})'
        <5> PICK rows : rows = entries
          OBVIOUS
        <5> PICK known : known = fresh
          OBVIOUS
        <5>1. RowsRight(rows, known, {"mark", "all"}) /\ c.kind \notin {"mark", "all"} /\ status' = status
          BY <1>1, <2>1 DEF TuiInv, MarksRight, server
        <5>2. RowsRight(rows, known, {"mark", "all"})'
          BY <1>1, <5>1, RowsStay
        <5>3. QED
          BY <2>1, <5>2 DEF RowsRight
      <4>4. QED
        BY <4>2, <4>3 DEF MarksRight
    <3>4. Within'
      BY <2>1 DEF TuiInv, Within
    <3>5. preview' \in [open : BOOLEAN, rows : Seq(Row), fresh : SUBSET Entries]
      <4>1. Entries \ c.old \in SUBSET Entries
        OBVIOUS
      <4>2. QED
        BY <1>6, <2>1, <2>3, <4>1
    <3>6. QED
      BY <1>0, <1>12, <2>1, <2>3, <3>2, <3>3, <3>4, <3>5
  <2>4. QED
    BY <2>2, <2>3
<1>16. QED
  BY <1>14, <1>15

\* The position after a cursor short of the end is a position.
LEMMA NextInRange ==
  ASSUME NEW c \in Nat, NEW n \in Nat, c < n
  PROVE  c + 1 \in 1..n
OBVIOUS

\* The feeds arrive, and with them the panel is asked for the item under the cursor.
LEMMA FeedsTaken ==
  ASSUME TuiInv, mode # "panic", events' \in 0..MaxEvents, NEW i \in DOMAIN calls, TakeFeeds(i)
  PROVE  TuiInv'
<1>0. /\ TuiTypes /\ cursor \in Nat /\ cursor \in 0..Cardinality(Feeds) + 1 /\ loading \in BOOLEAN
      /\ feeds \in SUBSET (Feeds \X {None, Folder}) /\ folders \in BOOLEAN /\ rebuilt \in BOOLEAN
  BY TuiAssumption, FS_CardinalityType DEF TuiInv, TuiTypes
<1> PICK p : p = Pending(i)
  OBVIOUS
<1>1. /\ calls[i].kind = "feeds" /\ Answered(i) /\ cursor' = cursor
      /\ UNCHANGED <<server, cursor, input, panel, cache>>
  BY DEF TakeFeeds
<1>2. /\ FromCalls(p) /\ StillIn(p, {"mark", "all"}) /\ StillIn(p, {"url"})
      /\ calls[i] \in CallType /\ CallRight(calls[i])
  BY <1>0, <1>1, OneTaken, CallsType DEF TuiInv
<1>3. UNCHANGED <<entries, at, preview, shown, fresh>> /\ status' = status /\ UNCHANGED <<subscribed, filed, folder, altered>>
  BY <1>1 DEF panel, server
<1>4. ASSUME OldOrNew, Len(calls') <= MaxCalls, Keeps({"mark", "all"}), Keeps({"url"}),
             feeds' \in SUBSET (Feeds \X {None, Folder}), folders' \in BOOLEAN, rebuilt' \in BOOLEAN,
             ~altered => Grown' /\ (cursor' = 0 \/ InRange(cursor)'),
             {loading', err', settled', unlisted'} \subseteq BOOLEAN, {subsLoading', subsFor', subsLast'} \subseteq Feeds \cup {None},
             due' = due \/ due' \in Item, LoadingRight', PanelRight', LitRight', CountsRight'
      PROVE  TuiInv'
  <2>1. TuiTypes'
    <3>1. /\ subscribed' \subseteq Feeds /\ filed' \subseteq Feeds /\ folder' \in {"later", "there", "gone"}
          /\ status' \in [Entries -> Marks] /\ altered' \in BOOLEAN /\ cursor' \in 0 .. Cardinality(Feeds) + 1
          /\ cache' \subseteq Feeds /\ entries' \in Seq(Row) /\ at' \in Nat \cup {-1} /\ fresh' \subseteq Entries
          /\ preview' \in [open : BOOLEAN, rows : Seq(Row), fresh : SUBSET Entries]
      BY <1>0, <1>1, <1>3 DEF TuiTypes
    <3>2. focus' \in {"sidebar", "entries"} /\ mode' \in {"keys", "search", "url", "panic"} /\ query' \in 0 .. MaxQuery
      BY <1>0, <1>1 DEF TuiTypes, input
    <3>3. {due', shown'} \subseteq Feeds \cup {Tab, Folder, None, "search", "preview"}
      BY <1>0, <1>3, <1>4 DEF TuiTypes, Item
    <3>4. QED
      BY <1>4, <3>1, <3>2, <3>3 DEF TuiTypes, OldOrNew
  <2>2. (\A j \in DOMAIN calls : CallRight(calls[j]) /\ CarriesRight(calls[j]))'
    BY <1>3, <1>4, CallsStayRight
  <2>3. OnItem'
    BY <1>3, <1>4, StaysOnItem
  <2>4. MarksRight'
    BY <1>3, <1>4, MarksStayRight
  <2>5. Within' /\ PanicsOnlyAfterChange'
    BY <1>1, <1>3 DEF TuiInv, Within, PanicsOnlyAfterChange, input
  <2>6. SearchRight'
    <3>1. \A item \in Item : item # "search" /\ item # "preview"
      BY TuiAssumption DEF Item
    <3>2. QED
      BY <1>1, <1>4, <3>1 DEF TuiInv, SearchRight, input
  <2>7. QED
    BY <1>4, <2>1, <2>2, <2>3, <2>4, <2>5, <2>6 DEF TuiInv
<1>5. ASSUME calls' = p, unlisted' = TRUE, UNCHANGED <<loading, subs, due, settled>>, err' \in BOOLEAN,
             feeds' \in SUBSET (Feeds \X {None, Folder}), folders' \in BOOLEAN, rebuilt' \in BOOLEAN,
             ~altered => Grown' /\ (cursor' = 0 \/ InRange(cursor)')
      PROVE  TuiInv'
  <2>1. OldOrNew /\ Len(calls') <= MaxCalls /\ Keeps({"mark", "all"}) /\ Keeps({"url"})
    BY <1>1, <1>3, <1>5, TakenCalls
  <2>2. LoadingRight' /\ LitRight'
    BY <1>5 DEF LoadingRight, LitRight
  <2>3. CountsRight'
    BY <1>1, <1>5 DEF TuiInv, CountsRight, subs
  <2>4. PanelRight'
    <3>1. ~settled => \E j \in DOMAIN calls : LastFor(j)
      BY DEF TuiInv, PanelRight
    <3>2. calls[i].kind \notin Main /\ due' \in {due, None} /\ calls' = Pending(i)
      BY <1>1, <1>5 DEF Main
    <3>3. ~settled => \E j \in DOMAIN calls' : LastFor(j)'
      BY <1>0, <3>1, <3>2, LastTaken
    <3>4. QED
      BY <1>3, <1>5, <3>3 DEF TuiInv, PanelRight
  <2>5. {loading', err', settled', unlisted'} \subseteq BOOLEAN /\ {subsLoading', subsFor', subsLast'} \subseteq Feeds \cup {None}
    BY <1>0, <1>5 DEF TuiTypes, subs
  <2>6. QED
    BY <1>4, <1>5, <2>1, <2>2, <2>3, <2>4, <2>5
<1>6. CASE ~Good(i)
  <2>1. /\ calls' = p /\ unlisted' = TRUE /\ UNCHANGED <<loading, subs, due, settled, sidebar>> /\ err' = TRUE
    BY <1>6 DEF TakeFeeds, ShowError
  <2>2. InRange(cursor)' <=> InRange(cursor)
    BY <1>1, <2>1, SameItems
  <2>3. ~altered => Grown' /\ (cursor' = 0 \/ InRange(cursor)')
    BY <1>1, <2>1, <2>2, SameRows DEF TuiInv, OnItem, server
  <2>4. feeds' \in SUBSET (Feeds \X {None, Folder}) /\ folders' \in BOOLEAN /\ rebuilt' \in BOOLEAN
    BY <1>0, <2>1 DEF sidebar
  <2>5. QED
    BY <1>5, <2>1, <2>3, <2>4
<1>7. CASE Good(i)
  <2>1. /\ feeds' = calls[i].rows /\ rebuilt' = TRUE /\ err' = FALSE /\ folders' = folders
        /\ IF cursor < Len(Items') THEN LoadSelection(p, Items'[cursor + 1])
           ELSE /\ calls' = p /\ unlisted' = TRUE
                /\ UNCHANGED <<loading, subs, due, settled>>
    BY <1>7 DEF TakeFeeds
  <2>2. feeds' \in SUBSET (Feeds \X {None, Folder}) /\ folders' \in BOOLEAN /\ rebuilt' \in BOOLEAN
    BY <1>0, <1>1, <1>2, <2>1 DEF CallRight
  <2>3. ~altered => Grown' /\ (cursor' = 0 \/ InRange(cursor)')
    <3>1. SUFFICES ASSUME ~altered PROVE Grown' /\ (cursor' = 0 \/ InRange(cursor)')
      OBVIOUS
    <3>2. calls[i].phase = "served"
      BY <1>1, <1>7 DEF Good, Timeless
    <3>3. feeds' = FeedRows /\ Grown /\ (cursor = 0 \/ InRange(cursor))
      BY <1>1, <2>1, <3>1, <3>2 DEF TuiInv, OnItem
    <3>4. FeedRows' = FeedRows /\ FolderRows' = FolderRows
      BY <1>3, SameRows
    <3>5. (feeds = {} \/ feeds = feeds') /\ folders' \in BOOLEAN /\ (folders => folders')
      BY <1>0, <2>1, <3>3 DEF Grown
    <3>6. InRange(cursor)'
      BY <1>0, <1>1, <2>1, <3>3, <3>5, SidebarGrows
    <3>7. QED
      BY <2>1, <3>3, <3>4, <3>6 DEF Grown
  <2>4. CASE ~(cursor < Len(Items'))
    BY <1>5, <2>1, <2>2, <2>3, <2>4
  <2>5. CASE cursor < Len(Items')
    <3>1. Items'[cursor + 1] \in Item
      <4>1. Items' = Shape(feeds', folders', TRUE)
        BY <2>1, ItemsShape
      <4> PICK fs : fs = feeds'
        OBVIOUS
      <4> PICK fo \in BOOLEAN : fo = folders'
        BY <2>2
      <4> PICK s : s = Shape(fs, fo, TRUE)
        OBVIOUS
      <4>2. s \in Seq(Item) /\ Items' = s
        <5>1. s \in Seq(Item)
          BY ShapeIs
        <5>2. Items' = s
          BY <4>1
        <5>3. QED
          BY <5>1, <5>2
      <4>3. cursor + 1 \in 1..Len(s)
        <5>1. Len(s) \in Nat
          BY <4>2, LenProperties
        <5>2. Len(Items') = Len(s)
          BY <4>2
        <5>3. cursor < Len(s)
          BY <2>5, <5>2
        <5> PICK c \in Nat : c = cursor
          BY <1>0
        <5> PICK n \in Nat : n = Len(s)
          BY <5>1
        <5>4. c < n
          BY <5>3
        <5>5. c + 1 \in 1..n
          BY <5>4, NextInRange
        <5>6. QED
          BY <5>5
      <4>4. QED
        BY <4>2, <4>3, ElementOfSeq
    <3> PICK item \in Item : item = Items'[cursor + 1]
      BY <3>1
    <3>2. LoadSelection(p, item) /\ cache' = cache
      BY <1>1, <2>1, <2>5
    <3>3. /\ OldOrNew /\ PanelRight' /\ LoadingRight' /\ CountsRight' /\ Len(calls') <= MaxCalls
          /\ \A kinds : StillIn(p, kinds) => Keeps(kinds)
          /\ loading' = TRUE /\ due' = item /\ settled' = FALSE /\ unlisted' = FALSE
          /\ {subsLoading', subsFor', subsLast'} \subseteq Feeds \cup {None}
      BY <1>2, <3>2, LoadsSelection
    <3>4. LitRight'
      <4>1. Selected' = item
        BY <1>1, <2>5 DEF Selected, InRange
      <4>2. QED
        BY <3>3, <4>1 DEF LitRight
    <3>5. QED
      BY <1>2, <1>4, <2>1, <2>2, <2>3, <3>3, <3>4
  <2>6. QED
    BY <2>4, <2>5
<1>8. QED
  BY <1>6, <1>7

-----------------------------------------------------------------------------
(* Theorems                                                                    *)

\* The invariant holds at the start.
LEMMA TuiStarts == TuiInit => TuiInv
<1> SUFFICES ASSUME TuiInit PROVE TuiInv
  OBVIOUS
<1>1. /\ subscribed = Feeds /\ folder \in {"later", "there"} /\ filed \in {Nested, {}} /\ status = [e \in Entries |-> "unread"]
      /\ feeds = {} /\ folders = FALSE /\ rebuilt = FALSE /\ cursor = 0
      /\ focus = "entries" /\ mode = "keys" /\ query = 0 /\ loading = FALSE /\ err = FALSE
      /\ entries = <<>> /\ at = 0 /\ preview = NoPreview /\ shown = None
      /\ cache = {} /\ subsLoading = None /\ subsFor = None /\ subsLast = None
      /\ calls = <<LoadFeeds, LoadFolders>> /\ due = None /\ settled = TRUE /\ unlisted = FALSE
      /\ fresh = {} /\ altered = FALSE /\ events = 0
  BY DEF TuiInit
<1>2. /\ calls \in Seq(CallType) /\ Len(calls) = 2 /\ \A k \in DOMAIN calls : Asked(calls[k])
  <2> PICK a : a = LoadFeeds
    OBVIOUS
  <2> PICK b : b = LoadFolders
    OBVIOUS
  <2> PICK both : both = <<a, b>>
    OBVIOUS
  <2>1. Asked(a) /\ Asked(b) /\ both \in {<<a>> \o <<b>>, <<a, b>>}
    BY NewCalls
  <2>2. /\ both \in Seq(CallType) /\ Len(both) = 2 /\ \A k \in DOMAIN both : both[k] \in {a, b}
    BY <2>1, OneOrTwo, Zenon
  <2>3. QED
    BY <1>1, <2>1, <2>2
<1>3. TuiTypes
  <2>1. Cardinality(Feeds) \in Nat
    BY TuiAssumption, FS_CardinalityType
  <2>2. NoPreview \in [open : BOOLEAN, rows : Seq(Row), fresh : SUBSET Entries] /\ <<>> \in Seq(Row)
    <3>1. {} \in SUBSET Entries /\ <<>> \in Seq(Row)
      OBVIOUS
    <3>2. QED
      BY <3>1 DEF NoPreview
  <2>3. status \in [Entries -> Marks]
    BY <1>1 DEF Marks
  <2>4. Len(calls) <= MaxCalls
    BY <1>2, TuiAssumption
  <2>5. /\ subscribed \subseteq Feeds /\ filed \subseteq Feeds /\ folder \in {"later", "there", "gone"} /\ altered \in BOOLEAN
        /\ feeds \subseteq Feeds \X {None, Folder} /\ folders \in BOOLEAN /\ rebuilt \in BOOLEAN
        /\ focus \in {"sidebar", "entries"} /\ mode \in {"keys", "search", "url", "panic"}
        /\ {loading, err, settled, unlisted} \subseteq BOOLEAN
        /\ fresh \subseteq Entries /\ cache \subseteq Feeds
    BY <1>1, TuiAssumption
  <2>6. /\ {subsLoading, subsFor, subsLast} \subseteq Feeds \cup {None}
        /\ {due, shown} \subseteq Feeds \cup {Tab, Folder, None, "search", "preview"}
    BY <1>1
  <2>7. cursor \in 0 .. Cardinality(Feeds) + 1 /\ query \in 0 .. MaxQuery /\ events \in 0 .. MaxEvents /\ at \in Nat \cup {-1}
    BY <1>1, <2>1, TuiAssumption
  <2>8. QED
    BY <1>1, <1>2, <2>2, <2>3, <2>4, <2>5, <2>6, <2>7 DEF TuiTypes
<1>4. \A k \in DOMAIN calls : CallRight(calls[k]) /\ CarriesRight(calls[k])
  BY <1>2 DEF Asked, CarriesRight
<1>5. OnItem
  BY <1>1, <1>2 DEF OnItem, Grown, Asked
<1>6. Within /\ PanicsOnlyAfterChange /\ LoadingRight /\ PanelRight /\ SearchRight /\ CountsRight
  BY <1>1, TuiAssumption DEF Within, PanicsOnlyAfterChange, LoadingRight, PanelRight, SearchRight, CountsRight, None
<1>7. LitRight
  <2>1. None \notin Item
    BY TuiAssumption DEF Item
  <2>2. QED
    BY <1>1, <2>1 DEF LitRight
<1>8. MarksRight
  BY <1>1 DEF MarksRight, RowsRight, NoPreview
<1>9. QED
  BY <1>3, <1>4, <1>5, <1>6, <1>7, <1>8 DEF TuiInv

\* Every step keeps it.
LEMMA TuiSteps == TuiInv /\ [TuiNext]_tuiVars => TuiInv'
<1> SUFFICES ASSUME TuiInv, [TuiNext]_tuiVars PROVE TuiInv'
  OBVIOUS
<1>1. CASE mode # "panic" /\ events < MaxEvents /\ events' = events + 1 /\ (Key \/ Mishap)
  <2>1. events' \in 0..MaxEvents
    BY <1>1, TuiAssumption DEF TuiInv, TuiTypes
  <2>2. QED
    BY <1>1, <2>1, KeysKeep, MishapsKeep
<1>2. CASE mode # "panic" /\ UNCHANGED events /\ Answer
  <2>1. events' \in 0..MaxEvents
    BY <1>2 DEF TuiInv, TuiTypes
  <2>2. PICK i \in DOMAIN calls :
          \/ Serve(i) \/ TakeFeeds(i) \/ TakeFolders(i) \/ TakeEntries(i) \/ TakePreview(i)
          \/ TakeSubs(i) \/ TakeMark(i) \/ TakeMarkByURL(i)
          \/ TakeMarkedFeed(i) \/ TakeRefreshed(i)
    BY <1>2 DEF Answer
  <2>3. QED
    BY <1>2, <2>1, <2>2, ServeKeeps, FeedsTaken, SidesTaken, PanelTaken, MarksTaken
<1>3. CASE UNCHANGED tuiVars
  <2>1. /\ UNCHANGED <<subscribed, filed, folder, status, altered, feeds, folders, rebuilt, cursor, focus, mode, query, loading, err,
                       entries, at, preview, shown, fresh, cache, subsLoading, subsFor, subsLast, calls,
                       due, settled, unlisted, events>>
    BY <1>3 DEF tuiVars, server, sidebar, input, panel, subs, asked
  <2>2. OldOrNew /\ Keeps({"mark", "all"}) /\ Keeps({"url"})
    BY <2>1, AllStay DEF TuiInv, OldOrNew, Keeps, FromCalls, StillIn
  <2>3. TuiTypes' /\ Within' /\ SearchRight' /\ CountsRight'
    BY <2>1 DEF TuiInv, TuiTypes, Within, SearchRight, CountsRight
  <2>4. Selected' = Selected /\ (InRange(cursor)' <=> InRange(cursor))
    BY <2>1, SameItems DEF sidebar
  <2>5. PanicsOnlyAfterChange' /\ LitRight' /\ LoadingRight'
    BY <2>1, <2>4 DEF TuiInv, PanicsOnlyAfterChange, LitRight, LoadingRight, UnderWay
  <2>6. PanelRight'
    BY <2>1 DEF TuiInv, PanelRight, LastFor
  <2>7. OnItem'
    BY <2>1, <2>2, <2>4, SameRows, StaysOnItem DEF TuiInv, OnItem, sidebar
  <2>8. (\A j \in DOMAIN calls : CallRight(calls[j]) /\ CarriesRight(calls[j]))'
    BY <2>1, <2>2, CallsStayRight
  <2>9. MarksRight'
    BY <2>1, <2>2, MarksStayRight
  <2>10. QED
    BY <2>3, <2>5, <2>6, <2>7, <2>8, <2>9 DEF TuiInv
<1>4. QED
  BY <1>1, <1>2, <1>3 DEF TuiNext

\* The invariant holds throughout, and with it the types of the browser's state.
THEOREM TuiInvariant == TuiSpec => []TuiInv
BY TuiStarts, TuiSteps, PTL DEF TuiSpec

\* The browser's state keeps its types (Model, model.go:55).
THEOREM TuiTypesKept == TuiSpec => []TuiTypes
<1>1. TuiInv => TuiTypes
  BY DEF TuiInv
<1>2. QED
  BY <1>1, TuiInvariant, PTL

\* No key reads past a list unless the feeds or the folder were changed elsewhere: however answers shrink
\* or replace the lists under the cursors (m.items[m.sidebarCursor], update.go).
THEOREM KeysStayInLists == TuiSpec => []PanicsOnlyAfterChange
<1>1. TuiInv => PanicsOnlyAfterChange
  BY DEF TuiInv
<1>2. QED
  BY <1>1, TuiInvariant, PTL

\* "Loading..." is on the screen only while a call is under way that ends it, but for
\* the three cases of loadFeedsMsg and of an empty search (update.go:21-44).
THEOREM LoadingIsForACall == TuiSpec => []LoadingEnds
<1>1. TuiInv => LoadingEnds
  <2> SUFFICES ASSUME TuiInv, ~UnderWay(Main \cup {"feeds"}), ~unlisted
               PROVE  View.error \/ (View.main # Loading /\ ~View.sidebar.loading)
    BY DEF LoadingEnds
  <2>1. ~loading
    BY DEF TuiInv, LoadingRight, TuiTypes
  <2>2. RenderSidebarLines.loading = FALSE
    BY <2>1 DEF RenderSidebarLines
  <2>3. Hint # Loading /\ RenderFeedGet # Loading /\ RenderEntryList # Loading
    <3>1. Hint.kind = "hint" /\ Loading.kind = "loading" /\ RenderFeedGet.kind = "preview" /\ RenderEntryList.kind = "list"
      BY DEF Hint, Loading, RenderFeedGet, RenderEntryList
    <3>2. QED
      BY <3>1
  <2>4. RenderMainLines # Loading
    BY <2>1, <2>3 DEF RenderMainLines
  <2>5. CASE err
    <3>1. View = [error |-> TRUE]
      BY <2>5 DEF View
    <3>2. QED
      BY <3>1
  <2>6. CASE ~err
    <3>1. View.main = RenderMainLines /\ View.sidebar = RenderSidebarLines
      BY <2>6 DEF View
    <3>2. QED
      BY <2>2, <2>4, <3>1
  <2>7. QED
    BY <2>5, <2>6
<1>2. QED
  BY <1>1, TuiInvariant, PTL

\* Once a panel's calls are answered it shows what was asked for last, under its title
\* and lit in the sidebar, and the counts are always the selected feed's
\* (loadEntriesMsg, update.go:46; feedSubsMsg, update.go:79; feedGetMsg, update.go:121).
THEOREM LatestIsShown == TuiSpec => []LatestAnswerShown
<1>1. ASSUME TuiInv, mode # "panic", ~UnderWay(Main), due # None, ~View.error, View.main \notin {Hint, Loading}
      PROVE  IF due = "preview" THEN View.main.kind = "preview"
             ELSE /\ View.main.kind = "list" /\ shown = due
                  /\ due = "search" => View.main.title = due
                  /\ due # "search" /\ ~Searched /\ ~unlisted =>
                       View.main.title = due /\ View.sidebar.lit = due /\ due \in View.sidebar.items
  <2>1. settled
    <3>1. ASSUME ~settled PROVE FALSE
      <4>1. PICK j \in DOMAIN calls : LastFor(j)
        BY <1>1, <3>1 DEF TuiInv, PanelRight
      <4>2. QED
        BY <1>1, <4>1 DEF LastFor, UnderWay
    <3>2. QED
      BY <3>1
  <2>2. IF due = "preview" THEN preview.open ELSE ~preview.open /\ shown = due
    BY <1>1, <2>1 DEF TuiInv, PanelRight
  <2>3. ~err /\ View.main = RenderMainLines /\ View.sidebar = RenderSidebarLines
    <3>1. ~err
      <4>1. CASE err
        <5>1. View = [error |-> TRUE]
          BY <4>1 DEF View
        <5>2. QED
          BY <1>1, <5>1
      <4>2. QED
        BY <4>1
    <3>2. View = [error |-> FALSE, sidebar |-> RenderSidebarLines, main |-> RenderMainLines]
      BY <3>1 DEF View
    <3>3. QED
      BY <3>1, <3>2
  <2>4. RenderMainLines = IF preview.open THEN RenderFeedGet ELSE RenderEntryList
    BY <1>1, <2>3 DEF RenderMainLines
  <2>5. CASE due = "preview"
    <3>1. RenderFeedGet.kind = "preview"
      BY DEF RenderFeedGet
    <3>2. QED
      BY <2>2, <2>3, <2>4, <2>5, <3>1
  <2>6. CASE due # "preview"
    <3>1. RenderEntryList.kind = "list" /\ RenderEntryList.title = IF Searched THEN "search" ELSE Selected
      BY DEF RenderEntryList
    <3>2. View.main = RenderEntryList /\ shown = due
      BY <2>2, <2>3, <2>4, <2>6
    <3>3. due = "search" => Searched
      BY <1>1 DEF TuiInv, SearchRight, Searched
    <3>4. ASSUME due # "search", ~Searched, ~unlisted
          PROVE  View.main.title = due /\ View.sidebar.lit = due /\ due \in View.sidebar.items
      <4>1. due \in Item
        BY <1>1, <2>6, <3>4 DEF TuiInv, TuiTypes, Item
      <4>2. Selected = due
        BY <1>1, <3>4, <4>1 DEF TuiInv, LitRight
      <4>3. None \notin Item /\ DOMAIN Items = 1..Len(Items) /\ Len(Items) \in Nat /\ cursor \in Nat
        BY <1>1, ItemsType, TuiAssumption, FS_CardinalityType DEF TuiInv, TuiTypes
      <4>4. InRange(cursor) /\ Items[cursor + 1] = due
        BY <4>1, <4>2, <4>3 DEF Selected
      <4>5. cursor + 1 \in DOMAIN Items
        BY <4>3, <4>4 DEF InRange
      <4>6. due \in Range(Items)
        BY <4>4, <4>5 DEF Range
      <4>7. mode # "url"
        <5>1. CASE mode = "url"
          BY <1>1, <2>3, <5>1 DEF RenderMainLines
        <5>2. QED
          BY <5>1
      <4>8. RenderSidebarLines.lit = Selected
        BY DEF RenderSidebarLines
      <4>9. RenderSidebarLines.items = {item \in Range(Items) : item = Tab => ~Searched /\ mode # "url"}
        BY DEF RenderSidebarLines
      <4>10. QED
        BY <2>3, <3>1, <3>2, <3>4, <4>2, <4>6, <4>7, <4>8, <4>9
    <3>5. QED
      BY <2>6, <3>1, <3>2, <3>3, <3>4
  <2>7. QED
    BY <2>5, <2>6
<1>2. ASSUME TuiInv, subsLast # None, RenderEntryList.counts # None
      PROVE  RenderEntryList.counts = Selected /\ Selected \in cache
  <2>1. subsLast = subsFor /\ subsLast \in cache
    BY <1>2 DEF TuiInv, CountsRight
  <2>2. RenderEntryList.counts = IF Selected \in Feeds /\ subsFor = Selected THEN subsLast ELSE None
    BY DEF RenderEntryList
  <2>3. QED
    BY <1>2, <2>1, <2>2
<1>3. TuiInv => LatestAnswerShown
  BY <1>1, <1>2 DEF LatestAnswerShown
<1>4. QED
  BY <1>3, TuiInvariant, PTL

\* Once the marks and lists under way are answered, every row whose entry's latest
\* change its panel heard of shows the API's mark (markReadMsg, update.go:59;
\* feedMarkedReadMsg, update.go:108; byUrlStatusMsg, update.go:136).
THEOREM MarksShownAreTheAPIs == TuiSpec => []MarksAreTheAPIs
<1>1. ASSUME TuiInv, ~UnderWay({"list", "search", "get", "mark", "url", "all"}),
             NEW copy \in {[rows |-> entries, fresh |-> fresh], [rows |-> preview.rows, fresh |-> preview.fresh]},
             NEW k \in DOMAIN copy.rows, copy.rows[k].entry \in copy.fresh
      PROVE  copy.rows[k].mark = status[copy.rows[k].entry]
  <2>1. ASSUME NEW rows, NEW known, NEW kinds, RowsRight(rows, known, kinds), kinds \subseteq {"mark", "url", "all"},
               NEW n \in DOMAIN rows, rows[n].entry \in known
        PROVE  rows[n].mark = status[rows[n].entry]
    <3>1. ~ \E i \in DOMAIN calls : calls[i].kind \in kinds
      BY <1>1, <2>1 DEF UnderWay
    <3>2. QED
      BY <2>1, <3>1 DEF RowsRight
  <2>2. RowsRight(entries, fresh, {"mark", "all"}) /\ RowsRight(preview.rows, preview.fresh, {"url"})
    BY <1>1 DEF TuiInv, MarksRight
  <2>3. CASE copy = [rows |-> entries, fresh |-> fresh]
    <3>1. copy.rows = entries /\ copy.fresh = fresh
      BY <2>3
    <3>2. RowsRight(copy.rows, copy.fresh, {"mark", "all"})
      BY <2>2, <3>1
    <3>3. QED
      BY <1>1, <2>1, <3>2
  <2>4. CASE copy = [rows |-> preview.rows, fresh |-> preview.fresh]
    <3>1. copy.rows = preview.rows /\ copy.fresh = preview.fresh
      BY <2>4
    <3>2. RowsRight(copy.rows, copy.fresh, {"url"})
      BY <2>2, <3>1
    <3>3. QED
      BY <1>1, <2>1, <3>2
  <2>5. QED
    BY <1>1, <2>3, <2>4
<1>2. TuiInv => MarksAreTheAPIs
  BY <1>1 DEF MarksAreTheAPIs
<1>3. QED
  BY <1>2, TuiInvariant, PTL

=============================================================================
