-------------------------------- MODULE Login --------------------------------
(* The logins of one account on one instance: the OAuth handlers               *)
(* (oauth_handlers.go), the stores behind them (oauthstore.go, sessions.go,    *)
(* store/atproto.go), and the sync status, which the login sets to "syncing"   *)
(* and which a goroutine, a timer or an event of the relay sets to "idle".     *)
(*                                                                             *)
(* The account may be logging in from several browsers at once, may be known   *)
(* here already because somebody follows it, and may be tracked by the relay   *)
(* on behalf of another instance.                                              *)
EXTENDS FiniteSets, Integers, Sequences

CONSTANTS
  Logins,       \* attempts to log in
  Browsers,
  Collections,  \* the kinds of records of a repository
  Public,       \* those a follow replicates
  Follows,      \* io.sunred.follow: a follow of an account unknown here is skipped
  Relayed,      \* whether SUNRED_RELAY_URL is set: the values to check
  NoLogin,
  MaxMishaps    \* bound: failed writes and calls, lost events, restarts

ASSUME LoginAssumption ==
  /\ Public \subseteq Collections /\ Relayed \subseteq BOOLEAN
  /\ Follows \in Collections
  /\ NoLogin \notin Logins /\ MaxMishaps \in Nat

VARIABLES
  relayed,
  flow,      \* where each login has got to
  browser,   \* where it was started
  cookie,    \* sunred_oauth_redirect of each browser: the login that set it
  requests,  \* oauth_auth_requests
  oauth,     \* oauth_sessions
  sessions,  \* web_sessions
  shown,     \* sunred_session of each browser
  user,      \* users: row, pds_url, oauth_session_id, pds_sync_status
  loaded,    \* the collections whose records are in the local tables
  bg,        \* the goroutine each login leaves behind
  pulled,    \* what it has been through, what of it was passed over without an
             \* error, and whether an error was met
  relay,     \* the relay: does it track the account, what does its backfill do
  wire,      \* events of that backfill the consumer has still to handle
  landed,    \* history: whose target each login was sent to
  alone,     \* history: no other flow, and no expiry, touched its cookie
  ignored,   \* history: collections of which events were handled without a row
  excuses,   \* history: why the account may be idle without its records, since
             \* "syncing" was last set
  orphan,    \* history: whoever was to end the spinner is gone
  mishaps

flowVars == <<flow, browser, cookie, requests, oauth, sessions, shown, landed, alone>>
bgVars == <<bg, pulled>>
relayVars == <<relay, wire, ignored>>
vars == <<relayed, flowVars, user, loaded, bgVars, relayVars, excuses, orphan, mishaps>>

Nothing == [done |-> {}, missed |-> {}, failed |-> FALSE]

Init ==
  /\ relayed \in Relayed
  /\ flow = [l \in Logins |-> "none"] /\ browser = [l \in Logins |-> NoLogin]
  /\ cookie = [b \in Browsers |-> NoLogin] /\ shown = [b \in Browsers |-> NoLogin]
  /\ requests = {} /\ oauth = {} /\ sessions = {}
  /\ user = [row |-> FALSE, pds |-> FALSE, session |-> NoLogin, status |-> "idle"]
  /\ loaded = {}
  /\ bg = [l \in Logins |-> "none"]
  /\ pulled = [l \in Logins |-> Nothing]
  /\ relay = [tracked |-> FALSE, fill |-> "none"] /\ wire = <<>> /\ ignored = {}
  /\ landed = [l \in Logins |-> NoLogin] /\ alone = [l \in Logins |-> TRUE]
  /\ excuses = {} /\ orphan = FALSE /\ mishaps = 0

Mishap == mishaps < MaxMishaps /\ mishaps' = mishaps + 1
Goto(l, pc) == flow' = [flow EXCEPT ![l] = pc]
Excuse(why) == excuses' = excuses \cup {why}

-----------------------------------------------------------------------------
(* The start of a flow.                                                        *)

UnderWay(b) == {l \in Logins : browser[l] = b /\ flow[l] \notin {"none", "done", "refused"}}

SaveAuthRequestInfo(l) == requests' = requests \cup {l}

\* redirectCookie, and the request that StartAuthFlow stores.
Stash(l, b) ==
  /\ SaveAuthRequestInfo(l)
  /\ cookie' = [cookie EXCEPT ![b] = l]
  /\ alone' = [m \in Logins |-> alone[m] /\ ~ (UnderWay(b) # {} /\ m \in UnderWay(b) \cup {l})]

\* handleLogin, and handleSignup at the instance's own PDS.
HandleLogin(l, b) ==
  /\ flow[l] = "none"
  /\ browser' = [browser EXCEPT ![l] = b]
  /\ Stash(l, b) /\ Goto(l, "pds")
  /\ UNCHANGED <<relayed, oauth, sessions, shown, landed, user, loaded, bgVars, relayVars,
                 excuses, orphan, mishaps>>

HandleSignup(l, b) == HandleLogin(l, b)

\* Mutation of StartFails: the cookie is set before StartAuthFlow is called.
StartFailsLate(l, b) ==
  /\ flow[l] = "none"
  /\ browser' = [browser EXCEPT ![l] = b] /\ Goto(l, "refused")
  /\ cookie' = [cookie EXCEPT ![b] = l]
  /\ UNCHANGED <<relayed, requests, oauth, sessions, shown, landed, alone, user, loaded,
                 bgVars, relayVars, excuses, orphan, mishaps>>

\* StartAuthFlow fails: back to the login page, nothing is stashed.
StartFails(l, b) ==
  /\ flow[l] = "none"
  /\ browser' = [browser EXCEPT ![l] = b] /\ Goto(l, "refused")
  /\ UNCHANGED <<relayed, cookie, requests, oauth, sessions, shown, landed, alone, user,
                 loaded, bgVars, relayVars, excuses, orphan, mishaps>>

\* The cookie lives for ten minutes.
CookieExpires(b) ==
  /\ cookie[b] # NoLogin
  /\ cookie' = [cookie EXCEPT ![b] = NoLogin]
  /\ alone' = [m \in Logins |-> alone[m] /\ m \notin UnderWay(b)]
  /\ UNCHANGED <<relayed, flow, browser, requests, oauth, sessions, shown, landed, user,
                 loaded, bgVars, relayVars, excuses, orphan, mishaps>>

-----------------------------------------------------------------------------
(* handleCallback, step by step.                                               *)

DeleteAuthRequestInfo(l) == requests' = requests \ {l}
SaveSession(l) == oauth' = oauth \cup {l}

\* ProcessCallback: the request is used up, the session stored.
ProcessCallback(l) ==
  /\ flow[l] = "pds" /\ l \in requests
  /\ DeleteAuthRequestInfo(l) /\ SaveSession(l)
  /\ Goto(l, "user")
  /\ UNCHANGED <<relayed, browser, cookie, sessions, shown, landed, alone, user, loaded,
                 bgVars, relayVars, excuses, orphan, mishaps>>

\* The user declines, the exchange fails, a row cannot be written: back to the
\* login page, with what has been stored so far.
CallbackFails(l) ==
  /\ flow[l] = "pds" \/ (flow[l] \in {"user", "session"} /\ mishaps < MaxMishaps)
  /\ mishaps' = IF flow[l] = "pds" THEN mishaps ELSE mishaps + 1
  /\ Goto(l, "refused")
  /\ UNCHANGED <<relayed, browser, cookie, requests, oauth, sessions, shown, landed, alone,
                 user, loaded, bgVars, relayVars, excuses, orphan>>

GetOrCreateUserByDID(l) ==
  /\ flow[l] = "user"
  /\ user' = [user EXCEPT !.row = TRUE]
  /\ Goto(l, "persist")
  /\ UNCHANGED <<relayed, browser, cookie, requests, oauth, sessions, shown, landed, alone,
                 loaded, bgVars, relayVars, excuses, orphan, mishaps>>

\* A failure of this write is only logged.
SetUserPDSSession(l) ==
  /\ flow[l] = "persist" /\ Goto(l, "status")
  /\ \/ /\ user' = [user EXCEPT !.pds = TRUE, !.session = l]
        /\ UNCHANGED mishaps
     \/ Mishap /\ UNCHANGED user
  /\ UNCHANGED <<relayed, browser, cookie, requests, oauth, sessions, shown, landed, alone,
                 loaded, bgVars, relayVars, excuses, orphan>>

\* What the pulls that are still under way have come to: that of the others is
\* forgotten when the account begins to sync again.
StillPulling == [l \in Logins |-> IF bg[l] = "pull" THEN pulled[l] ELSE Nothing]

\* SetUserSyncStatus "syncing", also only logged, and the goroutine.
StartSync(l) ==
  /\ flow[l] = "status" /\ Goto(l, "session")
  /\ bg' = [bg EXCEPT ![l] = IF relayed THEN "announce" ELSE "pull"]
  /\ \/ /\ user' = [user EXCEPT !.status = "syncing"] /\ orphan' = FALSE
        /\ pulled' = StillPulling /\ excuses' = {} /\ UNCHANGED mishaps
     \/ Mishap /\ Excuse("never set") /\ UNCHANGED <<user, pulled, orphan>>
  /\ UNCHANGED <<relayed, browser, cookie, requests, oauth, sessions, shown, landed, alone,
                 loaded, relayVars>>

\* IssueSession, and the redirect to what the cookie says.
IssueSession(l) ==
  /\ flow[l] = "session" /\ Goto(l, "done")
  /\ sessions' = sessions \cup {l}
  /\ shown' = [shown EXCEPT ![browser[l]] = l]
  /\ landed' = [landed EXCEPT ![l] = cookie[browser[l]]]
  /\ cookie' = [cookie EXCEPT ![browser[l]] = NoLogin]
  /\ UNCHANGED <<relayed, browser, requests, oauth, alone, user, loaded, bgVars, relayVars,
                 excuses, orphan, mishaps>>

\* handleSignout: ClearSession.
HandleSignout(b) ==
  /\ shown[b] # NoLogin
  /\ sessions' = sessions \ {shown[b]}
  /\ shown' = [shown EXCEPT ![b] = NoLogin]
  /\ UNCHANGED <<relayed, flow, browser, cookie, requests, oauth, landed, alone, user, loaded,
                 bgVars, relayVars, excuses, orphan, mishaps>>

-----------------------------------------------------------------------------
(* The goroutine of a login.                                                   *)

Become(l, pc) == bg' = [bg EXCEPT ![l] = pc]

\* SetUserSyncStatus "idle" or "failed" by that goroutine, which then ends.  A
\* failure is logged and leaves the spinner on.
SetUserSyncStatus(l, status) ==
  /\ Become(l, "end")
  /\ \/ /\ user' = [user EXCEPT !.status = status]
        /\ UNCHANGED <<orphan, mishaps>>
     \/ Mishap /\ orphan' = TRUE /\ UNCHANGED user

\* What can become of a collection: its records are here, or the error that is
\* returned is collected, or something is missing without one.
Loads(l, c) ==
  /\ loaded' = loaded \cup {c} /\ pulled' = [pulled EXCEPT ![l].done = @ \cup {c}]

Fails(l, c) ==
  /\ Mishap /\ UNCHANGED loaded
  /\ pulled' = [pulled EXCEPT ![l] = [done |-> @.done \cup {c}, missed |-> @.missed, failed |-> TRUE]]

PassesOver(l, c) ==
  /\ UNCHANGED loaded
  /\ pulled' = [pulled EXCEPT ![l] = [done |-> @.done \cup {c}, missed |-> @.missed \cup {c},
                                     failed |-> @.failed]]

\* A page that cannot be listed is an error.  A follow of an account that has no row
\* here is skipped, a follow that cannot be written is logged.
BackfillFollows(l) ==
  \/ Loads(l, Follows) /\ UNCHANGED mishaps
  \/ Fails(l, Follows)
  \/ PassesOver(l, Follows) /\ UNCHANGED mishaps

\* Shares, stars and subscriptions, of which a row that cannot be written is logged,
\* and the profile: any error of getRecord passes for one that was never set, one of
\* its content or of its row is returned.
BackfillRecords(l, c) ==
  \/ Loads(l, c) /\ UNCHANGED mishaps
  \/ Fails(l, c)
  \/ PassesOver(l, c) /\ Mishap

\* backfillUserFromPDS: one collection after the other, whatever became of the
\* one before.
Pull(l) ==
  /\ bg[l] = "pull"
  /\ \E c \in Collections \ pulled[l].done :
       IF c = Follows THEN BackfillFollows(l) ELSE BackfillRecords(l, c)
  /\ UNCHANGED <<relayed, flowVars, user, bg, relayVars, excuses, orphan>>

\* Mutation of PullEnds: the errors of the collections are dropped.
PullEndsIdle(l) ==
  /\ bg[l] = "pull" /\ pulled[l].done = Collections
  /\ SetUserSyncStatus(l, "idle")
  /\ UNCHANGED <<relayed, flowVars, loaded, pulled, relayVars, excuses>>

PullEnds(l) ==
  /\ bg[l] = "pull" /\ pulled[l].done = Collections
  /\ SetUserSyncStatus(l, IF pulled[l].failed THEN "failed" ELSE "idle")
  /\ UNCHANGED <<relayed, flowVars, loaded, pulled, relayVars, excuses>>

\* UpsertTrackedDID at the relay: new, and a backfill begins; or not.
Track == relay' = IF relay.tracked THEN relay ELSE [tracked |-> TRUE, fill |-> "records"]

\* Mutation of AnnounceNew: the goroutine leaves it to backfillComplete.
AnnounceNewEnds(l) ==
  /\ bg[l] = "announce" /\ ~ relay.tracked
  /\ Track /\ Become(l, "end")
  /\ UNCHANGED <<relayed, flowVars, user, loaded, pulled, wire, ignored, excuses, orphan, mishaps>>

\* announceToRelay answers New: a timer of three minutes is the safety net.
AnnounceNew(l) ==
  /\ bg[l] = "announce" /\ ~ relay.tracked
  /\ Track /\ Become(l, "timer")
  /\ UNCHANGED <<relayed, flowVars, user, loaded, pulled, wire, ignored, excuses, orphan, mishaps>>

\* The relay tracks the account already: no backfillComplete will come.
AnnounceKnown(l) ==
  /\ bg[l] = "announce" /\ relay.tracked
  /\ SetUserSyncStatus(l, "idle") /\ Excuse("tracked already")
  /\ UNCHANGED <<relayed, flowVars, loaded, pulled, relayVars>>

\* The call fails, after or before the relay has handled it.
AnnounceFails(l) ==
  /\ bg[l] = "announce" /\ Mishap
  /\ Track \/ UNCHANGED relay
  /\ user' = [user EXCEPT !.status = "idle"] /\ Become(l, "end") /\ Excuse("announce failed")
  /\ UNCHANGED <<relayed, flowVars, loaded, pulled, wire, ignored, orphan>>

\* The timer fires and reads the status.
TimerFires(l) ==
  /\ bg[l] = "timer"
  /\ \/ Become(l, IF user.status = "syncing" THEN "late" ELSE "end") /\ UNCHANGED <<orphan, mishaps>>
     \/ Become(l, "end") /\ Mishap /\ orphan' = TRUE
  /\ UNCHANGED <<relayed, flowVars, user, loaded, pulled, relayVars, excuses>>

\* The status read may be stale by now.
TimerSets(l) ==
  /\ bg[l] = "late"
  /\ SetUserSyncStatus(l, "idle") /\ Excuse("timed out")
  /\ UNCHANGED <<relayed, flowVars, loaded, pulled, relayVars>>

-----------------------------------------------------------------------------
(* The relay, its consumer, and whoever else knows the account.                *)

\* AnnounceTrackedDIDs, whenever the consumer connects: users with a pds_url.
AnnounceTrackedDIDs ==
  /\ relayed /\ user.pds /\ ~ relay.tracked
  /\ Track
  /\ UNCHANGED <<relayed, flowVars, user, loaded, bgVars, wire, ignored, excuses, orphan, mishaps>>

\* Another instance announces the account.
AnnouncedElsewhere ==
  /\ relayed /\ ~ relay.tracked
  /\ Track
  /\ UNCHANGED <<relayed, flowVars, user, loaded, bgVars, wire, ignored, excuses, orphan, mishaps>>

\* BackfillAndSubscribe broadcasts the records, then backfillComplete; the
\* event log outlives either process.
RelayBackfill ==
  /\ relay.fill # "none"
  /\ wire' = Append(wire, relay.fill)
  /\ relay' = [relay EXCEPT !.fill = IF @ = "records" THEN "complete" ELSE "none"]
  /\ UNCHANGED <<relayed, flowVars, user, loaded, bgVars, ignored, excuses, orphan, mishaps>>

\* The backfill ends in an error, or the relay is replaced by an empty one.
RelayForgets ==
  /\ relay.tracked /\ Mishap
  /\ relay' = [tracked |-> FALSE, fill |-> "none"]
  /\ UNCHANGED <<relayed, flowVars, user, loaded, bgVars, wire, ignored, excuses, orphan>>

\* The records of a backfill, but for those of some collections, reach the tables.
Records(cs) == loaded' = loaded \cup (Collections \ cs) /\ ignored' = ignored \cup cs

\* handleFollowEvent and its like: an account without a row here is ignored, and so
\* is a follow of one.
HandleRecords ==
  /\ wire # <<>> /\ Head(wire) = "records" /\ wire' = Tail(wire)
  /\ \E cs \in IF user.row THEN {{}, {Follows}} ELSE {Collections} : Records(cs)
  /\ UNCHANGED <<relayed, flowVars, user, bgVars, relay, excuses, orphan, mishaps>>

\* handleBackfillComplete
HandleBackfillComplete ==
  /\ wire # <<>> /\ Head(wire) = "complete" /\ wire' = Tail(wire)
  /\ user' = IF user.row THEN [user EXCEPT !.status = "idle"] ELSE user
  /\ UNCHANGED <<relayed, flowVars, loaded, bgVars, relay, ignored, excuses, orphan, mishaps>>

\* A handler fails, and the consumer logs it and goes on; or the relay could not list
\* a collection, logged that, and went on to backfillComplete.
HandlerFails ==
  /\ wire # <<>> /\ wire' = Tail(wire) /\ Mishap
  /\ IF Head(wire) = "records"
       THEN \E cs \in IF user.row THEN SUBSET Collections \ {{}} ELSE {Collections} : Records(cs)
       ELSE UNCHANGED <<loaded, ignored>>
  /\ UNCHANGED <<relayed, flowVars, user, bgVars, relay, excuses, orphan>>

\* CreateRemoteUser: somebody follows the account before it logs in here.
CreateRemoteUser ==
  /\ ~ user.row
  /\ user' = [user EXCEPT !.row = TRUE, !.pds = TRUE]
  /\ UNCHANGED <<relayed, flowVars, loaded, bgVars, relayVars, excuses, orphan, mishaps>>

\* backfillFollowee: what fails of it is only logged.
BackfillFollowee ==
  /\ user.pds /\ \E cs \in SUBSET Public : loaded' = loaded \cup cs
  /\ UNCHANGED <<relayed, flowVars, user, bgVars, relayVars, excuses, orphan, mishaps>>

\* The API restarts: requests, goroutines and timers are gone, the rows stay.
RestartAPI ==
  /\ Mishap
  /\ flow' = [l \in Logins |-> IF l \in UnderWay(browser[l]) /\ flow[l] # "pds" THEN "refused" ELSE flow[l]]
  /\ bg' = [l \in Logins |-> IF bg[l] = "none" THEN "none" ELSE "end"]
  /\ orphan' = TRUE
  /\ UNCHANGED <<relayed, browser, cookie, requests, oauth, sessions, shown, landed, alone,
                 user, loaded, pulled, relayVars, excuses>>

-----------------------------------------------------------------------------

Flow(l) ==
  \/ \E b \in Browsers : HandleLogin(l, b) \/ HandleSignup(l, b) \/ StartFails(l, b)
  \/ ProcessCallback(l) \/ CallbackFails(l) \/ GetOrCreateUserByDID(l)
  \/ SetUserPDSSession(l) \/ StartSync(l) \/ IssueSession(l)

Background(l) ==
  \/ Pull(l) \/ PullEnds(l) \/ AnnounceNew(l) \/ AnnounceKnown(l) \/ AnnounceFails(l)
  \/ TimerFires(l) \/ TimerSets(l)

Next ==
  \/ \E l \in Logins : Flow(l) \/ Background(l)
  \/ \E b \in Browsers : CookieExpires(b) \/ HandleSignout(b)
  \/ AnnounceTrackedDIDs \/ AnnouncedElsewhere \/ RelayBackfill \/ RelayForgets
  \/ HandleRecords \/ HandleBackfillComplete \/ HandlerFails
  \/ CreateRemoteUser \/ BackfillFollowee \/ RestartAPI

Spec == Init /\ [][Next]_vars

\* Goroutines run, calls end and timers fire.  Nothing is asked of browsers, of
\* the relay or of its events.
Fairness == \A l \in Logins : WF_vars(Background(l))

FairSpec == Spec /\ Fairness

-----------------------------------------------------------------------------
(* Properties *)

FlowType ==
  /\ flow \in [Logins -> {"none", "pds", "user", "persist", "status", "session", "done", "refused"}]
  /\ browser \in [Logins -> Browsers \cup {NoLogin}]
  /\ \A l \in Logins : flow[l] # "none" => browser[l] \in Browsers
  /\ {cookie, shown} \subseteq [Browsers -> Logins \cup {NoLogin}]
  /\ landed \in [Logins -> Logins \cup {NoLogin}] /\ alone \in [Logins -> BOOLEAN]

StoreType ==
  /\ requests \cap oauth = {} /\ requests \cup oauth \cup sessions \subseteq Logins
  /\ user \in [row : BOOLEAN, pds : BOOLEAN, session : oauth \cup {NoLogin},
               status : {"idle", "syncing", "failed"}]
  /\ loaded \subseteq Collections

SyncType ==
  /\ bg \in [Logins -> {"none", "pull", "announce", "timer", "late", "end"}]
  /\ pulled \in [Logins -> [done : SUBSET Collections, missed : SUBSET Collections, failed : BOOLEAN]]
  /\ relay \in [tracked : BOOLEAN, fill : {"none", "records", "complete"}]
  /\ wire \in Seq({"records", "complete"}) /\ ignored \subseteq Collections

\* Type invariant.  A request for authorization is used up by the session it
\* leads to, and the user's session is one that is stored.
TypeOK ==
  /\ relayed \in Relayed /\ orphan \in BOOLEAN /\ mishaps \in 0..MaxMishaps
  /\ FlowType /\ StoreType /\ SyncType

\* What a pull of the present sync, or the handlers of relay events, went past
\* without an error: rows that could not be written, a profile that could not be
\* read, follows of accounts that are not here, collections the relay could not list.
PassedOver == ignored \cup UNION {pulled[l].missed : l \in Logins}

\* An account that has logged in is shown as idle only when its records are here,
\* but for the collections that were passed over without an error, or for a reason
\* the code accepts and that has come up since the login began to sync: the
\* announcement failed or found it tracked, or a timer ran out.  A pull that met an
\* error never ends as idle, and no backfillComplete overtakes the records it
\* follows, whoever else logs in meanwhile.
IdleMeansLoaded ==
  (\E l \in Logins : bg[l] # "none") /\ user.status = "idle"
     => excuses # {} \/ Collections \subseteq loaded \cup PassedOver

\* The spinner ends, whatever becomes of the relay and its events, unless a
\* restart or a failed write has removed what was to end it.
SpinnerEnds == user.status = "syncing" ~> (user.status # "syncing" \/ orphan)

\* A login ends up where it was asked to, unless another flow of the same
\* browser was under way beside it or the cookie expired.
LandsWhereAsked == \A l \in Logins : flow[l] = "done" /\ alone[l] => landed[l] = l

=============================================================================
