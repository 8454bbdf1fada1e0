----------------------------- MODULE LoginProofs -----------------------------
(* Proofs about Login: its types, that an account shown as idle has its        *)
(* records or a reason not to, and that a login ends where it was asked to.    *)
EXTENDS Login, SequenceTheorems, TLAPS

\* A login has a session exactly once its callback has been processed.
Reached ==
  \A l \in Logins :
    /\ l \in oauth => flow[l] \notin {"none", "pds"}
    /\ flow[l] \in {"user", "persist", "status", "session", "done"} => l \in oauth

\* What a goroutine has pulled without an error is in the local tables, but for what
\* it passed over.
PulledLoaded ==
  \A l \in Logins : pulled[l].failed \/ pulled[l].done \subseteq loaded \cup pulled[l].missed

\* Records of the account have been handled, or passed over for good.
Settled == Collections \subseteq loaded \cup ignored

\* Until then the relay's events begin with the records of a backfill: its
\* backfillComplete never comes first.
RecordsFirst ==
  \/ Settled
  \/ wire = <<>> /\ relay.fill # "complete"
  \/ wire # <<>> /\ Head(wire) = "records"

Goes(l) == flow[l] \notin {"none", "done", "refused"}

\* A flow that is alone in its browser finds its own cookie there.
OwnCookie ==
  \A l \in Logins : Goes(l) /\ alone[l] =>
    /\ cookie[browser[l]] = l
    /\ \A m \in Logins : Goes(m) /\ browser[m] = browser[l] => m = l

FlowPart == FlowType /\ Reached /\ OwnCookie /\ LandsWhereAsked
SyncPart == SyncType /\ PulledLoaded /\ RecordsFirst /\ IdleMeansLoaded
Inv == TypeOK /\ FlowPart /\ SyncPart

-----------------------------------------------------------------------------
(* Parts of a step.                                                            *)

\* What is left to show of a step.
LEMMA InvParts ==
  ASSUME Inv, relayed' = relayed, orphan' \in BOOLEAN, mishaps' \in 0..MaxMishaps,
         StoreType', FlowPart', SyncPart'
  PROVE  Inv'
  BY DEF Inv, TypeOK, FlowPart, SyncPart

\* The history of mishaps counts to its bound.
LEMMA MishapCounts ==
  ASSUME Inv, Mishap \/ UNCHANGED mishaps
  PROVE  mishaps' \in 0..MaxMishaps
  BY LoginAssumption DEF Inv, TypeOK, Mishap

\* A step outside the flows.
LEMMA FlowKept ==
  ASSUME Inv, UNCHANGED flowVars
  PROVE  FlowPart' /\ UNCHANGED <<requests, oauth, sessions>>
<1>1. FlowPart
  BY DEF Inv
<1>2. UNCHANGED <<flow, browser, cookie, requests, oauth, sessions, shown, landed, alone>>
  BY DEF flowVars
<1>3. FlowType'
  BY <1>1, <1>2 DEF FlowPart, FlowType
<1>4. Reached'
  BY <1>1, <1>2 DEF FlowPart, Reached
<1>5. OwnCookie'
  BY <1>1, <1>2 DEF FlowPart, OwnCookie, Goes
<1>6. LandsWhereAsked'
  BY <1>1, <1>2 DEF FlowPart, LandsWhereAsked
<1>7. QED
  BY <1>2, <1>3, <1>4, <1>5, <1>6 DEF FlowPart

\* A flow goes on to another step, or is refused, without touching cookies.
LEMMA FlowMoves ==
  ASSUME Inv, NEW l \in Logins, Goes(l),
         NEW pc \in {"user", "persist", "status", "session", "refused"}, Goto(l, pc),
         oauth' = oauth \cup {l} \/ (oauth' = oauth /\ (flow[l] # "pds" \/ pc = "refused")),
         UNCHANGED <<browser, cookie, shown, landed, alone>>
  PROVE  FlowPart'
<1>1. FlowType /\ Reached /\ OwnCookie /\ LandsWhereAsked
  BY DEF Inv, FlowPart
<1>2. /\ \A m \in Logins : m # l => flow'[m] = flow[m]
      /\ flow'[l] = pc /\ flow[l] \notin {"none", "done", "refused"}
      /\ flow \in [Logins -> {"none", "pds", "user", "persist", "status", "session", "done", "refused"}]
  BY <1>1 DEF Goto, FlowType, Goes
<1>3. FlowType'
  BY <1>1, <1>2 DEF Goto, FlowType
<1>4. Reached'
  BY <1>1, <1>2 DEF Reached
<1>5. \A m \in Logins : Goes(m)' => Goes(m)
  BY <1>2 DEF Goes
<1>6. OwnCookie'
  BY <1>1, <1>5 DEF OwnCookie
<1>7. LandsWhereAsked'
  BY <1>1, <1>2 DEF LandsWhereAsked
<1>8. QED
  BY <1>3, <1>4, <1>6, <1>7 DEF FlowPart

\* The user, with the rows of the stores as they were.
LEMMA StoreKept ==
  ASSUME Inv, UNCHANGED <<requests, oauth, sessions, loaded>>,
         user' = user \/ \E s \in {"idle", "syncing", "failed"} : user' = [user EXCEPT !.status = s]
  PROVE  StoreType'
<1>1. StoreType
  BY DEF Inv, TypeOK
<1>2. CASE user' = user
  BY <1>1, <1>2 DEF StoreType
<1>3. ASSUME NEW s \in {"idle", "syncing", "failed"}, user' = [user EXCEPT !.status = s]
      PROVE  StoreType'
  BY <1>1, <1>3 DEF StoreType
<1>4. QED
  BY <1>2, <1>3

\* What an account shown as idle may lack is accounted for.
Accounted == excuses # {} \/ Collections \subseteq loaded \cup PassedOver

\* Once records are in, or passed over, they stay so.
Forward ==
  /\ loaded \subseteq loaded' /\ loaded' \subseteq Collections
  /\ ignored \subseteq ignored' /\ excuses \subseteq excuses'
  /\ \A l \in Logins : pulled[l].missed \subseteq pulled'[l].missed

\* What an idle account has, it keeps.
LEMMA IdleKept ==
  ASSUME Inv, Forward,
         \A l \in Logins : bg'[l] # "none" => bg[l] # "none",
         user'.status = "idle" => user.status = "idle" \/ Accounted'
  PROVE  IdleMeansLoaded'
<1>1. IdleMeansLoaded
  BY DEF Inv, SyncPart
<1>2. PassedOver \subseteq PassedOver'
  <2>1. UNION {pulled[l].missed : l \in Logins} \subseteq UNION {pulled'[l].missed : l \in Logins}
    BY DEF Forward
  <2>2. QED
    BY <2>1 DEF Forward, PassedOver
<1>3. Accounted => Accounted'
  BY <1>2 DEF Forward, Accounted
<1>4. QED
  BY <1>1, <1>3 DEF IdleMeansLoaded, Accounted

\* The relay's events of an account, unless the step is about them.
LEMMA RecordsKept ==
  ASSUME Inv, Forward, UNCHANGED <<relay, wire>>
  PROVE  RecordsFirst'
<1>1. RecordsFirst /\ loaded \subseteq Collections
  BY DEF Inv, SyncPart, TypeOK, StoreType
<1>2. Settled => Settled'
  BY <1>1 DEF Forward, Settled
<1>3. QED
  BY <1>1, <1>2 DEF RecordsFirst

\* What was pulled, unless the step pulls.
LEMMA PulledKept ==
  ASSUME Inv, Forward, UNCHANGED pulled
  PROVE  PulledLoaded'
  BY DEF Inv, SyncPart, PulledLoaded, Forward

\* A step that does nothing to the goroutines and the relay.
LEMMA SyncKept ==
  ASSUME Inv, UNCHANGED <<bg, pulled, relay, wire, ignored>>, Forward, user'.status = user.status
  PROVE  SyncPart'
<1>1. SyncType'
  BY DEF Inv, SyncPart, SyncType
<1>2. QED
  BY <1>1, IdleKept, RecordsKept, PulledKept DEF SyncPart

\* A step that leaves the flows and the relay and moves one goroutine on.
LEMMA GoroutineMoves ==
  ASSUME Inv, NEW l \in Logins, bg[l] # "none",
         NEW pc \in {"pull", "announce", "timer", "late", "end"}, Become(l, pc),
         UNCHANGED <<pulled, wire, loaded, ignored>>, excuses \subseteq excuses',
         relay' \in [tracked : BOOLEAN, fill : {"none", "records", "complete"}],
         relay'.fill = relay.fill \/ relay'.fill = "records",
         user'.status = "idle" => user.status = "idle" \/ Accounted'
  PROVE  SyncPart'
<1>1. SyncType /\ RecordsFirst /\ loaded \subseteq Collections
  BY DEF Inv, SyncPart, TypeOK, StoreType
<1>2. Forward
  BY <1>1 DEF Forward
<1>3. SyncType' /\ \A m \in Logins : bg'[m] # "none" => bg[m] # "none"
  BY <1>1 DEF SyncType, Become
<1>4. IdleMeansLoaded'
  BY <1>2, <1>3, IdleKept
<1>5. RecordsFirst'
  BY <1>1, <1>2 DEF RecordsFirst, Settled, Forward
<1>6. QED
  BY <1>2, <1>3, <1>4, <1>5, PulledKept DEF SyncPart

-----------------------------------------------------------------------------
(* The flows.                                                                  *)

\* A flow step leaves goroutines, relay and records alone.
LEMMA FlowStep ==
  ASSUME Inv, UNCHANGED <<relayed, loaded, bgVars, relayVars, excuses, orphan>>,
         mishaps' \in 0..MaxMishaps, user'.status = user.status, StoreType', FlowPart'
  PROVE  Inv'
<1>1. Forward
  BY DEF Inv, TypeOK, StoreType, Forward, bgVars, relayVars
<1>2. SyncPart'
  BY <1>1, SyncKept DEF bgVars, relayVars
<1>3. QED
  BY <1>2, InvParts DEF Inv, TypeOK

\* A login starts: alone in its browser or beside another.
LEMMA HandleLoginInv ==
  ASSUME Inv, NEW l \in Logins, NEW b \in Browsers, HandleLogin(l, b)
  PROVE  Inv'
<1>1. FlowType /\ Reached /\ OwnCookie /\ LandsWhereAsked /\ StoreType
  BY DEF Inv, FlowPart, TypeOK
<1> DEFINE U == UnderWay(b)
<1>2. /\ flow[l] = "none" /\ flow' = [flow EXCEPT ![l] = "pds"]
      /\ browser' = [browser EXCEPT ![l] = b] /\ cookie' = [cookie EXCEPT ![b] = l]
      /\ requests' = requests \cup {l}
      /\ UNCHANGED <<oauth, sessions, shown, landed, user, loaded>>
  BY DEF HandleLogin, Stash, Goto, SaveAuthRequestInfo
<1>3. \A m \in Logins : m \in U <=> browser[m] = b /\ Goes(m)
  BY DEF UnderWay, Goes
<1>4. alone' = [m \in Logins |-> alone[m] /\ ~ (U # {} /\ m \in U \cup {l})]
  BY DEF HandleLogin, Stash
<1> HIDE DEF U
<1>5. /\ \A m \in Logins : m # l => flow'[m] = flow[m] /\ browser'[m] = browser[m]
      /\ flow'[l] = "pds" /\ browser'[l] = b
      /\ cookie'[b] = l /\ \A c \in Browsers : c # b => cookie'[c] = cookie[c]
  BY <1>1, <1>2 DEF FlowType
<1>6. FlowType'
  <2>1. cookie' \in [Browsers -> Logins \cup {NoLogin}]
    BY <1>1, <1>2 DEF FlowType
  <2>2. alone' \in [Logins -> BOOLEAN]
    BY <1>1, <1>4 DEF FlowType
  <2>3. flow' \in [Logins -> {"none", "pds", "user", "persist", "status", "session", "done", "refused"}]
    BY <1>1, <1>2 DEF FlowType
  <2>4. /\ browser' \in [Logins -> Browsers \cup {NoLogin}]
        /\ \A m \in Logins : flow'[m] # "none" => browser'[m] \in Browsers
    BY <1>1, <1>2, <1>5 DEF FlowType
  <2>5. QED
    BY <1>1, <1>2, <2>1, <2>2, <2>3, <2>4 DEF FlowType
<1>7. Reached'
  BY <1>1, <1>2, <1>5 DEF Reached
<1>8. OwnCookie'
  <2>1. SUFFICES ASSUME NEW m \in Logins, Goes(m)', alone'[m]
        PROVE  /\ cookie'[browser'[m]] = m
               /\ \A n \in Logins : Goes(n)' /\ browser'[n] = browser'[m] => n = m
    BY DEF OwnCookie
  <2>2. alone[m] /\ ~ (U # {} /\ m \in U \cup {l})
    BY <1>4, <2>1
  <2>3. CASE m = l
    <3>1. U = {}
      BY <2>2, <2>3
    <3>2. \A n \in Logins : Goes(n)' /\ browser'[n] = b => n = l
      BY <1>3, <1>5, <3>1 DEF Goes
    <3>3. QED
      BY <1>5, <2>3, <3>2
  <2>4. CASE m # l
    <3>1. Goes(m) /\ m \notin U /\ browser'[m] = browser[m]
      BY <1>5, <2>1, <2>2, <2>4 DEF Goes
    <3>2. browser[m] # b /\ browser[m] \in Browsers
      BY <1>1, <1>3, <3>1 DEF FlowType, Goes
    <3>3. \A n \in Logins : Goes(n) /\ browser[n] = browser[m] => n = m
      BY <1>1, <2>2, <3>1 DEF OwnCookie
    <3>4. cookie[browser[m]] = m
      BY <1>1, <2>2, <3>1 DEF OwnCookie
    <3>5. \A n \in Logins : Goes(n)' /\ browser'[n] = browser'[m] => n = m
      BY <1>5, <3>1, <3>2, <3>3 DEF Goes
    <3>6. QED
      BY <1>5, <3>1, <3>2, <3>4, <3>5
  <2>5. QED
    BY <2>3, <2>4
<1>9. LandsWhereAsked'
  <2>1. \A m \in Logins : flow'[m] = "done" => m # l
    BY <1>5
  <2>2. \A m \in Logins : alone'[m] => alone[m]
    BY <1>4
  <2>3. QED
    BY <1>1, <1>2, <1>5, <2>1, <2>2 DEF LandsWhereAsked
<1>10. StoreType'
  <2>1. l \notin oauth
    BY <1>1, <1>2 DEF Reached
  <2>2. QED
    BY <1>1, <1>2, <2>1 DEF StoreType
<1>11. FlowPart'
  BY <1>6, <1>7, <1>8, <1>9 DEF FlowPart
<1>12. QED
  BY <1>10, <1>11, FlowStep DEF HandleLogin, Inv, TypeOK

\* A login that does not start.
LEMMA StartFailsInv ==
  ASSUME Inv, NEW l \in Logins, NEW b \in Browsers, StartFails(l, b)
  PROVE  Inv'
<1>1. FlowType /\ Reached /\ OwnCookie /\ LandsWhereAsked /\ StoreType
  BY DEF Inv, FlowPart, TypeOK
<1>2. /\ flow[l] = "none" /\ flow' = [flow EXCEPT ![l] = "refused"]
      /\ browser' = [browser EXCEPT ![l] = b]
      /\ UNCHANGED <<cookie, requests, oauth, sessions, shown, landed, alone, user, loaded>>
  BY DEF StartFails, Goto
<1>3. /\ \A m \in Logins : m # l => flow'[m] = flow[m] /\ browser'[m] = browser[m]
      /\ flow'[l] = "refused" /\ browser'[l] = b
  BY <1>1, <1>2 DEF FlowType
<1>4. FlowType'
  BY <1>1, <1>2, <1>3 DEF FlowType
<1>5. Reached'
  BY <1>1, <1>2, <1>3 DEF Reached
<1>6. \A m \in Logins : Goes(m)' => m # l /\ Goes(m)
  BY <1>3 DEF Goes
<1>7. OwnCookie'
  BY <1>1, <1>2, <1>3, <1>6 DEF OwnCookie
<1>8. LandsWhereAsked'
  BY <1>1, <1>2, <1>3 DEF LandsWhereAsked
<1>9. StoreType'
  BY <1>1, <1>2 DEF StoreType
<1>10. FlowPart'
  BY <1>4, <1>5, <1>7, <1>8 DEF FlowPart
<1>11. QED
  BY <1>9, <1>10, FlowStep DEF StartFails, Inv, TypeOK

\* A cookie expires: whoever counted on it is no longer alone.
LEMMA CookieExpiresInv ==
  ASSUME Inv, NEW b \in Browsers, CookieExpires(b)
  PROVE  Inv'
<1>1. FlowType /\ Reached /\ OwnCookie /\ LandsWhereAsked /\ StoreType
  BY DEF Inv, FlowPart, TypeOK
<1>2. /\ cookie' = [cookie EXCEPT ![b] = NoLogin]
      /\ UNCHANGED <<flow, browser, requests, oauth, sessions, shown, landed, user, loaded>>
  BY DEF CookieExpires
<1>3. \A m \in Logins : m \in UnderWay(b) <=> browser[m] = b /\ Goes(m)
  BY DEF UnderWay, Goes
<1>4. alone' = [m \in Logins |-> alone[m] /\ m \notin UnderWay(b)]
  BY DEF CookieExpires
<1>5. FlowType'
  <2>1. cookie' \in [Browsers -> Logins \cup {NoLogin}]
    BY <1>1, <1>2 DEF FlowType
  <2>2. alone' \in [Logins -> BOOLEAN]
    BY <1>1, <1>4 DEF FlowType
  <2>3. QED
    BY <1>1, <1>2, <2>1, <2>2 DEF FlowType
<1>6. Reached' /\ StoreType'
  BY <1>1, <1>2 DEF Reached, StoreType
<1>7. \A m \in Logins : alone'[m] => alone[m] /\ (Goes(m) => browser[m] # b)
  BY <1>3, <1>4
<1>8. OwnCookie'
  <2>1. SUFFICES ASSUME NEW m \in Logins, Goes(m)', alone'[m]
        PROVE  /\ cookie'[browser'[m]] = m
               /\ \A n \in Logins : Goes(n)' /\ browser'[n] = browser'[m] => n = m
    BY DEF OwnCookie
  <2>2. Goes(m) /\ alone[m] /\ browser[m] # b /\ browser[m] \in Browsers
    BY <1>1, <1>2, <1>7, <2>1 DEF Goes, FlowType
  <2>3. cookie'[browser[m]] = cookie[browser[m]]
    BY <1>1, <1>2, <2>2 DEF FlowType
  <2>4. QED
    BY <1>1, <1>2, <2>2, <2>3 DEF OwnCookie, Goes
<1>9. LandsWhereAsked'
  BY <1>1, <1>2, <1>7 DEF LandsWhereAsked
<1>10. FlowPart'
  BY <1>5, <1>6, <1>8, <1>9 DEF FlowPart
<1>11. QED
  BY <1>6, <1>10, FlowStep DEF CookieExpires, Inv, TypeOK

\* The callback is processed, and the request becomes a session.
LEMMA ProcessCallbackInv ==
  ASSUME Inv, NEW l \in Logins, ProcessCallback(l)
  PROVE  Inv'
<1>1. FlowPart'
  BY FlowMoves DEF ProcessCallback, SaveSession, Goes
<1>2. StoreType'
  <2>1. /\ requests' = requests \ {l} /\ oauth' = oauth \cup {l}
        /\ UNCHANGED <<sessions, user, loaded>>
    BY DEF ProcessCallback, SaveSession, DeleteAuthRequestInfo
  <2>2. QED
    BY <2>1 DEF Inv, TypeOK, StoreType
<1>3. QED
  BY <1>1, <1>2, FlowStep DEF ProcessCallback, Inv, TypeOK

\* The callback ends at the login page.
LEMMA CallbackFailsInv ==
  ASSUME Inv, NEW l \in Logins, CallbackFails(l)
  PROVE  Inv'
<1>1. FlowPart'
  BY FlowMoves DEF CallbackFails, Goes
<1>2. StoreType'
  BY StoreKept DEF CallbackFails
<1>3. mishaps' \in 0..MaxMishaps
  BY LoginAssumption DEF CallbackFails, Inv, TypeOK
<1>4. QED
  BY <1>1, <1>2, <1>3, FlowStep DEF CallbackFails

\* The callback writes the user.
LEMMA UserWrittenInv ==
  ASSUME Inv, NEW l \in Logins, GetOrCreateUserByDID(l) \/ SetUserPDSSession(l)
  PROVE  Inv'
<1>1. FlowPart'
  BY FlowMoves DEF GetOrCreateUserByDID, SetUserPDSSession, Goes
<1>2. StoreType /\ Reached
  BY DEF Inv, TypeOK, FlowPart
<1>3. StoreType' /\ user'.status = user.status
  <2>1. UNCHANGED <<requests, oauth, sessions, loaded>>
    BY DEF GetOrCreateUserByDID, SetUserPDSSession
  <2>2. CASE user' = [user EXCEPT !.row = TRUE]
    BY <1>2, <2>1, <2>2 DEF StoreType
  <2>3. CASE user' = [user EXCEPT !.pds = TRUE, !.session = l] /\ flow[l] = "persist"
    <3>1. l \in oauth
      BY <1>2, <2>3 DEF Reached
    <3>2. QED
      BY <1>2, <2>1, <2>3, <3>1 DEF StoreType
  <2>4. CASE user' = user
    BY <1>2, <2>1, <2>4 DEF StoreType
  <2>5. QED
    BY <2>2, <2>3, <2>4 DEF GetOrCreateUserByDID, SetUserPDSSession
<1>4. mishaps' \in 0..MaxMishaps
  BY MishapCounts DEF GetOrCreateUserByDID, SetUserPDSSession
<1>5. QED
  BY <1>1, <1>3, <1>4, FlowStep DEF GetOrCreateUserByDID, SetUserPDSSession

\* The login is shown, and lands where the cookie says.
LEMMA IssueSessionInv ==
  ASSUME Inv, NEW l \in Logins, IssueSession(l)
  PROVE  Inv'
<1>1. FlowType /\ Reached /\ OwnCookie /\ LandsWhereAsked /\ StoreType
  BY DEF Inv, FlowPart, TypeOK
<1> DEFINE b == browser[l]
<1>2. /\ flow[l] = "session" /\ flow' = [flow EXCEPT ![l] = "done"]
      /\ sessions' = sessions \cup {l} /\ shown' = [shown EXCEPT ![b] = l]
      /\ landed' = [landed EXCEPT ![l] = cookie[b]] /\ cookie' = [cookie EXCEPT ![b] = NoLogin]
      /\ UNCHANGED <<browser, requests, oauth, alone, user, loaded>>
  BY DEF IssueSession, Goto
<1>3. b \in Browsers /\ Goes(l)
  BY <1>1, <1>2 DEF FlowType, Goes
<1>4. /\ \A m \in Logins : m # l => flow'[m] = flow[m] /\ landed'[m] = landed[m]
      /\ flow'[l] = "done" /\ landed'[l] = cookie[b]
      /\ \A c \in Browsers : c # b => cookie'[c] = cookie[c]
  BY <1>1, <1>2, <1>3 DEF FlowType
<1>5. FlowType'
  <2>1. cookie' \in [Browsers -> Logins \cup {NoLogin}]
    BY <1>1, <1>2 DEF FlowType
  <2>2. shown' \in [Browsers -> Logins \cup {NoLogin}]
    BY <1>1, <1>2 DEF FlowType
  <2>3. landed' \in [Logins -> Logins \cup {NoLogin}]
    BY <1>1, <1>2, <1>3 DEF FlowType
  <2>4. /\ flow' \in [Logins -> {"none", "pds", "user", "persist", "status", "session", "done", "refused"}]
        /\ \A m \in Logins : flow'[m] # "none" => browser'[m] \in Browsers
    BY <1>1, <1>2, <1>3, <1>4 DEF FlowType
  <2>5. QED
    BY <1>1, <1>2, <2>1, <2>2, <2>3, <2>4 DEF FlowType
<1>6. Reached'
  BY <1>1, <1>2, <1>4 DEF Reached
<1>7. OwnCookie'
  <2>1. SUFFICES ASSUME NEW m \in Logins, Goes(m)', alone'[m]
        PROVE  /\ cookie'[browser'[m]] = m
               /\ \A n \in Logins : Goes(n)' /\ browser'[n] = browser'[m] => n = m
    BY DEF OwnCookie
  <2>2. m # l /\ Goes(m) /\ alone[m]
    BY <1>2, <1>4, <2>1 DEF Goes
  <2>3. /\ cookie[browser[m]] = m
        /\ \A n \in Logins : Goes(n) /\ browser[n] = browser[m] => n = m
    BY <1>1, <2>2 DEF OwnCookie
  <2>4. browser[m] # b /\ browser[m] \in Browsers
    BY <1>1, <1>3, <2>2, <2>3 DEF FlowType, Goes
  <2>5. \A n \in Logins : Goes(n)' => Goes(n)
    BY <1>3, <1>4 DEF Goes
  <2>6. QED
    BY <1>2, <1>4, <2>3, <2>4, <2>5
<1>8. LandsWhereAsked'
  <2>1. alone[l] => cookie[b] = l
    BY <1>1, <1>3 DEF OwnCookie
  <2>2. QED
    BY <1>1, <1>2, <1>4, <2>1 DEF LandsWhereAsked
<1>9. StoreType'
  BY <1>1, <1>2 DEF StoreType
<1>10. FlowPart'
  BY <1>5, <1>6, <1>7, <1>8 DEF FlowPart
<1>11. QED
  BY <1>9, <1>10, FlowStep DEF IssueSession, Inv, TypeOK

\* A sign-out.
LEMMA HandleSignoutInv ==
  ASSUME Inv, NEW b \in Browsers, HandleSignout(b)
  PROVE  Inv'
<1>1. FlowType /\ Reached /\ OwnCookie /\ LandsWhereAsked /\ StoreType
  BY DEF Inv, FlowPart, TypeOK
<1>2. /\ sessions' \subseteq sessions /\ shown' = [shown EXCEPT ![b] = NoLogin]
      /\ UNCHANGED <<flow, browser, cookie, requests, oauth, landed, alone, user, loaded>>
  BY DEF HandleSignout
<1>3. FlowType'
  BY <1>1, <1>2 DEF FlowType
<1>4. Reached' /\ OwnCookie' /\ LandsWhereAsked'
  BY <1>1, <1>2 DEF Reached, OwnCookie, LandsWhereAsked, Goes
<1>5. StoreType'
  BY <1>1, <1>2 DEF StoreType
<1>6. QED
  BY <1>3, <1>4, <1>5, FlowStep DEF HandleSignout, Inv, TypeOK, FlowPart

-----------------------------------------------------------------------------
(* The status and the goroutines.                                              *)

\* The login sets the status and leaves a goroutine.  Only what events passed over,
\* and the pulls still under way, is remembered across it.
LEMMA StartSyncInv ==
  ASSUME Inv, NEW l \in Logins, StartSync(l)
  PROVE  Inv'
<1>1. FlowPart'
  BY FlowMoves DEF StartSync, Goes
<1>2. StoreType'
  BY StoreKept DEF StartSync
<1>3. SyncType /\ PulledLoaded /\ RecordsFirst
  BY DEF Inv, SyncPart
<1>4. /\ UNCHANGED <<relay, wire, loaded, ignored>>
      /\ pulled' = pulled \/ pulled' = [m \in Logins |-> IF bg[m] = "pull" THEN pulled[m] ELSE Nothing]
  BY DEF StartSync, relayVars, StillPulling
<1>5. SyncType'
  <2>1. Nothing \in [done : SUBSET Collections, missed : SUBSET Collections, failed : BOOLEAN]
    BY DEF Nothing
  <2>2. pulled' \in [Logins -> [done : SUBSET Collections, missed : SUBSET Collections, failed : BOOLEAN]]
    BY <1>3, <1>4, <2>1 DEF SyncType
  <2>3. bg' \in [Logins -> {"none", "pull", "announce", "timer", "late", "end"}]
    BY <1>3 DEF StartSync, SyncType
  <2>4. QED
    BY <1>3, <1>4, <2>2, <2>3 DEF SyncType
<1>6. PulledLoaded'
  BY <1>3, <1>4 DEF PulledLoaded, Nothing
<1>7. RecordsFirst'
  BY <1>3, <1>4 DEF RecordsFirst, Settled
<1>8. IdleMeansLoaded'
  <2>1. CASE user' = [user EXCEPT !.status = "syncing"]
    <3>1. user'.status = "syncing"
      BY <2>1 DEF Inv, TypeOK, StoreType
    <3>2. QED
      BY <3>1 DEF IdleMeansLoaded
  <2>2. CASE Excuse("never set")
    BY <2>2 DEF Excuse, IdleMeansLoaded
  <2>3. QED
    BY <2>1, <2>2 DEF StartSync
<1>9. relayed' = relayed /\ orphan' \in BOOLEAN /\ mishaps' \in 0..MaxMishaps
  BY MishapCounts DEF StartSync, Inv, TypeOK
<1>10. QED
  BY <1>1, <1>2, <1>5, <1>6, <1>7, <1>8, <1>9, InvParts DEF SyncPart

\* What becomes of a collection, whichever it is: it is here, or an error is
\* remembered, or what it lacks is.
LEMMA PullOutcome ==
  ASSUME Inv, NEW l \in Logins, Pull(l)
  PROVE  \E c \in Collections :
           /\ loaded' = loaded \/ loaded' = loaded \cup {c}
           /\ \E ms \in {pulled[l].missed, pulled[l].missed \cup {c}}, fl \in {pulled[l].failed, TRUE} :
                /\ pulled' = [pulled EXCEPT ![l] = [done |-> pulled[l].done \cup {c}, missed |-> ms,
                                                    failed |-> fl]]
                /\ fl \/ loaded' = loaded \cup {c} \/ ms = pulled[l].missed \cup {c}
<1>1. PICK c \in Collections : Loads(l, c) \/ Fails(l, c) \/ PassesOver(l, c)
  BY LoginAssumption DEF Pull, BackfillFollows, BackfillRecords
<1>2. pulled[l] \in [done : SUBSET Collections, missed : SUBSET Collections, failed : BOOLEAN]
  BY DEF Inv, SyncPart, SyncType
<1>3. CASE Loads(l, c)
  <2>1. [pulled[l] EXCEPT !.done = @ \cup {c}]
          = [done |-> pulled[l].done \cup {c}, missed |-> pulled[l].missed, failed |-> pulled[l].failed]
    <3>1. PICK r : r = pulled[l]
      OBVIOUS
    <3>2. PICK d, m, f : r = [done |-> d, missed |-> m, failed |-> f]
      BY <1>2, <3>1
    <3>3. QED
      BY <3>1, <3>2
  <2>2. pulled' = [pulled EXCEPT ![l] = [pulled[l] EXCEPT !.done = @ \cup {c}]]
    BY <1>3 DEF Loads
  <2>3. QED
    BY <1>3, <2>1, <2>2 DEF Loads
<1>4. CASE Fails(l, c)
  BY <1>4 DEF Fails
<1>5. CASE PassesOver(l, c)
  BY <1>5 DEF PassesOver
<1>6. QED
  BY <1>1, <1>3, <1>4, <1>5

\* A collection is pulled, or not.
LEMMA PullInv ==
  ASSUME Inv, NEW l \in Logins, Pull(l)
  PROVE  Inv'
<1>1. FlowPart' /\ UNCHANGED <<requests, oauth, sessions>>
  BY FlowKept DEF Pull
<1>2. SyncType /\ PulledLoaded /\ StoreType
  BY DEF Inv, SyncPart, TypeOK
<1> DEFINE P == [done : SUBSET Collections, missed : SUBSET Collections, failed : BOOLEAN]
<1>a. PICK c \in Collections :
        /\ loaded' = loaded \/ loaded' = loaded \cup {c}
        /\ \E ms \in {pulled[l].missed, pulled[l].missed \cup {c}}, fl \in {pulled[l].failed, TRUE} :
             /\ pulled' = [pulled EXCEPT ![l] = [done |-> pulled[l].done \cup {c}, missed |-> ms,
                                                 failed |-> fl]]
             /\ fl \/ loaded' = loaded \cup {c} \/ ms = pulled[l].missed \cup {c}
  BY PullOutcome
<1>3. PICK ms \in {pulled[l].missed, pulled[l].missed \cup {c}}, fl \in {pulled[l].failed, TRUE} :
        /\ pulled' = [pulled EXCEPT ![l] = [done |-> pulled[l].done \cup {c}, missed |-> ms,
                                            failed |-> fl]]
        /\ fl \/ loaded' = loaded \cup {c} \/ ms = pulled[l].missed \cup {c}
  BY <1>a
<1>4. UNCHANGED <<user, bg, relay, wire, ignored, excuses>>
  BY DEF Pull, relayVars
<1>5. PICK q : q = [done |-> pulled[l].done \cup {c}, missed |-> ms, failed |-> fl]
  OBVIOUS
<1>6. /\ pulled' = [pulled EXCEPT ![l] = q] /\ q \in P
      /\ pulled[l].missed \subseteq q.missed
      /\ q.done = pulled[l].done \cup {c} /\ q.failed = fl /\ q.missed = ms
  <2>1. pulled[l] \in P
    BY <1>2 DEF SyncType
  <2>2. QED
    BY <1>3, <1>5, <2>1
<1>7. /\ pulled' \in [Logins -> P] /\ pulled'[l] = q
      /\ \A m \in Logins : m # l => pulled'[m] = pulled[m]
  BY <1>2, <1>6 DEF SyncType
<1>8. Forward
  BY <1>a, <1>2, <1>4, <1>6, <1>7 DEF Forward, StoreType
<1>9. PulledLoaded'
  <2>1. ASSUME NEW m \in Logins PROVE pulled'[m].failed \/ pulled'[m].done \subseteq loaded' \cup pulled'[m].missed
    <3>1. CASE m # l
      BY <1>2, <1>7, <1>8, <3>1 DEF PulledLoaded, Forward
    <3>2. CASE m = l
      BY <1>a, <1>2, <1>3, <1>6, <1>7, <3>2 DEF PulledLoaded
    <3>3. QED
      BY <3>1, <3>2
  <2>2. QED
    BY <2>1 DEF PulledLoaded
<1>10. SyncType' /\ StoreType'
  BY <1>1, <1>2, <1>4, <1>7, <1>8 DEF SyncType, StoreType, Forward
<1>11. IdleMeansLoaded' /\ RecordsFirst'
  BY <1>4, <1>8, IdleKept, RecordsKept
<1>12. relayed' = relayed /\ orphan' \in BOOLEAN /\ mishaps' \in 0..MaxMishaps
  <2>1. Mishap \/ UNCHANGED mishaps
    BY DEF Pull, BackfillFollows, BackfillRecords, Fails
  <2>2. QED
    BY <2>1, MishapCounts DEF Pull, Inv, TypeOK
<1>13. QED
  BY <1>1, <1>9, <1>10, <1>11, <1>12, InvParts DEF SyncPart

\* What SetUserSyncStatus does to the types.
LEMMA StatusWritten ==
  ASSUME Inv, NEW l \in Logins, NEW status \in {"idle", "failed"}, SetUserSyncStatus(l, status),
         UNCHANGED <<relayed, flowVars, loaded>>
  PROVE  /\ FlowPart' /\ StoreType' /\ orphan' \in BOOLEAN /\ mishaps' \in 0..MaxMishaps
         /\ Become(l, "end")
         /\ user'.status = user.status \/ user'.status = status
<1>1. FlowPart' /\ UNCHANGED <<requests, oauth, sessions>>
  BY FlowKept
<1>2. user' = user \/ user' = [user EXCEPT !.status = status]
  BY DEF SetUserSyncStatus
<1>3. StoreType'
  BY <1>1, <1>2, StoreKept
<1>4. user'.status = user.status \/ user'.status = status
  BY <1>2 DEF Inv, TypeOK, StoreType
<1>5. orphan' \in BOOLEAN /\ mishaps' \in 0..MaxMishaps
  BY MishapCounts DEF SetUserSyncStatus, Inv, TypeOK
<1>6. Become(l, "end")
  BY DEF SetUserSyncStatus
<1>7. QED
  BY <1>1, <1>3, <1>4, <1>5, <1>6

\* The pull ends: idle if it met no error, and then everything is here, but for what
\* it passed over.
LEMMA PullEndsInv ==
  ASSUME Inv, NEW l \in Logins, PullEnds(l)
  PROVE  Inv'
<1> DEFINE status == IF pulled[l].failed THEN "failed" ELSE "idle"
<1>1. status \in {"idle", "failed"} /\ SetUserSyncStatus(l, status)
      /\ UNCHANGED <<relayed, flowVars, loaded, pulled, relay, wire, ignored, excuses>>
  BY DEF PullEnds, relayVars
<1>2. status = "idle" => Accounted'
  <2>1. status = "idle" => Collections \subseteq loaded \cup pulled[l].missed
    BY DEF PullEnds, Inv, SyncPart, PulledLoaded
  <2>2. pulled[l].missed \subseteq PassedOver'
    BY <1>1 DEF PassedOver
  <2>3. QED
    BY <1>1, <2>1, <2>2 DEF Accounted
<1> HIDE DEF status
<1>3. /\ FlowPart' /\ StoreType' /\ orphan' \in BOOLEAN /\ mishaps' \in 0..MaxMishaps
      /\ Become(l, "end") /\ (user'.status = user.status \/ user'.status = status)
  BY <1>1, StatusWritten
<1>4. SyncPart'
  <2>1. bg[l] # "none" /\ relay' \in [tracked : BOOLEAN, fill : {"none", "records", "complete"}]
    BY <1>1 DEF PullEnds, Inv, SyncPart, SyncType
  <2>2. QED
    BY <1>1, <1>2, <1>3, <2>1, GoroutineMoves
<1>5. QED
  BY <1>1, <1>3, <1>4, InvParts

\* The goroutine falls back to idle, with a reason.
LEMMA FallsBackInv ==
  ASSUME Inv, NEW l \in Logins, AnnounceKnown(l) \/ TimerSets(l)
  PROVE  Inv'
<1>1. /\ SetUserSyncStatus(l, "idle")
      /\ UNCHANGED <<relayed, flowVars, loaded, pulled, relay, wire, ignored>>
      /\ excuses \subseteq excuses' /\ excuses' # {} /\ bg[l] # "none"
  BY DEF AnnounceKnown, TimerSets, relayVars, Excuse
<1>2. /\ FlowPart' /\ StoreType' /\ orphan' \in BOOLEAN /\ mishaps' \in 0..MaxMishaps
      /\ Become(l, "end")
  BY <1>1, StatusWritten
<1>3. relay' \in [tracked : BOOLEAN, fill : {"none", "records", "complete"}]
  BY <1>1 DEF Inv, SyncPart, SyncType
<1>4. SyncPart'
  BY <1>1, <1>2, <1>3, GoroutineMoves DEF Accounted
<1>5. QED
  BY <1>1, <1>2, <1>4, InvParts

\* What announcing does to the relay's state.
LEMMA TrackFacts ==
  ASSUME Inv, Track \/ UNCHANGED relay
  PROVE  /\ relay' \in [tracked : BOOLEAN, fill : {"none", "records", "complete"}]
         /\ relay'.fill = relay.fill \/ relay'.fill = "records"
<1>1. relay \in [tracked : BOOLEAN, fill : {"none", "records", "complete"}]
  BY DEF Inv, SyncPart, SyncType
<1>2. relay' = relay \/ relay' = [tracked |-> TRUE, fill |-> "records"]
  BY DEF Track
<1>3. CASE relay' = relay
  BY <1>1, <1>3
<1>4. CASE relay' = [tracked |-> TRUE, fill |-> "records"]
  BY <1>4
<1>5. QED
  BY <1>2, <1>3, <1>4

\* The announcement is answered, or fails.
LEMMA AnnouncesInv ==
  ASSUME Inv, NEW l \in Logins, AnnounceNew(l) \/ AnnounceFails(l)
  PROVE  Inv'
<1>1. /\ UNCHANGED <<relayed, flowVars, loaded, pulled, wire, ignored, orphan>>
      /\ Track \/ UNCHANGED relay
      /\ bg[l] # "none" /\ (Mishap \/ UNCHANGED mishaps)
      /\ excuses \subseteq excuses'
      /\ Become(l, "timer") \/ Become(l, "end")
      /\ user' = user \/ (user' = [user EXCEPT !.status = "idle"] /\ excuses' # {})
  BY DEF AnnounceNew, AnnounceFails, Excuse
<1>2. FlowPart' /\ UNCHANGED <<requests, oauth, sessions>>
  BY <1>1, FlowKept
<1>3. StoreType'
  BY <1>1, <1>2, StoreKept
<1>4. user'.status = "idle" => user.status = "idle" \/ Accounted'
  BY <1>1 DEF Accounted
<1>5. SyncPart'
  BY <1>1, <1>4, TrackFacts, GoroutineMoves
<1>6. orphan' \in BOOLEAN /\ mishaps' \in 0..MaxMishaps
  BY <1>1, MishapCounts DEF Inv, TypeOK
<1>7. QED
  BY <1>1, <1>2, <1>3, <1>5, <1>6, InvParts

\* The timer fires.
LEMMA TimerFiresInv ==
  ASSUME Inv, NEW l \in Logins, TimerFires(l)
  PROVE  Inv'
<1>1. /\ UNCHANGED <<relayed, flowVars, user, loaded, pulled, relay, wire, ignored, excuses>>
      /\ bg[l] # "none" /\ (Become(l, "late") \/ Become(l, "end"))
      /\ orphan' \in BOOLEAN /\ (Mishap \/ UNCHANGED mishaps)
  BY DEF TimerFires, relayVars, Inv, TypeOK
<1>2. FlowPart' /\ UNCHANGED <<requests, oauth, sessions>>
  BY <1>1, FlowKept
<1>3. StoreType'
  BY <1>1, <1>2, StoreKept
<1>4. relay' \in [tracked : BOOLEAN, fill : {"none", "records", "complete"}]
  BY <1>1 DEF Inv, SyncPart, SyncType
<1>5. SyncPart'
  BY <1>1, <1>4, GoroutineMoves
<1>6. mishaps' \in 0..MaxMishaps
  BY <1>1, MishapCounts
<1>7. QED
  BY <1>1, <1>2, <1>3, <1>5, <1>6, InvParts

-----------------------------------------------------------------------------
(* The relay, its consumer, and a restart.                                     *)

\* A step of the relay's side leaves the flows and the goroutines alone.
LEMMA RelayStep ==
  ASSUME Inv, UNCHANGED <<relayed, flowVars, bgVars, orphan>>, Mishap \/ UNCHANGED mishaps,
         Forward, StoreType', RecordsFirst',
         relay' \in [tracked : BOOLEAN, fill : {"none", "records", "complete"}],
         wire' \in Seq({"records", "complete"}), ignored' \subseteq Collections,
         user'.status = "idle" => user.status = "idle" \/ Accounted'
  PROVE  Inv'
<1>1. FlowPart' /\ orphan' \in BOOLEAN /\ mishaps' \in 0..MaxMishaps
  BY FlowKept, MishapCounts DEF Inv, TypeOK
<1>2. SyncType'
  BY DEF Inv, SyncPart, SyncType, bgVars
<1>3. PulledLoaded' /\ IdleMeansLoaded'
  BY PulledKept, IdleKept DEF bgVars
<1>4. QED
  BY <1>1, <1>2, <1>3, InvParts DEF SyncPart

\* Somebody announces the account.
LEMMA AnnouncedInv ==
  ASSUME Inv, AnnounceTrackedDIDs \/ AnnouncedElsewhere
  PROVE  Inv'
<1>1. /\ Track
      /\ UNCHANGED <<relayed, flowVars, user, loaded, bgVars, wire, ignored, excuses, orphan, mishaps>>
  BY DEF AnnounceTrackedDIDs, AnnouncedElsewhere
<1>2. /\ relay' \in [tracked : BOOLEAN, fill : {"none", "records", "complete"}]
      /\ relay'.fill = relay.fill \/ relay'.fill = "records"
  BY <1>1, TrackFacts
<1>3. Forward /\ StoreType'
  BY <1>1, FlowKept, StoreKept DEF Forward, Inv, TypeOK, StoreType, bgVars
<1>4. RecordsFirst' /\ wire' \in Seq({"records", "complete"}) /\ ignored' \subseteq Collections
  BY <1>1, <1>2 DEF Inv, SyncPart, SyncType, RecordsFirst, Settled
<1>5. QED
  BY <1>1, <1>2, <1>3, <1>4, RelayStep

\* The relay broadcasts a backfill: its records, then backfillComplete.
LEMMA RelayBackfillInv ==
  ASSUME Inv, RelayBackfill
  PROVE  Inv'
<1> DEFINE W == {"records", "complete"}
<1>1. relay.fill \in W /\ wire \in Seq(W) /\ RecordsFirst
      /\ relay \in [tracked : BOOLEAN, fill : {"none", "records", "complete"}]
  BY DEF RelayBackfill, Inv, SyncPart, SyncType
<1>2. /\ wire' = Append(wire, relay.fill)
      /\ UNCHANGED <<relayed, flowVars, user, loaded, bgVars, ignored, excuses, orphan, mishaps>>
      /\ relay' = [relay EXCEPT !.fill = IF @ = "records" THEN "complete" ELSE "none"]
  BY DEF RelayBackfill
<1>3. relay' \in [tracked : BOOLEAN, fill : {"none", "records", "complete"}]
  BY <1>1, <1>2
<1> HIDE DEF W
<1>4. /\ wire' \in Seq(W) /\ wire' # <<>>
      /\ Head(wire') = IF wire = <<>> THEN relay.fill ELSE Head(wire)
  BY <1>1, <1>2, AppendProperties, HeadTailAppend
<1>5. Forward /\ StoreType'
  BY <1>2, FlowKept, StoreKept DEF Forward, Inv, TypeOK, StoreType, bgVars
<1>6. RecordsFirst'
  <2>1. Settled => Settled'
    BY <1>2 DEF Settled
  <2>2. wire = <<>> /\ relay.fill # "complete" => Head(wire') = "records"
    BY <1>1, <1>4 DEF W
  <2>3. wire # <<>> /\ Head(wire) = "records" => Head(wire') = "records"
    BY <1>4
  <2>4. QED
    BY <1>1, <1>4, <2>1, <2>2, <2>3 DEF RecordsFirst
<1>7. wire' \in Seq({"records", "complete"}) /\ ignored' \subseteq Collections
  BY <1>2, <1>4 DEF W, Inv, SyncPart, SyncType
<1>8. QED
  BY <1>2, <1>3, <1>5, <1>6, <1>7, RelayStep

\* The relay loses the account, and what it had still to broadcast.
LEMMA RelayForgetsInv ==
  ASSUME Inv, RelayForgets
  PROVE  Inv'
<1>1. /\ relay' = [tracked |-> FALSE, fill |-> "none"] /\ Mishap
      /\ UNCHANGED <<relayed, flowVars, user, loaded, bgVars, wire, ignored, excuses, orphan>>
  BY DEF RelayForgets
<1>2. /\ relay' \in [tracked : BOOLEAN, fill : {"none", "records", "complete"}]
      /\ relay'.fill = "none"
  BY <1>1
<1>3. Forward /\ StoreType'
  BY <1>1, FlowKept, StoreKept DEF Forward, Inv, TypeOK, StoreType, bgVars
<1>4. RecordsFirst' /\ wire' \in Seq({"records", "complete"}) /\ ignored' \subseteq Collections
  BY <1>1, <1>2 DEF Inv, SyncPart, SyncType, RecordsFirst, Settled
<1>5. QED
  BY <1>1, <1>2, <1>3, <1>4, RelayStep

\* The consumer handles the next event, or fails to.
LEMMA HandlesInv ==
  ASSUME Inv, HandleRecords \/ HandleBackfillComplete \/ HandlerFails
  PROVE  Inv'
<1> DEFINE W == {"records", "complete"}
<1>1. wire \in Seq(W) /\ RecordsFirst /\ StoreType /\ wire # <<>> /\ ignored \subseteq Collections
  BY DEF Inv, SyncPart, SyncType, TypeOK, HandleRecords, HandleBackfillComplete, HandlerFails
<1>2. /\ wire' = Tail(wire) /\ (Mishap \/ UNCHANGED mishaps)
      /\ UNCHANGED <<relayed, flowVars, bgVars, relay, orphan>>
  BY DEF HandleRecords, HandleBackfillComplete, HandlerFails
<1>3. wire' \in Seq(W)
  BY <1>1, <1>2, HeadTailProperties
<1>4. /\ Forward /\ Settled' /\ ignored' \subseteq Collections
      /\ user' = user \/ (user' = [user EXCEPT !.status = "idle"] /\ Head(wire) = "complete")
  <2>1. Head(wire) # "records" => Settled
    BY <1>1 DEF RecordsFirst
  <2>2. CASE HandleRecords
    <3>1. PICK cs \in SUBSET Collections : Records(cs)
      BY <2>2, LoginAssumption DEF HandleRecords
    <3>2. QED
      BY <1>1, <1>2, <2>2, <3>1 DEF HandleRecords, Records, Forward, Settled, StoreType, SyncType, bgVars
  <2>3. CASE HandleBackfillComplete
    BY <1>1, <1>2, <2>1, <2>3 DEF HandleBackfillComplete, Forward, Settled, StoreType, bgVars
  <2>4. CASE HandlerFails
    <3>1. CASE Head(wire) = "records"
      <4>1. PICK cs \in SUBSET Collections : Records(cs)
        BY <2>4, <3>1 DEF HandlerFails
      <4>2. QED
        BY <1>1, <1>2, <2>4, <4>1 DEF HandlerFails, Records, Forward, Settled, StoreType, bgVars
    <3>2. CASE Head(wire) # "records"
      BY <1>1, <1>2, <2>1, <2>4, <3>2 DEF HandlerFails, Forward, Settled, StoreType, bgVars
    <3>3. QED
      BY <3>1, <3>2
  <2>5. QED
    BY <2>2, <2>3, <2>4
<1>5. StoreType'
  <2>1. UNCHANGED <<requests, oauth, sessions>>
    BY <1>2, FlowKept
  <2>2. loaded' \subseteq Collections
    BY <1>4 DEF Forward
  <2>3. user' \in [row : BOOLEAN, pds : BOOLEAN, session : oauth \cup {NoLogin},
                   status : {"idle", "syncing", "failed"}]
    BY <1>1, <1>4 DEF StoreType
  <2>4. QED
    BY <1>1, <2>1, <2>2, <2>3 DEF StoreType
<1>6. RecordsFirst'
  BY <1>4 DEF RecordsFirst
<1>7. Accounted' /\ ignored' \subseteq Collections
  BY <1>4 DEF Settled, Accounted, PassedOver
<1>8. relay' \in [tracked : BOOLEAN, fill : {"none", "records", "complete"}]
  BY <1>2 DEF Inv, SyncPart, SyncType
<1>9. QED
  BY <1>2, <1>3, <1>4, <1>5, <1>6, <1>7, <1>8, RelayStep

\* Somebody follows the account.
LEMMA FollowedInv ==
  ASSUME Inv, CreateRemoteUser \/ BackfillFollowee
  PROVE  Inv'
<1>1. UNCHANGED <<relayed, flowVars, bgVars, relay, wire, ignored, excuses, orphan, mishaps>>
  BY DEF CreateRemoteUser, BackfillFollowee, relayVars
<1>2. StoreType /\ UNCHANGED <<requests, oauth, sessions>>
  BY <1>1, FlowKept DEF Inv, TypeOK
<1>3. Forward
  BY <1>1, <1>2, LoginAssumption DEF CreateRemoteUser, BackfillFollowee, Forward, StoreType, bgVars
<1>4. StoreType' /\ user'.status = user.status
  <2>1. loaded' \subseteq Collections
    BY <1>3 DEF Forward
  <2>2. CASE user' = user
    BY <1>2, <2>1, <2>2 DEF StoreType
  <2>3. CASE user' = [user EXCEPT !.row = TRUE, !.pds = TRUE]
    BY <1>2, <2>1, <2>3 DEF StoreType
  <2>4. QED
    BY <2>2, <2>3 DEF CreateRemoteUser, BackfillFollowee
<1>5. RecordsFirst'
  BY <1>1, <1>3, RecordsKept
<1>6. /\ relay' \in [tracked : BOOLEAN, fill : {"none", "records", "complete"}]
      /\ wire' \in Seq({"records", "complete"}) /\ ignored' \subseteq Collections
  BY <1>1 DEF Inv, SyncPart, SyncType
<1>7. QED
  BY <1>1, <1>3, <1>4, <1>5, <1>6, RelayStep

\* A restart ends requests and goroutines.
LEMMA RestartAPIInv ==
  ASSUME Inv, RestartAPI
  PROVE  Inv'
<1>1. FlowType /\ Reached /\ OwnCookie /\ LandsWhereAsked /\ SyncType
  BY DEF Inv, FlowPart, SyncPart
<1>2. UNCHANGED <<relayed, browser, cookie, requests, oauth, sessions, shown, landed, alone,
                  user, loaded, pulled, relay, wire, ignored, excuses>>
  BY DEF RestartAPI, relayVars
<1>3. \A l \in Logins : /\ flow'[l] = flow[l] \/ flow'[l] = "refused"
                        /\ flow'[l] # "none" => flow[l] # "none"
                        /\ l \in oauth => flow'[l] \notin {"none", "pds"}
  BY <1>1 DEF RestartAPI, Reached, UnderWay
<1>4. FlowType'
  <2>1. flow' \in [Logins -> {"none", "pds", "user", "persist", "status", "session", "done", "refused"}]
    BY <1>1 DEF RestartAPI, FlowType
  <2>2. QED
    BY <1>1, <1>2, <1>3, <2>1 DEF FlowType
<1>5. Reached'
  BY <1>1, <1>2, <1>3 DEF Reached
<1>6. \A l \in Logins : Goes(l)' => Goes(l)
  BY <1>3 DEF Goes
<1>7. OwnCookie'
  BY <1>1, <1>2, <1>6 DEF OwnCookie
<1>8. LandsWhereAsked'
  BY <1>1, <1>2, <1>3 DEF LandsWhereAsked
<1>9. bg' = [l \in Logins |-> IF bg[l] = "none" THEN "none" ELSE "end"]
  BY DEF RestartAPI
<1>10. SyncType' /\ \A l \in Logins : bg'[l] # "none" => bg[l] # "none"
  BY <1>1, <1>2, <1>9 DEF SyncType
<1>11. Forward
  BY <1>2 DEF Forward, Inv, TypeOK, StoreType, bgVars
<1>12. RecordsFirst' /\ PulledLoaded' /\ IdleMeansLoaded'
  BY <1>2, <1>10, <1>11, RecordsKept, PulledKept, IdleKept
<1>13. StoreType' /\ orphan' \in BOOLEAN /\ mishaps' \in 0..MaxMishaps
  BY <1>2, StoreKept, MishapCounts DEF RestartAPI
<1>14. QED
  BY <1>2, <1>4, <1>5, <1>7, <1>8, <1>10, <1>12, <1>13, InvParts DEF FlowPart, SyncPart

-----------------------------------------------------------------------------

\* Initially nobody has logged in and nothing is on its way.
LEMMA InitInv == Init => Inv
<1> SUFFICES ASSUME Init PROVE Inv
  OBVIOUS
<1>1. FlowType
  BY DEF Init, FlowType
<1>2. Reached /\ OwnCookie /\ LandsWhereAsked
  BY DEF Init, Reached, OwnCookie, LandsWhereAsked, Goes
<1>3. StoreType
  BY DEF Init, StoreType
<1>4. SyncType
  BY DEF Init, SyncType, Nothing
<1>5. PulledLoaded /\ IdleMeansLoaded
  BY DEF Init, PulledLoaded, IdleMeansLoaded, Nothing
<1>6. RecordsFirst
  BY DEF Init, RecordsFirst
<1>7. relayed \in Relayed /\ orphan \in BOOLEAN
  BY DEF Init
<1>8. mishaps \in 0..MaxMishaps
  BY LoginAssumption DEF Init
<1>9. QED
  BY <1>1, <1>2, <1>3, <1>4, <1>5, <1>6, <1>7, <1>8 DEF Inv, TypeOK, FlowPart, SyncPart

\* The invariant is kept by every step.
LEMMA NextInv == Inv /\ [Next]_vars => Inv'
<1> SUFFICES ASSUME Inv, [Next]_vars PROVE Inv'
  OBVIOUS
<1>1. ASSUME NEW l \in Logins, Flow(l) PROVE Inv'
  BY <1>1, HandleLoginInv, StartFailsInv, ProcessCallbackInv, CallbackFailsInv, UserWrittenInv,
     StartSyncInv, IssueSessionInv DEF Flow, HandleSignup
<1>2. ASSUME NEW l \in Logins, Background(l) PROVE Inv'
  BY <1>2, PullInv, PullEndsInv, FallsBackInv, AnnouncesInv, TimerFiresInv DEF Background
<1>3. ASSUME NEW b \in Browsers, CookieExpires(b) \/ HandleSignout(b) PROVE Inv'
  BY <1>3, CookieExpiresInv, HandleSignoutInv
<1>4. CASE UNCHANGED vars
  <2>1. UNCHANGED <<relayed, loaded, bgVars, relayVars, excuses, orphan, flowVars, user, mishaps>>
    BY <1>4 DEF vars
  <2>2. FlowPart' /\ StoreType' /\ mishaps' \in 0..MaxMishaps
    BY <2>1, FlowKept, StoreKept, MishapCounts
  <2>3. QED
    BY <2>1, <2>2, FlowStep
<1>5. QED
  BY <1>1, <1>2, <1>3, <1>4, AnnouncedInv, RelayBackfillInv, RelayForgetsInv, HandlesInv,
     FollowedInv, RestartAPIInv DEF Next

\* Login keeps its types: a request for authorization is used up by the session it
\* leads to, and the user's session is one that is stored.
THEOREM LoginTypes == Spec => []TypeOK
<1>1. Inv => TypeOK
  BY DEF Inv
<1>2. QED
  BY <1>1, InitInv, NextInv, PTL DEF Spec

\* An account that has logged in and shows as idle has its records, but for what a
\* pull or the handlers passed over without an error, or one of the reasons
\* handleCallback accepts, however many logins, timers and backfills of the account
\* overlap.
THEOREM IdleMeansSynced == Spec => []IdleMeansLoaded
<1>1. Inv => IdleMeansLoaded
  BY DEF Inv, SyncPart
<1>2. QED
  BY <1>1, InitInv, NextInv, PTL DEF Spec

\* A login that had its browser to itself is sent where the redirect cookie it set
\* says.
THEOREM LandsRight == Spec => []LandsWhereAsked
<1>1. Inv => LandsWhereAsked
  BY DEF Inv, FlowPart
<1>2. QED
  BY <1>1, InitInv, NextInv, PTL DEF Spec

=============================================================================
