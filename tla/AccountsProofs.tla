--------------------------- MODULE AccountsProofs ---------------------------
(* Proofs about Identity and Profile, the modules MCAccounts composes: their   *)
(* types, that follows match records, that the search shows whom a follow      *)
(* reaches, that the copies of a profile agree and that an edit is kept.       *)
(* The two share no variable, so each has a specification of its own here.     *)
EXTENDS Identity, Profile, FiniteSetTheorems, SequenceTheorems, TLAPS

AnyHandle == Handle \cup Nick \cup {NoHandle}

\* What a request under way keeps.
ReqPc == {"idle", "lookup", "resolve", "create", "again", "profile", "subject", "put",
          "unfollow", "rkey", "drop", "check", "delete", "keep"}
ReqType ==
  [pc : ReqPc, handle : AnyHandle, who : Account, known : BOOLEAN, rkey : Nat, subject : Account]

\* The types of the accounts, the follows and the request under way.
IdentityTypes ==
  /\ holds \in [Account -> AnyHandle]
  /\ tracked \in [Account -> [on : BOOLEAN, handle : AnyHandle]]
  /\ users \in [Account -> [on : BOOLEAN, handle : AnyHandle]]
  /\ signed \subseteq Account /\ pending \subseteq Account \X AnyHandle
  /\ follows \in [Account -> [on : BOOLEAN, rkey : Nat]]
  /\ records \subseteq [rkey : Nat, subject : Account]
  /\ echo \in [op : {"none", "put", "delete"}, rkey : Nat, subject : Account]
  /\ req \in ReqType
  /\ requests \in Nat /\ changes \in Nat /\ crossed \in BOOLEAN /\ leftover \subseteq Account

\* No two accounts of a table have the same handle.
OneEach(table) ==
  \A d, e \in Account :
    /\ table[d].on /\ table[e].on
    /\ table[d].handle = table[e].handle /\ table[d].handle # NoHandle
    => d = e

\* The handle of the request under way is that of d and of no other.
Reaches(d) == GetProfileByHandle(req.handle) = {d}

\* The rkeys that are in use are of requests of before the one under way, but for
\* the record that it has put itself.
Numbered ==
  /\ \A r \in records : r.rkey # 0 /\ r.rkey <= requests
  /\ \A d \in Account : follows[d].rkey <= requests
  /\ req.pc # "idle" => requests > 0
  /\ req.pc \notin {"idle", "keep"} =>
       /\ \A r \in records : r.rkey < requests
       /\ \A d \in Account : follows[d].rkey < requests

\* An rkey names one record, and a row the record of its own followee.
Distinct ==
  /\ \A r, q \in records : r.rkey = q.rkey => r = q
  /\ \A d \in Account : \A r \in records : follows[d].rkey = r.rkey => r.subject = d

\* What the relay has still to tell of.
Echoed ==
  /\ req.pc \notin {"idle", "keep"} => echo.op = "none"
  /\ echo.op = "put" =>
       /\ \E r \in records : r.rkey = echo.rkey /\ r.subject = echo.subject
       /\ req.pc = "keep" => echo.rkey = req.rkey /\ echo.subject = req.who
  /\ echo.op = "delete" =>
       /\ echo.rkey # 0 /\ \A r \in records : r.rkey # echo.rkey
       /\ req.pc = "keep" => req.rkey = 0

\* The row of a followee has the rkey of the only record, and there is none else.
Match(d) ==
  /\ follows[d].on => \E r \in records : r.subject = d
  /\ \A r \in records : r.subject = d => follows[d].on /\ r.rkey = follows[d].rkey

\* Whom the request under way has between two of its steps.
Between(d) ==
  \/ req.pc = "profile" /\ Reaches(d)
  \/ req.pc \in {"subject", "put", "check", "delete", "keep"} /\ req.who = d

Matched == \A d \in Account \ leftover : Between(d) \/ Match(d)

\* How far the request has come with its followee.
Course ==
  /\ req.pc # "idle" => req.handle # NoHandle
  /\ req.pc \in {"profile", "unfollow"} => \E d \in Account : Reaches(d)
  /\ req.pc \in {"create", "again", "subject", "put", "rkey", "drop", "check", "delete", "keep"} => req.known
  /\ req.pc \in {"again", "subject", "put", "rkey", "drop", "check", "delete"} => Reaches(req.who)
  /\ \A d \in Account \ leftover : Between(d) /\ req.pc \in {"profile", "subject", "put"} =>
       follows[d].on /\ \A r \in records : r.subject # d
  /\ req.pc = "put" => req.subject = req.who
  /\ req.pc = "drop" => req.rkey = follows[req.who].rkey
  /\ req.pc \in {"check", "delete"} =>
       /\ follows[req.who] = NotFollowed
       /\ \A r \in records : r.rkey = req.rkey => r.subject = req.who
       /\ req.who \notin leftover => \A r \in records : r.subject = req.who => r.rkey = req.rkey
  /\ req.pc = "keep" /\ req.rkey = 0 =>
       /\ ~follows[req.who].on
       /\ req.who \notin leftover => \A r \in records : r.subject # req.who
  /\ req.pc = "keep" /\ req.rkey # 0 =>
       /\ \E r \in records : r.rkey = req.rkey /\ r.subject = req.who
       /\ req.who \notin leftover => follows[req.who].on /\ \A r \in records : r.subject = req.who => r.rkey = req.rkey

\* Both tables, and the user's own row.
Tables == OneEach(users) /\ OneEach(tracked) /\ users[Me].on

\* What no row has changed hands to spoil.
Whole == Numbered /\ Distinct /\ Echoed /\ Matched /\ Course

Honest == ~crossed => Whole

\* Whoever is followed has a row.
Referenced == \A d \in Account : follows[d].on => users[d].on

IdentityInv == IdentityTypes /\ Tables /\ Referenced /\ Honest

(***************************************************************************)
(* Identity: types, tables                                                   *)
(***************************************************************************)

\* The types hold at first.
LEMMA IdentityInitTypes == IdentityInit => IdentityTypes
<1> SUFFICES ASSUME IdentityInit PROVE IdentityTypes
  OBVIOUS
<1>1. req \in ReqType /\ echo \in [op : {"none", "put", "delete"}, rkey : Nat, subject : Account]
  BY IdentityAssumption DEF IdentityInit, ReqType, ReqPc, AnyHandle, NoReq, NoEcho
<1>2. holds \in [Account -> AnyHandle]
  BY DEF IdentityInit, AnyHandle
<1>3. /\ tracked \in [Account -> [on : BOOLEAN, handle : AnyHandle]]
      /\ users \in [Account -> [on : BOOLEAN, handle : AnyHandle]]
  <2>1. \A d \in Account : holds[d] \in AnyHandle
    BY <1>2
  <2>2. NoHandle \in AnyHandle
    BY DEF AnyHandle
  <2> QED
    BY <2>1, <2>2 DEF IdentityInit, NoRow
<1>4. follows \in [Account -> [on : BOOLEAN, rkey : Nat]]
  BY DEF IdentityInit, NotFollowed
<1> QED
  BY <1>1, <1>2, <1>3, <1>4, IdentityAssumption DEF IdentityInit, IdentityTypes

\* Setting a handle keeps the types of the table.
LEMMA SetHandleTypes ==
  ASSUME IdentityTypes, NEW d \in Account, NEW h \in AnyHandle, SetHandle(d, h)
  PROVE  users' \in [Account -> [on : BOOLEAN, handle : AnyHandle]] /\ crossed' \in BOOLEAN
  BY DEF SetHandle, IdentityTypes

\* What somebody's PDS is asked for, at a sign-in.
LEMMA CallbackTypes ==
  ASSUME IdentityTypes, NEW d \in Account, HandleCallback(d)
  PROVE  IdentityTypes'
<1>1. PICK h \in {holds[d], NoHandle} :
        GetOrCreateUserByDID(d, h) /\ pending' = pending \cup {<<d, h>>}
  BY DEF HandleCallback
<1>2. h \in AnyHandle
  BY DEF IdentityTypes, AnyHandle
<1>3. users' \in [Account -> [on : BOOLEAN, handle : AnyHandle]] /\ crossed' \in BOOLEAN
  BY <1>1, <1>2, SetHandleTypes DEF GetOrCreateUserByDID, IdentityTypes
<1> QED
  BY <1>1, <1>2, <1>3 DEF HandleCallback, Changes, mine, IdentityTypes

\* Every step of the environment keeps the types.
LEMMA EnvironmentTypes == IdentityTypes /\ Environment => IdentityTypes'
<1> SUFFICES ASSUME IdentityTypes, Environment PROVE IdentityTypes'
  OBVIOUS
<1>1. ASSUME NEW d \in Account, NEW h \in Handle \cup {NoHandle}, Move(d, h) PROVE IdentityTypes'
  BY <1>1 DEF Move, Changes, mine, IdentityTypes, AnyHandle
<1>2. ASSUME NEW d \in Account, HandleCallback(d) PROVE IdentityTypes'
  BY <1>2, CallbackTypes
<1>3. ASSUME NEW d \in Account, AnnouncedElsewhere(d) PROVE IdentityTypes'
  BY <1>3 DEF AnnouncedElsewhere, Changes, mine, IdentityTypes
<1>4. ASSUME NEW d \in Account, DeleteUser(d) PROVE IdentityTypes'
  BY <1>4 DEF DeleteUser, Changes, net, IdentityTypes, AnyHandle, NoRow, NotFollowed
<1>5. ASSUME NEW d \in Account, NEW n \in Nick, UpsertHandle(d, n) PROVE IdentityTypes'
  <2>1. n \in AnyHandle
    BY DEF AnyHandle
  <2>2. SetHandle(d, n)
    BY <1>5 DEF UpsertHandle
  <2> QED
    BY <1>5, <2>1, <2>2, SetHandleTypes DEF UpsertHandle, Changes, net, mine, IdentityTypes
<1>6. ASSUME AnnounceTrackedDIDs PROVE IdentityTypes'
  BY <1>6 DEF AnnounceTrackedDIDs, ListUsersWithATProto, Changes, mine, IdentityTypes
<1>7. ASSUME HandleAnnounceUser PROVE IdentityTypes'
  <2>1. PICK a \in pending : pending' = pending \ {a} /\ (UpsertTrackedDID(a[1], a[2]) \/ UNCHANGED tracked)
    BY <1>7 DEF HandleAnnounceUser
  <2>2. a[1] \in Account /\ a[2] \in AnyHandle /\ NoHandle \in AnyHandle
    BY DEF IdentityTypes, AnyHandle
  <2>3. tracked' \in [Account -> [on : BOOLEAN, handle : AnyHandle]]
    <3>1. \A e \in Account : tracked[e] \in [on : BOOLEAN, handle : AnyHandle]
      BY DEF IdentityTypes
    <3>2. \A e \in Account : [tracked[e] EXCEPT !.handle = NoHandle] \in [on : BOOLEAN, handle : AnyHandle]
      BY <2>2, <3>1
    <3>3. CASE UNCHANGED tracked
      BY <3>3 DEF IdentityTypes
    <3>4. CASE UpsertTrackedDID(a[1], a[2])
      BY <2>2, <3>1, <3>2, <3>4 DEF UpsertTrackedDID
    <3> QED
      BY <2>1, <3>3, <3>4
  <2> QED
    BY <1>7, <2>1, <2>3 DEF HandleAnnounceUser, mine, IdentityTypes
<1> QED
  BY <1>1, <1>2, <1>3, <1>4, <1>5, <1>6, <1>7 DEF Environment

\* Asking, and every step of a request, keep its type.
LEMMA RequestTyped == IdentityTypes /\ (Follow \/ Unfollow \/ RequestStep) => req' \in ReqType
<1> SUFFICES ASSUME IdentityTypes, Follow \/ Unfollow \/ RequestStep PROVE req' \in ReqType
  OBVIOUS
<1> USE DEF ReqType, ReqPc
<1>0. req \in ReqType /\ (\A h : Named(users, h) \subseteq Account /\ Named(tracked, h) \subseteq Account)
  BY DEF IdentityTypes, Named
<1>1. NoReq \in ReqType
  BY IdentityAssumption DEF NoReq, AnyHandle
<1>2. ASSUME NEW h \in AnyHandle, NEW pc \in {"lookup", "unfollow"}, Ask(h, pc) PROVE req' \in ReqType
  BY <1>1, <1>2 DEF Ask
<1>3. CASE Follow \/ Unfollow
  BY <1>2, <1>3 DEF Follow, Unfollow, ListFollowing, IdentityTypes, AnyHandle
<1>4. CASE Lookup
  BY <1>0, <1>1, <1>4 DEF Lookup, Go, Over
<1>5. CASE Resolve
  <2>1. CASE req' = NoReq
    BY <1>1, <2>1
  <2>2. ASSUME NEW d \in Account, req' = [req EXCEPT !.pc = "create", !.who = d, !.known = TRUE]
        PROVE  req' \in ReqType
    BY <1>0, <2>2
  <2> QED
    BY <1>0, <1>5, <2>1, <2>2 DEF Resolve, ResolveHandle, Over
<1>6. CASE CreateRemoteUser
  BY <1>0, <1>1, <1>6 DEF CreateRemoteUser, Go, Over
<1>7. CASE FollowCreated
  BY <1>0, <1>1, <1>7 DEF FollowCreated, Go, Over
<1>8. CASE ResolveFollowee
  <2>1. PICK next \in {"subject", "rkey"} :
          \/ \E d \in Account : req' = [req EXCEPT !.pc = next, !.who = d, !.known = TRUE]
          \/ req' = [req EXCEPT !.pc = next]
    BY <1>0, <1>8 DEF ResolveFollowee, GetProfileByHandle, Go
  <2> QED
    BY <1>0, <2>1
<1>9. CASE GetFollowATProtoRkey
  <2>1. PICK k : k = (IF req.known THEN follows[req.who].rkey ELSE 0)
    OBVIOUS
  <2>2. k \in Nat
    BY <1>0, <2>1 DEF IdentityTypes
  <2>3. req' = [req EXCEPT !.pc = "drop", !.rkey = k]
    BY <1>9, <2>1 DEF GetFollowATProtoRkey
  <2> QED
    BY <1>0, <2>2, <2>3
<1>10. CASE UnfollowUser
  BY <1>0, <1>1, <1>10 DEF UnfollowUser, Go, Over
<1>11. CASE Subject
  <2>1. CASE req' = NoReq
    BY <1>1, <2>1
  <2>2. ASSUME NEW d \in Account, NEW pc \in {"put", "delete"}, req' = [req EXCEPT !.pc = pc, !.subject = d]
        PROVE  req' \in ReqType
    BY <1>0, <2>2
  <2>3. \/ req' = NoReq
        \/ \E d \in Account, pc \in {"put", "delete"} : req' = [req EXCEPT !.pc = pc, !.subject = d]
    BY <1>0, <1>11 DEF Subject, GetProfileByHandle, Over
  <2> QED
    BY <2>1, <2>2, <2>3
<1>12. CASE PutFollow
  <2>1. req' = [req EXCEPT !.pc = "keep", !.rkey = requests] /\ requests \in Nat
    BY <1>12 DEF PutFollow, IdentityTypes
  <2> QED
    BY <1>0, <2>1
<1>13. CASE DeleteFollow
  <2>1. req' = NoReq \/ req' = [req EXCEPT !.pc = "keep", !.rkey = 0]
    BY <1>13 DEF DeleteFollow, Over
  <2>2. CASE req' = NoReq
    BY <1>1, <2>2
  <2>3. CASE req' = [req EXCEPT !.pc = "keep", !.rkey = 0]
    BY <1>0, <2>3
  <2> QED
    BY <2>1, <2>2, <2>3
<1>14. CASE SetFollowATProtoRkey
  BY <1>1, <1>14 DEF SetFollowATProtoRkey, Over
<1> QED
  BY <1>3, <1>4, <1>5, <1>6, <1>7, <1>8, <1>9, <1>10, <1>11, <1>12, <1>13, <1>14 DEF RequestStep

\* Every step of a request, and of the echo of its record, keeps the types.
LEMMA RequestTypes ==
  IdentityTypes /\ (Follow \/ Unfollow \/ RequestStep \/ HandleFollowEvent \/ HandleUnfollowEvent)
    => IdentityTypes'
<1> SUFFICES ASSUME IdentityTypes, Follow \/ Unfollow \/ RequestStep \/ HandleFollowEvent \/ HandleUnfollowEvent
             PROVE  IdentityTypes'
  OBVIOUS
<1> USE DEF net, mine
<1>0. req.who \in Account /\ req.rkey \in Nat /\ req.subject \in Account /\ req.handle \in AnyHandle
  BY DEF IdentityTypes, ReqType
<1>7. \A d \in Account : [follows EXCEPT ![d] = [on |-> TRUE, rkey |-> 0]] \in [Account -> [on : BOOLEAN, rkey : Nat]]
  <2>1. follows \in [Account -> [on : BOOLEAN, rkey : Nat]]
    BY DEF IdentityTypes
  <2>2. [on |-> TRUE, rkey |-> 0] \in [on : BOOLEAN, rkey : Nat]
    OBVIOUS
  <2> QED
    BY <2>1, <2>2
<1>8. \A d \in Account : [follows EXCEPT ![d] = NotFollowed] \in [Account -> [on : BOOLEAN, rkey : Nat]]
  <2>1. follows \in [Account -> [on : BOOLEAN, rkey : Nat]]
    BY DEF IdentityTypes
  <2>2. NotFollowed \in [on : BOOLEAN, rkey : Nat]
    BY DEF NotFollowed
  <2> QED
    BY <2>1, <2>2
<1>9. \A d \in Account, h \in AnyHandle : [users EXCEPT ![d] = [on |-> TRUE, handle |-> h]]
        \in [Account -> [on : BOOLEAN, handle : AnyHandle]]
  <2>1. users \in [Account -> [on : BOOLEAN, handle : AnyHandle]]
    BY DEF IdentityTypes
  <2>2. \A h \in AnyHandle : [on |-> TRUE, handle |-> h] \in [on : BOOLEAN, handle : AnyHandle]
    OBVIOUS
  <2> QED
    BY <2>1, <2>2
<1>1. ASSUME NEW h, NEW pc, Ask(h, pc), req' \in ReqType PROVE IdentityTypes'
  BY <1>1 DEF Ask, IdentityTypes
<1>2. CASE Follow
  BY <1>1, <1>2, RequestTyped DEF Follow
<1>3. CASE Unfollow
  BY <1>1, <1>3, RequestTyped DEF Unfollow
<1>4. CASE RequestStep
  <2>1. req' \in ReqType
    BY <1>4, RequestTyped
  <2>2. CASE Lookup
    <3>1. follows' = follows \/ \E d \in Account : follows' = [follows EXCEPT ![d] = [on |-> TRUE, rkey |-> 0]]
      BY <2>2 DEF Lookup, FollowUser, GetProfileByHandle, Named
    <3>2. follows' \in [Account -> [on : BOOLEAN, rkey : Nat]]
      BY <1>7, <3>1 DEF IdentityTypes
    <3> QED
      BY <2>1, <2>2, <3>2 DEF Lookup, IdentityTypes
  <2>3. CASE Resolve \/ ResolveFollowee \/ GetFollowATProtoRkey \/ Subject
    BY <2>1, <2>3 DEF Resolve, ResolveFollowee, GetFollowATProtoRkey, Subject, IdentityTypes
  <2>4. CASE CreateRemoteUser
    <3>1. users' = users \/ users' = [users EXCEPT ![req.who] = [on |-> TRUE, handle |-> req.handle]]
      BY <2>4 DEF CreateRemoteUser
    <3>2. users' \in [Account -> [on : BOOLEAN, handle : AnyHandle]]
      <4>1. PICK d \in Account : d = req.who
        BY <1>0
      <4>2. PICK h \in AnyHandle : h = req.handle
        BY <1>0
      <4>3. users' = users \/ users' = [users EXCEPT ![d] = [on |-> TRUE, handle |-> h]]
        BY <3>1, <4>1, <4>2
      <4>4. [users EXCEPT ![d] = [on |-> TRUE, handle |-> h]] \in [Account -> [on : BOOLEAN, handle : AnyHandle]]
        BY <1>9
      <4> QED
        BY <4>3, <4>4 DEF IdentityTypes
    <3> QED
      BY <2>1, <2>4, <3>2 DEF CreateRemoteUser, IdentityTypes
  <2>5. CASE FollowCreated
    <3>1. follows' = follows \/ \E d \in Account : follows' = [follows EXCEPT ![d] = [on |-> TRUE, rkey |-> 0]]
      BY <2>5 DEF FollowCreated, FollowUser, GetProfileByHandle, Named
    <3>2. follows' \in [Account -> [on : BOOLEAN, rkey : Nat]]
      BY <1>7, <3>1 DEF IdentityTypes
    <3> QED
      BY <2>1, <2>5, <3>2 DEF FollowCreated, IdentityTypes
  <2>6. CASE UnfollowUser
    <3>1. follows' = follows \/ \E d \in Account : follows' = [follows EXCEPT ![d] = NotFollowed]
      BY <2>6 DEF UnfollowUser, GetProfileByHandle, Named
    <3>2. follows' \in [Account -> [on : BOOLEAN, rkey : Nat]]
      BY <1>8, <3>1 DEF IdentityTypes
    <3> QED
      BY <2>1, <2>6, <3>2 DEF UnfollowUser, IdentityTypes
  <2>7. CASE PutFollow
    BY <1>0, <2>1, <2>7 DEF PutFollow, IdentityTypes
  <2>8. CASE DeleteFollow
    <3> DEFINE rkey == IF req.rkey # 0 \/ ~req.known THEN req.rkey ELSE follows[req.who].rkey
    <3>1. rkey \in Nat
      BY <1>0 DEF IdentityTypes
    <3>2. records' \subseteq records
      BY <2>8 DEF DeleteFollow
    <3>3. echo' = echo \/ echo' = [op |-> "delete", rkey |-> rkey, subject |-> Me]
      BY <2>8 DEF DeleteFollow
    <3> HIDE DEF rkey
    <3>4. echo' \in [op : {"none", "put", "delete"}, rkey : Nat, subject : Account]
      BY <3>1, <3>3, IdentityAssumption DEF IdentityTypes
    <3> QED
      BY <2>1, <2>8, <3>2, <3>4 DEF DeleteFollow, IdentityTypes
  <2>9. CASE SetFollowATProtoRkey
    BY <1>0, <2>1, <2>9 DEF SetFollowATProtoRkey, IdentityTypes
  <2> QED
    BY <1>4, <2>2, <2>3, <2>4, <2>5, <2>6, <2>7, <2>8, <2>9 DEF RequestStep
<1>5. CASE HandleFollowEvent
  BY <1>5, IdentityAssumption DEF HandleFollowEvent, NoEcho, IdentityTypes
<1>6. CASE HandleUnfollowEvent
  BY <1>6, IdentityAssumption DEF HandleUnfollowEvent, NoEcho, NotFollowed, IdentityTypes
<1> QED
  BY <1>2, <1>3, <1>4, <1>5, <1>6

\* Every step keeps the types.
LEMMA IdentityStepTypes == IdentityTypes /\ [IdentityNext]_identityVars => IdentityTypes'
<1>1. IdentityTypes /\ UNCHANGED identityVars => IdentityTypes'
  BY DEF identityVars, IdentityTypes
<1> QED
  BY <1>1, EnvironmentTypes, RequestTypes DEF IdentityNext

\* At first every row has the handle of its account, and no two are the same.
LEMMA InitTables == IdentityInit => Tables
  BY IdentityAssumption DEF IdentityInit, Tables, OneEach, NoRow

\* The index keeps the handles apart when a row is given one that is free.
LEMMA FreeKeepsOneEach ==
  ASSUME IdentityTypes, OneEach(users), NEW d \in Account, NEW h, Free(users, d, h),
         users' = [users EXCEPT ![d] = [on |-> TRUE, handle |-> h]]
  PROVE  OneEach(users)' /\ (users[Me].on => users'[Me].on)
<1>1. \A e \in Account : users'[e] = IF e = d THEN [on |-> TRUE, handle |-> h] ELSE users[e]
  BY DEF IdentityTypes
<1>2. h = NoHandle \/ \A e \in Account : (users[e].on /\ users[e].handle = h) => e = d
  BY DEF Free, Named
<1> QED
  BY <1>1, <1>2, IdentityAssumption DEF OneEach

\* An announcement takes the handle away from whoever had it.
LEMMA UpsertKeepsOneEach ==
  ASSUME OneEach(tracked), NEW d \in Account, NEW h, UpsertTrackedDID(d, h), IdentityTypes
  PROVE  OneEach(tracked)'
<1>1. \A e \in Account : tracked'[e] =
        IF e = d THEN [on |-> TRUE, handle |-> h]
        ELSE IF h # NoHandle /\ tracked[e].handle = h THEN [tracked[e] EXCEPT !.handle = NoHandle]
        ELSE tracked[e]
  BY DEF UpsertTrackedDID
<1>2. \A e \in Account : e # d =>
        /\ tracked'[e].on = tracked[e].on
        /\ tracked'[e].handle = NoHandle \/ (tracked'[e].handle = tracked[e].handle /\ tracked[e].handle # h)
  <2> SUFFICES ASSUME NEW e \in Account, e # d
               PROVE  /\ tracked'[e].on = tracked[e].on
                      /\ tracked'[e].handle = NoHandle
                         \/ (tracked'[e].handle = tracked[e].handle /\ tracked[e].handle # h)
    OBVIOUS
  <2>1. tracked[e] \in [on : BOOLEAN, handle : AnyHandle]
    BY DEF IdentityTypes
  <2>2. CASE h # NoHandle /\ tracked[e].handle = h
    BY <2>1, <2>2, <1>1
  <2>3. CASE h = NoHandle
    BY <2>1, <2>3, <1>1
  <2>4. CASE tracked[e].handle # h
    BY <2>1, <2>4, <1>1
  <2> QED
    BY <2>2, <2>3, <2>4
<1>3. tracked'[d].handle = h
  <2>1. tracked'[d] = [on |-> TRUE, handle |-> h]
    BY <1>1
  <2> QED
    BY <2>1
<1>4. SUFFICES ASSUME NEW c \in Account, NEW e \in Account, tracked'[c].on, tracked'[e].on,
                      tracked'[c].handle = tracked'[e].handle, tracked'[c].handle # NoHandle
               PROVE  c = e
  BY DEF OneEach
<1>5. CASE c # d /\ e # d
  BY <1>2, <1>4, <1>5 DEF OneEach
<1>6. CASE c = d \/ e = d
  BY <1>2, <1>3, <1>4, <1>6
<1> QED
  BY <1>5, <1>6

\* Every step keeps the handles of each table apart, and the user's own row.
LEMMA TablesStep == IdentityTypes /\ Tables /\ [IdentityNext]_identityVars => Tables'
<1> SUFFICES ASSUME IdentityTypes, Tables, [IdentityNext]_identityVars PROVE Tables'
  OBVIOUS
<1>1. ASSUME UNCHANGED users, UNCHANGED tracked PROVE Tables'
  BY <1>1 DEF Tables, OneEach
<1>2. ASSUME NEW d \in Account, NEW h, Free(users, d, h), UNCHANGED tracked,
             users' = [users EXCEPT ![d] = [on |-> TRUE, handle |-> h]]
      PROVE  Tables'
  <2>1. OneEach(users)' /\ users'[Me].on
    BY <1>2, FreeKeepsOneEach DEF Tables
  <2> QED
    BY <1>2, <2>1 DEF Tables, OneEach
<1>3. CASE UNCHANGED identityVars
  BY <1>1, <1>3 DEF identityVars
<1>4. ASSUME NEW d \in Account, NEW h \in Handle \cup {NoHandle}, Move(d, h) PROVE Tables'
  BY <1>1, <1>4 DEF Move
<1>5. ASSUME NEW d \in Account, HandleCallback(d) PROVE Tables'
  <2>1. PICK h \in {holds[d], NoHandle} : GetOrCreateUserByDID(d, h)
    BY <1>5 DEF HandleCallback
  <2>2. UNCHANGED tracked
    BY <1>5 DEF HandleCallback
  <2>3. CASE UNCHANGED users
    BY <1>1, <2>2, <2>3
  <2>4. CASE Free(users, d, h) /\ SetHandle(d, h)
    BY <1>2, <2>2, <2>4 DEF SetHandle
  <2> QED
    BY <2>1, <2>3, <2>4 DEF GetOrCreateUserByDID
<1>6. ASSUME NEW d \in Account, AnnouncedElsewhere(d) PROVE Tables'
  BY <1>1, <1>6 DEF AnnouncedElsewhere
<1>7. ASSUME NEW d \in Account, DeleteUser(d) PROVE Tables'
  <2>1. d # Me /\ UNCHANGED tracked /\ users' = [users EXCEPT ![d] = NoRow]
    BY <1>7 DEF DeleteUser, net
  <2>2. \A e \in Account : users'[e] = IF e = d THEN NoRow ELSE users[e]
    BY <2>1 DEF IdentityTypes
  <2> QED
    BY <2>1, <2>2, IdentityAssumption DEF Tables, OneEach, NoRow
<1>8. ASSUME NEW d \in Account, NEW n \in Nick, UpsertHandle(d, n) PROVE Tables'
  BY <1>2, <1>8 DEF UpsertHandle, SetHandle, net
<1>9. CASE AnnounceTrackedDIDs
  BY <1>1, <1>9 DEF AnnounceTrackedDIDs
<1>10. CASE HandleAnnounceUser
  <2>1. PICK a \in pending : UpsertTrackedDID(a[1], a[2]) \/ UNCHANGED tracked
    BY <1>10 DEF HandleAnnounceUser
  <2>2. a[1] \in Account /\ UNCHANGED users
    BY <1>10 DEF IdentityTypes, HandleAnnounceUser
  <2>3. CASE UNCHANGED tracked
    BY <1>1, <2>2, <2>3
  <2>4. CASE UpsertTrackedDID(a[1], a[2])
    <3>1. OneEach(tracked)'
      BY <2>2, <2>4, UpsertKeepsOneEach DEF Tables
    <3> QED
      BY <2>2, <3>1 DEF Tables, OneEach
  <2> QED
    BY <2>1, <2>3, <2>4
<1>11. CASE CreateRemoteUser
  <2>1. UNCHANGED tracked /\ req.who \in Account
    BY <1>11 DEF CreateRemoteUser, net, IdentityTypes, ReqType
  <2>2. CASE UNCHANGED users
    BY <1>1, <2>1, <2>2
  <2>3. CASE Free(users, req.who, req.handle)
    <3>1. PICK d \in Account : d = req.who
      BY <2>1
    <3>2. PICK h : h = req.handle
      OBVIOUS
    <3>3. users' = [users EXCEPT ![d] = [on |-> TRUE, handle |-> h]] /\ Free(users, d, h)
      BY <1>11, <2>3, <3>1, <3>2 DEF CreateRemoteUser
    <3> QED
      BY <1>2, <2>1, <3>3
  <2> QED
    BY <1>11, <2>2, <2>3 DEF CreateRemoteUser
<1>12. CASE Follow \/ Unfollow \/ Lookup \/ Resolve \/ FollowCreated \/ ResolveFollowee
            \/ GetFollowATProtoRkey \/ UnfollowUser \/ Subject \/ PutFollow \/ DeleteFollow
            \/ SetFollowATProtoRkey \/ HandleFollowEvent \/ HandleUnfollowEvent
  BY <1>1, <1>12
  DEF Follow, Unfollow, Ask, Lookup, Resolve, FollowCreated, ResolveFollowee, GetFollowATProtoRkey, UnfollowUser,
      Subject, PutFollow, DeleteFollow, SetFollowATProtoRkey, HandleFollowEvent, HandleUnfollowEvent, net
<1> QED
  BY <1>3, <1>4, <1>5, <1>6, <1>7, <1>8, <1>9, <1>10, <1>11, <1>12 DEF IdentityNext, Environment, RequestStep

(***************************************************************************)
(* Identity: the follows and their records                                   *)
(***************************************************************************)

\* A handle that somebody has reaches one account.
LEMMA OneReached ==
  ASSUME OneEach(users), NEW h, h # NoHandle, NEW d \in GetProfileByHandle(h)
  PROVE  GetProfileByHandle(h) = {d}
  BY DEF GetProfileByHandle, Named, OneEach

\* What the invariant speaks of is typed.
LEMMA Typed ==
  ASSUME IdentityTypes
  PROVE  /\ \A r \in records : r.rkey \in Nat /\ r.subject \in Account /\ r = [rkey |-> r.rkey, subject |-> r.subject]
         /\ \A d \in Account : follows[d].rkey \in Nat /\ follows[d].on \in BOOLEAN
         /\ req.who \in Account /\ req.subject \in Account /\ req.rkey \in Nat /\ req.pc \in ReqPc
         /\ echo.rkey \in Nat /\ echo.subject \in Account /\ echo.op \in {"none", "put", "delete"}
         /\ requests \in Nat
<1>1. \A r \in [rkey : Nat, subject : Account] : r.rkey \in Nat /\ r.subject \in Account /\ r = [rkey |-> r.rkey, subject |-> r.subject]
  OBVIOUS
<1> QED
  BY <1>1 DEF IdentityTypes, ReqType

\* A step that leaves the follows, their records and the request alone, and whom
\* that reaches, spoils nothing.
LEMMA WholeKept ==
  ASSUME IdentityTypes, Whole, UNCHANGED <<follows, records, echo, req, requests, leftover>>,
         req.pc = "idle" \/ \A d \in Account : Reaches(d)' <=> Reaches(d)
  PROVE  Whole'
<1>1. \A d \in Account : Match(d)' <=> Match(d)
  BY DEF Match
<1>2. \A d \in Account : Between(d)' <=> Between(d)
  BY DEF Between
<1>3. Numbered' /\ Distinct' /\ Echoed'
  BY DEF Whole, Numbered, Distinct, Echoed
<1>4. Matched'
  BY <1>1, <1>2 DEF Whole, Matched
<1>5. CASE req.pc = "idle"
  <2>1. \A d \in Account : ~Between(d)'
    BY <1>5 DEF Between
  <2> QED
    BY <1>3, <1>4, <1>5, <2>1 DEF Whole, Course
<1>6. CASE \A d \in Account : Reaches(d)' <=> Reaches(d)
  <2>1. req.who \in Account
    BY Typed
  <2>2. Reaches(req.who)' <=> Reaches(req.who)
    <3>1. PICK w \in Account : w = req.who
      BY <2>1
    <3>2. (Reaches(w)' <=> Reaches(w)) /\ w = req'.who
      BY <1>6, <3>1
    <3> QED
      BY <3>1, <3>2 DEF Reaches
  <2>3. Course'
    BY <1>2, <1>6, <2>1, <2>2 DEF Whole, Course
  <2> QED
    BY <1>3, <1>4, <2>3 DEF Whole
<1> QED
  BY <1>5, <1>6

\* A row that takes another handle is not one that the request looks up.
LEMMA HandleSet ==
  ASSUME IdentityTypes, Whole, NEW d \in Account, NEW h, SetHandle(d, h), ~crossed',
         UNCHANGED <<follows, records, echo, req, requests, leftover>>
  PROVE  Whole'
<1>1. CASE req.pc = "idle"
  BY <1>1, WholeKept
<1>2. CASE req.pc # "idle"
  <2>1. req.handle # NoHandle
    BY <1>2 DEF Whole, Course
  <2>2. req.handle # h /\ req.handle # users[d].handle
    BY <2>1 DEF SetHandle
  <2>3. \A e \in Account : users'[e] = IF e = d THEN [on |-> TRUE, handle |-> h] ELSE users[e]
    BY DEF SetHandle, IdentityTypes
  <2>4. \A e \in Account : (users'[e].on /\ users'[e].handle = req.handle)
                             <=> (users[e].on /\ users[e].handle = req.handle)
    <3> TAKE e \in Account
    <3>1. CASE e = d
      BY <2>2, <2>3, <3>1
    <3>2. CASE e # d
      BY <2>3, <3>2
    <3> QED
      BY <3>1, <3>2
  <2>5. GetProfileByHandle(req.handle)' = GetProfileByHandle(req.handle)
    BY <2>4 DEF GetProfileByHandle, Named
  <2>6. \A e \in Account : Reaches(e)' <=> Reaches(e)
    BY <2>5 DEF Reaches
  <2> QED
    BY <2>6, WholeKept
<1> QED
  BY <1>1, <1>2

\* A deletion while no request is under way leaves the record of the deleted
\* account, and nothing else, behind.
LEMMA DeleteUserWhole ==
  ASSUME IdentityTypes, Whole, NEW d \in Account, DeleteUser(d), ~crossed'
  PROVE  Whole'
<1>1. req.pc = "idle" /\ UNCHANGED <<records, echo, req, requests>> /\ leftover' = leftover \cup {d}
  BY DEF DeleteUser
<1>2. \A e \in Account : follows'[e] = IF e = d THEN NotFollowed ELSE follows[e]
  BY DEF DeleteUser, IdentityTypes
<1>3. \A e \in Account : ~Between(e) /\ ~Between(e)'
  BY <1>1 DEF Between
<1>4. \A e \in Account \ leftover' : Match(e)'
  BY <1>1, <1>2, <1>3 DEF Match, Matched, Whole
<1>5. Numbered'
  BY <1>1, <1>2, Typed DEF Whole, Numbered, NotFollowed
<1>6. Distinct'
  BY <1>1, <1>2 DEF Whole, Numbered, Distinct, NotFollowed
<1>7. Echoed'
  BY <1>1 DEF Whole, Echoed
<1>8. Course'
  BY <1>1, <1>3 DEF Whole, Course
<1> QED
  BY <1>3, <1>4, <1>5, <1>6, <1>7, <1>8 DEF Whole, Matched

\* No step of the environment spoils anything but by changing a row over the
\* handle of the request.
LEMMA EnvironmentWhole ==
  ASSUME IdentityTypes, Whole, Environment, ~crossed'
  PROVE  Whole'
<1>1. ASSUME UNCHANGED <<users, follows, records, echo, req, requests, leftover>> PROVE Whole'
  <2>1. \A d \in Account : Reaches(d)' <=> Reaches(d)
    BY <1>1 DEF Reaches, GetProfileByHandle, Named
  <2> QED
    BY <1>1, <2>1, WholeKept
<1>2. ASSUME NEW d \in Account, NEW h \in Handle \cup {NoHandle}, Move(d, h) PROVE Whole'
  BY <1>1, <1>2 DEF Move, mine
<1>3. ASSUME NEW d \in Account, HandleCallback(d) PROVE Whole'
  <2>1. PICK h : GetOrCreateUserByDID(d, h)
    BY <1>3 DEF HandleCallback
  <2>2. UNCHANGED <<follows, records, echo, req, requests, leftover>>
    BY <1>3 DEF HandleCallback, mine
  <2>3. UNCHANGED users \/ SetHandle(d, h)
    BY <2>1 DEF GetOrCreateUserByDID
  <2> QED
    BY <1>1, <2>2, <2>3, HandleSet
<1>4. ASSUME NEW d \in Account, AnnouncedElsewhere(d) PROVE Whole'
  BY <1>1, <1>4 DEF AnnouncedElsewhere, mine
<1>5. ASSUME NEW d \in Account, DeleteUser(d) PROVE Whole'
  BY <1>5, DeleteUserWhole
<1>6. ASSUME NEW d \in Account, NEW n \in Nick, UpsertHandle(d, n) PROVE Whole'
  BY <1>6, HandleSet DEF UpsertHandle, mine
<1>7. CASE AnnounceTrackedDIDs \/ HandleAnnounceUser
  BY <1>1, <1>7 DEF AnnounceTrackedDIDs, HandleAnnounceUser, mine
<1> QED
  BY <1>2, <1>3, <1>4, <1>5, <1>6, <1>7 DEF Environment

\* A new request finds every follow matched.
LEMMA AskWhole ==
  ASSUME IdentityTypes, Whole, NEW h, h # NoHandle, NEW pc \in {"lookup", "unfollow"}, Ask(h, pc),
         pc = "unfollow" => \E d \in Account : GetProfileByHandle(h) = {d}
  PROVE  Whole'
<1>1. /\ req.pc = "idle" /\ echo.op = "none" /\ requests' = requests + 1
      /\ UNCHANGED <<users, follows, records, echo, leftover>>
      /\ req' = [NoReq EXCEPT !.pc = pc, !.handle = h]
  BY DEF Ask, NoEcho, mine
<1>2. req'.pc = pc /\ req'.handle = h
  BY <1>1 DEF NoReq
<1>3. \A d \in Account : ~Between(d) /\ ~Between(d)'
  BY <1>1, <1>2 DEF Between
<1>4. \A d \in Account : Match(d)' <=> Match(d)
  BY <1>1 DEF Match
<1>5. Numbered'
  BY <1>1, <1>2, Typed DEF Whole, Numbered
<1>6. Distinct' /\ Echoed'
  BY <1>1, <1>2 DEF Whole, Distinct, Echoed
<1>7. \A d \in Account : Reaches(d)' <=> GetProfileByHandle(h) = {d}
  BY <1>1, <1>2 DEF Reaches, GetProfileByHandle, Named
<1>8. Course'
  <2>1. CASE pc = "lookup"
    BY <1>2, <1>3, <2>1 DEF Course
  <2>2. CASE pc = "unfollow"
    <3>1. \E d \in Account : Reaches(d)'
      BY <1>7, <2>2
    <3> QED
      BY <1>2, <1>3, <2>2, <3>1 DEF Course
  <2> QED
    BY <2>1, <2>2
<1> QED
  BY <1>1, <1>3, <1>4, <1>5, <1>6, <1>8 DEF Whole, Matched

\* A request that is over leaves the rows matched that it has been through with.
LEMMA OverWhole ==
  ASSUME IdentityTypes, Whole, UNCHANGED <<users, follows, records, echo, requests, leftover>>,
         req' = NoReq, \A d \in Account \ leftover : Between(d) => Match(d)
  PROVE  Whole'
<1>1. req'.pc = "idle"
  BY DEF NoReq
<1>2. \A d \in Account : ~Between(d)'
  BY <1>1 DEF Between
<1>3. \A d \in Account : Match(d)' <=> Match(d)
  BY DEF Match
<1>4. Numbered' /\ Distinct' /\ Echoed'
  BY <1>1 DEF Whole, Numbered, Distinct, Echoed
<1>5. Course'
  BY <1>1, <1>2 DEF Course
<1> QED
  BY <1>2, <1>3, <1>4, <1>5 DEF Whole, Matched

\* INSERT of the row of a followee of whom there is no record.
LEMMA FollowUserWhole ==
  ASSUME IdentityTypes, Whole, Tables, NEW d \in Account, FollowUser(d), Reaches(d),
         UNCHANGED <<users, records, echo, requests, leftover>>,
         req.handle # NoHandle,
         \/ req.pc = "lookup" /\ req' = [req EXCEPT !.pc = "profile"]
         \/ req.pc = "again" /\ req' = [req EXCEPT !.pc = "subject"] /\ req.who = d
  PROVE  Whole'
<1>1. \A e \in Account : follows'[e] = IF e = d THEN [on |-> TRUE, rkey |-> 0] ELSE follows[e]
  BY DEF FollowUser, IdentityTypes
<1>2. /\ req'.handle = req.handle /\ req'.who = req.who /\ req'.known = req.known
      /\ (req.pc = "lookup" /\ req'.pc = "profile") \/ (req.pc = "again" /\ req'.pc = "subject" /\ req.who = d)
  BY DEF IdentityTypes, ReqType
<1>3. \A e \in Account : (Reaches(e)' <=> e = d)
  BY <1>2 DEF Reaches, GetProfileByHandle, Named
<1>4. \A e \in Account : ~Between(e) /\ (Between(e)' <=> e = d)
  BY <1>2, <1>3 DEF Between
<1>5. ~follows[d].on
  BY DEF FollowUser
<1>6. d \notin leftover => \A r \in records : r.subject # d
  BY <1>4, <1>5 DEF Whole, Matched, Match
<1>7. \A e \in Account : e # d => (Match(e)' <=> Match(e))
  BY <1>1 DEF Match
<1>8. Matched'
  BY <1>4, <1>7 DEF Whole, Matched
<1>9. Numbered'
  BY <1>1, <1>2, Typed DEF Whole, Numbered
<1>10. Distinct'
  BY <1>1 DEF Whole, Distinct, Numbered
<1>11. Echoed'
  BY <1>2 DEF Whole, Echoed
<1>12. follows'[d].on
  BY <1>1
<1>13. \E e \in Account : Reaches(e)'
  BY <1>3
<1>16. \A e \in Account \ leftover' : Between(e)' => follows'[e].on /\ \A r \in records' : r.subject # e
  BY <1>4, <1>6, <1>12
<1>14. Course'
  <2>1. CASE req'.pc = "profile"
    BY <1>2, <1>13, <1>16, <2>1 DEF Course
  <2>2. CASE req'.pc = "subject"
    <3>1. req'.known
      BY <1>2, <2>2 DEF Whole, Course
    <3>2. Reaches(d)' /\ d = req.who /\ d = req'.who
      BY <1>2, <1>3, <2>2
    <3>3. Reaches(req.who)'
      BY <3>2 DEF Reaches
    <3> QED
      BY <1>2, <1>16, <2>2, <3>1, <3>3 DEF Course
  <2> QED
    BY <1>2, <2>1, <2>2
<1> QED
  BY <1>8, <1>9, <1>10, <1>11, <1>14 DEF Whole

\* Lookup of the local row.
LEMMA LookupWhole == ASSUME IdentityTypes, Tables, Whole, Lookup PROVE Whole'
<1>1. req.pc = "lookup" /\ UNCHANGED <<users, records, echo, requests, leftover>>
  BY DEF Lookup
<1>2. req.handle # NoHandle
  BY <1>1 DEF Whole, Course
<1>3. \A d \in Account : ~Between(d)
  BY <1>1 DEF Between
<1>4. CASE Go("resolve") /\ UNCHANGED follows
  <2>1. req'.pc = "resolve" /\ req'.handle = req.handle
    BY <1>4 DEF Go, IdentityTypes, ReqType
  <2>2. \A d \in Account : ~Between(d)'
    BY <2>1 DEF Between
  <2>3. \A d \in Account : Match(d)' <=> Match(d)
    BY <1>1, <1>4 DEF Match
  <2>4. Numbered' /\ Distinct' /\ Echoed'
    BY <1>1, <1>4, <2>1 DEF Whole, Numbered, Distinct, Echoed
  <2>5. Course'
    BY <1>2, <2>1, <2>2 DEF Course
  <2> QED
    BY <1>1, <1>3, <2>2, <2>3, <2>4, <2>5 DEF Whole, Matched
<1>5. ASSUME NEW d \in GetProfileByHandle(req.handle), FollowUser(d), Go("profile") PROVE Whole'
  <2>1. Reaches(d) /\ d \in Account
    BY <1>2, OneReached DEF Tables, Reaches, GetProfileByHandle, Named
  <2> QED
    BY <1>1, <1>2, <1>5, <2>1, FollowUserWhole DEF Go
<1>6. CASE Over /\ UNCHANGED follows
  BY <1>1, <1>3, <1>6, OverWhole DEF Over
<1> QED
  BY <1>4, <1>5, <1>6 DEF Lookup

\* The answer of the relay.
LEMMA ResolveWhole == ASSUME IdentityTypes, Whole, Resolve PROVE Whole'
<1>1. req.pc = "resolve" /\ UNCHANGED <<users, follows, records, echo, requests, leftover>>
  BY DEF Resolve, mine
<1>2. \A d \in Account : ~Between(d)
  BY <1>1 DEF Between
<1>3. CASE Over
  BY <1>1, <1>2, <1>3, OverWhole DEF Over
<1>4. ASSUME NEW d \in ResolveHandle(req.handle), req' = [req EXCEPT !.pc = "create", !.who = d, !.known = TRUE]
      PROVE  Whole'
  <2>1. req'.pc = "create" /\ req'.handle = req.handle /\ req'.known
    BY <1>4 DEF IdentityTypes, ReqType
  <2>2. \A e \in Account : ~Between(e)'
    BY <2>1 DEF Between
  <2>3. \A e \in Account : Match(e)' <=> Match(e)
    BY <1>1 DEF Match
  <2>4. Numbered' /\ Distinct' /\ Echoed'
    BY <1>1, <2>1 DEF Whole, Numbered, Distinct, Echoed
  <2>5. Course'
    BY <1>1, <2>1, <2>2 DEF Whole, Course
  <2> QED
    BY <1>1, <1>2, <2>2, <2>3, <2>4, <2>5 DEF Whole, Matched
<1> QED
  BY <1>3, <1>4 DEF Resolve

\* The row that is created, or renamed, has the handle from then on.
LEMMA CreateWhole == ASSUME IdentityTypes, Tables, Whole, CreateRemoteUser PROVE Whole'
<1>1. req.pc = "create" /\ UNCHANGED <<follows, records, echo, requests, leftover>>
  BY DEF CreateRemoteUser, mine
<1>2. \A d \in Account : ~Between(d)
  BY <1>1 DEF Between
<1>3. CASE Over /\ UNCHANGED users
  BY <1>1, <1>2, <1>3, OverWhole DEF Over
<1>4. CASE /\ Free(users, req.who, req.handle) /\ Go("again")
           /\ users' = [users EXCEPT ![req.who] = [on |-> TRUE, handle |-> req.handle]]
  <2>1. req'.pc = "again" /\ req'.handle = req.handle /\ req'.known = req.known /\ req'.who = req.who
    BY <1>4 DEF Go, IdentityTypes, ReqType
  <2>2. req.handle # NoHandle /\ req.known /\ req.who \in Account
    BY <1>1, Typed DEF Whole, Course
  <2>3. \A e \in Account : users'[e] = IF e = req.who THEN [on |-> TRUE, handle |-> req.handle] ELSE users[e]
    BY <1>4 DEF IdentityTypes
  <2>4. \A e \in Account : e # req.who => ~(users[e].on /\ users[e].handle = req.handle)
    BY <1>4, <2>2 DEF Free, Named
  <2>5. \A e \in Account : (users'[e].on /\ users'[e].handle = req.handle) <=> e = req.who
    BY <2>3, <2>4
  <2>6. Reaches(req.who)'
    BY <2>1, <2>2, <2>5 DEF Reaches, GetProfileByHandle, Named
  <2>7. \A e \in Account : ~Between(e)'
    BY <2>1 DEF Between
  <2>8. \A e \in Account : Match(e)' <=> Match(e)
    BY <1>1 DEF Match
  <2>9. Numbered' /\ Distinct' /\ Echoed'
    BY <1>1, <2>1 DEF Whole, Numbered, Distinct, Echoed
  <2>10. Course'
    BY <2>1, <2>2, <2>6, <2>7 DEF Course
  <2> QED
    BY <1>1, <1>2, <2>7, <2>8, <2>9, <2>10 DEF Whole, Matched
<1> QED
  BY <1>3, <1>4 DEF CreateRemoteUser

\* The follow of the row that was created.
LEMMA FollowCreatedWhole == ASSUME IdentityTypes, Tables, Whole, FollowCreated PROVE Whole'
<1>1. req.pc = "again" /\ UNCHANGED <<users, records, echo, requests, leftover>>
  BY DEF FollowCreated
<1>2. \A d \in Account : ~Between(d)
  BY <1>1 DEF Between
<1>3. req.handle # NoHandle /\ Reaches(req.who) /\ req.who \in Account
  BY <1>1, Typed DEF Whole, Course
<1>4. CASE Over /\ UNCHANGED follows
  BY <1>1, <1>2, <1>4, OverWhole DEF Over
<1>5. ASSUME NEW d \in GetProfileByHandle(req.handle), FollowUser(d), Go("subject") PROVE Whole'
  <2>1. d = req.who /\ Reaches(d)
    BY <1>3 DEF Reaches
  <2> QED
    BY <1>1, <1>3, <1>5, <2>1, FollowUserWhole DEF Go
<1> QED
  BY <1>4, <1>5 DEF FollowCreated

\* The lookup of whose row is to get the rkey, or had it.
LEMMA ResolveFolloweeWhole == ASSUME IdentityTypes, Whole, ResolveFollowee PROVE Whole'
<1>1. req.pc \in {"profile", "unfollow"} /\ UNCHANGED <<users, follows, records, echo, requests, leftover>>
  BY DEF ResolveFollowee, mine
<1>2. PICK d \in Account : Reaches(d)
  BY <1>1 DEF Whole, Course
<1>3. PICK next : next = IF req.pc = "profile" THEN "subject" ELSE "rkey"
  OBVIOUS
<1>4. req' = [req EXCEPT !.pc = next, !.who = d, !.known = TRUE]
  BY <1>2, <1>3 DEF ResolveFollowee, Reaches
<1>5. req'.pc = next /\ req'.who = d /\ req'.known /\ req'.handle = req.handle
  BY <1>4 DEF IdentityTypes, ReqType
<1>6. \A e \in Account : (Reaches(e) <=> e = d) /\ (Reaches(e)' <=> e = d)
  BY <1>1, <1>2, <1>5 DEF Reaches, GetProfileByHandle, Named
<1>7. \A e \in Account : (Between(e) <=> req.pc = "profile" /\ e = d)
                          /\ (Between(e)' <=> req.pc = "profile" /\ e = d)
  BY <1>1, <1>3, <1>5, <1>6 DEF Between
<1>8. \A e \in Account : Match(e)' <=> Match(e)
  BY <1>1 DEF Match
<1>9. Numbered' /\ Distinct' /\ Echoed'
  BY <1>1, <1>3, <1>5 DEF Whole, Numbered, Distinct, Echoed
<1>10. Reaches(req.who)'
  <2>1. Reaches(d)'
    BY <1>6
  <2> QED
    BY <1>5, <2>1 DEF Reaches
<1>11. req.handle # NoHandle
  BY <1>1 DEF Whole, Course
<1>12. Course'
  <2>1. CASE req.pc = "profile"
    <3>1. \A e \in Account \ leftover : Between(e) => follows[e].on /\ \A r \in records : r.subject # e
      BY <2>1 DEF Whole, Course
    <3>2. \A e \in Account \ leftover' : Between(e)' => follows'[e].on /\ \A r \in records' : r.subject # e
      BY <1>1, <1>7, <3>1
    <3> QED
      BY <1>3, <1>5, <1>10, <1>11, <2>1, <3>2 DEF Course
  <2>2. CASE req.pc = "unfollow"
    BY <1>3, <1>5, <1>7, <1>10, <1>11, <2>2 DEF Course
  <2> QED
    BY <1>1, <2>1, <2>2
<1> QED
  BY <1>1, <1>7, <1>8, <1>9, <1>12 DEF Whole, Matched

\* The rkey of the row that is about to go.
LEMMA GetRkeyWhole == ASSUME IdentityTypes, Whole, GetFollowATProtoRkey PROVE Whole'
<1>1. req.pc = "rkey" /\ UNCHANGED <<users, follows, records, echo, requests, leftover>>
  BY DEF GetFollowATProtoRkey, mine
<1>2. req.known /\ Reaches(req.who) /\ req.handle # NoHandle
  BY <1>1 DEF Whole, Course
<1>3. req' = [req EXCEPT !.pc = "drop", !.rkey = follows[req.who].rkey]
  BY <1>2 DEF GetFollowATProtoRkey
<1>4. /\ req'.pc = "drop" /\ req'.who = req.who /\ req'.known = req.known /\ req'.handle = req.handle
      /\ req'.rkey = follows[req.who].rkey
  BY <1>3 DEF IdentityTypes, ReqType
<1>5. Reaches(req.who)'
  BY <1>1, <1>2, <1>4 DEF Reaches, GetProfileByHandle, Named
<1>6. \A d \in Account : ~Between(d) /\ ~Between(d)'
  BY <1>1, <1>4 DEF Between
<1>7. \A d \in Account : Match(d)' <=> Match(d)
  BY <1>1 DEF Match
<1>8. Numbered' /\ Distinct' /\ Echoed'
  BY <1>1, <1>4 DEF Whole, Numbered, Distinct, Echoed
<1>9. Course'
  BY <1>1, <1>2, <1>4, <1>5, <1>6 DEF Course
<1> QED
  BY <1>1, <1>6, <1>7, <1>8, <1>9 DEF Whole, Matched

\* The row goes.  Its record stays until the goroutine has deleted it, and has the
\* rkey that was read.
LEMMA UnfollowUserWhole == ASSUME IdentityTypes, Whole, UnfollowUser PROVE Whole'
<1>1. req.pc = "drop" /\ UNCHANGED <<users, records, echo, requests, leftover>>
  BY DEF UnfollowUser
<1>2. PICK w \in Account : w = req.who
  BY Typed
<1>3. req.known /\ Reaches(w) /\ req.handle # NoHandle /\ req.rkey = follows[w].rkey
  BY <1>1, <1>2 DEF Whole, Course, Reaches
<1>4. follows' = [follows EXCEPT ![w] = NotFollowed] /\ Go("check")
  BY <1>3 DEF UnfollowUser, Reaches
<1>5. \A e \in Account : follows'[e] = IF e = w THEN NotFollowed ELSE follows[e]
  BY <1>4 DEF IdentityTypes
<1>6. /\ req'.pc = "check" /\ req'.who = w /\ req'.known /\ req'.handle = req.handle
      /\ req'.rkey = follows[w].rkey
  BY <1>2, <1>3, <1>4 DEF Go, IdentityTypes, ReqType
<1>7. Reaches(w)'
  BY <1>1, <1>3, <1>6 DEF Reaches, GetProfileByHandle, Named
<1>8. Reaches(req.who)'
  BY <1>6, <1>7 DEF Reaches
<1>9. \A d \in Account : ~Between(d) /\ (Between(d)' <=> d = w)
  BY <1>1, <1>6 DEF Between
<1>10. \A d \in Account : d # w => (Match(d)' <=> Match(d))
  BY <1>1, <1>5 DEF Match
<1>11. Numbered'
  BY <1>1, <1>5, <1>6, Typed DEF Whole, Numbered, NotFollowed
<1>12. Distinct'
  BY <1>1, <1>5 DEF Whole, Distinct, Numbered, NotFollowed
<1>13. Echoed'
  BY <1>1, <1>6 DEF Whole, Echoed
<1>14. \A r \in records : r.rkey = follows[w].rkey => r.subject = w
  BY DEF Whole, Distinct
<1>15. w \notin leftover => \A r \in records : r.subject = w => r.rkey = follows[w].rkey
  BY <1>9 DEF Whole, Matched, Match
<1>16. follows'[w] = NotFollowed
  BY <1>5
<1>17. Course'
  BY <1>1, <1>3, <1>6, <1>8, <1>14, <1>15, <1>16 DEF Course
<1> QED
  BY <1>1, <1>9, <1>10, <1>11, <1>12, <1>13, <1>17 DEF Whole, Matched

\* The goroutine finds the followee that the handler found.
LEMMA SubjectWhole == ASSUME IdentityTypes, Whole, Subject PROVE Whole'
<1>1. req.pc \in {"subject", "check"} /\ UNCHANGED <<users, follows, records, echo, requests, leftover>>
  BY DEF Subject, mine
<1>2. PICK w \in Account : w = req.who
  BY Typed
<1>3. Reaches(w) /\ req.known /\ req.handle # NoHandle
  BY <1>1, <1>2 DEF Whole, Course, Reaches
<1>4. PICK pc : pc = IF req.pc = "subject" THEN "put" ELSE "delete"
  OBVIOUS
<1>5. req' = [req EXCEPT !.pc = pc, !.subject = w]
  <2>1. PICK d \in GetProfileByHandle(req.handle) :
          req' = [req EXCEPT !.pc = IF @ = "subject" THEN "put" ELSE "delete", !.subject = d]
    BY <1>3 DEF Subject, Reaches
  <2>2. d = w
    BY <1>3, <2>1 DEF Reaches
  <2> QED
    BY <1>4, <2>1, <2>2
<1>6. /\ req'.pc = pc /\ req'.who = w /\ req'.known /\ req'.handle = req.handle
      /\ req'.rkey = req.rkey /\ req'.subject = w
  BY <1>2, <1>3, <1>5 DEF IdentityTypes, ReqType
<1>7. Reaches(w)'
  BY <1>1, <1>3, <1>6 DEF Reaches, GetProfileByHandle, Named
<1>8. Reaches(req.who)'
  BY <1>6, <1>7 DEF Reaches
<1>9. \A d \in Account : (Between(d) <=> d = w) /\ (Between(d)' <=> d = w)
  BY <1>1, <1>2, <1>4, <1>6 DEF Between
<1>10. \A d \in Account : Match(d)' <=> Match(d)
  BY <1>1 DEF Match
<1>11. Numbered' /\ Distinct' /\ Echoed'
  BY <1>1, <1>4, <1>6 DEF Whole, Numbered, Distinct, Echoed
<1>12. Course'
  <2>1. CASE req.pc = "subject"
    <3>1. \A d \in Account \ leftover : Between(d) => follows[d].on /\ \A r \in records : r.subject # d
      BY <2>1 DEF Whole, Course
    <3>2. \A d \in Account \ leftover' : Between(d)' => follows'[d].on /\ \A r \in records' : r.subject # d
      BY <1>1, <1>9, <3>1
    <3> QED
      BY <1>3, <1>4, <1>6, <1>8, <2>1, <3>2 DEF Course
  <2>2. CASE req.pc = "check"
    <3>1. /\ follows[w] = NotFollowed
          /\ \A r \in records : r.rkey = req.rkey => r.subject = w
          /\ w \notin leftover => \A r \in records : r.subject = w => r.rkey = req.rkey
      BY <1>2, <2>2 DEF Whole, Course
    <3> QED
      BY <1>1, <1>3, <1>4, <1>6, <1>8, <2>2, <3>1 DEF Course
  <2> QED
    BY <1>1, <2>1, <2>2
<1> QED
  BY <1>1, <1>9, <1>10, <1>11, <1>12 DEF Whole, Matched

\* The record goes to the PDS under an rkey that nobody has used.
LEMMA PutFollowWhole == ASSUME IdentityTypes, Whole, PutFollow PROVE Whole'
<1>1. /\ req.pc = "put" /\ UNCHANGED <<users, follows, requests, leftover>>
      /\ records' = records \cup {[rkey |-> requests, subject |-> req.subject]}
      /\ echo' = [op |-> "put", rkey |-> requests, subject |-> req.subject]
  BY DEF PutFollow
<1>2. PICK w \in Account : w = req.who
  BY Typed
<1>3. req.known /\ req.handle # NoHandle /\ req.subject = w /\ requests > 0 /\ requests \in Nat
  BY <1>1, <1>2, Typed DEF Whole, Course, Numbered
<1>4. req'.pc = "keep" /\ req'.who = w /\ req'.known /\ req'.handle = req.handle /\ req'.rkey = requests
  BY <1>1, <1>2, <1>3 DEF PutFollow, IdentityTypes, ReqType
<1>5. PICK new : new = [rkey |-> requests, subject |-> w]
  OBVIOUS
<1>6. records' = records \cup {new} /\ new.rkey = requests /\ new.subject = w
  BY <1>1, <1>3, <1>5
<1>7. echo'.op = "put" /\ echo'.rkey = requests /\ echo'.subject = w
  BY <1>1, <1>3
<1>8. /\ \A r \in records : r.rkey # 0 /\ r.rkey < requests /\ r.rkey \in Nat
      /\ \A d \in Account : follows[d].rkey < requests /\ follows[d].rkey \in Nat
  BY <1>1, Typed DEF Whole, Numbered
<1>9. \A d \in Account : (Between(d) <=> d = w) /\ (Between(d)' <=> d = w)
  BY <1>1, <1>2, <1>4 DEF Between
<1>10. \A d \in Account : d # w => (Match(d)' <=> Match(d))
  BY <1>1, <1>6 DEF Match
<1>11. Numbered'
  BY <1>1, <1>3, <1>4, <1>6, <1>8 DEF Numbered
<1>12. Distinct'
  <2>1. \A r, q \in records' : r.rkey = q.rkey => r = q
    BY <1>6, <1>8 DEF Whole, Distinct
  <2>2. \A d \in Account : \A r \in records' : follows'[d].rkey = r.rkey => r.subject = d
    BY <1>1, <1>6, <1>8 DEF Whole, Distinct
  <2> QED
    BY <2>1, <2>2 DEF Distinct
<1>13. Echoed'
  BY <1>4, <1>6, <1>7 DEF Echoed
<1>14. w \notin leftover => follows[w].on /\ \A r \in records : r.subject # w
  BY <1>1, <1>9 DEF Whole, Course
<1>15. Course'
  BY <1>1, <1>3, <1>4, <1>6, <1>14 DEF Course
<1> QED
  BY <1>1, <1>9, <1>10, <1>11, <1>12, <1>13, <1>15 DEF Whole, Matched

\* The record that is deleted is the only one of the followee; without an rkey
\* there is none.
LEMMA DeleteFollowWhole == ASSUME IdentityTypes, Whole, DeleteFollow PROVE Whole'
<1>1. req.pc = "delete" /\ UNCHANGED <<users, follows, requests, leftover>>
  BY DEF DeleteFollow
<1>2. PICK w \in Account : w = req.who
  BY Typed
<1>3. /\ req.known /\ req.handle # NoHandle /\ follows[w] = NotFollowed
      /\ \A r \in records : r.rkey = req.rkey => r.subject = w
      /\ w \notin leftover => \A r \in records : r.subject = w => r.rkey = req.rkey
  BY <1>1, <1>2 DEF Whole, Course
<1>4. (IF req.rkey # 0 \/ ~req.known THEN req.rkey ELSE follows[req.who].rkey) = req.rkey
  BY <1>2, <1>3 DEF NotFollowed
<1>5. PICK gone : gone = {r \in records : r.rkey = req.rkey}
  OBVIOUS
<1>6. /\ records' = records \ gone
      /\ echo' = IF gone = {} THEN echo ELSE [op |-> "delete", rkey |-> req.rkey, subject |-> Me]
      /\ IF req.rkey = 0 THEN Over ELSE req' = [req EXCEPT !.pc = "keep", !.rkey = 0]
  BY <1>4, <1>5 DEF DeleteFollow
<1>7. \A r \in records : r.rkey # 0
  BY DEF Whole, Numbered
<1>8. \A d \in Account : Between(d) <=> d = w
  BY <1>1, <1>2 DEF Between
<1>9. CASE req.rkey = 0
  <2>1. gone = {}
    BY <1>5, <1>7, <1>9
  <2>2. records' = records /\ echo' = echo /\ req' = NoReq
    BY <1>6, <1>9, <2>1 DEF Over
  <2>3. w \notin leftover => Match(w)
    BY <1>3, <1>7, <1>9 DEF Match, NotFollowed
  <2> QED
    BY <1>1, <1>8, <2>2, <2>3, OverWhole
<1>10. CASE req.rkey # 0
  <2>1. req'.pc = "keep" /\ req'.who = w /\ req'.known /\ req'.handle = req.handle /\ req'.rkey = 0
    BY <1>2, <1>3, <1>6, <1>10 DEF IdentityTypes, ReqType
  <2>2. \A r \in records' : r \in records /\ r.rkey # req.rkey
    BY <1>5, <1>6
  <2>3. \A d \in Account : d # w => \A r \in records : r.subject = d => r \in records'
    BY <1>3, <1>5, <1>6
  <2>4. \A d \in Account : d # w => (Match(d) => Match(d)')
    BY <1>1, <2>2, <2>3 DEF Match
  <2>5. \A d \in Account : Between(d)' <=> d = w
    BY <2>1 DEF Between
  <2>6. Numbered'
    BY <1>1, <2>1, <2>2, Typed DEF Whole, Numbered
  <2>7. Distinct'
    BY <1>1, <2>2 DEF Whole, Distinct
  <2>8. Echoed'
    <3>1. echo.op = "none"
      BY <1>1 DEF Whole, Echoed
    <3>2. CASE gone = {}
      BY <1>6, <3>1, <3>2 DEF Echoed
    <3>3. CASE gone # {}
      <4>1. echo'.op = "delete" /\ echo'.rkey = req.rkey
        BY <1>6, <3>3
      <4> QED
        BY <1>10, <2>1, <2>2, <4>1 DEF Echoed
    <3> QED
      BY <3>2, <3>3
  <2>9. w \notin leftover => \A r \in records' : r.subject # w
    BY <1>3, <2>2
  <2>10. Course'
    BY <1>1, <1>3, <2>1, <2>9 DEF Course, NotFollowed
  <2> QED
    BY <1>1, <1>8, <2>4, <2>5, <2>6, <2>7, <2>8, <2>10 DEF Whole, Matched
<1> QED
  BY <1>9, <1>10

\* The row gets the rkey of the record, or loses one that is gone, and is matched.
LEMMA SetRkeyWhole == ASSUME IdentityTypes, Whole, SetFollowATProtoRkey PROVE Whole'
<1>1. req.pc = "keep" /\ UNCHANGED <<users, records, echo, requests, leftover>> /\ req' = NoReq
  BY DEF SetFollowATProtoRkey, Over
<1>2. PICK w \in Account : w = req.who
  BY Typed
<1>3. req.known
  BY <1>1 DEF Whole, Course
<1>4. \A d \in Account : Between(d) <=> d = w
  BY <1>1, <1>2 DEF Between
<1>5. CASE ~follows[w].on
  <2>1. follows' = follows
    BY <1>2, <1>3, <1>5 DEF SetFollowATProtoRkey
  <2>2. w \notin leftover => \A r \in records : r.subject # w
    BY <1>1, <1>2, <1>5 DEF Whole, Course
  <2>3. w \notin leftover => Match(w)
    BY <1>5, <2>2 DEF Match
  <2> QED
    BY <1>1, <1>4, <2>1, <2>3, OverWhole
<1>6. CASE follows[w].on
  <2>1. req.rkey # 0
    BY <1>1, <1>2, <1>6 DEF Whole, Course
  <2>2. \A e \in Account : /\ follows'[e].on = follows[e].on
                           /\ follows'[e].rkey = IF e = w THEN req.rkey ELSE follows[e].rkey
    BY <1>2, <1>3, <1>6 DEF SetFollowATProtoRkey, IdentityTypes
  <2>3. /\ \E r \in records : r.rkey = req.rkey /\ r.subject = w
        /\ w \notin leftover => \A r \in records : r.subject = w => r.rkey = req.rkey
    BY <1>1, <1>2, <2>1 DEF Whole, Course
  <2>4. req'.pc = "idle"
    BY <1>1 DEF NoReq
  <2>5. \A d \in Account : ~Between(d)'
    BY <2>4 DEF Between
  <2>6. w \notin leftover => Match(w)'
    BY <1>1, <1>6, <2>2, <2>3 DEF Match
  <2>7. \A d \in Account : d # w => (Match(d)' <=> Match(d))
    BY <1>1, <2>2 DEF Match
  <2>8. Numbered'
    <3>1. req.rkey <= requests
      BY <2>3 DEF Whole, Numbered
    <3> QED
      BY <1>1, <2>2, <2>4, <3>1 DEF Whole, Numbered
  <2>9. Distinct'
    BY <1>1, <2>2, <2>3 DEF Whole, Distinct
  <2>10. Echoed'
    BY <1>1, <2>4 DEF Whole, Echoed
  <2>11. Course'
    BY <2>4, <2>5 DEF Course
  <2> QED
    BY <1>1, <1>4, <2>6, <2>7, <2>8, <2>9, <2>10, <2>11 DEF Whole, Matched
<1> QED
  BY <1>5, <1>6

\* The echo of a put finds the row as the put wants it, or none.
LEMMA FollowEchoWhole == ASSUME IdentityTypes, Whole, HandleFollowEvent PROVE Whole'
<1>1. echo.op = "put" /\ echo' = NoEcho /\ UNCHANGED <<users, records, req, requests, leftover>>
  BY DEF HandleFollowEvent
<1>2. PICK s \in Account : s = echo.subject
  BY Typed
<1>3. req.pc \in {"idle", "keep"}
  BY <1>1 DEF Whole, Echoed
<1>4. /\ \E r \in records : r.rkey = echo.rkey /\ r.subject = s
      /\ req.pc = "keep" => echo.rkey = req.rkey /\ s = req.who
  BY <1>1, <1>2 DEF Whole, Echoed
<1>5. echo'.op = "none"
  BY <1>1 DEF NoEcho
<1>6. CASE follows' = follows
  <2>1. \A d \in Account : (Between(d)' <=> Between(d)) /\ (Match(d)' <=> Match(d))
    BY <1>1, <1>3, <1>6 DEF Between, Match
  <2>2. Numbered' /\ Distinct' /\ Echoed'
    BY <1>1, <1>5, <1>6 DEF Whole, Numbered, Distinct, Echoed
  <2>3. Course'
    BY <1>1, <1>3, <1>6 DEF Whole, Course
  <2> QED
    BY <1>1, <2>1, <2>2, <2>3 DEF Whole, Matched
<1>7. CASE follows' = [follows EXCEPT ![s] = [on |-> TRUE, rkey |-> echo.rkey]]
  <2>1. \A e \in Account : follows'[e] = IF e = s THEN [on |-> TRUE, rkey |-> echo.rkey] ELSE follows[e]
    BY <1>7 DEF IdentityTypes
  <2>2. \A e \in Account : e # s => follows'[e] = follows[e]
    BY <2>1
  <2>3. follows'[s].on /\ follows'[s].rkey = echo.rkey
    BY <2>1
  <2>4. s \notin leftover => \A r \in records : r.subject = s => r.rkey = echo.rkey
    <3> SUFFICES ASSUME s \notin leftover PROVE \A r \in records : r.subject = s => r.rkey = echo.rkey
      OBVIOUS
    <3>1. CASE Between(s)
      <4>1. req.pc = "keep" /\ req.who = s /\ echo.rkey = req.rkey /\ req.rkey # 0
        BY <1>3, <1>4, <3>1 DEF Between, Whole, Numbered
      <4> QED
        BY <4>1 DEF Whole, Course
    <3>2. CASE s \notin leftover /\ Match(s)
      BY <1>4, <3>2 DEF Match
    <3> QED
      BY <3>1, <3>2 DEF Whole, Matched
  <2>5. s \notin leftover => Match(s)'
    BY <1>1, <1>4, <2>3, <2>4 DEF Match
  <2>6. \A d \in Account : d # s => (Match(d)' <=> Match(d))
    BY <1>1, <2>2 DEF Match
  <2>7. \A d \in Account : Between(d)' <=> Between(d)
    BY <1>1, <1>3 DEF Between
  <2>8. Numbered'
    <3>1. echo.rkey <= requests
      BY <1>4 DEF Whole, Numbered
    <3>2. \A d \in Account : follows'[d].rkey <= requests
      BY <2>2, <2>3, <3>1 DEF Whole, Numbered
    <3> QED
      BY <1>1, <1>3, <3>2 DEF Whole, Numbered
  <2>9. Distinct'
    BY <1>1, <1>4, <2>2, <2>3 DEF Whole, Distinct
  <2>10. Echoed'
    BY <1>5 DEF Echoed
  <2>11. Course'
    <3>1. CASE req.pc = "idle"
      BY <1>1, <3>1 DEF Course, Between
    <3>2. CASE req.pc = "keep"
      <4>1. req.rkey # 0 /\ s = req.who /\ echo.rkey = req.rkey
        BY <1>4, <3>2 DEF Whole, Numbered
      <4>2. req.known /\ req.handle # NoHandle
        BY <3>2 DEF Whole, Course
      <4> QED
        BY <1>1, <1>4, <2>3, <2>4, <3>2, <4>1, <4>2 DEF Course
    <3> QED
      BY <1>3, <3>1, <3>2
  <2> QED
    BY <1>1, <2>5, <2>6, <2>7, <2>8, <2>9, <2>10, <2>11 DEF Whole, Matched
<1> QED
  BY <1>2, <1>6, <1>7 DEF HandleFollowEvent

\* The echo of a delete finds a row only where there is nothing to take.
LEMMA UnfollowEchoWhole == ASSUME IdentityTypes, Whole, HandleUnfollowEvent PROVE Whole'
<1>1. echo.op = "delete" /\ echo' = NoEcho /\ UNCHANGED <<users, records, req, requests, leftover>>
  BY DEF HandleUnfollowEvent
<1>2. req.pc \in {"idle", "keep"}
  BY <1>1 DEF Whole, Echoed
<1>3. (\A r \in records : r.rkey # echo.rkey) /\ (req.pc = "keep" => req.rkey = 0)
  BY <1>1 DEF Whole, Echoed
<1>4. echo'.op = "none"
  BY <1>1 DEF NoEcho
<1>5. \A d \in Account : follows'[d] = IF follows[d].rkey = echo.rkey THEN NotFollowed ELSE follows[d]
  BY DEF HandleUnfollowEvent
<1>6. \A d \in Account : follows'[d] = follows[d] \/ (follows[d].rkey = echo.rkey /\ follows'[d] = NotFollowed)
  BY <1>5
<1>7. \A d \in Account : Match(d) => Match(d)'
  <2> TAKE d \in Account
  <2>1. CASE follows'[d] = follows[d]
    BY <1>1, <2>1 DEF Match
  <2>2. CASE follows[d].rkey = echo.rkey /\ follows'[d] = NotFollowed
    BY <1>1, <1>3, <2>2 DEF Match, NotFollowed
  <2> QED
    BY <1>6, <2>1, <2>2
<1>8. \A d \in Account : Between(d)' <=> Between(d)
  BY <1>1, <1>2 DEF Between
<1>9. Numbered'
  <2>1. \A d \in Account : follows'[d].rkey <= requests
    BY <1>6, Typed DEF Whole, Numbered, NotFollowed
  <2> QED
    BY <1>1, <1>2, <2>1 DEF Whole, Numbered
<1>10. Distinct'
  BY <1>1, <1>6 DEF Whole, Distinct, Numbered, NotFollowed
<1>11. Echoed'
  BY <1>4 DEF Echoed
<1>12. Course'
  <2>1. CASE req.pc = "idle"
    BY <1>1, <2>1 DEF Course, Between
  <2>2. CASE req.pc = "keep"
    <3>1. PICK w \in Account : w = req.who
      BY Typed
    <3>2. /\ req.rkey = 0 /\ req.known /\ req.handle # NoHandle /\ ~follows[w].on
          /\ w \notin leftover => \A r \in records : r.subject # w
      BY <1>3, <2>2, <3>1 DEF Whole, Course
    <3>3. ~follows'[w].on
      BY <1>6, <3>2 DEF NotFollowed
    <3> QED
      BY <1>1, <2>2, <3>1, <3>2, <3>3 DEF Course
  <2> QED
    BY <1>2, <2>1, <2>2
<1> QED
  BY <1>1, <1>7, <1>8, <1>9, <1>10, <1>11, <1>12 DEF Whole, Matched

\* At first nobody is followed and no request is under way.
LEMMA InitWhole == IdentityInit => Whole
  BY DEF IdentityInit, Whole, Numbered, Distinct, Echoed, Matched, Course, Between, Match, NoReq, NoEcho, NotFollowed

\* Who unfollows asks for the handle of somebody.
LEMMA UnfollowReaches ==
  ASSUME IdentityTypes, Tables, NEW h, h # NoHandle, h \in {users[d].handle : d \in ListFollowing(Me)},
         Referenced
  PROVE  \E d \in Account : GetProfileByHandle(h) = {d}
<1>1. PICK d \in ListFollowing(Me) : users[d].handle = h
  OBVIOUS
<1>2. d \in Account /\ follows[d].on
  BY <1>1 DEF ListFollowing
<1>3. d \in GetProfileByHandle(h)
  BY <1>1, <1>2 DEF GetProfileByHandle, Named, Referenced
<1> QED
  BY <1>2, <1>3, OneReached DEF Tables

\* Whoever is followed has a row, which a deletion takes together with the follow.
LEMMA ReferencedStep == ASSUME IdentityTypes, Referenced, [IdentityNext]_identityVars PROVE Referenced'
<1>1. ASSUME NEW d \in Account, d \in Named(users, req.handle), FollowUser(d), UNCHANGED users PROVE Referenced'
  <2>1. \A e \in Account : e # d => follows'[e] = follows[e]
    BY <1>1 DEF FollowUser, IdentityTypes
  <2> QED
    BY <1>1, <2>1 DEF Referenced, Named
<1>2. ASSUME \A d \in Account : follows'[d].on => follows[d].on, \A d \in Account : users[d].on => users'[d].on
      PROVE  Referenced'
  BY <1>2 DEF Referenced
<1>3. ASSUME UNCHANGED follows, NEW d \in Account, NEW h, users' = [users EXCEPT ![d] = [on |-> TRUE, handle |-> h]]
      PROVE  Referenced'
  <2>1. \A e \in Account : users'[e] = IF e = d THEN [on |-> TRUE, handle |-> h] ELSE users[e]
    BY <1>3 DEF IdentityTypes
  <2>2. \A e \in Account : users[e].on => users'[e].on
    BY <2>1
  <2> QED
    BY <1>2, <1>3, <2>2
<1>4. CASE Environment
  <2>1. ASSUME NEW d \in Account, HandleCallback(d) PROVE Referenced'
    <3>1. UNCHANGED follows /\ \E h : GetOrCreateUserByDID(d, h)
      BY <2>1 DEF HandleCallback, mine
    <3>2. UNCHANGED users \/ \E h : SetHandle(d, h)
      BY <3>1 DEF GetOrCreateUserByDID
    <3>3. ASSUME NEW h, SetHandle(d, h) PROVE Referenced'
      BY <1>3, <3>1, <3>3 DEF SetHandle
    <3> QED
      BY <1>2, <3>1, <3>2, <3>3
  <2>2. ASSUME NEW d \in Account, DeleteUser(d) PROVE Referenced'
    <3>1. \A e \in Account : /\ users'[e] = IF e = d THEN NoRow ELSE users[e]
                             /\ follows'[e] = IF e = d THEN NotFollowed ELSE follows[e]
      BY <2>2 DEF DeleteUser, IdentityTypes
    <3> QED
      BY <3>1 DEF Referenced, NotFollowed
  <2>3. ASSUME NEW d \in Account, NEW n \in Nick, UpsertHandle(d, n) PROVE Referenced'
    BY <1>3, <2>3 DEF UpsertHandle, SetHandle, mine
  <2>4. ASSUME UNCHANGED <<users, follows>> PROVE Referenced'
    BY <1>2, <2>4
  <2> QED
    BY <1>4, <2>1, <2>2, <2>3, <2>4
    DEF Environment, Move, AnnouncedElsewhere, AnnounceTrackedDIDs, HandleAnnounceUser, mine
<1>5. CASE Lookup \/ FollowCreated
  <2>1. UNCHANGED users
    BY <1>5 DEF Lookup, FollowCreated
  <2>2. UNCHANGED follows \/ \E d \in Account : d \in Named(users, req.handle) /\ FollowUser(d)
    BY <1>5 DEF Lookup, FollowCreated, GetProfileByHandle, Named
  <2> QED
    BY <1>1, <1>2, <2>1, <2>2
<1>6. CASE CreateRemoteUser
  <2>1. PICK d \in Account, e \in AnyHandle : d = req.who /\ e = req.handle
    BY DEF IdentityTypes, ReqType
  <2>2. UNCHANGED follows /\ (UNCHANGED users \/ users' = [users EXCEPT ![d] = [on |-> TRUE, handle |-> e]])
    BY <1>6, <2>1 DEF CreateRemoteUser, mine
  <2> QED
    BY <1>2, <1>3, <2>2
<1>7. CASE UnfollowUser
  <2>1. UNCHANGED users /\ (UNCHANGED follows \/ \E d \in Account : follows' = [follows EXCEPT ![d] = NotFollowed])
    BY <1>7 DEF UnfollowUser, GetProfileByHandle, Named
  <2>2. \A d \in Account : follows'[d].on => follows[d].on
    <3>1. CASE UNCHANGED follows
      BY <3>1
    <3>2. ASSUME NEW e \in Account, follows' = [follows EXCEPT ![e] = NotFollowed]
          PROVE  \A d \in Account : follows'[d].on => follows[d].on
      <4>1. \A d \in Account : follows'[d] = IF d = e THEN NotFollowed ELSE follows[d]
        BY <3>2 DEF IdentityTypes
      <4> QED
        BY <4>1 DEF NotFollowed
    <3> QED
      BY <2>1, <3>1, <3>2
  <2> QED
    BY <1>2, <2>1, <2>2
<1>8. CASE SetFollowATProtoRkey
  <2>1. UNCHANGED users
    BY <1>8 DEF SetFollowATProtoRkey
  <2>2. \A d \in Account : follows'[d].on = follows[d].on
    BY <1>8 DEF SetFollowATProtoRkey, IdentityTypes
  <2> QED
    BY <1>2, <2>1, <2>2
<1>9. CASE HandleFollowEvent
  <2>1. PICK s \in Account : s = echo.subject
    BY Typed
  <2>2. UNCHANGED users /\ (UNCHANGED follows \/ (users[s].on /\ follows' = [follows EXCEPT ![s] = [on |-> TRUE, rkey |-> echo.rkey]]))
    BY <1>9, <2>1 DEF HandleFollowEvent
  <2>3. CASE UNCHANGED follows
    BY <1>2, <2>2, <2>3
  <2>4. CASE users[s].on /\ follows' = [follows EXCEPT ![s] = [on |-> TRUE, rkey |-> echo.rkey]]
    <3>1. \A e \in Account : e # s => follows'[e] = follows[e]
      BY <2>4 DEF IdentityTypes
    <3> QED
      BY <2>2, <2>4, <3>1 DEF Referenced
  <2> QED
    BY <2>2, <2>3, <2>4
<1>10. CASE HandleUnfollowEvent
  <2>1. UNCHANGED users
    BY <1>10 DEF HandleUnfollowEvent
  <2>2. \A d \in Account : follows'[d].on => follows[d].on
    BY <1>10 DEF HandleUnfollowEvent, NotFollowed
  <2> QED
    BY <1>2, <2>1, <2>2
<1>11. ASSUME UNCHANGED <<users, follows>> PROVE Referenced'
  BY <1>2, <1>11
<1>12. CASE Follow \/ Unfollow \/ Resolve \/ ResolveFollowee \/ GetFollowATProtoRkey \/ Subject
            \/ PutFollow \/ DeleteFollow \/ UNCHANGED identityVars
  <2>1. UNCHANGED <<users, follows>>
    BY <1>12 DEF Follow, Unfollow, Ask, Resolve, ResolveFollowee, GetFollowATProtoRkey, Subject, PutFollow,
                 DeleteFollow, identityVars, mine
  <2> QED
    BY <1>11, <2>1
<1> QED
  BY <1>4, <1>5, <1>6, <1>7, <1>8, <1>9, <1>10, <1>12 DEF IdentityNext, RequestStep

\* Every step keeps the invariant.
LEMMA IdentityInvStep == IdentityInv /\ [IdentityNext]_identityVars => IdentityInv'
<1> SUFFICES ASSUME IdentityInv, [IdentityNext]_identityVars PROVE IdentityInv'
  OBVIOUS
<1>1. IdentityTypes /\ Tables /\ Referenced
  BY DEF IdentityInv
<1>2. IdentityTypes' /\ Tables' /\ Referenced'
  BY <1>1, IdentityStepTypes, TablesStep, ReferencedStep
<1>3. SUFFICES ASSUME ~crossed' PROVE Whole'
  BY <1>2 DEF IdentityInv, Honest
<1>4. ~crossed
  <2>1. CASE Environment
    BY <2>1, <1>3 DEF Environment, Move, HandleCallback, GetOrCreateUserByDID, AnnouncedElsewhere, DeleteUser,
                      UpsertHandle, SetHandle, AnnounceTrackedDIDs, HandleAnnounceUser
  <2>2. CASE Follow \/ Unfollow \/ RequestStep \/ HandleFollowEvent \/ HandleUnfollowEvent \/ UNCHANGED identityVars
    BY <2>2, <1>3 DEF Follow, Unfollow, Ask, RequestStep, Lookup, Resolve, CreateRemoteUser, FollowCreated,
                      ResolveFollowee, GetFollowATProtoRkey, UnfollowUser, Subject, PutFollow, DeleteFollow,
                      SetFollowATProtoRkey, HandleFollowEvent, HandleUnfollowEvent, identityVars
  <2> QED
    BY <2>1, <2>2 DEF IdentityNext
<1>5. Whole
  BY <1>4 DEF IdentityInv, Honest
<1>6. CASE Environment
  BY <1>1, <1>3, <1>5, <1>6, EnvironmentWhole
<1>7. CASE Follow
  <2>1. PICK h \in Handle \cup Nick : Ask(h, "lookup")
    BY <1>7 DEF Follow
  <2>2. h # NoHandle
    BY IdentityAssumption
  <2> QED
    BY <1>1, <1>5, <2>1, <2>2, AskWhole
<1>8. CASE Unfollow
  <2>1. PICK h \in {users[d].handle : d \in ListFollowing(Me)} : h # NoHandle /\ Ask(h, "unfollow")
    BY <1>8 DEF Unfollow
  <2>2. \E d \in Account : GetProfileByHandle(h) = {d}
    BY <1>1, <2>1, UnfollowReaches
  <2> QED
    BY <1>1, <1>5, <2>1, <2>2, AskWhole
<1>9. CASE RequestStep
  BY <1>1, <1>5, <1>9, LookupWhole, ResolveWhole, CreateWhole, FollowCreatedWhole, ResolveFolloweeWhole, GetRkeyWhole,
     UnfollowUserWhole, SubjectWhole, PutFollowWhole, DeleteFollowWhole, SetRkeyWhole DEF RequestStep
<1>10. CASE HandleFollowEvent \/ HandleUnfollowEvent
  BY <1>1, <1>5, <1>10, FollowEchoWhole, UnfollowEchoWhole
<1>11. CASE UNCHANGED identityVars
  <2>1. UNCHANGED <<users, follows, records, echo, req, requests, leftover>>
    BY <1>11 DEF identityVars
  <2>2. \A d \in Account : Reaches(d)' <=> Reaches(d)
    BY <2>1 DEF Reaches, GetProfileByHandle, Named
  <2> QED
    BY <1>1, <1>5, <2>1, <2>2, WholeKept
<1> QED
  BY <1>6, <1>7, <1>8, <1>9, <1>10, <1>11 DEF IdentityNext

\* The invariant holds of every state.
LEMMA IdentityInvariant == IdentitySpec => []IdentityInv
<1>1. IdentityInit => IdentityInv
  BY IdentityInitTypes, InitTables, InitWhole DEF IdentityInv, Honest, Referenced, IdentityInit, NotFollowed
<1> QED
  BY <1>1, IdentityInvStep, PTL DEF IdentitySpec

\* The tables, the follows and the request under way have the types of the code.
THEOREM IdentityTypesKept == IdentitySpec => []IdentityTypes
<1>1. IdentityInv => IdentityTypes
  BY DEF IdentityInv
<1> QED
  BY <1>1, IdentityInvariant, PTL

\* Between two requests the user follows exactly those of whom the PDS has a
\* record, though every request looks its handle up three to five times, in the
\* handler, at the relay and in the goroutine: for any number of accounts, handles,
\* requests and changes of handles.
THEOREM FollowsAreMirrored == IdentitySpec => []FollowsMirrored
<1>1. IdentityInv => FollowsMirrored
  <2> SUFFICES ASSUME IdentityInv, req.pc = "idle", ~crossed
               PROVE  {r.subject : r \in records} \ leftover = ListFollowing(Me) \ leftover
    BY DEF FollowsMirrored
  <2>1. IdentityTypes /\ Matched
    BY DEF IdentityInv, Honest, Whole
  <2>2. \A d \in Account \ leftover : Match(d)
    BY <2>1 DEF Matched, Between
  <2>3. \A r \in records : r.subject \in Account
    BY <2>1, Typed
  <2>4. ListFollowing(Me) = {d \in Account : follows[d].on}
    BY DEF ListFollowing
  <2>5. \A d : d \in {r.subject : r \in records} \ leftover <=> d \in ListFollowing(Me) \ leftover
    BY <2>2, <2>3, <2>4 DEF Match
  <2> QED
    BY <2>5
<1> QED
  BY <1>1, IdentityInvariant, PTL

\* The list behind the user's own page is that of the user.
LEMMA FollowingListed ==
  ASSUME Tables, NEW d \in Account
  PROVE  (d \in ListUserFollowing(users[Me].handle)) <=> follows[d].on
<1>1. Me \in GetProfileByHandle(users[Me].handle)
  BY IdentityAssumption DEF Tables, GetProfileByHandle, Named
<1> QED
  BY <1>1 DEF ListUserFollowing, ListFollowing

\* A row the API lists: whose page it is, and what that page says.
Shown(r) ==
  LET local == GetProfileByHandle(r.handle) IN
  /\ local = {r.who} /\ WellKnownATProtoDID(r.handle) = {r.who}
  /\ \A page \in GetUserProfile(r.handle) :
       /\ page.who = r.who /\ page.isFollowing = r.isFollowing
       /\ r.isFollowing <=> r.who \in ListUserFollowing(users[Me].handle) /\ page.followers = 1
       /\ r.isFollowing <=> ListUserFollowers(r.handle) = {Me}

LEMMA ListedHere ==
  ASSUME Tables, NEW q \in Query, NEW r \in SearchUsers(q) PROVE Shown(r)
<1>1. PICK d \in {e \in Searchable(users) \ {Me} : users[e].handle \in q.here \/ e \in q.names} :
        r = [handle |-> users[d].handle, who |-> d, isFollowing |-> follows[d].on]
  BY DEF SearchUsers
<1>2. /\ d \in Account /\ users[d].on /\ users[d].handle # NoHandle
      /\ r.handle = users[d].handle /\ r.who = d /\ r.isFollowing = follows[d].on
  BY <1>1 DEF Searchable
<1>3. GetProfileByHandle(r.handle) = {d}
  <2>1. d \in GetProfileByHandle(r.handle) /\ r.handle # NoHandle
    BY <1>2 DEF GetProfileByHandle, Named
  <2> QED
    BY <2>1, OneReached DEF Tables
<1>4. (d \in ListUserFollowing(users[Me].handle)) <=> follows[d].on
  BY <1>2, FollowingListed
<1>5. ListUserFollowers(r.handle) = ListFollowers(d)
  BY <1>3 DEF ListUserFollowers
<1>6. /\ follows[d].on <=> Cardinality(ListFollowers(d)) = 1
      /\ follows[d].on <=> ListFollowers(d) = {Me}
  BY FS_EmptySet, FS_Singleton DEF ListFollowers
<1>7. \A page \in GetUserProfile(r.handle) :
        page.who = d /\ page.isFollowing = follows[d].on /\ page.followers = Cardinality(ListFollowers(d))
  BY <1>3 DEF GetUserProfile
<1> QED
  BY <1>2, <1>3, <1>4, <1>5, <1>6, <1>7 DEF Shown, WellKnownATProtoDID

\* A handle is listed once by either side.
LEMMA ListedOnce ==
  ASSUME Tables, NEW q \in Query, NEW up \in BOOLEAN
  PROVE  /\ \A r, s \in SearchUsers(q) : r.handle = s.handle => r = s
         /\ \A r, s \in RelaySearchDIDs(q, up) : r.handle = s.handle => r = s
<1>1. ASSUME NEW r \in SearchUsers(q), NEW s \in SearchUsers(q), r.handle = s.handle PROVE r = s
  <2>1. PICK d \in Searchable(users) : r = [handle |-> users[d].handle, who |-> d, isFollowing |-> follows[d].on]
    BY DEF SearchUsers
  <2>2. PICK e \in Searchable(users) : s = [handle |-> users[e].handle, who |-> e, isFollowing |-> follows[e].on]
    BY DEF SearchUsers
  <2>3. users[d].handle = users[e].handle
    BY <1>1, <2>1, <2>2
  <2>4. d = e
    BY <2>1, <2>2, <2>3 DEF Searchable, Tables, OneEach
  <2> QED
    BY <2>1, <2>2, <2>4
<1>2. ASSUME NEW r \in SearchDIDs(q), NEW s \in SearchDIDs(q), r.handle = s.handle PROVE r = s
  <2>1. PICK d \in Searchable(tracked) : r = [handle |-> tracked[d].handle, who |-> d, isFollowing |-> FALSE]
    BY DEF SearchDIDs
  <2>2. PICK e \in Searchable(tracked) : s = [handle |-> tracked[e].handle, who |-> e, isFollowing |-> FALSE]
    BY DEF SearchDIDs
  <2>3. tracked[d].handle = tracked[e].handle
    BY <1>2, <2>1, <2>2
  <2>4. d = e
    BY <2>1, <2>2, <2>3 DEF Searchable, Tables, OneEach
  <2> QED
    BY <2>1, <2>2, <2>4
<1> QED
  BY <1>1, <1>2 DEF RelaySearchDIDs

\* For a query without wildcards, a page of the API that leaves room for the relay is
\* all that matches, so that a handle the relay adds is that of no row.
LEMMA AddedIsNew ==
  ASSUME Tables, NEW q \in Query, Literal(q), NEW up \in BOOLEAN, NEW r \in RelaySearchDIDs(q, up),
         r.handle # users[Me].handle, \A l \in SearchUsers(q) : l.handle # r.handle
  PROVE  GetProfileByHandle(r.handle) = {} /\ ResolveHandle(r.handle) = {r.who}
<1>1. PICK d \in {e \in Searchable(tracked) : tracked[e].handle \in q.there} :
        r = [handle |-> tracked[d].handle, who |-> d, isFollowing |-> FALSE]
  BY DEF RelaySearchDIDs, SearchDIDs
<1>2. /\ d \in Account /\ tracked[d].on /\ r.handle = tracked[d].handle /\ r.handle # NoHandle /\ r.who = d
      /\ r.handle \in q.here
  BY <1>1 DEF Searchable, Literal
<1>3. ASSUME NEW e \in GetProfileByHandle(r.handle) PROVE FALSE
  <2>1. e \in Searchable(users) \ {Me} /\ users[e].handle = r.handle
    BY <1>2, <1>3 DEF GetProfileByHandle, Named, Searchable
  <2>2. [handle |-> users[e].handle, who |-> e, isFollowing |-> follows[e].on] \in SearchUsers(q)
    BY <1>2, <2>1 DEF SearchUsers
  <2> QED
    BY <2>1, <2>2
<1>4. ResolveHandle(r.handle) = {d}
  BY <1>2 DEF ResolveHandle, Named, Tables, OneEach
<1> QED
  BY <1>2, <1>3, <1>4

\* A page of the relay is empty when the API's is full.
LEMMA NoRoomLeft ==
  ASSUME NEW q \in Query, NEW up \in BOOLEAN, NEW remote \in Page(RelaySearchDIDs(q, up), 0)
  PROVE  remote = {}
<1>1. IsFiniteSet({d \in Account : tracked[d].on /\ tracked[d].handle # NoHandle /\ tracked[d].handle \in q.there})
  BY IdentityAssumption, FS_Subset
<1>2. IsFiniteSet(RelaySearchDIDs(q, up))
  <2> DEFINE D == {d \in Account : tracked[d].on /\ tracked[d].handle # NoHandle /\ tracked[d].handle \in q.there}
             f == [d \in D |-> [handle |-> tracked[d].handle, who |-> d, isFollowing |-> FALSE]]
  <2>1. SearchDIDs(q) = {f[d] : d \in D}
    BY DEF SearchDIDs, Searchable
  <2>2. f \in Surjection(D, SearchDIDs(q))
    BY <2>1 DEF Surjection
  <2>3. IsFiniteSet(SearchDIDs(q))
    BY <1>1, <2>2, FS_Surjection
  <2> QED
    BY <2>3, FS_EmptySet DEF RelaySearchDIDs
<1>3. IsFiniteSet(remote) /\ Cardinality(RelaySearchDIDs(q, up)) \in Nat
  BY <1>2, FS_Subset, FS_CardinalityType DEF Page
<1>4. Cardinality(remote) = 0
  BY <1>3 DEF Page
<1> QED
  BY <1>3, <1>4, FS_EmptySet

\* What the relay adds when there is room comes to what the API found in full.
LEMMA AddedTo ==
  ASSUME NEW q \in Query, NEW limit \in Limit, NEW up \in BOOLEAN, NEW local \in Page(SearchUsers(q), limit),
         NEW remote \in Page(RelaySearchDIDs(q, up), limit - Cardinality(local))
  PROVE  /\ local \subseteq SearchUsers(q) /\ remote \subseteq RelaySearchDIDs(q, up)
         /\ remote = {} \/ local = SearchUsers(q)
<1>1. local \subseteq SearchUsers(q) /\ remote \subseteq RelaySearchDIDs(q, up)
  BY DEF Page
<1>2. CASE local # SearchUsers(q)
  <2>1. Cardinality(local) = limit /\ limit \in Nat
    BY <1>2, IdentityAssumption DEF Page
  <2>2. limit - Cardinality(local) = 0
    BY <2>1
  <2> QED
    BY <1>1, <2>2, NoRoomLeft
<1> QED
  BY <1>1, <1>2

\* A search lists a handle once, and whom it lists under it is, for a query without
\* wildcards, whom a follow of that handle, its page, the lists behind it and
\* .well-known reach; if a row here has the handle it tells rightly who is followed:
\* for any query and limit, whether the relay answers or not, and whatever the two
\* tables disagree about.
THEOREM SearchIsHonest == IdentitySpec => []SearchHonest
<1>1. IdentityInv => SearchHonest
  <2> SUFFICES ASSUME Tables, NEW q \in Query, NEW limit \in Limit, NEW up \in BOOLEAN, NEW found \in Search(q, limit, up)
               PROVE  /\ \A r, s \in found : r.handle = s.handle => r = s
                      /\ Literal(q) => \A r \in found :
                           LET local == GetProfileByHandle(r.handle) IN
                           /\ local # {} =>
                                /\ local = {r.who} /\ WellKnownATProtoDID(r.handle) = {r.who}
                                /\ \A page \in GetUserProfile(r.handle) :
                                     /\ page.who = r.who /\ page.isFollowing = r.isFollowing
                                     /\ r.isFollowing <=> r.who \in ListUserFollowing(users[Me].handle) /\ page.followers = 1
                                     /\ r.isFollowing <=> ListUserFollowers(r.handle) = {Me}
                           /\ local = {} => ResolveHandle(r.handle) = {r.who}
    BY DEF IdentityInv, SearchHonest
  <2>1. PICK local \in Page(SearchUsers(q), limit) :
          found \in {local \cup {r \in remote : r.handle # users[Me].handle /\ \A l \in local : l.handle # r.handle} :
                       remote \in Page(RelaySearchDIDs(q, up), limit - Cardinality(local))}
    BY DEF Search
  <2>2. PICK remote \in Page(RelaySearchDIDs(q, up), limit - Cardinality(local)) :
          found = local \cup {r \in remote : r.handle # users[Me].handle /\ \A l \in local : l.handle # r.handle}
    BY <2>1
  <2>3. /\ local \subseteq SearchUsers(q) /\ remote \subseteq RelaySearchDIDs(q, up)
        /\ remote = {} \/ local = SearchUsers(q)
    BY AddedTo
  <2>4. \A r, s \in found : r.handle = s.handle => r = s
    BY <2>2, <2>3, ListedOnce
  <2>5. ASSUME NEW r \in local PROVE Shown(r)
    BY <2>3, ListedHere
  <2>6. ASSUME NEW r \in found, r \notin local, Literal(q)
        PROVE  GetProfileByHandle(r.handle) = {} /\ ResolveHandle(r.handle) = {r.who}
    <3>1. /\ r \in RelaySearchDIDs(q, up) /\ r.handle # users[Me].handle
          /\ \A l \in SearchUsers(q) : l.handle # r.handle
      BY <2>2, <2>3, <2>6
    <3> QED
      BY <3>1, <2>6, AddedIsNew
  <2>7. ASSUME NEW r \in found, Literal(q)
        PROVE  LET here == GetProfileByHandle(r.handle) IN
               Shown(r) \/ (here = {} /\ ResolveHandle(r.handle) = {r.who})
    BY <2>5, <2>6, <2>7
  <2> QED
    BY <2>4, <2>7 DEF Shown
<1> QED
  BY <1>1, IdentityInvariant, PTL

(***************************************************************************)
(* Profile: the invariant                                                    *)
(***************************************************************************)

\* A copy of the profile.
Copy == [Field -> Nat]

\* An edit or an avatar request under way.
JobType ==
  [pc : {"idle", "refs", "user", "put", "cache"}, op : {"none", "text", "upload", "delete"}, nr : Nat, put : Copy]

\* The types of the copies, the commits, the events and the edits under way.
ProfileTypes ==
  /\ record \in Copy /\ cache \in Copy /\ row \in Copy /\ asked \in Copy
  /\ missing \in BOOLEAN /\ raced \in BOOLEAN /\ hurried \in BOOLEAN
  /\ commits \in Seq({"write", "delete"}) /\ events \in Seq(Copy)
  /\ worker \in [pc : {"idle", "fetched", "recorded"}, copy : Copy]
  /\ refresh \in [pc : {"idle", "fetched", "recorded", "clear"}, copy : Copy]
  /\ pull \in [pc : {"idle", "fetched"}, copy : Copy]
  /\ job \in [Job -> JobType]
  /\ failed \subseteq {"record", "cache", "row"}
  /\ edits \in Nat /\ mishaps \in Nat

\* Only an avatar is cached once it is put.
TextPuts == \A j \in Job : job[j].op = "text" => job[j].pc # "cache"

\* A slow copy that no write has overtaken is the record; so is the avatar that is
\* about to be cached.
SlowCopies ==
  /\ refresh.pc \in {"fetched", "recorded"} => refresh.copy = record
  /\ refresh.pc = "clear" => record = Empty \/ "cache" \in failed
  /\ pull.pc = "fetched" => pull.copy = record
  /\ \A j \in Job : job[j].pc = "cache" => job[j].put = record

\* What the relay has still to be told, and what it has fetched since the last
\* commit.
Told ==
  /\ missing => record = Empty
  /\ commits # <<>> => (missing <=> commits[Len(commits)] = "delete")
  /\ (\E i \in 1..Len(commits) : commits[i] = "delete") => "row" \in failed
  /\ worker.pc # "idle" /\ commits = <<>> => worker.copy = record

\* The cache is the record, or will be.
CacheFollows ==
  "cache" \in failed \/ commits # <<>> \/ worker.pc = "fetched" \/ cache = record

\* The row is the record, or an event or a put that is under way will make it so.
RowComing ==
  \/ commits # <<>> \/ worker.pc # "idle"
  \/ \E j \in Job : job[j].pc # "idle" /\ job[j].op = "text"
  \/ events # <<>> /\ events[Len(events)] = record
RowFollows == "row" \in failed \/ RowComing \/ (events = <<>> /\ row = record)

Copies == ~raced => SlowCopies /\ CacheFollows /\ RowFollows

\* What the one edit under way, begun when all was quiet, is going to put: what was
\* asked for, of which the record has all but the fields of the edit.
Pending(j) ==
  /\ ~raced /\ commits = <<>> /\ worker = Rest
  /\ job[j].op = "text" =>
       /\ job[j].pc \in {"refs", "put"} /\ job[j].put = asked
       /\ record["avatar"] = asked["avatar"] /\ record["banner"] = asked["banner"]
  /\ job[j].op \in {"upload", "delete"} =>
       /\ row = record /\ \A i \in 1..Len(events) : events[i] = record
       /\ \A f \in Field \ {"avatar"} : record[f] = asked[f]
       /\ asked["avatar"] = IF job[j].op = "upload" THEN job[j].nr ELSE 0
       /\ job[j].pc = "user" => job[j].put["banner"] = record["banner"]
       /\ job[j].pc = "put" => job[j].put = asked

\* Edits that wait for one another.
Waiting ==
  /\ \A i, j \in Job : job[i].pc # "idle" /\ job[j].pc # "idle" => i = j
  /\ (\A j \in Job : job[j].pc \in {"idle", "cache"}) => record = asked
  /\ \A j \in Job : job[j].pc \in {"refs", "user", "put"} => Pending(j)
  /\ \A j \in Job : job[j].pc # "idle" => job[j].op # "none"

Unhurried == ~hurried /\ failed = {} => Waiting

ProfileInv == ProfileTypes /\ TextPuts /\ Told /\ Copies /\ Unhurried

\* A copy with other fields is a copy.
LEMMA CopyFields ==
  /\ Empty \in Copy
  /\ \A c \in Copy, v \in Nat, w \in Nat :
       /\ [c EXCEPT !.avatar = v] \in Copy
       /\ [c EXCEPT !.avatar = v, !.banner = w] \in Copy
       /\ \A f \in Field : [c EXCEPT ![f] = v] \in Copy
  /\ \A c \in Copy : \A f \in Field : c[f] \in Nat
  /\ {"avatar", "banner"} \subseteq Field /\ Text \subseteq Field
  BY DEF Copy, Empty, Field

\* Where the last element of a sequence is when one is appended or the first taken.
LEMMA LastKept ==
  ASSUME NEW S, NEW s \in Seq(S)
  PROVE  /\ \A e \in S : /\ Append(s, e) \in Seq(S) /\ Append(s, e) # <<>> /\ Len(Append(s, e)) = Len(s) + 1
                         /\ Append(s, e)[Len(Append(s, e))] = e
                         /\ \A i \in 1..Len(s) : Append(s, e)[i] = s[i]
         /\ s # <<>> => /\ Tail(s) \in Seq(S) /\ Head(s) \in S /\ Head(s) = s[1] /\ Len(s) \in Nat /\ Len(s) >= 1
                        /\ Len(Tail(s)) = Len(s) - 1
                        /\ \A i \in 1..Len(Tail(s)) : Tail(s)[i] = s[i + 1]
                        /\ Tail(s) # <<>> => Tail(s)[Len(Tail(s))] = s[Len(s)]
                        /\ Tail(s) = <<>> => Len(s) = 1
<1>1. \A e \in S : Append(s, e) \in Seq(S) /\ Append(s, e) # <<>> /\ Len(Append(s, e)) = Len(s) + 1
                   /\ Append(s, e)[Len(Append(s, e))] = e /\ \A i \in 1..Len(s) : Append(s, e)[i] = s[i]
  OBVIOUS
<1>2. ASSUME s # <<>>
      PROVE  /\ Tail(s) \in Seq(S) /\ Head(s) \in S /\ Head(s) = s[1] /\ Len(s) \in Nat /\ Len(s) >= 1
             /\ Len(Tail(s)) = Len(s) - 1
             /\ \A i \in 1..Len(Tail(s)) : Tail(s)[i] = s[i + 1]
             /\ Tail(s) # <<>> => Tail(s)[Len(Tail(s))] = s[Len(s)]
             /\ Tail(s) = <<>> => Len(s) = 1
  <2>1. Tail(s) \in Seq(S) /\ Head(s) = s[1] /\ Len(s) \in Nat /\ Len(s) >= 1 /\ Len(Tail(s)) = Len(s) - 1
    BY <1>2
  <2>2. Head(s) \in S
    BY <1>2
  <2>3. \A i \in 1..Len(Tail(s)) : Tail(s)[i] = s[i + 1]
    BY <1>2
  <2>4. Tail(s) # <<>> => Len(Tail(s)) \in 1..Len(Tail(s))
    BY <2>1
  <2>5. Tail(s) # <<>> => Tail(s)[Len(Tail(s))] = s[Len(s)]
    BY <2>1, <2>3, <2>4
  <2>6. Tail(s) = <<>> => Len(s) = 1
    <3>1. PICK t : t = Tail(s)
      OBVIOUS
    <3>2. Len(t) = Len(s) - 1 /\ (t = <<>> => Len(t) = 0)
      BY <2>1, <3>1, EmptySeq
    <3> QED
      BY <2>1, <3>1, <3>2
  <2> QED
    BY <2>1, <2>2, <2>3, <2>5, <2>6
<1> QED
  BY <1>1, <1>2

\* The counters stay numbers.
LEMMA CountersTyped ==
  ASSUME ProfileTypes
  PROVE  edits \in Nat /\ edits + 1 \in Nat /\ mishaps \in Nat /\ (Mishap => mishaps' \in Nat)
<1>1. edits \in Nat /\ mishaps \in Nat
  BY DEF ProfileTypes
<1> QED
  BY <1>1 DEF Mishap

\* The types hold at first.
LEMMA ProfileInitTypes == ProfileInit => ProfileTypes
<1>1. NoJob \in JobType /\ Rest \in [pc : {"idle"}, copy : Copy]
  BY CopyFields DEF NoJob, JobType, Rest
<1> QED
  <2> SUFFICES ASSUME ProfileInit PROVE ProfileTypes
    OBVIOUS
  <2>1. job \in [Job -> JobType]
    BY <1>1 DEF ProfileInit
  <2>2. commits \in Seq({"write", "delete"}) /\ events \in Seq(Copy)
    BY DEF ProfileInit
  <2>3. /\ worker \in [pc : {"idle", "fetched", "recorded"}, copy : Copy]
        /\ refresh \in [pc : {"idle", "fetched", "recorded", "clear"}, copy : Copy]
        /\ pull \in [pc : {"idle", "fetched"}, copy : Copy]
    BY CopyFields DEF ProfileInit, Rest
  <2> QED
    BY <2>1, <2>2, <2>3, CopyFields DEF ProfileInit, ProfileTypes

\* An edit that goes on with something else to put is one.
LEMMA JobTyped ==
  ASSUME ProfileTypes, NEW j \in Job
  PROVE  /\ job[j] \in JobType /\ job[j].put \in Copy /\ job[j].nr \in Nat
         /\ \A pc \in {"idle", "refs", "user", "put", "cache"}, put \in Copy :
              [job EXCEPT ![j].pc = pc, ![j].put = put] \in [Job -> JobType]
         /\ \A r \in JobType : [job EXCEPT ![j] = r] \in [Job -> JobType]
         /\ NoJob \in JobType
<1>1. job \in [Job -> JobType] /\ job[j] \in JobType
  BY DEF ProfileTypes
<1>2. job[j].put \in Copy /\ job[j].nr \in Nat
  BY <1>1 DEF JobType
<1>3. \A r \in JobType : [job EXCEPT ![j] = r] \in [Job -> JobType]
  BY <1>1
<1>4. ASSUME NEW pc \in {"idle", "refs", "user", "put", "cache"}, NEW put \in Copy
      PROVE  [job EXCEPT ![j].pc = pc, ![j].put = put] \in [Job -> JobType]
  BY <1>1, <1>4 DEF JobType
<1>5. NoJob \in JobType
  BY CopyFields DEF NoJob, JobType
<1> QED
  BY <1>1, <1>2, <1>3, <1>4, <1>5

\* Every step of an edit keeps the types.
LEMMA JobStepTypes ==
  ASSUME ProfileTypes, NEW j \in Job,
         \/ \E fields \in (SUBSET Text) \ {{}} : UpdateUser(j, fields)
         \/ UploadAvatar(j) \/ DeleteAvatar(j)
         \/ ExistingProfileBlobRefs(j) \/ GetUserByID(j) \/ PutProfile(j) \/ UpdateUserAvatar(j)
  PROVE  ProfileTypes'
<1> USE DEF pds, relay, bounds, history
<1>0. \A c \in {record, row, asked} : c \in Copy
  BY DEF ProfileTypes
<1>1. ASSUME NEW r \in JobType, Begin(j, r), row' \in Copy, asked' \in Copy PROVE ProfileTypes'
  <2>1. job' \in [Job -> JobType]
    BY <1>1, JobTyped DEF Begin
  <2> QED
    BY <1>1, <2>1 DEF Begin, Quiet, ProfileTypes
<1>2. ASSUME NEW fields \in SUBSET Text, UpdateUser(j, fields) PROVE ProfileTypes'
  <2>1. row' \in Copy /\ asked' \in Copy /\ edits + 1 \in Nat
    BY <1>0, <1>2 DEF UpdateUser, Copy, ProfileTypes
  <2>2. Begin(j, [pc |-> "refs", op |-> "text", nr |-> edits + 1, put |-> row'])
    BY <1>2 DEF UpdateUser
  <2>3. [pc |-> "refs", op |-> "text", nr |-> edits + 1, put |-> row'] \in JobType
    BY <2>1 DEF JobType
  <2> QED
    BY <1>1, <2>1, <2>2, <2>3
<1>3. ASSUME NEW op \in {"upload", "delete"}, AvatarRequest(j, op), asked' \in Copy PROVE ProfileTypes'
  <2>1. [pc |-> "refs", op |-> op, nr |-> edits + 1, put |-> Empty] \in JobType
    BY CopyFields, CountersTyped DEF JobType
  <2> QED
    BY <1>0, <1>1, <1>3, <2>1 DEF AvatarRequest
<1>4. CASE UploadAvatar(j) \/ DeleteAvatar(j)
  <2>1. asked' \in Copy
    <3>1. asked \in Copy /\ (asked' = [asked EXCEPT !.avatar = edits + 1] \/ asked' = [asked EXCEPT !.avatar = 0])
      BY <1>0, <1>4 DEF UploadAvatar, DeleteAvatar
    <3> QED
      BY <3>1, CopyFields, CountersTyped
  <2> QED
    BY <1>3, <1>4, <2>1 DEF UploadAvatar, DeleteAvatar
<1>5. ASSUME NEW a \in Nat, NEW b \in Nat, Images(j, a, b) PROVE job' \in [Job -> JobType]
  <2>1. [job[j].put EXCEPT !.avatar = a, !.banner = b] \in Copy
    BY JobTyped, CopyFields
  <2>2. PICK pc \in {"put", "user"} : pc = IF job[j].op = "text" THEN "put" ELSE "user"
    OBVIOUS
  <2> QED
    BY <1>5, <2>1, <2>2, JobTyped DEF Images, Advance
<1>6. CASE ExistingProfileBlobRefs(j)
  <2>1. record.avatar \in Nat /\ record.banner \in Nat
    BY <1>0, CopyFields
  <2>2. job' \in [Job -> JobType]
    BY <1>5, <1>6, <2>1 DEF ExistingProfileBlobRefs
  <2> QED
    <3>1. mishaps' \in Nat /\ failed' \subseteq {"record", "cache", "row"}
      BY <1>6, CountersTyped DEF ExistingProfileBlobRefs, ProfileTypes
    <3> QED
      BY <1>6, <2>2, <3>1 DEF ExistingProfileBlobRefs, ProfileTypes
<1>7. CASE GetUserByID(j)
  <2>1. PICK a \in Nat : a = IF job[j].op = "upload" THEN job[j].nr ELSE 0
    BY JobTyped
  <2>2. PICK b \in Nat : b = job[j].put.banner
    BY JobTyped, CopyFields
  <2>3. [row EXCEPT !.avatar = a, !.banner = b] \in Copy
    BY <1>0, CopyFields
  <2>4. job' = [job EXCEPT ![j].pc = "put", ![j].put = [row EXCEPT !.avatar = a, !.banner = b]]
    BY <1>7, <2>1, <2>2 DEF GetUserByID, Advance
  <2>5. job' \in [Job -> JobType]
    BY <2>3, <2>4, JobTyped
  <2> QED
    BY <1>7, <2>5 DEF GetUserByID, ProfileTypes
<1>8. CASE PutProfile(j)
  <2>1. job' \in [Job -> JobType]
    <3>1. job' = [job EXCEPT ![j] = NoJob] \/ job' = [job EXCEPT ![j].pc = "cache", ![j].put = job[j].put]
      BY <1>8 DEF PutProfile, JobOver, Advance
    <3>2. [job EXCEPT ![j].pc = "cache", ![j].put = job[j].put] \in [Job -> JobType]
      <4>1. PICK put \in Copy : put = job[j].put
        BY JobTyped
      <4> QED
        BY <4>1, JobTyped
    <3>3. [job EXCEPT ![j] = NoJob] \in [Job -> JobType]
      BY JobTyped
    <3> QED
      BY <3>1, <3>2, <3>3
  <2>2. CASE Write(job[j].put) /\ UNCHANGED <<mishaps, failed>>
    <3>1. record' \in Copy /\ commits' \in Seq({"write", "delete"})
      BY <2>2, JobTyped, LastKept DEF Write, ProfileTypes
    <3> QED
      BY <1>8, <2>1, <2>2, <3>1 DEF PutProfile, Write, Slow, ProfileTypes
  <2>3. CASE Mishap /\ failed' = failed \cup {"record", "row"} /\ UNCHANGED <<pds, raced>>
    BY <1>8, <2>1, <2>3 DEF PutProfile, Mishap, ProfileTypes
  <2> QED
    BY <1>8, <2>2, <2>3 DEF PutProfile
<1>9. CASE UpdateUserAvatar(j)
  <2>1. row' \in Copy /\ job' \in [Job -> JobType]
    BY <1>0, <1>9, JobTyped, CopyFields DEF UpdateUserAvatar, JobOver
  <2> QED
    BY <1>9, <2>1 DEF UpdateUserAvatar, ProfileTypes
<1> QED
  BY <1>2, <1>4, <1>6, <1>7, <1>8, <1>9

\* Every other step keeps the types.
LEMMA OtherStepTypes ==
  ASSUME ProfileTypes,
         \/ \E f \in Text \cup {"banner"} : Elsewhere(f)
         \/ DeleteRecord \/ HandleProfile \/ ProcessProfileRecord \/ RefreshProfile \/ ClearProfile
         \/ HandleProfileEvent \/ BackfillProfile \/ UpdateUserProfileFromPDS
  PROVE  ProfileTypes'
<1> USE DEF pds, relay, bounds, history
<1>0. /\ \A c \in {record, row, asked, Empty} : c \in Copy
      /\ worker.copy \in Copy /\ refresh.copy \in Copy /\ pull.copy \in Copy
      /\ Rest \in [pc : {"idle"}, copy : Copy]
      /\ commits \in Seq({"write", "delete"}) /\ events \in Seq(Copy)
  BY CopyFields DEF ProfileTypes, Rest
<1>1. ASSUME NEW f \in Text \cup {"banner"}, Elsewhere(f) PROVE ProfileTypes'
  <2>1. f \in Field /\ edits + 1 \in Nat
    BY CopyFields, CountersTyped
  <2>2. record' \in Copy /\ asked' \in Copy
    BY <1>0, <1>1, <2>1, CopyFields DEF Elsewhere, Write
  <2>3. commits' \in Seq({"write", "delete"})
    BY <1>0, <1>1, LastKept DEF Elsewhere, Write
  <2> QED
    BY <1>1, <2>1, <2>2, <2>3 DEF Elsewhere, Write, Slow, Quiet, ProfileTypes
<1>2. CASE DeleteRecord
  <2>1. commits' \in Seq({"write", "delete"})
    BY <1>0, <1>2, LastKept DEF DeleteRecord
  <2> QED
    BY <1>0, <1>2, <2>1 DEF DeleteRecord, Slow, Quiet, ProfileTypes
<1>3. CASE HandleProfile
  <2>1. commits' \in Seq({"write", "delete"})
    BY <1>0, <1>3, LastKept DEF HandleProfile
  <2>2. worker' = worker \/ worker' = [pc |-> "fetched", copy |-> record]
    BY <1>3 DEF HandleProfile
  <2>3. worker' \in [pc : {"idle", "fetched", "recorded"}, copy : Copy]
    BY <1>0, <2>2 DEF ProfileTypes
  <2>4. cache' \in Copy
    BY <1>0, <1>3 DEF HandleProfile, ProfileTypes
  <2> QED
    <3>1. mishaps' \in Nat /\ failed' \subseteq {"record", "cache", "row"}
      BY <1>3, CountersTyped DEF HandleProfile, ProfileTypes
    <3> QED
      BY <1>3, <2>1, <2>3, <2>4, <3>1 DEF HandleProfile, ProfileTypes
<1>4. CASE ProcessProfileRecord
  <2>1. events' \in Seq(Copy)
    <3>1. events' = events \/ events' = Append(events, worker.copy) \/ events' = Append(events, refresh.copy)
      BY <1>4 DEF ProcessProfileRecord, Emit
    <3> QED
      BY <1>0, <3>1
  <2>2. worker' \in [pc : {"idle", "fetched", "recorded"}, copy : Copy]
    BY <1>0, <1>4 DEF ProcessProfileRecord, Emit, RecordProfile, ProfileTypes, Rest
  <2>3. refresh' \in [pc : {"idle", "fetched", "recorded", "clear"}, copy : Copy]
    BY <1>0, <1>4 DEF ProcessProfileRecord, Emit, RecordProfile, ProfileTypes, Rest
  <2>4. cache' \in Copy
    BY <1>0, <1>4 DEF ProcessProfileRecord, Emit, RecordProfile, ProfileTypes
  <2> QED
    BY <1>4, <2>1, <2>2, <2>3, <2>4 DEF ProcessProfileRecord, ProfileTypes
<1>5. CASE RefreshProfile
  <2>1. refresh' = [pc |-> "fetched", copy |-> record] \/ refresh' = [pc |-> "clear", copy |-> Empty]
    BY <1>5 DEF RefreshProfile
  <2>2. refresh' \in [pc : {"idle", "fetched", "recorded", "clear"}, copy : Copy]
    BY <1>0, <2>1
  <2> QED
    <3>1. mishaps' \in Nat /\ failed' \subseteq {"record", "cache", "row"}
      BY <1>5, CountersTyped DEF RefreshProfile, ProfileTypes
    <3> QED
      BY <1>5, <2>2, <3>1 DEF RefreshProfile, ProfileTypes
<1>6. CASE ClearProfile
  BY <1>0, <1>6 DEF ClearProfile, ProfileTypes, Rest
<1>7. CASE HandleProfileEvent
  <2>1. row' \in Copy /\ events' \in Seq(Copy)
    BY <1>0, <1>7, LastKept DEF HandleProfileEvent
  <2> QED
    BY <1>7, <2>1 DEF HandleProfileEvent, ProfileTypes
<1>8. CASE BackfillProfile
  BY <1>0, <1>8 DEF BackfillProfile, Mishap, ProfileTypes
<1>9. CASE UpdateUserProfileFromPDS
  BY <1>0, <1>9 DEF UpdateUserProfileFromPDS, ProfileTypes, Rest
<1> QED
  BY <1>1, <1>2, <1>3, <1>4, <1>5, <1>6, <1>7, <1>8, <1>9

\* Every step keeps the types.
LEMMA ProfileStepTypes == ASSUME ProfileTypes, [ProfileNext]_profileVars PROVE ProfileTypes'
<1>1. CASE UNCHANGED profileVars
  BY <1>1 DEF profileVars, pds, relay, bounds, history, ProfileTypes
<1> QED
  BY <1>1, JobStepTypes, OtherStepTypes DEF ProfileNext

\* A write of the record is told of, last.
LEMMA WriteTold ==
  ASSUME ProfileTypes, Told, NEW r, Write(r), UNCHANGED worker, failed \subseteq failed'
  PROVE  Told' /\ commits' # <<>>
<1>1. commits \in Seq({"write", "delete"})
  BY DEF ProfileTypes
<1>2. commits' = Append(commits, "write") /\ ~missing'
  BY DEF Write
<1>3. /\ commits' # <<>> /\ Len(commits') = Len(commits) + 1 /\ commits'[Len(commits')] = "write"
      /\ \A i \in 1..Len(commits) : commits'[i] = commits[i]
  BY <1>1, <1>2, LastKept
<1>4. ASSUME NEW i \in 1..Len(commits'), commits'[i] = "delete" PROVE "row" \in failed'
  <2>1. i \in 1..Len(commits)
    BY <1>1, <1>3, <1>4
  <2> QED
    BY <1>3, <1>4, <2>1 DEF Told
<1> QED
  BY <1>2, <1>3, <1>4 DEF Told

\* Steps that leave the record and the worker alone.
LEMMA ToldKept ==
  ASSUME Told, UNCHANGED <<record, missing, commits, worker>>, failed \subseteq failed'
  PROVE  Told'
  BY DEF Told

\* Every step keeps what is told of the record.
LEMMA ToldStep == ASSUME ProfileTypes, Told, [ProfileNext]_profileVars PROVE Told'
<1> USE DEF pds, relay, bounds, history
<1>1. commits \in Seq({"write", "delete"})
  BY DEF ProfileTypes
<1>2. ASSUME NEW j \in Job,
             \/ \E fields \in (SUBSET Text) \ {{}} : UpdateUser(j, fields)
             \/ UploadAvatar(j) \/ DeleteAvatar(j)
             \/ ExistingProfileBlobRefs(j) \/ GetUserByID(j) \/ UpdateUserAvatar(j)
      PROVE  Told'
  BY <1>2, ToldKept
  DEF UpdateUser, UploadAvatar, DeleteAvatar, AvatarRequest, Begin, ExistingProfileBlobRefs, GetUserByID, UpdateUserAvatar
<1>3. ASSUME NEW j \in Job, PutProfile(j) PROVE Told'
  <2>1. CASE Write(job[j].put) /\ UNCHANGED failed
    BY <1>3, <2>1, WriteTold DEF PutProfile
  <2>2. CASE UNCHANGED pds /\ failed' = failed \cup {"record", "row"}
    BY <1>3, <2>2, ToldKept DEF PutProfile
  <2> QED
    BY <1>3, <2>1, <2>2 DEF PutProfile
<1>4. ASSUME NEW f \in Text \cup {"banner"}, Elsewhere(f) PROVE Told'
  BY <1>4, WriteTold DEF Elsewhere
<1>5. CASE DeleteRecord
  <2>1. /\ commits' # <<>> /\ Len(commits') = Len(commits) + 1 /\ commits'[Len(commits')] = "delete"
    BY <1>1, <1>5, LastKept DEF DeleteRecord
  <2> QED
    BY <1>5, <2>1 DEF DeleteRecord, Told
<1>6. CASE HandleProfile
  <2>1. commits # <<>> /\ commits' = Tail(commits) /\ worker.pc = "idle" /\ UNCHANGED <<record, missing>>
    BY <1>6 DEF HandleProfile
  <2>2. /\ Head(commits) = commits[1] /\ Len(commits) >= 1 /\ Len(commits) \in Nat
        /\ Len(commits') = Len(commits) - 1
        /\ \A i \in 1..Len(commits') : commits'[i] = commits[i + 1]
        /\ commits' # <<>> => commits'[Len(commits')] = commits[Len(commits)]
    BY <1>1, <2>1, LastKept
  <2>3. failed \subseteq failed'
    BY <1>6 DEF HandleProfile
  <2>4. worker' = worker \/ worker' = [pc |-> "fetched", copy |-> record]
    BY <1>6 DEF HandleProfile
  <2>5. worker'.pc # "idle" => worker'.copy = record'
    BY <2>1, <2>4
  <2>6. (\E i \in 1..Len(commits') : commits'[i] = "delete") => "row" \in failed'
    <3> SUFFICES ASSUME NEW i \in 1..Len(commits'), commits'[i] = "delete" PROVE "row" \in failed'
      OBVIOUS
    <3>1. i + 1 \in 1..Len(commits) /\ commits[i + 1] = "delete"
      BY <2>2
    <3> QED
      BY <2>3, <3>1 DEF Told
  <2> QED
    BY <2>1, <2>2, <2>5, <2>6 DEF Told
<1>7. CASE ProcessProfileRecord
  <2>1. UNCHANGED <<record, missing, commits, failed>>
    BY <1>7 DEF ProcessProfileRecord
  <2>2. worker' = worker \/ worker' = Rest \/ (worker.pc = "fetched" /\ worker'.copy = worker.copy)
    BY <1>7 DEF ProcessProfileRecord, RecordProfile, Emit, ProfileTypes
  <2>3. worker'.pc # "idle" => worker.pc # "idle" /\ worker'.copy = worker.copy
    BY <2>2 DEF Rest
  <2> QED
    BY <2>1, <2>3 DEF Told
<1>8. CASE RefreshProfile
  BY <1>8, ToldKept DEF RefreshProfile
<1>9. CASE ClearProfile \/ HandleProfileEvent \/ BackfillProfile \/ UpdateUserProfileFromPDS \/ UNCHANGED profileVars
  BY <1>9, ToldKept DEF ClearProfile, HandleProfileEvent, BackfillProfile, UpdateUserProfileFromPDS, profileVars
<1> QED
  BY <1>2, <1>3, <1>4, <1>5, <1>6, <1>7, <1>8, <1>9 DEF ProfileNext

\* The last commit, once it is taken, has the worker fetch the record as it is, or
\* empties the cache of a record that is gone.
LEMMA LastCommit ==
  ASSUME ProfileTypes, Told, HandleProfile, commits' = <<>>
  PROVE  /\ UNCHANGED <<record, row, events, job, raced>>
         /\ \/ worker' = [pc |-> "fetched", copy |-> record] /\ UNCHANGED <<cache, failed>>
            \/ cache' = Empty /\ record = Empty /\ "row" \in failed /\ UNCHANGED failed
            \/ {"cache", "row"} \subseteq failed'
<1>1. commits \in Seq({"write", "delete"}) /\ commits # <<>> /\ commits' = Tail(commits)
  BY DEF HandleProfile, ProfileTypes
<1>2. Head(commits) = commits[Len(commits)] /\ 1 \in 1..Len(commits) /\ Head(commits) = commits[1]
  BY <1>1, LastKept
<1>3. missing <=> Head(commits) = "delete"
  BY <1>1, <1>2 DEF Told
<1>4. Head(commits) = "delete" => record = Empty /\ "row" \in failed
  BY <1>2, <1>3 DEF Told
<1> QED
  BY <1>3, <1>4 DEF HandleProfile, pds

\* Whatever begins, begins with the images that are to be put again.
LEMMA Begun ==
  ASSUME NEW j \in Job,
         \/ \E fields \in (SUBSET Text) \ {{}} : UpdateUser(j, fields)
         \/ UploadAvatar(j) \/ DeleteAvatar(j)
  PROVE  \E r : Begin(j, r) /\ r.pc = "refs"
<1>1. ASSUME NEW op, NEW put, Begin(j, [pc |-> "refs", op |-> op, nr |-> edits + 1, put |-> put])
      PROVE  \E r : Begin(j, r) /\ r.pc = "refs"
  <2>1. PICK r : r = [pc |-> "refs", op |-> op, nr |-> edits + 1, put |-> put]
    OBVIOUS
  <2>2. Begin(j, r) /\ r.pc = "refs"
    BY <1>1, <2>1
  <2> QED
    BY <2>2
<1>2. ASSUME NEW fields, UpdateUser(j, fields) PROVE \E r : Begin(j, r) /\ r.pc = "refs"
  BY <1>1, <1>2 DEF UpdateUser
<1>3. CASE UploadAvatar(j) \/ DeleteAvatar(j)
  BY <1>1, <1>3 DEF UploadAvatar, DeleteAvatar, AvatarRequest
<1> QED
  BY <1>2, <1>3

\* Every step keeps it that the put of an edit is its last step.
LEMMA TextPutsStep == ASSUME ProfileTypes, TextPuts, [ProfileNext]_profileVars PROVE TextPuts'
<1>0. \A i \in Job : job[i] \in JobType
  BY DEF ProfileTypes
<1>1. ASSUME UNCHANGED job PROVE TextPuts'
  BY <1>1 DEF TextPuts
<1>2. ASSUME NEW j \in Job, NEW r, job' = [job EXCEPT ![j] = r], r.op = "text" => r.pc # "cache" PROVE TextPuts'
  BY <1>2 DEF TextPuts, ProfileTypes
<1>3. ASSUME NEW j \in Job, NEW pc, NEW put, Advance(j, pc, put), job[j].op = "text" => pc # "cache" PROVE TextPuts'
  <2>1. job'[j].pc = pc /\ job'[j].op = job[j].op
    BY <1>0, <1>3 DEF Advance, ProfileTypes, JobType
  <2>2. \A i \in Job : i # j => job'[i] = job[i]
    BY <1>3 DEF Advance, ProfileTypes
  <2> QED
    BY <1>3, <2>1, <2>2 DEF TextPuts
<1>4. ASSUME NEW j \in Job,
             \/ \E fields \in (SUBSET Text) \ {{}} : UpdateUser(j, fields)
             \/ UploadAvatar(j) \/ DeleteAvatar(j)
      PROVE  TextPuts'
  <2>1. PICK r : Begin(j, r) /\ r.pc = "refs"
    BY <1>4, Begun
  <2> QED
    BY <1>2, <2>1 DEF Begin
<1>5. ASSUME NEW j \in Job, ExistingProfileBlobRefs(j) \/ GetUserByID(j) PROVE TextPuts'
  <2>1. PICK pc, put : pc # "cache" /\ Advance(j, pc, put)
    BY <1>5 DEF ExistingProfileBlobRefs, GetUserByID, Images
  <2> QED
    BY <1>3, <2>1
<1>6. ASSUME NEW j \in Job, JobOver(j) PROVE TextPuts'
  BY <1>2, <1>6 DEF JobOver, NoJob
<1>7. ASSUME NEW j \in Job, PutProfile(j) \/ UpdateUserAvatar(j) PROVE TextPuts'
  <2>1. JobOver(j) \/ (job[j].op # "text" /\ Advance(j, "cache", job[j].put))
    BY <1>7 DEF PutProfile, UpdateUserAvatar
  <2> QED
    BY <1>3, <1>6, <2>1
<1> QED
  BY <1>1, <1>4, <1>5, <1>7
  DEF ProfileNext, Elsewhere, DeleteRecord, HandleProfile, ProcessProfileRecord, RefreshProfile, ClearProfile,
      HandleProfileEvent, BackfillProfile, UpdateUserProfileFromPDS, profileVars

\* A slow copy that a write overtakes is told from the others.
LEMMA Overtaken ==
  ASSUME ~raced', raced' = (raced \/ Slow)
  PROVE  ~raced /\ refresh.pc = "idle" /\ pull.pc = "idle" /\ \A j \in Job : job[j].pc # "cache"
  BY DEF Slow

\* Every step keeps the slow copies that no write overtakes.
LEMMA SlowCopiesStep ==
  ASSUME ProfileTypes, Told, SlowCopies, [ProfileNext]_profileVars, ~raced'
  PROVE  SlowCopies'
<1> USE DEF pds, relay, bounds, history
<1>0. \A j \in Job : job[j] \in JobType
  BY DEF ProfileTypes
<1>1. ASSUME UNCHANGED <<record, refresh, pull>>, failed \subseteq failed',
             \A i \in Job : job'[i].pc = "cache" => job[i].pc = "cache" /\ job'[i].put = job[i].put
      PROVE  SlowCopies'
  BY <1>1 DEF SlowCopies
<1>2. ASSUME NEW j \in Job, NEW r \in JobType, r.pc # "cache", job' = [job EXCEPT ![j] = r]
      PROVE  \A i \in Job : job'[i].pc = "cache" => job[i].pc = "cache" /\ job'[i].put = job[i].put
  BY <1>2 DEF ProfileTypes
<1>3. ASSUME NEW j \in Job, NEW pc, NEW put, pc # "cache", Advance(j, pc, put)
      PROVE  \A i \in Job : job'[i].pc = "cache" => job[i].pc = "cache" /\ job'[i].put = job[i].put
  <2>1. job'[j].pc = pc
    BY <1>3 DEF Advance, ProfileTypes, JobType
  <2>2. \A i \in Job : i # j => job'[i] = job[i]
    BY <1>3 DEF Advance, ProfileTypes
  <2> QED
    BY <1>3, <2>1, <2>2
<1>4. ASSUME NEW j \in Job, NEW r \in JobType, r.pc = "refs", Begin(j, r) PROVE SlowCopies'
  <2>1. \A i \in Job : job'[i].pc = "cache" => job[i].pc = "cache" /\ job'[i].put = job[i].put
    BY <1>2, <1>4 DEF Begin
  <2> QED
    BY <1>1, <1>4, <2>1 DEF Begin
<1>5. ASSUME NEW j \in Job,
             \/ \E fields \in (SUBSET Text) \ {{}} : UpdateUser(j, fields)
             \/ UploadAvatar(j) \/ DeleteAvatar(j)
      PROVE  SlowCopies'
  <2>1. PICK r : Begin(j, r) /\ r.pc = "refs"
    BY <1>5, Begun
  <2>2. job' = [job EXCEPT ![j] = r]
    BY <2>1 DEF Begin
  <2>3. \A i \in Job : job'[i].pc = "cache" => job[i].pc = "cache" /\ job'[i].put = job[i].put
    BY <2>1, <2>2 DEF ProfileTypes
  <2> QED
    BY <1>1, <2>1, <2>3 DEF Begin
<1>6. ASSUME NEW j \in Job, ExistingProfileBlobRefs(j) \/ GetUserByID(j) PROVE SlowCopies'
  <2>1. \E pc, put : pc # "cache" /\ Advance(j, pc, put)
    BY <1>6 DEF ExistingProfileBlobRefs, GetUserByID, Images
  <2>2. \A i \in Job : job'[i].pc = "cache" => job[i].pc = "cache" /\ job'[i].put = job[i].put
    BY <1>3, <2>1
  <2>3. failed \subseteq failed' /\ UNCHANGED <<record, refresh, pull>>
    BY <1>6 DEF ExistingProfileBlobRefs, GetUserByID
  <2> QED
    BY <1>1, <2>2, <2>3
<1>7. ASSUME NEW j \in Job, UpdateUserAvatar(j) PROVE SlowCopies'
  <2>1. \A i \in Job : job'[i].pc = "cache" => job[i].pc = "cache" /\ job'[i].put = job[i].put
    BY <1>7 DEF UpdateUserAvatar, JobOver, NoJob, ProfileTypes
  <2> QED
    BY <1>1, <1>7, <2>1 DEF UpdateUserAvatar
<1>8. ASSUME NEW j \in Job, PutProfile(j) PROVE SlowCopies'
  <2>1. CASE Write(job[j].put) /\ UNCHANGED failed
    <3>1. refresh.pc = "idle" /\ pull.pc = "idle" /\ \A i \in Job : job[i].pc # "cache"
      BY <2>1, Overtaken DEF Write
    <3>2. record' = job[j].put /\ UNCHANGED <<refresh, pull>>
      BY <1>8, <2>1 DEF PutProfile, Write
    <3>3. \A i \in Job : i # j => job'[i] = job[i]
      BY <1>8 DEF PutProfile, JobOver, Advance, ProfileTypes
    <3>4. job'[j].pc = "cache" => job'[j].put = job[j].put
      <4>1. CASE JobOver(j)
        BY <4>1 DEF JobOver, NoJob, ProfileTypes
      <4>2. CASE Advance(j, "cache", job[j].put)
        BY <1>0, <4>2 DEF Advance, ProfileTypes, JobType
      <4> QED
        BY <1>8, <2>1, <4>1, <4>2 DEF PutProfile
    <3> QED
      BY <3>1, <3>2, <3>3, <3>4 DEF SlowCopies
  <2>2. CASE failed' = failed \cup {"record", "row"} /\ JobOver(j) /\ UNCHANGED pds
    <3>1. \A i \in Job : job'[i].pc = "cache" => job[i].pc = "cache" /\ job'[i].put = job[i].put
      BY <2>2 DEF JobOver, NoJob, ProfileTypes
    <3> QED
      BY <1>1, <1>8, <2>2, <3>1 DEF PutProfile
  <2> QED
    BY <1>8, <2>1, <2>2 DEF PutProfile
<1>9. ASSUME NEW f \in Text \cup {"banner"}, Elsewhere(f) PROVE SlowCopies'
  <2>1. refresh.pc = "idle" /\ pull.pc = "idle" /\ \A i \in Job : job[i].pc # "cache"
    BY <1>9, Overtaken DEF Elsewhere, Write
  <2> QED
    BY <1>9, <2>1 DEF Elsewhere, SlowCopies
<1>10. CASE DeleteRecord
  <2>1. refresh.pc = "idle" /\ pull.pc = "idle" /\ \A i \in Job : job[i].pc # "cache"
    BY <1>10, Overtaken DEF DeleteRecord
  <2> QED
    BY <1>10, <2>1 DEF DeleteRecord, SlowCopies
<1>11. CASE HandleProfile \/ ClearProfile \/ HandleProfileEvent \/ UpdateUserProfileFromPDS \/ UNCHANGED profileVars
  BY <1>11 DEF HandleProfile, ClearProfile, HandleProfileEvent, UpdateUserProfileFromPDS, profileVars, Rest, SlowCopies
<1>12. CASE ProcessProfileRecord
  <2>1. refresh' = refresh \/ refresh' = Rest \/ (refresh.pc = "fetched" /\ refresh'.pc = "recorded" /\ refresh'.copy = refresh.copy)
    BY <1>12 DEF ProcessProfileRecord, RecordProfile, Emit, ProfileTypes
  <2> QED
    BY <1>12, <2>1 DEF ProcessProfileRecord, SlowCopies, Rest
<1>13. CASE RefreshProfile
  <2>1. missing => record = Empty
    BY DEF Told
  <2> QED
    BY <1>13, <2>1 DEF RefreshProfile, SlowCopies
<1>14. CASE BackfillProfile
  BY <1>14 DEF BackfillProfile, SlowCopies
<1> QED
  BY <1>5, <1>6, <1>7, <1>8, <1>9, <1>10, <1>11, <1>12, <1>13, <1>14 DEF ProfileNext

\* Every step keeps the cache on the record's heels.
LEMMA CacheStep ==
  ASSUME ProfileTypes, Told, SlowCopies, CacheFollows, [ProfileNext]_profileVars, ~raced'
  PROVE  CacheFollows'
<1> USE DEF pds, relay, bounds, history
<1>1. ASSUME UNCHANGED <<record, commits, worker, cache>>, failed \subseteq failed' PROVE CacheFollows'
  BY <1>1 DEF CacheFollows
<1>2. ASSUME NEW j \in Job,
             \/ \E fields \in (SUBSET Text) \ {{}} : UpdateUser(j, fields)
             \/ UploadAvatar(j) \/ DeleteAvatar(j)
             \/ ExistingProfileBlobRefs(j) \/ GetUserByID(j) \/ UpdateUserAvatar(j)
      PROVE  CacheFollows'
  BY <1>1, <1>2
  DEF UpdateUser, UploadAvatar, DeleteAvatar, AvatarRequest, Begin, ExistingProfileBlobRefs, GetUserByID, UpdateUserAvatar
<1>3. ASSUME NEW r, Write(r), UNCHANGED worker, failed \subseteq failed' PROVE CacheFollows'
  BY <1>3, WriteTold DEF CacheFollows
<1>4. ASSUME NEW j \in Job, PutProfile(j) PROVE CacheFollows'
  <2>1. CASE Write(job[j].put) /\ UNCHANGED failed
    BY <1>3, <1>4, <2>1 DEF PutProfile
  <2>2. CASE UNCHANGED pds /\ failed' = failed \cup {"record", "row"}
    BY <1>1, <1>4, <2>2 DEF PutProfile
  <2> QED
    BY <1>4, <2>1, <2>2 DEF PutProfile
<1>5. ASSUME NEW f \in Text \cup {"banner"}, Elsewhere(f) PROVE CacheFollows'
  BY <1>3, <1>5 DEF Elsewhere
<1>6. CASE DeleteRecord
  <2>1. commits' # <<>>
    <3>1. commits \in Seq({"write", "delete"}) /\ commits' = Append(commits, "delete")
      BY <1>6 DEF DeleteRecord, ProfileTypes
    <3> QED
      BY <3>1, LastKept
  <2> QED
    BY <2>1 DEF CacheFollows
<1>7. CASE HandleProfile
  <2>1. CASE commits' # <<>>
    BY <2>1 DEF CacheFollows
  <2>2. CASE commits' = <<>>
    BY <1>7, <2>2, LastCommit DEF CacheFollows
  <2> QED
    BY <2>1, <2>2
<1>8. CASE ProcessProfileRecord
  <2>1. CASE RecordProfile(worker, worker')
    <3>1. cache' = worker.copy /\ worker.pc = "fetched" /\ UNCHANGED <<commits, record, failed>>
      BY <1>8, <2>1 DEF ProcessProfileRecord, RecordProfile
    <3> QED
      BY <3>1 DEF Told, CacheFollows
  <2>2. CASE RecordProfile(refresh, refresh') /\ UNCHANGED worker
    <3>1. cache' = refresh.copy /\ refresh.pc = "fetched" /\ UNCHANGED <<commits, record, failed>>
      BY <1>8, <2>2 DEF ProcessProfileRecord, RecordProfile
    <3> QED
      BY <3>1 DEF SlowCopies, CacheFollows
  <2>3. CASE Emit(worker, worker') /\ UNCHANGED cache
    <3>1. worker.pc # "fetched" /\ UNCHANGED <<commits, record, failed>>
      BY <1>8, <2>3 DEF ProcessProfileRecord, Emit
    <3> QED
      BY <2>3, <3>1 DEF CacheFollows
  <2>4. CASE Emit(refresh, refresh') /\ UNCHANGED <<cache, worker>>
    BY <1>1, <1>8, <2>4 DEF ProcessProfileRecord
  <2> QED
    BY <1>8, <2>1, <2>2, <2>3, <2>4 DEF ProcessProfileRecord
<1>9. CASE RefreshProfile
  BY <1>1, <1>9 DEF RefreshProfile
<1>10. CASE ClearProfile
  BY <1>10 DEF ClearProfile, SlowCopies, CacheFollows
<1>11. CASE HandleProfileEvent \/ BackfillProfile \/ UpdateUserProfileFromPDS \/ UNCHANGED profileVars
  BY <1>1, <1>11 DEF HandleProfileEvent, BackfillProfile, UpdateUserProfileFromPDS, profileVars
<1> QED
  BY <1>2, <1>4, <1>5, <1>6, <1>7, <1>8, <1>9, <1>10, <1>11 DEF ProfileNext

\* Every step keeps the row on the record's heels.
LEMMA RowStep ==
  ASSUME ProfileTypes, TextPuts, Told, SlowCopies, RowFollows, [ProfileNext]_profileVars, ~raced'
  PROVE  RowFollows'
<1> USE DEF pds, relay, bounds, history
<1>0. events \in Seq(Copy) /\ record \in Copy /\ worker.copy \in Copy /\ refresh.copy \in Copy
  BY DEF ProfileTypes
<1>1. ASSUME NEW j \in Job, NEW fields, UpdateUser(j, fields) PROVE RowFollows'
  <2>1. job'[j].pc # "idle" /\ job'[j].op = "text"
    BY <1>1 DEF UpdateUser, Begin, ProfileTypes
  <2> QED
    BY <2>1 DEF RowFollows, RowComing
<1>2. ASSUME NEW j \in Job, NEW r, job' = [job EXCEPT ![j] = r], job[j].pc = "idle",
             UNCHANGED <<commits, worker, events, row, record>>, failed \subseteq failed'
      PROVE  RowFollows'
  <2>1. \A i \in Job : job[i].pc # "idle" /\ job[i].op = "text" => job'[i].pc # "idle" /\ job'[i].op = "text"
    BY <1>2 DEF ProfileTypes
  <2> QED
    BY <1>2, <2>1 DEF RowFollows, RowComing
<1>3. ASSUME NEW j \in Job, UploadAvatar(j) \/ DeleteAvatar(j) PROVE RowFollows'
  <2>1. PICK r : Begin(j, r)
    BY <1>3 DEF UploadAvatar, DeleteAvatar, AvatarRequest
  <2>2. UNCHANGED row
    BY <1>3 DEF UploadAvatar, DeleteAvatar, AvatarRequest
  <2> QED
    BY <1>2, <2>1, <2>2 DEF Begin
<1>4. ASSUME NEW j \in Job, NEW pc, NEW put, pc # "idle", Advance(j, pc, put),
             UNCHANGED <<commits, worker, events, row, record>>, failed \subseteq failed'
      PROVE  RowFollows'
  <2>1. \A i \in Job : job[i].pc # "idle" /\ job[i].op = "text" => job'[i].pc # "idle" /\ job'[i].op = "text"
    <3> TAKE i \in Job
    <3>1. CASE i = j
      BY <1>4, <3>1 DEF Advance, ProfileTypes, JobType
    <3>2. CASE i # j
      BY <1>4, <3>2 DEF Advance, ProfileTypes
    <3> QED
      BY <3>1, <3>2
  <2> QED
    BY <1>4, <2>1 DEF RowFollows, RowComing
<1>5. ASSUME NEW j \in Job, ExistingProfileBlobRefs(j) \/ GetUserByID(j) PROVE RowFollows'
  <2>1. PICK pc, put : pc # "idle" /\ Advance(j, pc, put)
    BY <1>5 DEF ExistingProfileBlobRefs, GetUserByID, Images
  <2>2. UNCHANGED <<commits, worker, events, row, record>> /\ failed \subseteq failed'
    BY <1>5 DEF ExistingProfileBlobRefs, GetUserByID
  <2> QED
    BY <1>4, <2>1, <2>2
<1>6. ASSUME NEW r, Write(r), failed \subseteq failed' PROVE RowFollows'
  <2>1. commits' # <<>>
    <3>1. commits \in Seq({"write", "delete"}) /\ commits' = Append(commits, "write")
      BY <1>6 DEF Write, ProfileTypes
    <3> QED
      BY <3>1, LastKept
  <2> QED
    BY <2>1 DEF RowFollows, RowComing
<1>7. ASSUME NEW j \in Job, PutProfile(j) PROVE RowFollows'
  <2>1. CASE Write(job[j].put) /\ UNCHANGED failed
    BY <1>6, <2>1
  <2>2. CASE failed' = failed \cup {"record", "row"}
    BY <2>2 DEF RowFollows
  <2> QED
    BY <1>7, <2>1, <2>2 DEF PutProfile
<1>8. ASSUME NEW j \in Job, UpdateUserAvatar(j) PROVE RowFollows'
  <2>1. job[j].pc = "cache" /\ job[j].put = record
    BY <1>8 DEF UpdateUserAvatar, SlowCopies
  <2>2. row = record => row' = row
    <3>1. row' = [row EXCEPT !.avatar = record.avatar]
      BY <1>8, <2>1 DEF UpdateUserAvatar
    <3> QED
      BY <1>0, <3>1 DEF Copy
  <2>3. UNCHANGED <<commits, worker, events, record, failed>>
    BY <1>8 DEF UpdateUserAvatar
  <2>4. CASE job[j].op # "text"
    <3>1. \A i \in Job : job[i].pc # "idle" /\ job[i].op = "text" => job'[i] = job[i]
      BY <1>8, <2>4 DEF UpdateUserAvatar, JobOver, ProfileTypes
    <3> QED
      BY <2>2, <2>3, <3>1 DEF RowFollows, RowComing
  <2>5. CASE job[j].op = "text"
    BY <2>1, <2>5, <1>8 DEF TextPuts
  <2> QED
    BY <2>4, <2>5
<1>9. ASSUME NEW f \in Text \cup {"banner"}, Elsewhere(f) PROVE RowFollows'
  BY <1>6, <1>9 DEF Elsewhere
<1>10. CASE DeleteRecord
  BY <1>10 DEF DeleteRecord, RowFollows
<1>11. CASE HandleProfile
  <2>1. CASE commits' # <<>>
    BY <2>1 DEF RowFollows, RowComing
  <2>2. CASE commits' = <<>>
    BY <1>11, <2>2, LastCommit DEF RowFollows, RowComing
  <2> QED
    BY <2>1, <2>2
<1>12. CASE ProcessProfileRecord
  <2>0. UNCHANGED <<commits, record, row, job, failed>>
    BY <1>12 DEF ProcessProfileRecord
  <2>1. ASSUME NEW e \in Copy, events' = Append(events, e)
        PROVE  events' # <<>> /\ events'[Len(events')] = e
    BY <1>0, <2>1, LastKept
  <2>2. CASE RecordProfile(worker, worker') /\ UNCHANGED events
    <3>1. worker.pc # "idle" /\ worker'.pc # "idle"
      BY <2>2 DEF RecordProfile, ProfileTypes
    <3> QED
      BY <2>0, <2>2, <3>1 DEF RowFollows, RowComing
  <2>3. CASE Emit(worker, worker')
    <3>1. worker.pc # "idle" /\ events' = Append(events, worker.copy)
      BY <2>3 DEF Emit
    <3>2. events' # <<>> /\ events'[Len(events')] = worker.copy
      BY <1>0, <2>1, <3>1
    <3> QED
      BY <2>0, <3>1, <3>2 DEF RowFollows, RowComing, Told
  <2>4. CASE RecordProfile(refresh, refresh') /\ UNCHANGED <<events, worker>>
    BY <2>0, <2>4 DEF RowFollows, RowComing
  <2>5. CASE Emit(refresh, refresh') /\ UNCHANGED worker
    <3>1. refresh.copy = record /\ events' = Append(events, refresh.copy)
      BY <2>5 DEF Emit, SlowCopies
    <3>2. events' # <<>> /\ events'[Len(events')] = record
      BY <1>0, <2>1, <3>1
    <3> QED
      BY <2>0, <3>2 DEF RowFollows, RowComing
  <2> QED
    BY <1>12, <2>2, <2>3, <2>4, <2>5 DEF ProcessProfileRecord
<1>13. ASSUME UNCHANGED <<record, commits, worker, job, events, row>>, failed \subseteq failed' PROVE RowFollows'
  BY <1>13 DEF RowFollows, RowComing
<1>14. CASE RefreshProfile \/ ClearProfile \/ BackfillProfile \/ UNCHANGED profileVars
  BY <1>13, <1>14 DEF RefreshProfile, ClearProfile, BackfillProfile, profileVars
<1>15. CASE HandleProfileEvent
  <2>1. /\ events # <<>> /\ row' = Head(events) /\ events' = Tail(events)
        /\ UNCHANGED <<commits, worker, record, job, failed>>
    BY <1>15 DEF HandleProfileEvent
  <2>2. /\ Head(events) = events[1]
        /\ events' # <<>> => events'[Len(events')] = events[Len(events)]
        /\ events' = <<>> => Len(events) = 1
    BY <1>0, <2>1, LastKept
  <2>3. CASE events[Len(events)] = record
    BY <2>1, <2>2, <2>3 DEF RowFollows, RowComing
  <2>4. CASE events[Len(events)] # record
    BY <2>1, <2>4 DEF RowFollows, RowComing
  <2> QED
    BY <2>3, <2>4
<1>16. CASE UpdateUserProfileFromPDS
  <2>1. row' = record /\ UNCHANGED <<record, commits, worker, job, events, failed>>
    BY <1>16 DEF UpdateUserProfileFromPDS, SlowCopies
  <2> QED
    BY <2>1 DEF RowFollows, RowComing
<1> QED
  BY <1>1, <1>3, <1>5, <1>7, <1>8, <1>9, <1>10, <1>11, <1>12, <1>14, <1>15, <1>16 DEF ProfileNext

\* What begins, if it waits for the edit before it, finds the copies alike.
LEMMA QuietStart ==
  ASSUME ProfileTypes, Copies, Waiting, failed = {}, ~hurried', NEW j \in Job, NEW r, Begin(j, r)
  PROVE  /\ \A i \in Job : job[i].pc = "idle"
         /\ record = asked /\ row = record /\ commits = <<>> /\ worker = Rest /\ events = <<>> /\ ~raced
         /\ \A i \in Job : job'[i] = IF i = j THEN r ELSE job[i]
         /\ UNCHANGED <<record, commits, worker, events, raced>>
<1>1. Quiet /\ ~raced
  BY DEF Begin
<1>2. (\A i \in Job : job[i].pc = "idle") /\ commits = <<>> /\ worker = Rest /\ events = <<>>
  BY <1>1 DEF Quiet
<1>3. row = record
  BY <1>1, <1>2 DEF Copies, RowFollows, RowComing, Rest
<1>4. record = asked
  BY <1>2 DEF Waiting
<1>5. \A i \in Job : job'[i] = IF i = j THEN r ELSE job[i]
  BY DEF Begin, ProfileTypes
<1> QED
  BY <1>1, <1>2, <1>3, <1>4, <1>5 DEF Begin, pds, relay

\* An edit that begins alone is pending, with the whole of what was asked for.
LEMMA BeginWaits ==
  ASSUME ProfileTypes, Copies, Waiting, failed = {}, ~hurried', NEW j \in Job,
         \/ \E fields \in (SUBSET Text) \ {{}} : UpdateUser(j, fields)
         \/ UploadAvatar(j) \/ DeleteAvatar(j)
  PROVE  Waiting'
<1>0. edits + 1 \in Nat /\ asked \in Copy /\ record \in Copy /\ row \in Copy
  BY CountersTyped DEF ProfileTypes
<1>1. ASSUME NEW r, Begin(j, r), r.pc = "refs", r.op # "none", Pending(j)' PROVE Waiting'
  <2>1. \A i \in Job : job[i].pc = "idle"
    BY <1>1, QuietStart
  <2>2. \A i \in Job : job'[i] = IF i = j THEN r ELSE job[i]
    BY <1>1, QuietStart
  <2>3. job'[j].pc = "refs" /\ job'[j].op # "none" /\ \A i \in Job : i # j => job'[i].pc = "idle"
    BY <1>1, <2>1, <2>2
  <2> QED
    BY <1>1, <2>3 DEF Waiting
<1>2. ASSUME NEW fields \in SUBSET Text, UpdateUser(j, fields) PROVE Waiting'
  <2>1. PICK r : r = [pc |-> "refs", op |-> "text", nr |-> edits + 1, put |-> row']
    OBVIOUS
  <2>2. r.pc = "refs" /\ r.op = "text" /\ r.put = row'
    BY <2>1
  <2>3. Begin(j, r)
    BY <1>2, <2>1 DEF UpdateUser
  <2>4. /\ record = asked /\ row = record /\ commits' = <<>> /\ worker' = Rest /\ ~raced' /\ record' = record
        /\ job'[j] = r
    BY <2>3, QuietStart
  <2>5. row' = asked'
    BY <1>2, <2>4 DEF UpdateUser
  <2>6. asked'["avatar"] = asked["avatar"] /\ asked'["banner"] = asked["banner"]
    <3>1. "avatar" \notin fields /\ "banner" \notin fields /\ {"avatar", "banner"} \subseteq Field
      <4>1. "avatar" \in {"avatar", "banner"} /\ "banner" \in {"avatar", "banner"}
        OBVIOUS
      <4>2. \A f \in Text : f \notin {"avatar", "banner"}
        BY ProfileAssumption
      <4> QED
        BY <4>1, <4>2, CopyFields
    <3> QED
      BY <1>2, <3>1 DEF UpdateUser
  <2>7. Pending(j)'
    BY <2>2, <2>4, <2>5, <2>6 DEF Pending
  <2> QED
    BY <1>1, <2>2, <2>3, <2>7
<1>3. ASSUME NEW op \in {"upload", "delete"}, AvatarRequest(j, op),
             asked' = [asked EXCEPT !.avatar = IF op = "upload" THEN edits + 1 ELSE 0]
      PROVE  Waiting'
  <2>1. PICK r : r = [pc |-> "refs", op |-> op, nr |-> edits + 1, put |-> Empty]
    OBVIOUS
  <2>2. r.pc = "refs" /\ r.op = op /\ r.nr = edits + 1
    BY <2>1
  <2>3. Begin(j, r) /\ row' = row
    BY <1>3, <2>1 DEF AvatarRequest
  <2>4. /\ record = asked /\ row = record /\ commits' = <<>> /\ worker' = Rest /\ ~raced' /\ record' = record
        /\ events' = <<>> /\ job'[j] = r
    BY <2>3, QuietStart
  <2>5. /\ \A f \in Field \ {"avatar"} : asked'[f] = asked[f]
        /\ asked'["avatar"] = IF op = "upload" THEN edits + 1 ELSE 0
    BY <1>0, <1>3, CopyFields DEF Copy
  <2>6. \A i \in 1..Len(events') : events'[i] = record'
    BY <2>4
  <2>7. Pending(j)'
    BY <2>2, <2>3, <2>4, <2>5, <2>6 DEF Pending
  <2> QED
    BY <1>1, <2>2, <2>3, <2>7
<1>4. CASE UploadAvatar(j)
  BY <1>3, <1>4 DEF UploadAvatar
<1>5. CASE DeleteAvatar(j)
  BY <1>3, <1>5 DEF DeleteAvatar
<1> QED
  BY <1>2, <1>4, <1>5

\* The one edit under way goes on.
LEMMA EditAlone ==
  ASSUME ProfileTypes, Waiting, NEW j \in Job, job[j].pc # "idle"
  PROVE  /\ \A i \in Job : i # j => job[i].pc = "idle"
         /\ job[j].op \in {"text", "upload", "delete"} /\ job[j] \in JobType
         /\ job[j].pc \in {"refs", "user", "put"} => Pending(j)
         /\ job[j].pc = "cache" => record = asked
<1>1. job[j] \in JobType
  BY DEF ProfileTypes
<1>2. \A i \in Job : i # j => job[i].pc = "idle"
  BY DEF Waiting
<1> QED
  BY <1>1, <1>2 DEF Waiting, JobType

\* The edit takes the images, the row and its turn at the PDS, in that order, and
\* what it puts is what was asked for.
LEMMA EditWaits ==
  ASSUME ProfileTypes, Waiting, failed' = {}, NEW j \in Job,
         ExistingProfileBlobRefs(j) \/ GetUserByID(j) \/ PutProfile(j) \/ UpdateUserAvatar(j)
  PROVE  Waiting'
<1> USE DEF pds, relay, bounds, history
<1>0. /\ asked \in Copy /\ record \in Copy /\ row \in Copy
      /\ {"avatar", "banner"} \subseteq Field
  BY CopyFields DEF ProfileTypes
<1>1. job[j].pc # "idle"
  BY DEF ExistingProfileBlobRefs, GetUserByID, PutProfile, UpdateUserAvatar
<1>2. /\ \A i \in Job : i # j => job[i].pc = "idle"
      /\ job[j].op \in {"text", "upload", "delete"} /\ job[j] \in JobType
      /\ job[j].pc \in {"refs", "user", "put"} => Pending(j)
      /\ job[j].pc = "cache" => record = asked
  BY <1>1, EditAlone
<1>3. ASSUME NEW pc, NEW put, Advance(j, pc, put)
      PROVE  /\ job'[j].pc = pc /\ job'[j].put = put /\ job'[j].op = job[j].op /\ job'[j].nr = job[j].nr
             /\ \A i \in Job : i # j => job'[i].pc = "idle"
  <2>1. \A i \in Job : i # j => job'[i] = job[i]
    BY <1>3 DEF Advance, ProfileTypes
  <2> QED
    BY <1>2, <1>3, <2>1 DEF Advance, ProfileTypes, JobType
<1>4. ASSUME NEW pc \in {"user", "put"}, NEW put, Advance(j, pc, put), Pending(j)' PROVE Waiting'
  BY <1>2, <1>3, <1>4 DEF Waiting
<1>5. ASSUME JobOver(j), record' = asked' PROVE Waiting'
  <2>1. \A i \in Job : job'[i].pc = "idle"
    BY <1>2, <1>5 DEF JobOver, NoJob, ProfileTypes
  <2> QED
    BY <1>5, <2>1 DEF Waiting
<1>6. CASE ExistingProfileBlobRefs(j)
  <2>1. Pending(j)
    BY <1>2, <1>6 DEF ExistingProfileBlobRefs
  <2>2. Images(j, record.avatar, record.banner) /\ UNCHANGED <<record, commits, worker, row, events, asked, raced>>
    BY <1>6 DEF ExistingProfileBlobRefs
  <2>3. PICK new : new = [job[j].put EXCEPT !.avatar = record.avatar, !.banner = record.banner]
    OBVIOUS
  <2>4. CASE job[j].op = "text"
    <3>1. job[j].put = asked /\ record["avatar"] = asked["avatar"] /\ record["banner"] = asked["banner"]
      BY <2>1, <2>4 DEF Pending
    <3>2. new = asked
      BY <1>0, <2>3, <3>1 DEF Copy
    <3>3. Advance(j, "put", new)
      BY <2>2, <2>3, <2>4 DEF Images
    <3>4. job'[j].pc = "put" /\ job'[j].put = asked /\ job'[j].op = "text"
      BY <1>3, <2>4, <3>2, <3>3
    <3>5. Pending(j)'
      BY <2>1, <2>2, <3>1, <3>4 DEF Pending
    <3> QED
      BY <1>4, <3>3, <3>5
  <2>5. CASE job[j].op \in {"upload", "delete"}
    <3>1. job[j].put \in Copy
      BY <1>2 DEF JobType
    <3>2. new["banner"] = record["banner"]
      BY <1>0, <2>3, <3>1 DEF Copy
    <3>3. Advance(j, "user", new)
      BY <2>2, <2>3, <2>5 DEF Images
    <3>4. /\ job'[j].pc = "user" /\ job'[j].put["banner"] = record["banner"] /\ job'[j].op = job[j].op
          /\ job'[j].nr = job[j].nr
      BY <1>3, <3>2, <3>3
    <3>5. Pending(j)'
      BY <2>1, <2>2, <2>5, <3>4 DEF Pending
    <3> QED
      BY <1>4, <3>3, <3>5
  <2> QED
    BY <1>2, <2>4, <2>5
<1>7. CASE GetUserByID(j)
  <2>1. Pending(j) /\ job[j].pc = "user"
    BY <1>2, <1>7 DEF GetUserByID
  <2>2. job[j].op \in {"upload", "delete"}
    BY <1>2, <2>1 DEF Pending
  <2>3. /\ row = record /\ \A f \in Field \ {"avatar"} : record[f] = asked[f]
        /\ asked["avatar"] = IF job[j].op = "upload" THEN job[j].nr ELSE 0
        /\ job[j].put["banner"] = record["banner"]
    BY <2>1, <2>2 DEF Pending
  <2>4. PICK new : new = [row EXCEPT !.avatar = IF job[j].op = "upload" THEN job[j].nr ELSE 0, !.banner = job[j].put.banner]
    OBVIOUS
  <2>5. new = asked
    <3>1. PICK a, b : a = asked["avatar"] /\ b = asked["banner"]
      OBVIOUS
    <3>2. new = [row EXCEPT !.avatar = a, !.banner = b]
      BY <1>0, <2>3, <2>4, <3>1
    <3>3. \A f \in Field : [row EXCEPT !.avatar = a, !.banner = b][f] = asked[f]
      BY <1>0, <2>3, <3>1 DEF Copy
    <3>4. new \in [Field -> Nat] /\ asked \in [Field -> Nat]
      BY <1>0, <3>1, <3>2, CopyFields DEF Copy
    <3> QED
      BY <3>2, <3>3, <3>4
  <2>6. Advance(j, "put", new) /\ UNCHANGED <<record, commits, worker, row, events, asked, raced>>
    BY <1>7, <2>4 DEF GetUserByID
  <2>7. job'[j].pc = "put" /\ job'[j].put = asked /\ job'[j].op = job[j].op /\ job'[j].nr = job[j].nr
    BY <1>3, <2>5, <2>6
  <2>8. Pending(j)'
    BY <2>1, <2>2, <2>6, <2>7 DEF Pending
  <2> QED
    BY <1>4, <2>6, <2>8
<1>8. CASE PutProfile(j)
  <2>1. Pending(j) /\ job[j].pc = "put"
    BY <1>2, <1>8 DEF PutProfile
  <2>2. job[j].put = asked
    BY <1>2, <2>1 DEF Pending
  <2>3. record' = asked' /\ (JobOver(j) \/ Advance(j, "cache", job[j].put))
    BY <1>8, <2>2 DEF PutProfile, Write
  <2>4. CASE Advance(j, "cache", job[j].put)
    <3>1. job'[j].pc = "cache" /\ job'[j].op = job[j].op /\ \A i \in Job : i # j => job'[i].pc = "idle"
      BY <1>3, <2>4
    <3> QED
      BY <1>2, <2>3, <3>1 DEF Waiting
  <2> QED
    BY <1>5, <2>3, <2>4
<1>9. CASE UpdateUserAvatar(j)
  BY <1>2, <1>5, <1>9 DEF UpdateUserAvatar
<1> QED
  BY <1>6, <1>7, <1>8, <1>9

\* No step elsewhere disturbs an edit under way, or it was not waited for.
LEMMA WaitingStep ==
  ASSUME ProfileTypes, Copies, Waiting, failed = {}, failed' = {}, ~hurried', [ProfileNext]_profileVars
  PROVE  Waiting'
<1> USE DEF pds, relay, bounds, history
<1>0. /\ asked \in Copy /\ record \in Copy /\ events \in Seq(Copy) /\ refresh.copy \in Copy
      /\ \A j \in Job : job[j] \in JobType
  BY DEF ProfileTypes
<1>1. ASSUME NEW j \in Job,
             \/ \E fields \in (SUBSET Text) \ {{}} : UpdateUser(j, fields)
             \/ UploadAvatar(j) \/ DeleteAvatar(j)
      PROVE  Waiting'
  BY <1>1, BeginWaits
<1>2. ASSUME NEW j \in Job, ExistingProfileBlobRefs(j) \/ GetUserByID(j) \/ PutProfile(j) \/ UpdateUserAvatar(j)
      PROVE  Waiting'
  BY <1>2, EditWaits
<1>3. ASSUME UNCHANGED <<job, record, asked>>, \A j \in Job : job[j].pc \in {"refs", "user", "put"} => Pending(j)'
      PROVE  Waiting'
  BY <1>3 DEF Waiting
<1>4. ASSUME UNCHANGED <<job, record, asked, raced, commits, worker, row, events>> PROVE Waiting'
  <2>1. \A j \in Job : Pending(j)' <=> Pending(j)
    BY <1>4 DEF Pending
  <2> QED
    BY <1>3, <1>4, <2>1 DEF Waiting
<1>5. ASSUME NEW f \in Text \cup {"banner"}, Elsewhere(f) PROVE Waiting'
  <2>1. \A j \in Job : job[j].pc = "idle" /\ job'[j].pc = "idle"
    BY <1>5 DEF Elsewhere, Quiet
  <2>2. record = asked
    BY <2>1 DEF Waiting
  <2>3. record' = asked'
    BY <1>5, <2>2 DEF Elsewhere, Write
  <2> QED
    BY <2>1, <2>3 DEF Waiting
<1>6. CASE DeleteRecord
  BY <1>6 DEF DeleteRecord
<1>7. CASE HandleProfile
  <2>1. commits # <<>> /\ UNCHANGED <<job, record, asked>>
    BY <1>7 DEF HandleProfile
  <2>2. \A j \in Job : job[j].pc \notin {"refs", "user", "put"}
    BY <2>1 DEF Waiting, Pending
  <2> QED
    BY <1>3, <2>1, <2>2
<1>8. CASE ProcessProfileRecord
  <2>1. UNCHANGED <<job, record, asked, raced, commits, row>>
    BY <1>8 DEF ProcessProfileRecord
  <2>2. ASSUME NEW j \in Job, job[j].pc \in {"refs", "user", "put"} PROVE Pending(j)'
    <3>1. Pending(j)
      BY <2>2 DEF Waiting
    <3>2. worker.pc = "idle" /\ ~raced
      BY <3>1 DEF Pending, Rest
    <3>3. worker' = worker /\ (events' = events \/ (events' = Append(events, refresh.copy) /\ refresh.copy = record))
      BY <1>8, <3>2 DEF ProcessProfileRecord, RecordProfile, Emit, Copies, SlowCopies
    <3>4. (\A i \in 1..Len(events) : events[i] = record) => \A i \in 1..Len(events') : events'[i] = record
      <4>1. CASE events' = events
        BY <4>1
      <4>2. CASE events' = Append(events, record)
        <5>1. /\ Len(events') = Len(events) + 1 /\ events'[Len(events')] = record /\ Len(events) \in Nat
              /\ \A i \in 1..Len(events) : events'[i] = events[i]
          BY <1>0, <4>2, LastKept
        <5>2. \A i \in 1..Len(events') : i \in 1..Len(events) \/ i = Len(events')
          BY <5>1
        <5> QED
          BY <5>1, <5>2
      <4> QED
        BY <3>3, <4>1, <4>2
    <3> QED
      BY <2>1, <3>1, <3>3, <3>4 DEF Pending
  <2> QED
    BY <1>3, <2>1, <2>2
<1>9. CASE RefreshProfile \/ ClearProfile \/ BackfillProfile \/ UNCHANGED profileVars
  BY <1>4, <1>9 DEF RefreshProfile, ClearProfile, BackfillProfile, profileVars
<1>10. CASE HandleProfileEvent
  <2>1. /\ events # <<>> /\ row' = Head(events) /\ events' = Tail(events)
        /\ UNCHANGED <<job, record, asked, raced, commits, worker>>
    BY <1>10 DEF HandleProfileEvent
  <2>2. /\ Head(events) = events[1] /\ 1 \in 1..Len(events)
        /\ \A i \in 1..Len(events') : events'[i] = events[i + 1] /\ i + 1 \in 1..Len(events)
    BY <1>0, <2>1, LastKept
  <2>3. \A j \in Job : Pending(j) => Pending(j)'
    BY <2>1, <2>2 DEF Pending
  <2> QED
    BY <1>3, <2>1, <2>3 DEF Waiting
<1>11. CASE UpdateUserProfileFromPDS
  <2>1. /\ pull.pc = "fetched" /\ row' = pull.copy
        /\ UNCHANGED <<job, record, asked, raced, commits, worker, events>>
    BY <1>11 DEF UpdateUserProfileFromPDS
  <2>2. ~raced => row' = record
    BY <2>1 DEF Copies, SlowCopies
  <2>3. \A j \in Job : Pending(j) => Pending(j)'
    BY <2>1, <2>2 DEF Pending
  <2> QED
    BY <1>3, <2>1, <2>3 DEF Waiting
<1> QED
  BY <1>1, <1>2, <1>5, <1>6, <1>7, <1>8, <1>9, <1>10, <1>11 DEF ProfileNext

\* What is once so stays so: an overtaken copy, a fault, a hurried edit.
LEMMA HistoryGrows ==
  ASSUME ProfileTypes, [ProfileNext]_profileVars
  PROVE  (~raced' => ~raced) /\ (~hurried' => ~hurried) /\ failed \subseteq failed'
<1> USE DEF pds, relay, bounds, history
<1>1. ASSUME NEW j \in Job,
             \/ \E fields \in (SUBSET Text) \ {{}} : UpdateUser(j, fields)
             \/ UploadAvatar(j) \/ DeleteAvatar(j)
      PROVE  (~raced' => ~raced) /\ (~hurried' => ~hurried) /\ failed \subseteq failed'
  <2>1. PICK r : Begin(j, r)
    BY <1>1, Begun
  <2>2. (~raced' => ~raced) /\ failed \subseteq failed'
    BY <2>1 DEF Begin
  <2>3. ~hurried' => ~hurried
    BY <2>1 DEF Begin
  <2> QED
    BY <2>2, <2>3
<1>2. ASSUME NEW j \in Job, ExistingProfileBlobRefs(j) \/ GetUserByID(j) \/ PutProfile(j) \/ UpdateUserAvatar(j)
      PROVE  (~raced' => ~raced) /\ (~hurried' => ~hurried) /\ failed \subseteq failed'
  <2>1. failed \subseteq failed'
    BY <1>2 DEF ExistingProfileBlobRefs, GetUserByID, PutProfile, UpdateUserAvatar
  <2>2. UNCHANGED hurried
    BY <1>2 DEF ExistingProfileBlobRefs, GetUserByID, PutProfile, UpdateUserAvatar
  <2>3. UNCHANGED raced \/ \E r : Write(r)
    BY <1>2 DEF ExistingProfileBlobRefs, GetUserByID, PutProfile, UpdateUserAvatar
  <2>4. ~raced' => ~raced
    BY <2>3 DEF Write
  <2> QED
    BY <2>1, <2>2, <2>4
<1>3. ASSUME NEW f, Elsewhere(f)
      PROVE  (~raced' => ~raced) /\ (~hurried' => ~hurried) /\ failed \subseteq failed'
  <2>1. ~raced' => ~raced
    BY <1>3 DEF Elsewhere, Write
  <2>2. ~hurried' => ~hurried
    BY <1>3 DEF Elsewhere
  <2> QED
    BY <1>3, <2>1, <2>2 DEF Elsewhere
<1>4. CASE DeleteRecord
  <2>1. ~raced' => ~raced
    BY <1>4 DEF DeleteRecord
  <2>2. ~hurried' => ~hurried
    BY <1>4 DEF DeleteRecord
  <2> QED
    BY <1>4, <2>1, <2>2 DEF DeleteRecord
<1>5. CASE HandleProfile \/ ProcessProfileRecord \/ RefreshProfile \/ ClearProfile \/ HandleProfileEvent
           \/ BackfillProfile \/ UpdateUserProfileFromPDS \/ UNCHANGED profileVars
  <2>1. UNCHANGED <<raced, hurried>> /\ failed \subseteq failed'
    BY <1>5 DEF HandleProfile, ProcessProfileRecord, RefreshProfile, ClearProfile,
                HandleProfileEvent, BackfillProfile, UpdateUserProfileFromPDS, profileVars
  <2> QED
    BY <2>1
<1> QED
  BY <1>1, <1>2, <1>3, <1>4, <1>5 DEF ProfileNext

\* Every step keeps the invariant.
LEMMA ProfileInvStep == ProfileInv /\ [ProfileNext]_profileVars => ProfileInv'
<1> SUFFICES ASSUME ProfileInv, [ProfileNext]_profileVars PROVE ProfileInv'
  OBVIOUS
<1>1. ProfileTypes /\ TextPuts /\ Told /\ Copies /\ Unhurried
  BY DEF ProfileInv
<1>2. ProfileTypes' /\ TextPuts' /\ Told'
  BY <1>1, ProfileStepTypes, TextPutsStep, ToldStep
<1>3. (~raced' => ~raced) /\ (~hurried' => ~hurried) /\ failed \subseteq failed'
  BY <1>1, HistoryGrows
<1>4. Copies'
  <2> SUFFICES ASSUME ~raced' PROVE SlowCopies' /\ CacheFollows' /\ RowFollows'
    BY DEF Copies
  <2>1. SlowCopies /\ CacheFollows /\ RowFollows
    BY <1>1, <1>3 DEF Copies
  <2> QED
    BY <1>1, <2>1, SlowCopiesStep, CacheStep, RowStep
<1>5. Unhurried'
  <2> SUFFICES ASSUME ~hurried', failed' = {} PROVE Waiting'
    BY DEF Unhurried
  <2>1. failed = {} /\ Waiting
    BY <1>1, <1>3 DEF Unhurried
  <2> QED
    BY <1>1, <2>1, WaitingStep
<1> QED
  BY <1>2, <1>4, <1>5 DEF ProfileInv

\* The invariant holds of every state.
LEMMA ProfileInvariant == ProfileSpec => []ProfileInv
<1>1. ProfileInit => ProfileInv
  <2> SUFFICES ASSUME ProfileInit PROVE ProfileInv
    OBVIOUS
  <2>1. ProfileTypes
    BY ProfileInitTypes
  <2>2. TextPuts /\ Told
    BY DEF ProfileInit, TextPuts, Told, NoJob, Rest
  <2>3. Copies
    BY DEF ProfileInit, Copies, SlowCopies, CacheFollows, RowFollows, NoJob, Rest
  <2>4. Unhurried
    BY DEF ProfileInit, Unhurried, Waiting, NoJob
  <2> QED
    BY <2>1, <2>2, <2>3, <2>4 DEF ProfileInv
<1> QED
  BY <1>1, ProfileInvStep, PTL DEF ProfileSpec

\* The record, its copies and the edits under way have the types of the code.
THEOREM ProfileTypesKept == ProfileSpec => []ProfileTypes
<1>1. ProfileInv => ProfileTypes
  BY DEF ProfileInv
<1> QED
  BY <1>1, ProfileInvariant, PTL

\* When nothing is under way the relay's copy and the row are the record on the
\* PDS, whatever edits, commits, refreshes and pulls overlapped: unless a write
\* overtook a slow copy, or a fault or a removed record left that copy behind.
THEOREM CopiesDoAgree == ProfileSpec => []CopiesAgree
<1>1. ProfileInv => CopiesAgree
  <2> SUFFICES ASSUME ProfileInv, Settled, ~raced
               PROVE  ("cache" \notin failed => cache = record) /\ ("row" \notin failed => row = record)
    BY DEF CopiesAgree
  <2>1. (\A j \in Job : job[j].pc = "idle") /\ commits = <<>> /\ worker.pc = "idle" /\ events = <<>>
    BY DEF Settled, Quiet, Rest
  <2> QED
    BY <2>1 DEF ProfileInv, Copies, CacheFollows, RowFollows, RowComing
<1> QED
  BY <1>1, ProfileInvariant, PTL

\* Every field of the record has the value it was last given, here or by another
\* client, though each put replaces all four and takes them from three places: for
\* edits that wait for the echo of the one before and meet no fault.
THEOREM LastEditIsKept == ProfileSpec => []LastEditKept
<1>1. ProfileInv => LastEditKept
  BY DEF ProfileInv, LastEditKept, Unhurried, Waiting, Settled, Quiet
<1> QED
  BY <1>1, ProfileInvariant, PTL
=============================================================================
