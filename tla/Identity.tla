------------------------------ MODULE Identity ------------------------------
(* Handles and the accounts behind them: who holds a handle on the network,    *)
(* which account the relay and the API have for it, and the follows and        *)
(* searches of one user, which go by handle.                                   *)
(*                                                                             *)
(* An account signs in, takes another handle on its PDS or a nick here, is     *)
(* announced by this instance or another, or is deleted here.  A request to    *)
(* follow or unfollow looks the handle up several times, in the handler, at    *)
(* the relay and in the goroutine that writes the record, and other steps come *)
(* in between.  The user asks for the next one when the echo of the last has   *)
(* come back; RecordSync has what happens otherwise, for a fixed followee.     *)
(*                                                                             *)
(* NoHandle is the empty handle, of which the unique indices take no notice.   *)
EXTENDS Integers, FiniteSets

CONSTANTS
  Account,     \* accounts of the network, by DID
  Me,          \* the user of this instance
  Handle,      \* handles of the network
  Nick,        \* handles that only this instance gives: they have no dot
  NoHandle,
  Query,       \* searches, by what they match: [here, there, names], see SearchUsers
  Limit,       \* how many results a search may ask for
  MaxRequests, \* bound: follows and unfollows asked for
  MaxChanges   \* bound: steps of the environment

ASSUME IdentityAssumption ==
  /\ IsFiniteSet(Account) /\ Me \in Account /\ NoHandle \notin Handle \cup Nick /\ Handle \cap Nick = {}
  /\ Query \subseteq [here : SUBSET (Handle \cup Nick), there : SUBSET (Handle \cup Nick), names : SUBSET Account]
  /\ Limit \subseteq Nat \ {0}
  /\ MaxRequests \in Nat /\ MaxChanges \in Nat

VARIABLES
  holds,    \* the handle of each account on its PDS
  tracked,  \* relay: tracked_dids, [on, handle]
  users,    \* API: users, [on, handle]
  signed,   \* API: accounts that have a session
  pending,  \* announcements on their way to the relay: <<account, handle>>
  follows,  \* user_follows of Me: [on, rkey], rkey 0 being NULL
  records,  \* follow records of Me: [rkey, subject]
  echo,     \* what the relay saw of them and the API has not handled, at most one
  req,      \* the request under way, to the end of its goroutine
  requests, \* records and requests so far number the rkeys
  changes

\* History.
VARIABLES
  crossed,  \* a row changed hands over the handle of the request under way
  leftover  \* accounts deleted here while their follow record stays

net == <<holds, tracked, pending>>
mine == <<follows, records, echo>>
identityVars == <<holds, tracked, users, signed, pending, follows, records, echo, req, requests,
          changes, crossed, leftover>>

NoRow == [on |-> FALSE, handle |-> NoHandle]
NotFollowed == [on |-> FALSE, rkey |-> 0]
NoReq == [pc |-> "idle", handle |-> NoHandle, who |-> Me, known |-> FALSE, rkey |-> 0, subject |-> Me]
NoEcho == [op |-> "none", rkey |-> 0, subject |-> Me]

\* SELECT ... WHERE handle = h, of users or of tracked_dids.
Named(table, h) == {d \in Account : table[d].on /\ table[d].handle = h}

\* Whether the unique index lets d have h.
Free(table, d, h) == h = NoHandle \/ Named(table, h) \subseteq {d}

IdentityInit ==
  /\ holds \in {f \in [Account -> Handle] : \A d, e \in Account : f[d] = f[e] => d = e}
  /\ tracked = [d \in Account |-> [on |-> TRUE, handle |-> holds[d]]]
  /\ users = [d \in Account |-> IF d = Me THEN [on |-> TRUE, handle |-> holds[d]] ELSE NoRow]
  /\ signed = {Me} /\ pending = {}
  /\ follows = [d \in Account |-> NotFollowed] /\ records = {} /\ echo = NoEcho
  /\ req = NoReq /\ requests = 0 /\ changes = 0
  /\ crossed = FALSE /\ leftover = {}

Changes == changes < MaxChanges /\ changes' = changes + 1

\* Row d of users has handle h from now on.
SetHandle(d, h) ==
  /\ users' = [users EXCEPT ![d] = [on |-> TRUE, handle |-> h]]
  /\ crossed' = (crossed \/ (req.handle # NoHandle /\ req.handle \in {h, users[d].handle}))

-----------------------------------------------------------------------------
(* Accounts come, move and go                                                  *)

Move(d, h) ==
  /\ Changes
  /\ h # holds[d] /\ (h = NoHandle \/ \A e \in Account : holds[e] # h)
  /\ holds' = [holds EXCEPT ![d] = h]
  /\ UNCHANGED <<tracked, users, signed, pending, mine, req, requests, crossed, leftover>>

\* The handle of an account that is known here is only refreshed if no other row
\* has it, which is logged; a new account is then refused.
GetOrCreateUserByDID(d, h) ==
  \/ /\ users[d].on
     /\ IF h # NoHandle /\ Free(users, d, h) THEN SetHandle(d, h) ELSE UNCHANGED <<users, crossed>>
  \/ ~users[d].on /\ Free(users, d, h) /\ SetHandle(d, h)

\* The PDS is asked for the handle, and may not answer.
HandleCallback(d) ==
  /\ Changes
  /\ \E h \in {holds[d], NoHandle} :
       /\ GetOrCreateUserByDID(d, h)
       /\ pending' = pending \cup {<<d, h>>}
  /\ signed' = signed \cup {d}
  /\ UNCHANGED <<holds, tracked, mine, req, requests, leftover>>

UpsertHandle(d, n) ==
  /\ Changes
  /\ d \in signed /\ users[d].on /\ Free(users, d, n)
  /\ SetHandle(d, n)
  /\ UNCHANGED <<net, signed, mine, req, requests, leftover>>

\* ON DELETE CASCADE takes the follows; the user's own records are never touched.
DeleteUser(d) ==
  /\ Changes
  /\ d \in signed \ {Me} /\ users[d].on
  /\ users' = [users EXCEPT ![d] = NoRow]
  /\ signed' = signed \ {d}
  /\ follows' = [follows EXCEPT ![d] = NotFollowed]
  /\ leftover' = leftover \cup {d}
  /\ crossed' = (crossed \/ req.pc # "idle")
  /\ UNCHANGED <<net, records, echo, req, requests>>

ListUsersWithATProto == {<<d, users[d].handle>> : d \in {e \in Account : users[e].on}}

\* On every connection to the relay: every account with a pds_url, a followed
\* stub too, with the handle its row happens to have.
AnnounceTrackedDIDs ==
  /\ Changes
  /\ pending' = pending \cup ListUsersWithATProto
  /\ UNCHANGED <<holds, tracked, users, signed, mine, req, requests, crossed, leftover>>

AnnouncedElsewhere(d) ==
  /\ Changes
  /\ pending' = pending \cup {<<d, holds[d]>>}
  /\ UNCHANGED <<holds, tracked, users, signed, mine, req, requests, crossed, leftover>>

\* Any other row that has the handle loses it.  An empty handle is written too.
UpsertTrackedDID(d, h) ==
  tracked' = [e \in Account |->
    IF e = d THEN [on |-> TRUE, handle |-> h]
    ELSE IF h # NoHandle /\ tracked[e].handle = h THEN [tracked[e] EXCEPT !.handle = NoHandle]
    ELSE tracked[e]]

\* An announcement arrives, or is lost.
HandleAnnounceUser ==
  /\ \E a \in pending :
       /\ pending' = pending \ {a}
       /\ UpsertTrackedDID(a[1], a[2]) \/ UNCHANGED tracked
  /\ UNCHANGED <<holds, users, signed, mine, req, requests, changes, crossed, leftover>>

-----------------------------------------------------------------------------
(* Looking a handle up                                                         *)

GetProfileByHandle(h) == Named(users, h)

\* What the relay answers: an account, or that it knows none.
ResolveHandle(h) == Named(tracked, h)

WellKnownATProtoDID(h) == GetProfileByHandle(h)

\* Whom d follows and who follows d, as far as the follows are those of Me.
ListFollowing(d) == IF d = Me THEN {e \in Account : follows[e].on} ELSE {}
ListFollowers(d) == IF follows[d].on THEN {Me} ELSE {}

\* The page of a handle: whose it is, and what it says of following.
GetUserProfile(h) ==
  {[who |-> d, isFollowing |-> follows[d].on, followers |-> Cardinality(ListFollowers(d))] :
     d \in GetProfileByHandle(h)}

\* The lists behind that page, by handle.
ListUserFollowing(h) == UNION {ListFollowing(d) : d \in GetProfileByHandle(h)}
ListUserFollowers(h) == UNION {ListFollowers(d) : d \in GetProfileByHandle(h)}

\* A search finds nobody without a handle.
Searchable(table) == {d \in Account : table[d].on /\ table[d].handle # NoHandle}

\* The API matches the query, trimmed and escaped, with handles and display names,
\* and finds everybody but the viewer: [handle, who, isFollowing].
SearchUsers(q) ==
  {[handle |-> users[d].handle, who |-> d, isFollowing |-> follows[d].on] :
     d \in {e \in Searchable(users) \ {Me} : users[e].handle \in q.here \/ e \in q.names}}

\* The relay matches it as it is with handles, and knows of no follows.
SearchDIDs(q) ==
  {[handle |-> tracked[d].handle, who |-> d, isFollowing |-> FALSE] :
     d \in {e \in Searchable(tracked) : tracked[e].handle \in q.there}}

\* Nothing, if the relay does not answer.
RelaySearchDIDs(q, up) == IF up THEN SearchDIDs(q) ELSE {}

\* The LIMIT of a statement, whatever its order.
Page(rows, n) ==
  {page \in SUBSET rows : Cardinality(page) = n \/ (page = rows /\ Cardinality(rows) < n)}

\* Mutation of Search: the results of the relay are not compared with those of the
\* table.
SearchBoth(q, limit, up) ==
  UNION {{local \cup {r \in remote : r.handle # users[Me].handle} :
            remote \in Page(RelaySearchDIDs(q, up), limit - Cardinality(local))} :
         local \in Page(SearchUsers(q), limit)}

\* What the viewer may be answered.  The relay is asked for what is left of the limit,
\* and its results follow but for handles that were listed and the viewer's.
Search(q, limit, up) ==
  UNION {{local \cup {r \in remote : r.handle # users[Me].handle /\ \A l \in local : l.handle # r.handle} :
            remote \in Page(RelaySearchDIDs(q, up), limit - Cardinality(local))} :
         local \in Page(SearchUsers(q), limit)}

-----------------------------------------------------------------------------
(* Follow and unfollow, with the goroutine that writes the record              *)

Ask(h, pc) ==
  /\ req.pc = "idle" /\ echo = NoEcho
  /\ requests < MaxRequests /\ requests' = requests + 1
  /\ req' = [NoReq EXCEPT !.pc = pc, !.handle = h]
  /\ UNCHANGED <<net, users, signed, mine, changes, crossed, leftover>>

\* Whom somebody follows: a result of the search, or any handle.
Follow == \E h \in Handle \cup Nick : Ask(h, "lookup")
Unfollow == \E h \in {users[d].handle : d \in ListFollowing(Me)} : h # NoHandle /\ Ask(h, "unfollow")

Go(pc) == req' = [req EXCEPT !.pc = pc]
Over == req' = NoReq

\* INSERT of the row.
FollowUser(d) ==
  /\ d # Me /\ ~follows[d].on
  /\ follows' = [follows EXCEPT ![d] = [on |-> TRUE, rkey |-> 0]]

\* By the local row, and if there is none by the relay.
Lookup ==
  /\ req.pc = "lookup"
  /\ \/ /\ GetProfileByHandle(req.handle) = {} /\ Go("resolve")
        /\ UNCHANGED <<follows, leftover>>
     \/ \E d \in GetProfileByHandle(req.handle) :
          \/ FollowUser(d) /\ Go("profile") /\ UNCHANGED leftover
          \/ (d = Me \/ follows[d].on) /\ Over /\ UNCHANGED <<follows, leftover>>
  /\ UNCHANGED <<net, users, signed, records, echo, requests, changes, crossed>>

Resolve ==
  /\ req.pc = "resolve"
  /\ \/ \E d \in ResolveHandle(req.handle) :
          req' = [req EXCEPT !.pc = "create", !.who = d, !.known = TRUE]
     \/ Over
  /\ UNCHANGED <<net, users, signed, mine, requests, changes, crossed, leftover>>

\* The handle the relay has for it replaces that of an account known here.  Refused
\* when another row has got the handle meanwhile.
CreateRemoteUser ==
  /\ req.pc = "create"
  /\ IF Free(users, req.who, req.handle)
     THEN /\ users' = [users EXCEPT ![req.who] = [on |-> TRUE, handle |-> req.handle]]
          /\ Go("again")
     ELSE Over /\ UNCHANGED users
  /\ UNCHANGED <<net, signed, mine, requests, changes, crossed, leftover>>

\* By the handle once more; the goroutine is given the account that was created.
FollowCreated ==
  /\ req.pc = "again"
  /\ \/ \E d \in GetProfileByHandle(req.handle) : FollowUser(d) /\ Go("subject")
     \/ /\ \A d \in GetProfileByHandle(req.handle) : d = Me \/ follows[d].on
        /\ Over /\ UNCHANGED follows
  /\ UNCHANGED <<net, users, signed, records, echo, requests, changes, crossed, leftover>>

\* Whose row is to get the rkey: by the handle, or nobody's.
ResolveFollowee ==
  /\ req.pc \in {"profile", "unfollow"}
  /\ LET next == IF req.pc = "profile" THEN "subject" ELSE "rkey" IN
     \/ \E d \in GetProfileByHandle(req.handle) :
          req' = [req EXCEPT !.pc = next, !.who = d, !.known = TRUE]
     \/ GetProfileByHandle(req.handle) = {} /\ Go(next)
  /\ UNCHANGED <<net, users, signed, mine, requests, changes, crossed, leftover>>

\* Mutation of GetFollowATProtoRkey: left to the goroutine.
RkeyLater ==
  /\ req.pc = "rkey"
  /\ Go("drop")
  /\ UNCHANGED <<net, users, signed, mine, requests, changes, crossed, leftover>>

\* The rkey is read before the row goes.
GetFollowATProtoRkey ==
  /\ req.pc = "rkey"
  /\ req' = [req EXCEPT !.pc = "drop", !.rkey = IF req.known THEN follows[req.who].rkey ELSE 0]
  /\ UNCHANGED <<net, users, signed, mine, requests, changes, crossed, leftover>>

\* By the handle again.
UnfollowUser ==
  /\ req.pc = "drop"
  /\ \/ \E d \in GetProfileByHandle(req.handle) :
          follows' = [follows EXCEPT ![d] = NotFollowed] /\ Go("check")
     \/ GetProfileByHandle(req.handle) = {} /\ Over /\ UNCHANGED follows
  /\ UNCHANGED <<net, users, signed, records, echo, requests, changes, crossed, leftover>>

\* The goroutine looks the followee up, for the subject of the record; without one
\* it writes and deletes nothing.
Subject ==
  /\ req.pc \in {"subject", "check"}
  /\ \/ \E d \in GetProfileByHandle(req.handle) :
          req' = [req EXCEPT !.pc = IF @ = "subject" THEN "put" ELSE "delete", !.subject = d]
     \/ GetProfileByHandle(req.handle) = {} /\ Over
  /\ UNCHANGED <<net, users, signed, mine, requests, changes, crossed, leftover>>

PutFollow ==
  /\ req.pc = "put"
  /\ records' = records \cup {[rkey |-> requests, subject |-> req.subject]}
  /\ echo' = [op |-> "put", rkey |-> requests, subject |-> req.subject]
  /\ req' = [req EXCEPT !.pc = "keep", !.rkey = requests]
  /\ UNCHANGED <<net, users, signed, follows, requests, changes, crossed, leftover>>

\* An rkey the handler did not find is read again, from the row if there is one.
DeleteFollow ==
  /\ req.pc = "delete"
  /\ LET rkey == IF req.rkey # 0 \/ ~req.known THEN req.rkey ELSE follows[req.who].rkey
         gone == {r \in records : r.rkey = rkey}
     IN
     /\ records' = records \ gone
     /\ echo' = IF gone = {} THEN echo ELSE [op |-> "delete", rkey |-> rkey, subject |-> Me]
     /\ IF rkey = 0 THEN Over ELSE req' = [req EXCEPT !.pc = "keep", !.rkey = 0]
  /\ UNCHANGED <<net, users, signed, follows, requests, changes, crossed, leftover>>

\* The rkey of a put, or none, into the row if there is one.
SetFollowATProtoRkey ==
  /\ req.pc = "keep"
  /\ follows' = IF req.known /\ follows[req.who].on
                THEN [follows EXCEPT ![req.who].rkey = req.rkey] ELSE follows
  /\ Over
  /\ UNCHANGED <<net, users, signed, records, echo, requests, changes, crossed, leftover>>

HandleFollowEvent ==
  /\ echo.op = "put"
  /\ follows' = IF users[echo.subject].on
                THEN [follows EXCEPT ![echo.subject] = [on |-> TRUE, rkey |-> echo.rkey]] ELSE follows
  /\ echo' = NoEcho
  /\ UNCHANGED <<net, users, signed, records, req, requests, changes, crossed, leftover>>

HandleUnfollowEvent ==
  /\ echo.op = "delete"
  /\ follows' = [d \in Account |-> IF follows[d].rkey = echo.rkey THEN NotFollowed ELSE follows[d]]
  /\ echo' = NoEcho
  /\ UNCHANGED <<net, users, signed, records, req, requests, changes, crossed, leftover>>

Environment ==
  \/ \E d \in Account :
       \/ \E h \in Handle \cup {NoHandle} : Move(d, h)
       \/ HandleCallback(d) \/ AnnouncedElsewhere(d) \/ DeleteUser(d)
       \/ \E n \in Nick : UpsertHandle(d, n)
  \/ AnnounceTrackedDIDs \/ HandleAnnounceUser

RequestStep ==
  \/ Lookup \/ Resolve \/ CreateRemoteUser \/ FollowCreated \/ ResolveFollowee
  \/ GetFollowATProtoRkey \/ UnfollowUser \/ Subject \/ PutFollow \/ DeleteFollow
  \/ SetFollowATProtoRkey

IdentityNext ==
  \/ Environment \/ Follow \/ Unfollow \/ RequestStep
  \/ HandleFollowEvent \/ HandleUnfollowEvent

IdentitySpec == IdentityInit /\ [][IdentityNext]_identityVars

-----------------------------------------------------------------------------
(* Properties *)

\* Between requests the user follows those of whom the PDS has a record, and no one
\* else, though every request looks the handle up three to five times: unless a row
\* got or lost that handle meanwhile, or the followee was deleted here.
FollowsMirrored ==
  req.pc = "idle" /\ echo = NoEcho /\ ~crossed =>
    {r.subject : r \in records} \ leftover = ListFollowing(Me) \ leftover

\* The relay's match is then no wider than the API's: the query has no _ or %.
Literal(q) == q.there \subseteq q.here

\* A search lists a handle once.  Whom it lists under it is, for a query without
\* wildcards, whom a follow of that handle reaches, by the local row or by way of the
\* relay, and whom its page, the lists behind it and .well-known show; and if a row
\* here has the handle, it tells rightly whether that account is followed.  Under a
\* handle that only the relay has for it an account is listed as not followed, and it
\* may be listed a second time under its handle here.
SearchHonest ==
  \A q \in Query, limit \in Limit, up \in BOOLEAN : \A found \in Search(q, limit, up) :
    /\ \A r, s \in found : r.handle = s.handle => r = s
    /\ Literal(q) => \A r \in found :
         LET local == GetProfileByHandle(r.handle) IN
         /\ local # {} =>
              /\ local = {r.who} /\ WellKnownATProtoDID(r.handle) = {r.who}
              /\ \A page \in GetUserProfile(r.handle) :
                   /\ page.who = r.who /\ page.isFollowing = r.isFollowing
                   /\ r.isFollowing <=> r.who \in ListUserFollowing(users[Me].handle) /\ page.followers = 1
                   /\ r.isFollowing <=> ListUserFollowers(r.handle) = {Me}
         /\ local = {} => ResolveHandle(r.handle) = {r.who}
=============================================================================
