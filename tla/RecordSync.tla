----------------------------- MODULE RecordSync -----------------------------
(* One record of one user in three places: the row of the local database that *)
(* the handlers of social.go write, the record of the user's PDS that a        *)
(* fire-and-forget goroutine of atproto.go writes or deletes afterwards, and   *)
(* the relay's echo of that record, which the consumer of relay_consumer.go    *)
(* applies to the row again.  The row and the record are matched by the rkey   *)
(* the goroutine stores in the row once the PDS has the record.                *)
(*                                                                             *)
(* kind says whose code runs: follows, stars and subscriptions address the row *)
(* by its natural key, shares by its id.  Without a relay there is no echo, and *)
(* each login pulls the records from the PDS instead.  Request n is the n-th   *)
(* call of a handler that gets past its checks; the record that a request n    *)
(* puts has the rkey n, as NewTID never repeats one.  Id 0 is no row, rkey 0   *)
(* the empty string.                                                           *)
EXTENDS Naturals, Sequences

CONSTANTS
  Modes,         \* the settings a behaviour may choose: [kind, calm, relayed]
  MaxRequests,   \* bound on the requests
  MaxBackfills,  \* bound on the backfills of the user's records
  MaxFaults      \* bound on failed calls and restarts of the API

ASSUME RecordSyncAssumption ==
  /\ Modes \subseteq [kind : {"follow", "share", "star", "subscription"},
                      calm : BOOLEAN, relayed : BOOLEAN]
  /\ MaxRequests \in Nat /\ MaxBackfills \in Nat /\ MaxFaults \in Nat

\* Chosen once: whose code runs, whether the user waits until the last request
\* has settled, whether SUNRED_RELAY_URL is set.
VARIABLES kind, calm, relayed

VARIABLES
  row,       \* the row of user_follows, shared_articles, entry_stars or
             \* subscriptions: [id, rkey]
  lastId,    \* the sequence that numbers the rows
  pds,       \* the rkeys of the records on the PDS
  log,       \* the relay's events for these records, in order
  pos,       \* how many of them the consumer has applied
  saved,     \* the stored cursor: where the consumer resumes
  started,   \* requests so far
  req,       \* what each request does next
  page,      \* records a backfill has read and not yet stored
  backfills,
  faults,
  wanted,    \* history: the user's last word, follow (share) or the reverse
  unbacked,  \* history: ids of rows whose record was never put, or whose rkey
             \* was lost where no relay brings it
  leftover,  \* history: rkeys a removal did not know of or failed to delete, or
             \* that had no row to go to where no relay tells of them
  stale      \* history: ids of rows for which a backfill stored a removed record

vars == <<kind, calm, relayed, row, lastId, pds, log, pos, saved, started, req, page, backfills,
          faults, wanted, unbacked, leftover, stale>>
localVars == <<row, lastId>>
remoteVars == <<pds, log>>
consumerVars == <<pos, saved>>
boundVars == <<started, faults>>
backfillVars == <<page, backfills>>
history == <<wanted, unbacked, leftover, stale>>

Request == 1..MaxRequests
NoRow == [id |-> 0, rkey |-> 0]
Done == [op |-> "none", pc |-> "done", id |-> 0, rkey |-> 0]
Event == [op : {"create", "delete"}, rkey : Request]

Idle ==
  /\ \A n \in Request : req[n].pc = "done"
  /\ pos = Len(log)
  /\ page = {}

Init ==
  /\ \E m \in Modes : kind = m.kind /\ calm = m.calm /\ relayed = m.relayed
  /\ row = NoRow /\ lastId = 0
  /\ pds = {} /\ log = <<>> /\ pos = 0 /\ saved = 0
  /\ started = 0 /\ req = [n \in Request |-> Done]
  /\ page = {} /\ backfills = 0 /\ faults = 0
  /\ wanted = FALSE /\ unbacked = {} /\ leftover = {} /\ stale = {}

Begin(n) ==
  /\ n = started + 1
  /\ calm => Idle
  /\ started' = n
  /\ UNCHANGED faults

\* A call to the database or to the PDS that fails.
Fails ==
  /\ faults < MaxFaults
  /\ faults' = faults + 1
  /\ UNCHANGED started

Goto(n, pc) == req' = [req EXCEPT ![n].pc = pc]

\* A new row takes the next id of the sequence.
Insert(rkey) ==
  /\ row' = [id |-> lastId + 1, rkey |-> rkey]
  /\ lastId' = lastId + 1

\* Mutation of Upsert: ON CONFLICT DO NOTHING.
UpsertNew(rkey) ==
  \/ row = NoRow /\ Insert(rkey)
  \/ row # NoRow /\ UNCHANGED localVars

\* INSERT ... ON CONFLICT DO UPDATE SET atproto_rkey.
Upsert(rkey) ==
  \/ row = NoRow /\ Insert(rkey)
  \/ row # NoRow /\ row' = [row EXCEPT !.rkey = rkey] /\ UNCHANGED lastId

\* Mutation of Addressed: a share is found by its user and article.
AddressedByPair(n) == row # NoRow

\* The row a request's UPDATE, SELECT or DELETE finds.
Addressed(n) ==
  /\ row # NoRow
  /\ kind = "share" => row.id = req[n].id

SetRkey(n, rkey) ==
  row' = IF Addressed(n) THEN [row EXCEPT !.rkey = rkey] ELSE row

-----------------------------------------------------------------------------
(* The handlers that follow, share, star and subscribe, and the goroutine that *)
(* puts the record.                                                            *)

Spawn(n, id) ==
  /\ req' = [req EXCEPT ![n] = [op |-> "put", pc |-> "put", id |-> id, rkey |-> 0]]
  /\ wanted' = TRUE
  /\ UNCHANGED <<remoteVars, consumerVars, backfillVars, unbacked, leftover, stale>>

\* A second follow of the same user is refused with a conflict.
Follow(n) ==
  /\ kind = "follow"
  /\ Begin(n)
  /\ row = NoRow
  /\ Insert(0)
  /\ Spawn(n, lastId + 1)

\* A second share of an article updates the row, rkey apart, and puts again.
Share(n) ==
  /\ kind = "share"
  /\ Begin(n)
  /\ \/ row = NoRow /\ Insert(0)
     \/ row # NoRow /\ UNCHANGED localVars
  /\ Spawn(n, row'.id)

\* So does a second star, by the entry's id or by its URL.
Star(n) ==
  /\ kind = "star"
  /\ Begin(n)
  /\ \/ row = NoRow /\ Insert(0)
     \/ row # NoRow /\ UNCHANGED localVars
  /\ Spawn(n, row'.id)

\* The entry was visible when the handler read it and is not when the INSERT ...
\* SELECT runs: no row and no error, and the record is put all the same.  Without a
\* relay nothing but the next login brings a row.  (Rows of entry_stars have no id;
\* the one taken here is that of the row that is missing.)
StarUnseen(n) ==
  /\ kind = "star"
  /\ Begin(n)
  /\ row = NoRow /\ lastId' = lastId + 1 /\ UNCHANGED row
  /\ req' = [req EXCEPT ![n] = [op |-> "put", pc |-> "put", id |-> lastId + 1, rkey |-> 0]]
  /\ wanted' = TRUE
  /\ unbacked' = (IF relayed THEN unbacked ELSE unbacked \union {lastId + 1})
  /\ leftover' = (IF relayed THEN leftover ELSE leftover \union {n})
  /\ UNCHANGED <<remoteVars, consumerVars, backfillVars, stale>>

\* subscribeToFeed: a subscription that exists is returned as it is.
Subscribe(n) ==
  /\ kind = "subscription"
  /\ Begin(n)
  /\ row = NoRow
  /\ req' = [req EXCEPT ![n] = [op |-> "put", pc |-> "create", id |-> 0, rkey |-> 0]]
  /\ UNCHANGED <<localVars, remoteVars, consumerVars, backfillVars, history>>

\* ON CONFLICT DO NOTHING: the row may have come since; put is what follows.
CreateSubscription(n) ==
  /\ req[n].pc = "create"
  /\ \/ row = NoRow /\ Insert(0)
     \/ row # NoRow /\ UNCHANGED localVars
  /\ Spawn(n, row'.id)
  /\ UNCHANGED boundVars

\* What the PDS tells the relay.
Tell(op, rkey) == log' = IF relayed THEN Append(log, [op |-> op, rkey |-> rkey]) ELSE log

\* Without a relay an rkey that is not stored is lost.
LoseRkey(n) == unbacked' = IF relayed THEN unbacked ELSE unbacked \union {req[n].id}

PutRecord(n) ==
  /\ req[n].pc = "put"
  /\ pds' = pds \union {n}
  /\ Tell("create", n)
  /\ Goto(n, "persist")
  /\ UNCHANGED <<localVars, consumerVars, boundVars, backfillVars, history>>

\* The goroutine gives up: no retry, and the row stays without a record.
PutFails(n) ==
  /\ req[n].pc = "put"
  /\ Fails
  /\ Goto(n, "done")
  /\ unbacked' = unbacked \union {req[n].id}
  /\ UNCHANGED <<localVars, remoteVars, consumerVars, backfillVars,
                 wanted, leftover, stale>>

\* The PDS writes the record and its answer is lost.
PutUnanswered(n) ==
  /\ req[n].pc = "put"
  /\ Fails
  /\ pds' = pds \union {n}
  /\ Tell("create", n)
  /\ Goto(n, "done")
  /\ LoseRkey(n)
  /\ UNCHANGED <<localVars, consumerVars, backfillVars, wanted, leftover, stale>>

PersistRkey(n) ==
  /\ req[n].pc = "persist"
  /\ SetRkey(n, n)
  /\ Goto(n, "done")
  /\ UNCHANGED <<lastId, remoteVars, consumerVars, boundVars, backfillVars, history>>

PersistFails(n) ==
  /\ req[n].pc = "persist"
  /\ Fails
  /\ Goto(n, "done")
  /\ LoseRkey(n)
  /\ UNCHANGED <<localVars, remoteVars, consumerVars, backfillVars,
                 wanted, leftover, stale>>

-----------------------------------------------------------------------------
(* The handlers that take it back, and the goroutine that deletes.             *)

\* The handler reads the rkey before it deletes the row.
ReadRkey(n) ==
  /\ Begin(n)
  /\ req' = [req EXCEPT ![n] =
       [op |-> "remove", pc |-> "drop", id |-> row.id, rkey |-> row.rkey]]
  /\ UNCHANGED <<localVars, remoteVars, consumerVars, backfillVars, history>>

\* Shares and subscriptions that are gone are not found.
Unfollow(n) == kind = "follow" /\ ReadRkey(n)
Unshare(n) == kind = "share" /\ row # NoRow /\ ReadRkey(n)
Unstar(n) == kind = "star" /\ ReadRkey(n)
Unsubscribe(n) == kind = "subscription" /\ row # NoRow /\ ReadRkey(n)

\* Records of this row that the removal is not told of.
Unknown(n) == {m \in Request : req[m].op = "put" /\ m # req[n].rkey}

\* An unshare of a row that is gone is not found; the others go on, but for an
\* unsubscription without an rkey, which starts no goroutine.
AfterDrop(n) ==
  IF \/ kind = "share" /\ ~Addressed(n)
     \/ kind = "subscription" /\ req[n].rkey = 0
  THEN "done" ELSE "lookup"

\* To remove a follow, star or subscription that is not there is no error.
DropRow(n) ==
  /\ req[n].pc = "drop"
  /\ Goto(n, AfterDrop(n))
  /\ \/ /\ Addressed(n) \/ kind # "share"
        /\ row' = NoRow
        /\ leftover' = leftover \union Unknown(n)
        /\ wanted' = FALSE
     \/ /\ ~Addressed(n) /\ kind = "share"
        /\ UNCHANGED <<row, leftover, wanted>>
  /\ UNCHANGED <<lastId, remoteVars, consumerVars, boundVars, backfillVars,
                 unbacked, stale>>

\* Without an rkey from the handler the goroutine asks the row once more.
LookupRkey(n) ==
  /\ req[n].pc = "lookup"
  /\ LET rkey == IF req[n].rkey = 0 /\ Addressed(n) THEN row.rkey ELSE req[n].rkey
     IN  req' = [req EXCEPT ![n].rkey = rkey,
                            ![n].pc = IF rkey = 0 THEN "done" ELSE "delete"]
  /\ UNCHANGED <<localVars, remoteVars, consumerVars, boundVars, backfillVars, history>>

\* No session for the PDS, or the followed user is not found: nothing is deleted.
WriterFails(n) ==
  /\ req[n].pc = "lookup"
  /\ Fails
  /\ Goto(n, "done")
  /\ leftover' = leftover \union {req[n].rkey}
  /\ UNCHANGED <<localVars, remoteVars, consumerVars, backfillVars,
                 wanted, unbacked, stale>>

\* Follows and shares go on to clear the rkey of the row.
AfterDelete == IF kind \in {"follow", "share"} THEN "clear" ELSE "done"

\* The PDS takes the deletion of a record it does not have for done.
DeleteRecord(n) ==
  /\ req[n].pc = "delete"
  /\ pds' = pds \ {req[n].rkey}
  /\ \/ req[n].rkey \in pds /\ Tell("delete", req[n].rkey)
     \/ req[n].rkey \notin pds /\ UNCHANGED log
  /\ Goto(n, AfterDelete)
  /\ UNCHANGED <<localVars, consumerVars, boundVars, backfillVars, history>>

DeleteFails(n) ==
  /\ req[n].pc = "delete"
  /\ Fails
  /\ Goto(n, AfterDelete)
  /\ leftover' = leftover \union {req[n].rkey}
  /\ UNCHANGED <<localVars, remoteVars, consumerVars, backfillVars,
                 wanted, unbacked, stale>>

\* Deleted or not, the rkey of the row it addresses is cleared.
ClearRkey(n) ==
  /\ req[n].pc = "clear"
  /\ SetRkey(n, 0)
  /\ Goto(n, "done")
  /\ UNCHANGED <<lastId, remoteVars, consumerVars, boundVars, backfillVars, history>>

-----------------------------------------------------------------------------
(* The relay consumer, the backfills, restarts.                                *)

\* Mutation of ApplyDelete: no rkey in the WHERE clause.
ApplyDeleteAny(rkey) == row' = NoRow /\ UNCHANGED lastId

\* Mutation of ApplyDelete: the event kind has no handler.
ApplyDeleteNever(rkey) == UNCHANGED localVars

ApplyDelete(rkey) ==
  /\ row' = IF row.rkey = rkey THEN NoRow ELSE row
  /\ UNCHANGED lastId

HandleFollowEvent(e) == kind = "follow" /\ e.op = "create" /\ Upsert(e.rkey)
HandleUnfollowEvent(e) == kind = "follow" /\ e.op = "delete" /\ ApplyDelete(e.rkey)
HandleShareEvent(e) == kind = "share" /\ e.op = "create" /\ Upsert(e.rkey)
HandleUnshareEvent(e) == kind = "share" /\ e.op = "delete" /\ ApplyDelete(e.rkey)
HandleStarEvent(e) == kind = "star" /\ e.op = "create" /\ Upsert(e.rkey)
HandleUnstarEvent(e) == kind = "star" /\ e.op = "delete" /\ ApplyDelete(e.rkey)
HandleFeedSubEvent(e) == kind = "subscription" /\ e.op = "create" /\ Upsert(e.rkey)
HandleFeedUnsubEvent(e) == kind = "subscription" /\ e.op = "delete" /\ ApplyDelete(e.rkey)

ProcessEvent(e) ==
  \/ HandleFollowEvent(e) \/ HandleUnfollowEvent(e)
  \/ HandleShareEvent(e) \/ HandleUnshareEvent(e)
  \/ HandleStarEvent(e) \/ HandleUnstarEvent(e)
  \/ HandleFeedSubEvent(e) \/ HandleFeedUnsubEvent(e)

ConsumeEvent ==
  /\ pos < Len(log)
  /\ ProcessEvent(log[pos + 1])
  /\ pos' = pos + 1
  /\ UNCHANGED <<remoteVars, saved, boundVars, req, backfillVars, history>>

SaveCursor ==
  /\ saved' = pos
  /\ UNCHANGED <<localVars, remoteVars, pos, boundVars, req, backfillVars, history>>

\* The records of the user as the PDS lists them.
ListRecords ==
  /\ backfills < MaxBackfills
  /\ page = {}
  /\ page' = pds
  /\ backfills' = backfills + 1
  /\ UNCHANGED <<localVars, remoteVars, consumerVars, boundVars, req, history>>

\* backfillFollowee, when somebody follows the user, and the login where there
\* is no relay: only the latter pulls follows.
BackfillFollows == kind = "follow" /\ ~relayed /\ ListRecords
BackfillShares == kind = "share" /\ ListRecords
BackfillStars == kind = "star" /\ ListRecords
BackfillFeedSubscriptions == kind = "subscription" /\ ListRecords

BackfillUserFromPDS ==
  BackfillFollows \/ BackfillShares \/ BackfillStars \/ BackfillFeedSubscriptions

\* The user has removed the record; the removal may be under way, and find the
\* row that the page brings back.
Removed(rkey) ==
  \/ rkey \notin pds
  \/ \E n \in Request :
       \/ req[n].pc \in {"lookup", "delete"} /\ req[n].rkey \in {0, rkey}
       \/ req[n].pc \in {"lookup", "delete", "clear"} /\ kind = "follow"

UpsertListed ==
  \E rkey \in page :
    /\ Upsert(rkey)
    /\ page' = page \ {rkey}
    /\ stale' = IF Removed(rkey) THEN stale \union {row'.id} ELSE stale
    /\ UNCHANGED <<remoteVars, consumerVars, boundVars, req, backfills,
                   wanted, unbacked, leftover>>

\* Goroutines and handlers end with the process and nothing restarts them.
RestartAPI ==
  /\ Fails
  /\ req' = [n \in Request |-> [req[n] EXCEPT !.pc = "done"]]
  /\ unbacked' = unbacked \union {req[n].id : n \in {m \in Request :
       req[m].pc = "put" \/ (req[m].pc = "persist" /\ ~relayed)}}
  /\ leftover' = leftover \union
       {req[n].rkey : n \in {m \in Request : req[m].pc \in {"lookup", "delete"}}}
  /\ page' = {}
  /\ pos' = saved
  /\ UNCHANGED <<localVars, remoteVars, saved, backfills, wanted, stale>>

-----------------------------------------------------------------------------

UserRequest(n) ==
  \/ Follow(n) \/ Share(n) \/ Star(n) \/ StarUnseen(n) \/ Subscribe(n)
  \/ Unfollow(n) \/ Unshare(n) \/ Unstar(n) \/ Unsubscribe(n)
PutStep(n) ==
  \/ PutRecord(n) \/ PutFails(n) \/ PutUnanswered(n)
  \/ PersistRkey(n) \/ PersistFails(n)
DeleteStep(n) ==
  \/ LookupRkey(n) \/ WriterFails(n)
  \/ DeleteRecord(n) \/ DeleteFails(n)

ATProtoSyncFollow(n) == kind = "follow" /\ (PutStep(n) \/ DeleteStep(n) \/ ClearRkey(n))
ATProtoSyncShare(n) == kind = "share" /\ (PutStep(n) \/ DeleteStep(n) \/ ClearRkey(n))
ATProtoSyncStar(n) == kind = "star" /\ (PutStep(n) \/ DeleteStep(n))
ATProtoSyncFeedSubscription(n) == kind = "subscription" /\ (PutStep(n) \/ DeleteStep(n))

Step ==
  \/ \E n \in Request :
       \/ UserRequest(n) \/ CreateSubscription(n) \/ DropRow(n)
       \/ ATProtoSyncFollow(n) \/ ATProtoSyncShare(n)
       \/ ATProtoSyncStar(n) \/ ATProtoSyncFeedSubscription(n)
  \/ ConsumeEvent
  \/ SaveCursor
  \/ BackfillUserFromPDS
  \/ UpsertListed
  \/ RestartAPI

Next == Step /\ UNCHANGED <<kind, calm, relayed>>

Spec == Init /\ [][Next]_vars

-----------------------------------------------------------------------------
(* Properties *)

Rkey == Request \union {0}

(* Types: the row, the record keys, the event log and the requests' progress   *)
(* stay what the handlers and goroutines of social.go and atproto.go make them. *)
TypeOK ==
  /\ row \in [id : Nat, rkey : Rkey] /\ lastId \in Nat /\ row.id <= lastId
  /\ pds \subseteq Request
  /\ log \in Seq(Event) /\ pos \in 0..Len(log) /\ saved \in 0..Len(log)
  /\ started \in 0..MaxRequests
  /\ req \in [Request ->
       [op : {"none", "put", "remove"}, id : 0..lastId, rkey : Rkey,
        pc : {"create", "put", "persist", "drop", "lookup", "delete", "clear", "done"}]]
  /\ page \subseteq Request /\ backfills \in 0..MaxBackfills
  /\ faults \in 0..MaxFaults
  /\ wanted \in BOOLEAN
  /\ unbacked \subseteq 0..lastId /\ leftover \subseteq Rkey /\ stale \subseteq 0..lastId

(* Once everything has settled a local row stands for a record that the PDS    *)
(* has, unless its put failed or was lost with the process, or a backfill      *)
(* stored a page it had read before the record was deleted.                    *)
RowBacked ==
  Idle /\ row # NoRow =>
    row.rkey \in pds \/ row.id \in unbacked \union stale

(* Once everything has settled a record on the PDS has a local row, unless a   *)
(* removal was not told of it, or failed to delete it, or it was put for a star *)
(* that wrote no row (store.go:656) and there is no relay to tell of it.       *)
RecordMirrored ==
  Idle /\ row = NoRow /\ stale = {} => pds \subseteq leftover

\* Request n has its row and has started the goroutine that puts the record.
Spawned(n) == req[n].op = "put" /\ req[n].id # 0

\* The put that the user's last follow or share started was lost, or was that of a
\* star without a row where no relay brings one.
LastPutLost ==
  \E n \in Request :
    /\ Spawned(n) /\ req[n].id \in unbacked
    /\ \A m \in Request : Spawned(m) => m <= n

(* No late echo, late deletion, replayed event or stale page undoes a follow   *)
(* or a share that reached the PDS: if that was the user's last word the row   *)
(* is there in the end.                                                        *)
LastWordKept ==
  Idle /\ wanted /\ ~LastPutLost /\ stale = {} => row # NoRow

(* A row that is there in the end against the user's last word comes from a    *)
(* record the removal did not know of or failed to delete, or a stale page.    *)
RemovalKept ==
  Idle /\ ~wanted /\ row # NoRow => row.rkey \in leftover \/ row.id \in stale

(* An unshare deletes no record of a later share, though its goroutine may read *)
(* the rkey again (ATProtoSyncShare) and requests of a user overlap: it asks by *)
(* the id of the row that was dropped.  An unfollow asks by the pair of users,  *)
(* and may delete the record of a later follow (atproto.go:150).                *)
UnshareDeletesEarlier ==
  kind = "share" => \A n \in Request : req[n].pc = "delete" => req[n].rkey < n
=============================================================================
