----------------------------- MODULE RelayTracking -----------------------------
(***************************************************************************)
(* How the relay follows one account's repository.                         *)
(*                                                                         *)
(*   announceUser  (server.go)    an instance announces the account; a new *)
(*                                one, or one in error, is backfilled      *)
(*   backfill      (backfill.go)  crawls listRecords, then cuts over       *)
(*   runWorker     (fanout.go)    one goroutine per account reads the PDS  *)
(*                                commit stream from a cursor              *)
(*   Start         (fanout.go)    at boot resumes the active accounts,     *)
(*                                while the HTTP server already answers    *)
(*                                                                         *)
(* One account: accounts share no state here.  Its records belong to the   *)
(* four io.sunred collections, each with a handler and a table of its own; *)
(* the profile record is the matter of Profile.  A record is its rkey;     *)
(* rkeys are TIDs, which grow and are never reused.                        *)
(***************************************************************************)
EXTENDS Integers, Sequences, FiniteSets

CONSTANTS
  Slot,         \* announceUser requests, each with the goroutine it starts
  PageSize,     \* records on a page of listRecords (100 in the code)
  Accounts,     \* what the account may be: the collection of each of its records,
                \* those that name no followee, feed or article, and the errors
                \* it may meet
  MaxRkey,      \* bound: records ever created
  MaxAnnounces  \* bound: announcements, but those made while no worker runs

\* backfillCollections, without the profile.
Collections == <<"follow", "subscription", "share", "star">>
Collection == {Collections[i] : i \in 1..Len(Collections)}

Rkey == 1..MaxRkey

ASSUME ConstantsOK ==
  /\ PageSize \in Nat \ {0} /\ MaxRkey \in Nat \ {0} /\ MaxAnnounces \in Nat
  /\ Accounts \subseteq [of : [Rkey -> Collection], blank : SUBSET Rkey, failures : Nat]

VARIABLES
  account,     \* the one of Accounts it is
  created,     \* PDS: records 1..created have existed
  repo,        \* PDS: those not deleted
  commits,     \* PDS: its commit stream, numbered by position
  status,      \* tracked_dids.status, "untracked" when there is no row
  cursorSeq,   \* tracked_dids.cursor_seq
  observed,    \* of each collection, the rows of its observed_ table
  net,         \* relay_events: of each record, its events minus those of its removal
  startPc,     \* Fanout.Start: "list", "ensure", "done"
  bootCursor,  \* the cursor it listed
  wpc,         \* worker: "none", "dial", "recv", "fetch", "record", "emit", "cursor"
  wCursor,     \* runWorker's cursorSeq
  pos,         \* the last commit of the current stream it has finished
  apc,         \* request and goroutine: "idle", "upsert", "list", "page", "emit",
               \* "complete", "ensure"
  oldStatus,   \* the status UpsertTrackedDID read
  col,         \* the collection a backfill is at
  page,        \* records listed and not processed
  token,       \* the listing continues below this record
  held,        \* the record whose event is about to be emitted
  awaited,     \* an instance was told to wait for a backfillComplete event
  announces, failures

\* History.
VARIABLES
  handled,  \* commits processed by a worker
  skipped,  \* commits before a stream opened without a cursor
  crawled,  \* records created when a backfill last began to list their collection
  failed,   \* records an error or a restart dropped an operation or a listing of
  ghosts,   \* records a backfill inserted after their deletion was handled
  lost      \* as net, of the events that were never appended

pdsVars    == <<created, repo, commits>>
rowVars    == <<status, cursorSeq>>
tableVars  == <<observed, net>>
bootVars   == <<startPc, bootCursor>>
workerVars == <<wpc, wCursor, pos>>
slotVars   == <<apc, oldStatus, col, page, token, held>>
counters   == <<announces, failures>>
history    == <<handled, skipped, crawled, failed, ghosts, lost>>
vars       == <<account, pdsVars, rowVars, tableVars, bootVars, workerVars, slotVars,
                awaited, counters, history>>

Kind(r) == account.of[r]
Blank(r) == r \in account.blank
Observed(r) == r \in observed[Kind(r)]

\* The records the account has had of a collection.
Of(c) == {r \in 1..created : Kind(r) = c}

Init ==
  /\ account \in Accounts
  /\ created = 0 /\ repo = {} /\ commits = <<>>
  /\ status = "untracked" /\ cursorSeq = 0
  /\ observed = [c \in Collection |-> {}] /\ net = [r \in Rkey |-> 0]
  /\ startPc = "list" /\ bootCursor = 0
  /\ wpc = "none" /\ wCursor = 0 /\ pos = 0
  /\ apc = [a \in Slot |-> "idle"] /\ oldStatus = [a \in Slot |-> "untracked"]
  /\ col = [a \in Slot |-> "none"] /\ page = [a \in Slot |-> {}]
  /\ token = [a \in Slot |-> 0] /\ held = [a \in Slot |-> 0]
  /\ awaited = FALSE /\ announces = 0 /\ failures = 0
  /\ handled = {} /\ skipped = {} /\ crawled = {} /\ failed = {} /\ ghosts = {}
  /\ lost = [r \in Rkey |-> 0]

\* One of the bounded failures happens.
Failure == failures < account.failures /\ failures' = failures + 1

NoFailure == UNCHANGED failures

-----------------------------------------------------------------------------
(* The PDS *)

Commit(op, r) == commits' = Append(commits, [op |-> op, rkey |-> r])

CreateRecord ==
  /\ created < MaxRkey
  /\ created' = created + 1
  /\ repo' = repo \union {created + 1}
  /\ Commit("create", created + 1)
  /\ UNCHANGED <<account, rowVars, tableVars, bootVars, workerVars, slotVars, awaited,
                 counters, history>>

DeleteRecord(r) ==
  /\ r \in repo
  /\ repo' = repo \ {r}
  /\ Commit("delete", r)
  /\ UNCHANGED <<account, created, rowVars, tableVars, bootVars, workerVars, slotVars,
                 awaited, counters, history>>

-----------------------------------------------------------------------------
(* Starting the worker *)

\* Mutation of EnsureSubscribed: a second call replaces the worker.
EnsureReplaces(cursor) == wpc' = "dial" /\ wCursor' = cursor /\ UNCHANGED pos

\* At most one worker; one that exists keeps its cursor.
EnsureSubscribed(cursor) ==
  IF wpc = "none"
  THEN wpc' = "dial" /\ wCursor' = cursor /\ UNCHANGED pos
  ELSE UNCHANGED workerVars

\* ListActiveTrackedDIDs: an account in error is not resumed, and none is when
\* the query fails.
StartList ==
  /\ startPc = "list"
  /\ \/ /\ status = "active" /\ NoFailure
        /\ startPc' = "ensure" /\ bootCursor' = cursorSeq
     \/ /\ IF status = "active" THEN Failure ELSE NoFailure
        /\ startPc' = "done" /\ UNCHANGED bootCursor
  /\ UNCHANGED <<account, pdsVars, rowVars, tableVars, workerVars, slotVars, awaited,
                 announces, history>>

\* refreshProfiles may take long before this.
StartEnsure ==
  /\ startPc = "ensure"
  /\ startPc' = "done" /\ bootCursor' = 0
  /\ EnsureSubscribed(bootCursor)
  /\ UNCHANGED <<account, pdsVars, rowVars, tableVars, slotVars, awaited,
                 counters, history>>

-----------------------------------------------------------------------------
(* runWorker, subscribe and processOp *)

\* Without a cursor the PDS streams from its newest commit on.
DialPDS ==
  /\ wpc = "dial"
  /\ wpc' = "recv"
  /\ pos' = IF wCursor > 0 THEN wCursor ELSE Len(commits)
  /\ skipped' = IF wCursor > 0 THEN skipped
                ELSE skipped \union (1..Len(commits) \ handled)
  /\ UNCHANGED <<account, pdsVars, rowVars, tableVars, bootVars, wCursor, slotVars,
                 awaited, counters, handled, crawled, failed, ghosts, lost>>

\* The dial or the stream fails, and perhaps SetTrackedDIDError too; after
\* reconnectDelay the worker tries again.
StreamFails ==
  /\ wpc \in {"dial", "recv"} /\ Failure
  /\ status' \in {"error", status}
  /\ wpc' = "dial" /\ pos' = 0
  /\ UNCHANGED <<account, pdsVars, cursorSeq, tableVars, bootVars, wCursor, slotVars,
                 awaited, announces, history>>

Op == commits[pos + 1]

\* Mutation of DeleteShare: the event is emitted whether or not a row was there.
DeleteShareAlways ==
  /\ observed' = [observed EXCEPT !.share = @ \ {Op.rkey}]
  /\ wpc' = "emit"
  /\ NoFailure /\ UNCHANGED failed

\* Mutation of DeleteShare: no rkey in the WHERE clause.
DeleteEveryShare ==
  /\ observed' = [observed EXCEPT !.share = {}]
  /\ wpc' = IF observed.share # {} THEN "emit" ELSE "cursor"
  /\ NoFailure /\ UNCHANGED failed

\* An event follows only when a row was removed.
Remove(table) ==
  \/ /\ observed' = [observed EXCEPT ![table] = @ \ {Op.rkey}]
     /\ wpc' = IF Op.rkey \in observed[table] THEN "emit" ELSE "cursor"
     /\ NoFailure /\ UNCHANGED failed
  \/ /\ Failure
     /\ wpc' = "cursor" /\ failed' = failed \union {Op.rkey}
     /\ UNCHANGED observed

DeleteFollow == Remove("follow")

DeleteFeedSubscription == Remove("subscription")

DeleteShare == Remove("share")

DeleteStar == Remove("star")

Fetch == wpc' = "fetch" /\ NoFailure /\ UNCHANGED <<observed, failed>>

HandleFollow == IF Op.op = "delete" THEN DeleteFollow ELSE Fetch
HandleFeedSub == IF Op.op = "delete" THEN DeleteFeedSubscription ELSE Fetch
HandleShare == IF Op.op = "delete" THEN DeleteShare ELSE Fetch
HandleStar == IF Op.op = "delete" THEN DeleteStar ELSE Fetch

ProcessOp ==
  /\ wpc = "recv" /\ pos < Len(commits)
  /\ \/ Kind(Op.rkey) = "follow" /\ HandleFollow
     \/ Kind(Op.rkey) = "subscription" /\ HandleFeedSub
     \/ Kind(Op.rkey) = "share" /\ HandleShare
     \/ Kind(Op.rkey) = "star" /\ HandleStar
  /\ UNCHANGED <<account, pdsVars, rowVars, net, bootVars, wCursor, pos, slotVars,
                 awaited, announces, handled, skipped, crawled, ghosts, lost>>

\* getRecord: the record as it is now.  An error drops the op.
FetchRecord ==
  /\ wpc = "fetch"
  /\ \/ /\ wpc' = IF Op.rkey \in repo THEN "record" ELSE "cursor"
        /\ NoFailure /\ UNCHANGED failed
     \/ /\ Failure
        /\ wpc' = "cursor" /\ failed' = failed \union {Op.rkey}
  /\ UNCHANGED <<account, pdsVars, rowVars, tableVars, bootVars, wCursor, pos, slotVars,
                 awaited, announces, handled, skipped, crawled, ghosts, lost>>

\* INSERT ... ON CONFLICT DO NOTHING
Insert(table, r) == observed' = [observed EXCEPT ![table] = @ \union {r}]

RecordFollow(r) == Insert("follow", r)
RecordFeedSubscription(r) == Insert("subscription", r)
RecordShare(r) == Insert("share", r)
RecordStar(r) == Insert("star", r)

\* A record that does not say whom, what feed or which article is dropped, but a
\* share is not looked at.
ProcessFollowRecord(r) == IF Blank(r) THEN UNCHANGED observed ELSE RecordFollow(r)
ProcessFeedSubRecord(r) == IF Blank(r) THEN UNCHANGED observed ELSE RecordFeedSubscription(r)
ProcessShareRecord(r) == RecordShare(r)
ProcessStarRecord(r) == IF Blank(r) THEN UNCHANGED observed ELSE RecordStar(r)

\* processBackfillRecord, and the same at the end of the four handlers.
ProcessRecord(r) ==
  \/ Kind(r) = "follow" /\ ProcessFollowRecord(r)
  \/ Kind(r) = "subscription" /\ ProcessFeedSubRecord(r)
  \/ Kind(r) = "share" /\ ProcessShareRecord(r)
  \/ Kind(r) = "star" /\ ProcessStarRecord(r)

\* An event follows only for a new row.
RecordFetched ==
  /\ wpc = "record"
  /\ \/ /\ ProcessRecord(Op.rkey)
        /\ wpc' = IF observed' = observed THEN "cursor" ELSE "emit"
        /\ NoFailure /\ UNCHANGED failed
     \/ /\ Failure
        /\ wpc' = "cursor" /\ failed' = failed \union {Op.rkey}
        /\ UNCHANGED observed
  /\ UNCHANGED <<account, pdsVars, rowVars, net, bootVars, wCursor, pos, slotVars,
                 awaited, announces, handled, skipped, crawled, ghosts, lost>>

\* One more event of r, or of its removal, is appended or lost.
Counted(f, r, d) == [f EXCEPT ![r] = @ + d]

Weight(op) == IF op = "create" THEN 1 ELSE -1

AppendOrLose(r, d) ==
  \/ /\ net' = Counted(net, r, d)
     /\ NoFailure /\ UNCHANGED lost
  \/ /\ Failure
     /\ lost' = Counted(lost, r, d)
     /\ UNCHANGED net

EmitEvent ==
  /\ wpc = "emit"
  /\ AppendOrLose(Op.rkey, Weight(Op.op))
  /\ wpc' = "cursor"
  /\ UNCHANGED <<account, pdsVars, rowVars, observed, bootVars, wCursor, pos, slotVars,
                 awaited, announces, handled, skipped, crawled, failed, ghosts>>

\* Mutation of UpdateCursor: the cursor is the next seq wanted.
UpdateCursorToNext ==
  /\ wpc = "cursor"
  /\ pos' = pos + 1 /\ wCursor' = pos + 1 /\ handled' = handled \union {pos + 1}
  /\ cursorSeq' = pos + 2
  /\ wpc' = "recv"
  /\ UNCHANGED <<account, pdsVars, status, tableVars, bootVars, slotVars, awaited,
                 counters, skipped, crawled, failed, ghosts, lost>>

\* The commit's ops are done: store its seq; a failure is only logged.
UpdateCursor ==
  /\ wpc = "cursor"
  /\ pos' = pos + 1 /\ wCursor' = pos + 1 /\ handled' = handled \union {pos + 1}
  /\ \/ cursorSeq' = pos + 1 /\ NoFailure
     \/ UNCHANGED cursorSeq /\ Failure
  /\ wpc' = "recv"
  /\ UNCHANGED <<account, pdsVars, status, tableVars, bootVars, slotVars, awaited,
                 announces, skipped, crawled, failed, ghosts, lost>>

-----------------------------------------------------------------------------
(* handleAnnounceUser and BackfillAndSubscribe *)

\* An instance announces at login, and on every connection to the relay, hence
\* again after a restart of it.
AnnounceRead(a) ==
  /\ apc[a] = "idle"
  /\ announces < MaxAnnounces \/ (wpc = "none" /\ \A b \in Slot : apc[b] = "idle")
  /\ announces' = IF announces < MaxAnnounces THEN announces + 1 ELSE announces
  /\ oldStatus' = [oldStatus EXCEPT ![a] = status]
  /\ apc' = [apc EXCEPT ![a] = "upsert"]
  /\ UNCHANGED <<account, pdsVars, rowVars, tableVars, bootVars, workerVars, col, page, token,
                 held, awaited, failures, history>>

\* The collections the account has records in, in the order of their crawl;
\* listing another finds nothing.
Position(c) == CHOOSE i \in 1..Len(Collections) : Collections[i] = c
Crawled == {c \in Collection : \E r \in Rkey : Kind(r) = c}
First(cs) == CHOOSE c \in cs : \A d \in cs : Position(c) <= Position(d)
After(c) == {d \in Crawled : Position(d) > Position(c)}

StartCollection(a, c) ==
  col' = [col EXCEPT ![a] = c] /\ token' = [token EXCEPT ![a] = MaxRkey + 1]

NeedsBackfill(a) == status = "untracked" \/ oldStatus[a] = "error"

\* UpsertTrackedDID, and the answer: New, with a backfill, or just a worker.
\* The first status read may be stale by now: READ COMMITTED.
AnnounceUpsert(a) ==
  /\ apc[a] = "upsert"
  /\ status' = "active"
  /\ oldStatus' = [oldStatus EXCEPT ![a] = "untracked"]
  /\ \/ /\ NeedsBackfill(a)
        /\ apc' = [apc EXCEPT ![a] = "list"]
        /\ StartCollection(a, First(Crawled))
        /\ awaited' = TRUE
        /\ UNCHANGED workerVars
     \/ /\ ~NeedsBackfill(a)
        /\ apc' = [apc EXCEPT ![a] = "idle"]
        /\ EnsureSubscribed(0)
        /\ UNCHANGED <<col, token, awaited>>
  /\ UNCHANGED <<account, pdsVars, cursorSeq, tableVars, bootVars, page, held, counters,
                 history>>

\* A query of the upsert fails: rolled back, and the request is answered 500.
AnnounceFails(a) ==
  /\ apc[a] = "upsert" /\ Failure
  /\ apc' = [apc EXCEPT ![a] = "idle"]
  /\ oldStatus' = [oldStatus EXCEPT ![a] = "untracked"]
  /\ UNCHANGED <<account, pdsVars, rowVars, tableVars, bootVars, workerVars, col, page, token,
                 held, awaited, announces, history>>

\* The records of the page that comes next: newest first.
NextPage(a) ==
  LET below == {r \in repo : Kind(r) = col[a] /\ r < token[a]}
  IN  {r \in below : Cardinality({s \in below : s >= r}) <= PageSize}

\* What the backfill of a has still to process of its collection, and of all.
Unlisted(a) == page[a] \union {r \in repo : Kind(r) = col[a] /\ r < token[a]}

Remaining(a) ==
  IF apc[a] \in {"list", "page", "emit"}
  THEN Unlisted(a) \union {r \in repo : Position(Kind(r)) > Position(col[a])}
  ELSE {}

\* The collection is done with, by an error or at its end: the next, if any.
LeaveCollection(a) ==
  IF After(col[a]) # {}
  THEN apc' = [apc EXCEPT ![a] = "list"] /\ StartCollection(a, First(After(col[a])))
  ELSE apc' = [apc EXCEPT ![a] = "complete"] /\ UNCHANGED <<col, token>>

\* listRecords; an error ends the collection, and the backfill goes on.
ListRecords(a) ==
  /\ apc[a] = "list"
  /\ \/ /\ page' = [page EXCEPT ![a] = NextPage(a)]
        /\ apc' = [apc EXCEPT ![a] = "page"]
        /\ NoFailure /\ UNCHANGED <<col, token, failed>>
     \/ /\ Failure
        /\ LeaveCollection(a)
        /\ failed' = failed \union Unlisted(a)
        /\ UNCHANGED page
  /\ crawled' = IF token[a] > MaxRkey THEN crawled \union Of(col[a]) ELSE crawled
  /\ UNCHANGED <<account, pdsVars, rowVars, tableVars, bootVars, workerVars, oldStatus,
                 held, awaited, announces, handled, skipped, ghosts, lost>>

DeletionHandled(r) == \E i \in handled : commits[i] = [op |-> "delete", rkey |-> r]

\* The worker has removed the row of r, or is past the attempt.
DeletionApplied(r) ==
  \/ DeletionHandled(r)
  \/ wpc \in {"emit", "cursor"} /\ Op = [op |-> "delete", rkey |-> r]

\* processBackfillRecord on the newest record left, as it was when listed.
BackfillRecord(a) ==
  /\ apc[a] = "page"
  /\ \E r \in page[a] :
       /\ \A s \in page[a] : s <= r
       /\ page' = [page EXCEPT ![a] = @ \ {r}]
       /\ token' = [token EXCEPT ![a] = r]
       /\ \/ /\ ProcessRecord(r)
             /\ IF observed' = observed
                THEN UNCHANGED <<apc, held, ghosts>>
                ELSE /\ apc' = [apc EXCEPT ![a] = "emit"]
                     /\ held' = [held EXCEPT ![a] = r]
                     /\ ghosts' = IF DeletionApplied(r) THEN ghosts \union {r} ELSE ghosts
             /\ NoFailure /\ UNCHANGED failed
          \/ /\ Failure
             /\ failed' = failed \union {r}
             /\ UNCHANGED <<observed, apc, held, ghosts>>
  /\ UNCHANGED <<account, pdsVars, rowVars, net, bootVars, workerVars, oldStatus, col, awaited,
                 announces, handled, skipped, crawled, lost>>

BackfillEmit(a) ==
  /\ apc[a] = "emit"
  /\ AppendOrLose(held[a], 1)
  /\ apc' = [apc EXCEPT ![a] = "page"] /\ held' = [held EXCEPT ![a] = 0]
  /\ UNCHANGED <<account, pdsVars, rowVars, observed, bootVars, workerVars, oldStatus,
                 col, page, token, awaited, announces, handled, skipped, crawled,
                 failed, ghosts>>

\* Mutation of PageDone: the cursor of the page is not followed.
FirstPageDone(a) ==
  /\ apc[a] = "page" /\ page[a] = {}
  /\ LeaveCollection(a)
  /\ UNCHANGED <<account, pdsVars, rowVars, tableVars, bootVars, workerVars, oldStatus,
                 page, held, awaited, counters, history>>

\* A page with nothing below it is the last.
PageDone(a) ==
  /\ apc[a] = "page" /\ page[a] = {}
  /\ IF NextPage(a) # {}
     THEN apc' = [apc EXCEPT ![a] = "list"] /\ UNCHANGED <<col, token>>
     ELSE LeaveCollection(a)
  /\ UNCHANGED <<account, pdsVars, rowVars, tableVars, bootVars, workerVars, oldStatus,
                 page, held, awaited, counters, history>>

\* emit backfillComplete: the instances stop waiting.
BackfillComplete(a) ==
  /\ apc[a] = "complete"
  /\ \/ awaited' = FALSE /\ NoFailure
     \/ UNCHANGED awaited /\ Failure
  /\ apc' = [apc EXCEPT ![a] = "ensure"]
  /\ col' = [col EXCEPT ![a] = "none"] /\ token' = [token EXCEPT ![a] = 0]
  /\ UNCHANGED <<account, pdsVars, rowVars, tableVars, bootVars, workerVars, oldStatus,
                 page, held, announces, history>>

CutOver(a) ==
  /\ apc[a] = "ensure"
  /\ apc' = [apc EXCEPT ![a] = "idle"]
  /\ EnsureSubscribed(0)
  /\ UNCHANGED <<account, pdsVars, rowVars, tableVars, bootVars, oldStatus, col, page, token,
                 held, awaited, counters, history>>

-----------------------------------------------------------------------------

\* Events of rows already changed and not appended yet.
Pending(r) ==
  (IF wpc = "emit" /\ Op.rkey = r THEN Weight(Op.op) ELSE 0)
    + Cardinality({a \in Slot : apc[a] = "emit" /\ held[a] = r})

\* The process stops and starts: its goroutines are gone, its tables stay.
RelayRestart ==
  /\ Failure
  /\ startPc' = "list" /\ bootCursor' = 0
  /\ wpc' = "none" /\ wCursor' = 0 /\ pos' = 0
  /\ apc' = [a \in Slot |-> "idle"] /\ oldStatus' = [a \in Slot |-> "untracked"]
  /\ col' = [a \in Slot |-> "none"] /\ page' = [a \in Slot |-> {}]
  /\ token' = [a \in Slot |-> 0] /\ held' = [a \in Slot |-> 0]
  /\ lost' = [r \in Rkey |-> lost[r] + Pending(r)]
  /\ failed' = failed \union UNION {Remaining(a) : a \in Slot}
  /\ UNCHANGED <<account, pdsVars, rowVars, tableVars, awaited, announces, handled,
                 skipped, crawled, ghosts>>

StartStep == StartList \/ StartEnsure

WorkerStep ==
  \/ DialPDS \/ StreamFails \/ ProcessOp \/ FetchRecord \/ RecordFetched
  \/ EmitEvent \/ UpdateCursor

BackfillStep(a) ==
  \/ ListRecords(a) \/ BackfillRecord(a) \/ BackfillEmit(a) \/ PageDone(a)
  \/ BackfillComplete(a) \/ CutOver(a)

SlotStep(a) ==
  \/ AnnounceRead(a) \/ AnnounceUpsert(a) \/ AnnounceFails(a) \/ BackfillStep(a)

Next ==
  \/ CreateRecord
  \/ \E r \in Rkey : DeleteRecord(r)
  \/ StartStep \/ WorkerStep
  \/ \E a \in Slot : SlotStep(a)
  \/ RelayRestart

Spec == Init /\ [][Next]_vars

\* Goroutines keep running and the PDS answers; an instance connects to the relay
\* again whenever it is back, and announces its users.  Nothing obliges a commit,
\* an error, a further announcement, a broken stream or a restart.
Fairness ==
  /\ WF_vars(StartStep)
  /\ WF_vars(WorkerStep)
  /\ \A a \in Slot : WF_vars(AnnounceUpsert(a) \/ BackfillStep(a))
  /\ WF_vars(wpc = "none" /\ \E a \in Slot : AnnounceRead(a))

FairSpec == Spec /\ Fairness

-----------------------------------------------------------------------------
(* Properties *)

Tracked == status # "untracked"

PDSType ==
  /\ account \in Accounts /\ created \in 0..MaxRkey /\ repo \subseteq 1..created
  /\ commits \in Seq([op : {"create", "delete"}, rkey : Rkey])

WorkerType ==
  /\ status \in {"untracked", "active", "error"} /\ cursorSeq \in 0..Len(commits)
  /\ startPc \in {"list", "ensure", "done"} /\ bootCursor \in 0..Len(commits)
  /\ wpc \in {"none", "dial", "recv", "fetch", "record", "emit", "cursor"}
  /\ wCursor \in 0..Len(commits) /\ pos \in 0..Len(commits)

TableType ==
  /\ observed \in [Collection -> SUBSET (1..created)]
  /\ \A c \in Collection : observed[c] \subseteq Of(c)
  /\ net \in [Rkey -> Int] /\ lost \in [Rkey -> Int]

SlotType ==
  /\ apc \in [Slot -> {"idle", "upsert", "list", "page", "emit", "complete", "ensure"}]
  /\ oldStatus \in [Slot -> {"untracked", "active", "error"}]
  /\ col \in [Slot -> Collection \union {"none"}] /\ page \in [Slot -> SUBSET (1..created)]
  /\ token \in [Slot -> 0..(MaxRkey + 1)] /\ held \in [Slot -> 0..created]
  /\ awaited \in BOOLEAN /\ announces \in Nat /\ failures \in Nat

HistoryType ==
  /\ handled \subseteq 1..Len(commits) /\ skipped \subseteq 1..Len(commits)
  /\ crawled \subseteq 1..created /\ failed \subseteq 1..created /\ ghosts \subseteq 1..created

\* Type invariant.
TypeOK == PDSType /\ WorkerType /\ TableType /\ SlotType /\ HistoryType

\* The stored cursor passes no commit that was neither processed nor skipped by
\* a stream opened without a cursor, whoever started the worker and however
\* often the stream broke or the relay restarted.
CursorCovers == \A i \in 1..cursorSeq : i \in handled \union skipped

\* UpdateTrackedDIDCursor is unconditional, and still the cursor never goes back:
\* there is one worker at a time and none resumes below it.
CursorNeverRegresses == [][cursorSeq' >= cursorSeq]_vars

Balance(r) == net[r] + lost[r] + Pending(r)

\* What the endpoints answer.  All the records that name a followee, a feed or an
\* article name the same one; an account counts once for what it has said twice,
\* except among the followers.
Names(c) == {r \in observed[c] : ~ Blank(r)}
Once(rows) == IF rows = {} THEN 0 ELSE 1

UserFollowerCount == Cardinality(Names("follow"))
UserFollowingCount == Cardinality(observed["follow"])
UserShareCount == Cardinality(observed["share"])
UserSubscriptionCount == Cardinality(observed["subscription"])
FeedSubscriberCount == Once(Names("subscription"))
ArticleShareCount == Once(Names("share"))
ArticleStarCount == Once(Names("star"))
ArticleCounts == [shares |-> Once(Names("share")), stars |-> Once(Names("star"))]

\* Events and rows agree: of each record the relay has appended, is about to
\* append or has lost to an error or a crash one event more than events of its
\* removal while its row exists, and as many otherwise.  Whoever counts by the
\* events, these apart, counts what the endpoints answer.
EventsBalanceRows ==
  LET told == {r \in Rkey : Balance(r) = 1}
      ToldOf(c) == told \intersect Of(c)
      NamedBy(c) == ToldOf(c) \ account.blank
  IN /\ \A r \in Rkey : Balance(r) = IF Observed(r) THEN 1 ELSE 0
     /\ UserFollowingCount = Cardinality(ToldOf("follow"))
     /\ UserFollowerCount = Cardinality(NamedBy("follow"))
     /\ UserShareCount = Cardinality(ToldOf("share"))
     /\ UserSubscriptionCount = Cardinality(ToldOf("subscription"))
     /\ FeedSubscriberCount = Once(NamedBy("subscription"))
     /\ ArticleShareCount = Once(NamedBy("share"))
     /\ ArticleStarCount = Once(NamedBy("star"))
     /\ ArticleCounts = [shares |-> ArticleShareCount, stars |-> ArticleStarCount]

\* Dropped when it is read: see ProcessFollowRecord.
Dropped(r) == Blank(r) /\ Kind(r) # "share"

\* A create the worker is done with has left a row, as long as the record exists
\* and is not dropped, and a row outlives the processed deletion of its record
\* only if a backfill that had listed the record earlier inserted it after that.
RowsFollowCommits ==
  /\ \A i \in handled :
       commits[i].op = "create" /\ commits[i].rkey \in repo
         => Observed(commits[i].rkey) \/ Dropped(commits[i].rkey) \/ commits[i].rkey \in failed
  /\ \A r \in Rkey : Observed(r) /\ DeletionHandled(r) => r \in ghosts \union failed

Skipped(op, r) == \E i \in skipped : commits[i] = [op |-> op, rkey |-> r]

\* Nobody had to observe r: it is dropped, an operation on it failed, or it was
\* created after a backfill last listed its collection and before a stream opened
\* without a cursor.
MissExcused(r) ==
  Dropped(r) \/ r \in failed \/ (r \notin crawled /\ Skipped("create", r))

\* Nobody had to remove the row of r.
GhostExcused(r) == r \in failed \union ghosts \/ Skipped("delete", r)

\* Of a tracked account every record is in the end observed exactly if it is in
\* the repository, but for the cases named above: the backfill, the cut-over and
\* the stream together leave no other gap.
EventuallyMirrors ==
  \A r \in Rkey :
    <>[](Tracked => /\ r \in repo /\ ~ Observed(r) => MissExcused(r)
                    /\ Observed(r) /\ r \notin repo => GhostExcused(r))

=============================================================================
