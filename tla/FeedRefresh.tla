----------------------------- MODULE FeedRefresh -----------------------------
(* Feed refresh: the scheduler (scheduler.go), the worker pool (worker.go),    *)
(* the processor (reader/processor/processor.go) with its conditional fetch    *)
(* (reader/fetcher/fetcher.go), and the requests that run the processor        *)
(* beside the pool: refresh, subscribe and OPML import (api.go).               *)
(*                                                                             *)
(* A refresh works on a copy of the feed row taken when it was dispatched, and *)
(* a due feed is not claimed: it stays due until some refresh writes its       *)
(* state, so several copies of it may be queued and processed at once.         *)
(*                                                                             *)
(* Time appears only as the order in which next_check_at passes.               *)
EXTENDS FiniteSets, Integers, Sequences, SequencesExt

CONSTANTS
  Feeds,
  Tagged,       \* the feeds whose server sends an ETag and answers 304
  Workers, Requests,
  Deployments,  \* what is checked side by side: the workers
                \* (SUNRED_WORKER_POOL_SIZE, none with SUNRED_DISABLE_SCHEDULER),
                \* SUNRED_BATCH_SIZE, the feeds and the requests that overlap
  QueueBound,   \* capacity of Pool.jobs
  Window,       \* how many articles a document carries
  MaxVersion,   \* bound: documents published per feed
  MaxMishaps    \* bound: failed fetches and statements, panics, restarts

ASSUME RefreshAssumption ==
  /\ IsFiniteSet(Feeds) /\ Tagged \subseteq Feeds /\ Workers \cap Requests = {}
  /\ Deployments \subseteq [workers : SUBSET Workers, batch : Nat \ {0},
                            feeds : SUBSET Feeds, requests : SUBSET Requests]
  /\ QueueBound \in Nat \ {0} /\ Window \in Nat \ {0}
  /\ MaxVersion \in Nat \ {0} /\ MaxMishaps \in Nat

VARIABLES
  deploy,   \* the deployment
  version,  \* the document each server serves
  fresh,    \* the feeds whose next_check_at is NULL
  due,      \* the feeds whose next_check_at has passed, in that order
  resting,  \* the feeds whose next_check_at lies ahead
  etag,     \* etag_header, as the document it is the tag of; 0: empty
  stored,   \* the articles with a row in entries
  turn,     \* the copies the scheduler has still to submit
  queue,    \* Pool.jobs
  job,      \* the refreshes under way
  missed,   \* history: articles whose insert failed in a refresh that saved a tag
  mishaps

vars == <<deploy, version, fresh, due, resting, etag, stored, turn, queue, job, missed, mishaps>>
feeds == <<fresh, due, resting, etag>>
pool == <<turn, queue>>

Slots == Workers \cup Requests
Due == {due[i] : i \in DOMAIN due}
Known == fresh \cup Due \cup resting

\* What the document v of a feed carries: its newest articles.
Articles(v) == {a \in 1..v : a > v - Window}

Copy(f) == [feed |-> f, tag |-> etag[f]]

Idle == [pc |-> "idle", feed |-> "none", tag |-> 0, seen |-> 0,
         todo |-> {}, failed |-> {}, rest |-> {}]

Init ==
  /\ deploy \in Deployments
  /\ version = [f \in Feeds |-> 1]
  /\ fresh = {} /\ due = <<>> /\ resting = {}
  /\ etag = [f \in Feeds |-> 0]
  /\ stored = [f \in Feeds |-> {}]
  /\ turn = <<>> /\ queue = <<>>
  /\ job = [j \in Slots |-> Idle]
  /\ missed = [f \in Feeds |-> {}]
  /\ mishaps = 0

Mishap == mishaps < MaxMishaps /\ mishaps' = mishaps + 1

-----------------------------------------------------------------------------
(* The feed rows and the documents.                                            *)

\* A publisher replaces the document.
Publish(f) ==
  /\ version[f] < MaxVersion
  /\ version' = [version EXCEPT ![f] = @ + 1]
  /\ UNCHANGED <<deploy, feeds, stored, pool, job, missed, mishaps>>

\* next_check_at passes.
ComeDue(f) ==
  /\ f \in resting
  /\ resting' = resting \ {f} /\ due' = Append(due, f)
  /\ UNCHANGED <<deploy, version, fresh, etag, stored, pool, job, missed, mishaps>>

\* GetOrCreateFeed: an existing row keeps its state.
GetOrCreateFeed(f) ==
  /\ fresh' = IF f \in Known THEN fresh ELSE fresh \cup {f}
  /\ UNCHANGED <<due, resting, etag>>

\* UpsertFeedSubscriptionWithRkey: the relay names a feed, nobody fetches it.
HandleFeedSubEvent(f) ==
  /\ GetOrCreateFeed(f)
  /\ UNCHANGED <<deploy, version, stored, pool, job, missed, mishaps>>

\* ensureSharedEntry: a share stores an article of a feed it names.
EnsureSharedEntry(f, a) ==
  /\ GetOrCreateFeed(f)
  /\ stored' = [stored EXCEPT ![f] = @ \cup {a}]
  /\ UNCHANGED <<deploy, version, pool, job, missed, mishaps>>

\* computeNextCheck and the constant delays: next_check_at moves ahead of now.
ComputeNextCheck(f) ==
  /\ fresh' = fresh \ {f}
  /\ due' = IF f \in Due THEN RemoveAt(due, CHOOSE i \in DOMAIN due : due[i] = f) ELSE due
  /\ resting' = resting \cup {f}

\* UpdateFeedFetchState
UpdateFeedFetchState(f, tag) ==
  /\ etag' = [etag EXCEPT ![f] = tag]
  /\ ComputeNextCheck(f)

-----------------------------------------------------------------------------
(* Scheduler and pool.                                                         *)

\* "ORDER BY next_check_at ASC": NULL sorts last, in any order.
Orders(S) == {s \in [1..Cardinality(S) -> S] : \A i, j \in 1..Cardinality(S) : s[i] = s[j] => i = j}
Batch(s) == SubSeq(s, 1, IF Len(s) < deploy.batch THEN Len(s) ELSE deploy.batch)

ListFeedsDueForRefresh == {Batch(due \o s) : s \in Orders(fresh)}

\* tick: the ticker fires again only after the previous tick has returned.
Tick ==
  /\ deploy.workers # {} /\ turn = <<>> /\ Known # resting
  /\ \E list \in ListFeedsDueForRefresh :
       turn' = [i \in DOMAIN list |-> Copy(list[i])]
  /\ UNCHANGED <<deploy, version, feeds, stored, queue, job, missed, mishaps>>

\* Submit blocks while the channel is full.
Submit ==
  /\ turn # <<>> /\ Len(queue) < QueueBound
  /\ turn' = Tail(turn) /\ queue' = Append(queue, Head(turn))
  /\ UNCHANGED <<deploy, version, feeds, stored, job, missed, mishaps>>

Start(copy, rest) == [Idle EXCEPT !.pc = "fetch", !.feed = copy.feed, !.tag = copy.tag, !.rest = rest]

\* A worker takes the next copy.
Worker(w) ==
  /\ job[w].pc = "idle" /\ queue # <<>>
  /\ queue' = Tail(queue)
  /\ job' = [job EXCEPT ![w] = Start(Head(queue), {})]
  /\ UNCHANGED <<deploy, version, feeds, stored, turn, missed, mishaps>>

-----------------------------------------------------------------------------
(* Requests that process a feed themselves.                                    *)

\* refresh-feed
RefreshFeed(r, f) ==
  /\ job[r].pc = "idle" /\ f \in Known
  /\ job' = [job EXCEPT ![r] = Start(Copy(f), {})]
  /\ UNCHANGED <<deploy, version, feeds, stored, pool, missed, mishaps>>

\* subscribeToFeed, up to the processor: the row is made and copied at once.
\* A user who has the subscription already is answered without any of it.
SubscribeToFeed(r, f, rest) ==
  /\ GetOrCreateFeed(f)
  /\ job' = [job EXCEPT ![r] = Start(Copy(f), rest)]
  /\ UNCHANGED <<deploy, version, stored, pool, missed, mishaps>>

\* create-feed
CreateFeed(r, f) == job[r].pc = "idle" /\ SubscribeToFeed(r, f, {})

\* import-opml: the feeds of the file, one after the other.
ImportOPML(r) ==
  /\ job[r].pc = "idle"
  /\ \E list \in SUBSET deploy.feeds : \E f \in list :
       Cardinality(list) > 1 /\ SubscribeToFeed(r, f, list \ {f})

ImportNext(r) ==
  /\ job[r].pc \in {"ok", "failed"}
  /\ \E f \in job[r].rest : SubscribeToFeed(r, f, job[r].rest \ {f})

\* The answer of a refresh, the end of an import, a worker's next round.
Return(j) ==
  /\ job[j].pc \in {"ok", "failed"} /\ job[j].rest = {}
  /\ job' = [job EXCEPT ![j] = Idle]
  /\ UNCHANGED <<deploy, version, feeds, stored, pool, missed, mishaps>>

-----------------------------------------------------------------------------
(* ProcessFeed, on the copy of slot j.                                         *)

Goto(j, pc) == job' = [job EXCEPT ![j].pc = pc]

\* A document arrived and parsed.
Parsed(j) ==
  LET v == version[job[j].feed]
  IN job' = [job EXCEPT ![j].pc = "insert", ![j].seen = v, ![j].todo = Articles(v)]

\* Fetch, conditional if the copy has a tag.
Fetch(j) ==
  LET f == job[j].feed
  IN /\ job[j].pc = "fetch"
     /\ IF f \in Tagged /\ job[j].tag = version[f] THEN Goto(j, "unmodified") ELSE Parsed(j)
     /\ UNCHANGED <<deploy, version, feeds, stored, pool, missed, mishaps>>

\* The fetch, the unconditional one included, or the parser returns an error.
FetchFails(j) ==
  /\ job[j].pc \in {"fetch", "refetch"}
  /\ Goto(j, "error") /\ Mishap
  /\ UNCHANGED <<deploy, version, feeds, stored, pool, missed>>

\* CountEntriesByFeed on a 304.
CountEntriesByFeed(j) ==
  /\ job[j].pc = "unmodified"
  /\ Goto(j, IF stored[job[j].feed] = {} THEN "refetch" ELSE "keep")
  /\ UNCHANGED <<deploy, version, feeds, stored, pool, missed, mishaps>>

\* The count fails, or the server answers 304 to the unconditional fetch.
KeepAnyway(j) ==
  /\ job[j].pc \in {"unmodified", "refetch"}
  /\ Goto(j, "keep") /\ Mishap
  /\ UNCHANGED <<deploy, version, feeds, stored, pool, missed>>

Refetch(j) ==
  /\ job[j].pc = "refetch" /\ Parsed(j)
  /\ UNCHANGED <<deploy, version, feeds, stored, pool, missed, mishaps>>

\* CreateEntry: nothing happens if the article has a row.
CreateEntry(j) ==
  /\ job[j].pc = "insert"
  /\ \E a \in job[j].todo :
       /\ stored' = [stored EXCEPT ![job[j].feed] = @ \cup {a}]
       /\ job' = [job EXCEPT ![j].todo = @ \ {a}]
  /\ UNCHANGED <<deploy, version, feeds, pool, missed, mishaps>>

\* The error is logged and the loop goes on.
CreateEntryFails(j) ==
  /\ job[j].pc = "insert" /\ Mishap
  /\ \E a \in job[j].todo :
       job' = [job EXCEPT ![j].todo = @ \ {a}, ![j].failed = @ \cup {a}]
  /\ UNCHANGED <<deploy, version, feeds, stored, pool, missed>>

\* The state after a refresh carries the validators of the document.
SaveRefreshed(j) ==
  LET f == job[j].feed
  IN /\ job[j].pc = "insert" /\ job[j].todo = {}
     /\ UpdateFeedFetchState(f, IF f \in Tagged THEN job[j].seen ELSE 0)
     /\ missed' = [missed EXCEPT ![f] = IF f \in Tagged THEN @ \cup job[j].failed ELSE @]
     /\ Goto(j, "ok")
     /\ UNCHANGED <<deploy, version, stored, pool, mishaps>>

\* Mutation of SaveUnchanged: after an error too the validators are the server's.
SaveServers(j) ==
  LET f == job[j].feed
  IN /\ job[j].pc \in {"keep", "error"}
     /\ UpdateFeedFetchState(f, IF f \in Tagged THEN version[f] ELSE 0)
     /\ Goto(j, IF job[j].pc = "keep" THEN "ok" ELSE "failed")
     /\ UNCHANGED <<deploy, version, stored, pool, missed, mishaps>>

\* The state after a 304 or an error carries the validators of the copy.
SaveUnchanged(j) ==
  /\ job[j].pc \in {"keep", "error"}
  /\ UpdateFeedFetchState(job[j].feed, job[j].tag)
  /\ Goto(j, IF job[j].pc = "keep" THEN "ok" ELSE "failed")
  /\ UNCHANGED <<deploy, version, stored, pool, missed, mishaps>>

\* UpdateFeedFetchState fails: logged, and the feed stays due.
SaveFails(j) ==
  /\ job[j].pc \in {"keep", "error"} \/ (job[j].pc = "insert" /\ job[j].todo = {})
  /\ Goto(j, IF job[j].pc = "error" THEN "failed" ELSE "ok")
  /\ Mishap
  /\ UNCHANGED <<deploy, version, feeds, stored, pool, missed>>

\* Mutation of Panic: the worker goroutine ends with it.
PanicKills(j) ==
  /\ job[j].pc \notin {"idle", "dead"}
  /\ job' = [job EXCEPT ![j] = [Idle EXCEPT !.pc = IF j \in Workers THEN "dead" ELSE "idle"]]
  /\ Mishap
  /\ UNCHANGED <<deploy, version, feeds, stored, pool, missed>>

\* A panic, which process recovers from; a request may also lose its client,
\* whose context then fails every statement left.
Panic(j) ==
  /\ job[j].pc # "idle"
  /\ job' = [job EXCEPT ![j] = Idle]
  /\ Mishap
  /\ UNCHANGED <<deploy, version, feeds, stored, pool, missed>>

\* The process ends, with a signal or without: run returns once the listener is
\* closed, nobody calls Pool.Stop, and the queue is gone.
Restart ==
  /\ turn' = <<>> /\ queue' = <<>>
  /\ job' = [j \in Slots |-> Idle]
  /\ Mishap
  /\ UNCHANGED <<deploy, version, feeds, stored, missed>>

-----------------------------------------------------------------------------

ProcessFeed(j) ==
  \/ Fetch(j) \/ CountEntriesByFeed(j) \/ Refetch(j) \/ CreateEntry(j)
  \/ SaveRefreshed(j) \/ SaveUnchanged(j)

Failure(j) ==
  FetchFails(j) \/ KeepAnyway(j) \/ CreateEntryFails(j) \/ SaveFails(j) \/ Panic(j)

Next ==
  \/ \E f \in deploy.feeds : Publish(f) \/ ComeDue(f) \/ HandleFeedSubEvent(f)
  \/ \E f \in deploy.feeds : \E a \in 1..version[f] : EnsureSharedEntry(f, a)
  \/ Tick \/ Submit
  \/ \E w \in deploy.workers : Worker(w)
  \/ \E r \in deploy.requests : ImportOPML(r) \/ ImportNext(r)
  \/ \E r \in deploy.requests, f \in deploy.feeds : RefreshFeed(r, f) \/ CreateFeed(r, f)
  \/ \E j \in Slots : ProcessFeed(j) \/ Return(j) \/ Failure(j)
  \/ Restart

Spec == Init /\ [][Next]_vars

\* The clock, the scheduler's goroutine and the workers run; a fetch ends, by
\* the client's timeout if nothing else.  Nothing is asked of requests, shares
\* and publishers.
Fairness ==
  /\ \A f \in Feeds : WF_vars(ComeDue(f))
  /\ WF_vars(Tick) /\ WF_vars(Submit)
  /\ \A w \in Workers : WF_vars(Worker(w) \/ ProcessFeed(w) \/ Return(w))

FairSpec == Spec /\ Fairness

-----------------------------------------------------------------------------
(* Properties *)

Job == [pc : {"idle", "fetch", "unmodified", "refetch", "insert", "keep", "error", "ok", "failed"},
        feed : Feeds \cup {"none"}, tag : 0..MaxVersion, seen : 0..MaxVersion,
        todo : SUBSET (1..MaxVersion), failed : SUBSET (1..MaxVersion), rest : SUBSET Feeds]

FeedsType ==
  /\ version \in [Feeds -> 1..MaxVersion] /\ etag \in [Feeds -> 0..MaxVersion]
  /\ stored \in [Feeds -> SUBSET (1..MaxVersion)] /\ missed \in [Feeds -> SUBSET (1..MaxVersion)]
RowsType ==
  /\ due \in Seq(Feeds) /\ \A i, k \in DOMAIN due : due[i] = due[k] => i = k
  /\ fresh \subseteq Feeds /\ resting \subseteq Feeds
  /\ fresh \cap resting = {} /\ Due \cap (fresh \cup resting) = {}
PoolType ==
  /\ \A s \in {turn, queue} : s \in Seq([feed : Known, tag : 0..MaxVersion])
  /\ Len(turn) <= deploy.batch /\ Len(queue) <= QueueBound
JobType ==
  /\ job \in [Slots -> Job]
  /\ \A j \in Slots : job[j].pc # "idle" => job[j].feed \in Known

\* Type invariant.  A feed row is in one of three places, and in due once; no
\* copy is of a feed without a row.
TypeOK ==
  /\ deploy \in Deployments /\ mishaps \in 0..MaxMishaps
  /\ FeedsType /\ RowsType /\ PoolType /\ JobType

Has(f, v) == Articles(v) \subseteq stored[f] \cup missed[f]

\* The stored tag never promises too much: of the document it stands for every
\* article has been stored, or was logged as failed by a refresh that saved a
\* tag, in whatever order the refreshes working on older copies of the row
\* write it.  (A 304 for such a tag would hide the article for good.)
ValidatorCovers == \A f \in Feeds : Has(f, etag[f])

\* A feed that has been tried once is refreshed again and again: its current
\* document is in the end stored but for failed inserts, even when a tick takes
\* fewer feeds than are due and refreshes fail, panic or are lost in a restart.
\* A feed never tried has that only where a tick takes them all.
EventuallyRefreshed ==
  \A f \in Feeds :
    (/\ deploy.workers # {}
     /\ f \in Known
     /\ f \in fresh => deploy.batch >= Cardinality(deploy.feeds)) ~> Has(f, version[f])

=============================================================================
