------------------------------ MODULE Reading ------------------------------
(* Read state, shares and subscriptions of one instance: the statements of     *)
(* api/internal/store on entries, entry_read_status, entry_stars,              *)
(* shared_articles, user_follows and subscriptions, the handlers of api.go,    *)
(* social.go and relay_consumer.go that run them, and the feed processor as    *)
(* the writer of entries.  A statement is one step.  A request of several      *)
(* statements is a job whose steps interleave with those of the others and     *)
(* which may lose a statement to an error, or all the rest to a crash.         *)
(*                                                                             *)
(* A read mark belongs to a user and an article's URL, whatever feeds carry    *)
(* it; no row means read.                                                      *)
EXTENDS FiniteSets, Naturals

CONSTANTS
  Readers,   \* the users who subscribe, follow, mark and star
  Sharers,   \* the users who share
  Feeds, Articles,
  Jobs,      \* requests of several statements that may overlap
  NoFeed,    \* the feed of a share that names none
  Unlinked   \* the entry of a share without one: entry_id is NULL

NoShare == "none"   \* no row of shared_articles

ASSUME ReadingAssumption ==
  /\ NoFeed \notin Feeds /\ Unlinked \notin Feeds /\ NoFeed # Unlinked
  /\ NoShare \notin Feeds \cup {Unlinked}
  /\ IsFiniteSet(Readers) /\ IsFiniteSet(Sharers)

VARIABLES
  entries,   \* the stored entries: <<feed, article>>
  subs,      \* <<reader, feed>>
  follows,   \* <<reader, sharer>>
  shares,    \* the link of each share: the feed of its entry, or Unlinked
  mark,      \* entry_read_status
  stars,     \* <<reader, article>>
  job,       \* the requests under way
  word,      \* history: a reader's last mark of this very article
  verdict,   \* history: the same, counting marks of many articles at once
  owed       \* history: notices a step has promised and nothing has settled yet

vars == <<entries, subs, follows, shares, mark, stars, job, word, verdict, owed>>
store == <<entries, subs, follows, shares, stars>>
history == <<word, verdict, owed>>

NoRow == [status |-> "none", explicit |-> FALSE]
Status == {"unread", "read", "removed"}
Idle == [kind |-> "idle", pc |-> "idle", user |-> "none", feed |-> NoFeed,
         article |-> "none", link |-> Unlinked, new |-> FALSE, raced |-> FALSE]

Init ==
  /\ entries = {} /\ subs = {} /\ follows = {} /\ stars = {}
  /\ shares = [s \in Sharers |-> [a \in Articles |-> NoShare]]
  /\ mark = [r \in Readers |-> [a \in Articles |-> NoRow]]
  /\ job = [j \in Jobs |-> Idle]
  /\ word = [r \in Readers |-> [a \in Articles |-> "none"]]
  /\ verdict = [r \in Readers |-> [a \in Articles |-> "none"]]
  /\ owed = {}

-----------------------------------------------------------------------------
(* What a reader sees.                                                         *)

Subscribed(r, e) == <<r, e[1]>> \in subs
Linked(r, e) == \E s \in Sharers : <<r, s>> \in follows /\ shares[s][e[2]] = e[1]

\* visibleEntryFilter
Visible(r) == {e \in entries : Subscribed(r, e) \/ Linked(r, e)}

\* GetEntryByID
Sees(r, e) == e \in Visible(r)

\* The scope of ListEntries.  "e.id NOT IN (SELECT sa.entry_id ...)" is never true
\* once the subquery returns a NULL.
View(r, source) ==
  LET null == \E s \in Sharers, a \in Articles : <<r, s>> \in follows /\ shares[s][a] = Unlinked
  IN CASE source = "feeds" -> {e \in entries : Subscribed(r, e) /\ ~ Linked(r, e) /\ ~ null}
       [] source = "follows" -> {e \in entries : Linked(r, e) /\ ~ Subscribed(r, e)}
       [] OTHER -> Visible(r)

Unfiltered == "any"
Zero == [shares |-> 0, stars |-> 0]

\* COALESCE(rs.status, 'read'), in every query that joins the marks by URL.
StatusOf(r, a) == IF mark[r][a] = NoRow THEN "read" ELSE mark[r][a].status

Starred(r, a) == <<r, a>> \in stars

Row(r, e) == [entry |-> e, status |-> StatusOf(r, e[2]), starred |-> Starred(r, e[2]),
              shared |-> Linked(r, e), counts |-> Zero]

\* ListEntries: what a filter leaves out of the request lets everything pass.
ListEntries(r, source, feed, status, starred) ==
  {Row(r, e) : e \in {e \in View(r, source) :
    /\ feed \in {Unfiltered, e[1]}
    /\ status \in {Unfiltered, StatusOf(r, e[2])}
    /\ starred => Starred(r, e[2])}}

\* ListHistory
InHistory(r, a) ==
  /\ mark[r][a].status = "read" /\ mark[r][a].explicit
  /\ \E f \in Feeds : <<f, a>> \in entries

\* Of several entries with its URL the history shows one, still visible or not.
ListHistory(r) ==
  {Row(r, e) : e \in {CHOOSE e \in entries : e[2] = a : a \in {a \in Articles : InHistory(r, a)}}}

\* GetLocalArticleCountsBatch
GetLocalArticleCountsBatch ==
  [a \in Articles |-> [shares |-> Cardinality({s \in Sharers : shares[s][a] # NoShare}),
                       stars |-> Cardinality({r \in Readers : Starred(r, a)})]]

\* Either batch of counts is missing when its query fails.
NoCounts == [a \in Articles |-> Zero]

Larger(m, n) == IF m > n THEN m ELSE n

Most(relay, here) == [shares |-> Larger(relay.shares, here.shares),
                      stars |-> Larger(relay.stars, here.stars)]

\* enrichEntryCounts
EnrichEntryCounts(rows, relay, here) ==
  {[row EXCEPT !.counts = Most(relay[row.entry[2]], here[row.entry[2]])] : row \in rows}

\* The list-entries and list-history handlers.
Entries(r, source, feed, status, starred, relay, here) ==
  EnrichEntryCounts(ListEntries(r, source, feed, status, starred), relay, here)
History(r, relay, here) == EnrichEntryCounts(ListHistory(r), relay, here)

\* The get-entry handler; what it enriches is a copy.
GetEntry(r, e) == {row \in {Row(r, e)} : Sees(r, e)}

\* The CLI: entries list, entries read and history, without a relay.
EntriesList(r) ==
  Entries(r, Unfiltered, Unfiltered, "unread", FALSE, NoCounts, GetLocalArticleCountsBatch)
EntriesRead(r, e) == GetEntry(r, e)
RunHistory(r) == History(r, NoCounts, GetLocalArticleCountsBatch)

\* ListSharedArticlesByUser, on the profile of a sharer.
ListSharedArticlesByUser(s, viewer) ==
  {[article |-> a, status |-> StatusOf(viewer, a), starred |-> Starred(viewer, a)] :
     a \in {a \in Articles : shares[s][a] # NoShare}}

\* ListSocialTimeline, and the social-timeline handler.
ListSocialTimeline(r) ==
  {t \in Sharers \X Articles : <<r, t[1]>> \in follows /\ shares[t[1]][t[2]] # NoShare}

\* GetEntryStatesByURLs, for items that need not be entries.
GetEntryStatesByURLs(r, urls) ==
  [a \in urls |-> [status |-> StatusOf(r, a), starred |-> Starred(r, a)]]

\* The items of the preview-feed handler, for a document with these articles.
PreviewFeed(r, document) == GetEntryStatesByURLs(r, document)

-----------------------------------------------------------------------------
(* Statements on the read marks, and what becomes of the notices promised.     *)

\* What the reader decides about an article settles every notice of it.
Undecided(r, articles) == {o \in owed : ~ (o[1] = r /\ o[2] \in articles)}

\* Mutation of Notify: ON CONFLICT DO UPDATE.
NotifyAnyway(readers, a) ==
  mark' = [r \in Readers |-> IF r \in readers
                             THEN [mark[r] EXCEPT ![a] = [status |-> "unread", explicit |-> FALSE]]
                             ELSE mark[r]]

\* MarkEntryUnreadForSubscribers and MarkShareUnreadForFollowers: a row that
\* exists is left alone.
Notify(readers, a) ==
  mark' = [r \in Readers |-> IF r \in readers /\ mark[r][a] = NoRow
                             THEN [mark[r] EXCEPT ![a] = [status |-> "unread", explicit |-> FALSE]]
                             ELSE mark[r]]

\* UpdateEntryStatusByURL, and UpdateEntryStatus on entries it may touch.
SetStatus(r, a, status, explicit) ==
  mark' = [mark EXCEPT ![r][a] = [status |-> status,
                                  explicit |-> status = "read" /\ explicit]]

\* Mutation of Sweep: the flag is taken from the new row.
SweepFlag(r, seen) ==
  mark' = [mark EXCEPT ![r] = [a \in Articles |->
    IF \E e \in seen : e[2] = a THEN [status |-> "read", explicit |-> FALSE] ELSE mark[r][a]]]

\* MarkFeedEntriesRead and MarkAllEntriesRead: rows already read, and the flag
\* of the others, are left alone.
Sweep(r, seen) ==
  mark' = [mark EXCEPT ![r] = [a \in Articles |->
    IF (\E e \in seen : e[2] = a) /\ mark[r][a].status # "read"
    THEN [mark[r][a] EXCEPT !.status = "read"] ELSE mark[r][a]]]

InFeed(r, f) == {e \in Visible(r) : e[1] = f}

Say(r, a, status, explicit) ==
  /\ word' = [word EXCEPT ![r][a] = IF status = "read" /\ explicit THEN "opened" ELSE status]
  /\ verdict' = [verdict EXCEPT ![r][a] = status]

Judge(r, seen) ==
  verdict' = [verdict EXCEPT ![r] = [a \in Articles |->
    IF \E e \in seen : e[2] = a THEN "read" ELSE verdict[r][a]]]

-----------------------------------------------------------------------------
(* Requests of one statement, and who makes them.                              *)

\* UpdateEntryStatus
UpdateEntryStatus(r, e, status, explicit) ==
  /\ Sees(r, e)
  /\ SetStatus(r, e[2], status, explicit) /\ Say(r, e[2], status, explicit)
  /\ owed' = Undecided(r, {e[2]})
  /\ UNCHANGED <<store, job>>

UpdateEntryStatusByURL(r, a, status, explicit) ==
  /\ SetStatus(r, a, status, explicit) /\ Say(r, a, status, explicit)
  /\ owed' = Undecided(r, {a})
  /\ UNCHANGED <<store, job>>

MarkEntriesRead(r, seen) ==
  /\ Sweep(r, seen) /\ Judge(r, seen)
  /\ owed' = Undecided(r, {e[2] : e \in seen})
  /\ UNCHANGED <<store, job, word>>

\* The update-entries handler: without ids it sweeps, whatever the status.
UpdateEntries(r, ids, status, explicit) ==
  IF ids = {} THEN MarkEntriesRead(r, Visible(r))
  ELSE \E e \in ids : UpdateEntryStatus(r, e, status, explicit)

\* The mark-feed-read handler.
MarkFeedRead(r, f) == MarkEntriesRead(r, InFeed(r, f))

\* The CLI: marks by hand are not reads.
EntriesMark(r) ==
  \E e \in entries, status \in Status : UpdateEntries(r, {e}, status, FALSE)
EntriesMarkByUrl(r) ==
  \E a \in Articles, status \in Status : UpdateEntryStatusByURL(r, a, status, FALSE)
FeedsMarkRead(r) == \E f \in Feeds : MarkFeedRead(r, f)

\* Other clients: a request that does not say is explicit, even for "unread".
MarkEntry(r) ==
  \E e \in entries, status \in Status : UpdateEntries(r, {e}, status, TRUE)
MarkByURL(r) ==
  \E a \in Articles, status \in Status : UpdateEntryStatusByURL(r, a, status, TRUE)
MarkAllRead(r) == UpdateEntries(r, {}, "read", TRUE)

FollowUser(r) ==
  \E s \in Sharers : /\ <<r, s>> \notin follows
                     /\ follows' = follows \cup {<<r, s>>}
                     /\ UNCHANGED <<entries, subs, shares, mark, stars, job, history>>

UnfollowUser(r) ==
  \E s \in Sharers :
    /\ follows' = follows \ {<<r, s>>}
    /\ owed' = {o \in owed : ~ (o[1] = r /\ o[3] = <<"share", s>>)}
    /\ UNCHANGED <<entries, subs, shares, mark, stars, job, word, verdict>>

\* The delete-feed handler: 404 without a subscription.
DeleteSubscription(r) ==
  \E f \in Feeds :
    /\ <<r, f>> \in subs
    /\ subs' = subs \ {<<r, f>>}
    /\ owed' = {o \in owed : ~ (o[1] = r /\ o[3] = <<"feed", f>>)}
    /\ UNCHANGED <<entries, follows, shares, mark, stars, job, word, verdict>>

At(j, pc) == job[j].pc = pc

\* The unshare-article handler, and DeleteShareByRkey for the relay's event.  A
\* request that saw the share and has not stored it again is raced.
UnshareArticle(s) ==
  \E a \in Articles :
    /\ shares[s][a] # NoShare
    /\ shares' = [shares EXCEPT ![s][a] = NoShare]
    /\ job' = [j \in Jobs |-> IF /\ job[j].kind = "share" /\ At(j, "insert") /\ ~ job[j].new
                                 /\ job[j].user = s /\ job[j].article = a
                              THEN [job[j] EXCEPT !.raced = TRUE] ELSE job[j]]
    /\ owed' = {o \in owed : ~ (o[2] = a /\ o[3] = <<"share", s>>)}
    /\ UNCHANGED <<entries, subs, follows, mark, stars, word, verdict>>

-----------------------------------------------------------------------------
(* Requests of several statements.                                             *)

Free(j) == job[j] = Idle

Open(j, kind, pc, user, feed, article) ==
  /\ Free(j)
  /\ job' = [job EXCEPT ![j] = [Idle EXCEPT !.kind = kind, !.pc = pc, !.user = user,
                                            !.feed = feed, !.article = article]]
  /\ UNCHANGED <<store, mark, history>>

Goto(j, pc) == job' = [job EXCEPT ![j].pc = pc]
Close(j) == job' = [job EXCEPT ![j] = Idle]

Cause(j) ==
  IF job[j].kind \in {"share", "shareEvent"} THEN <<"share", job[j].user>> ELSE <<"feed", job[j].feed>>

Recorded(o) == mark[o[1]][o[2]] # NoRow

Forgive(j) == owed' = {o \in owed : o[2] = job[j].article /\ o[3] = Cause(j) => Recorded(o)}

\* Of a star, the entry was ensured before.
ToggleEntryStarredByURL(r, a, starred) ==
  stars' = IF starred THEN stars \cup {<<r, a>>} ELSE stars \ {<<r, a>>}

\* The share-article, toggle-entry-starred-by-url and star-by-id requests, and the
\* relay's share and star events.
ShareArticle(j) ==
  \E s \in Sharers, a \in Articles, f \in Feeds \cup {NoFeed} : Open(j, "share", "ensure", s, f, a)
HandleShareEvent(j) ==
  \E s \in Sharers, a \in Articles, f \in Feeds \cup {NoFeed} : Open(j, "shareEvent", "ensure", s, f, a)
StarByURL(j) ==
  \E r \in Readers, a \in Articles, f \in Feeds \cup {NoFeed} : Open(j, "star", "ensure", r, f, a)
UnstarByURL(r) ==
  \E a \in Articles : /\ ToggleEntryStarredByURL(r, a, FALSE)
                      /\ UNCHANGED <<entries, subs, follows, shares, mark, job, history>>

\* The toggle-entry-starred handler looks at the entry and then toggles it.  The
\* CLI's entries star, and the keys of the others.
EntriesStar(j) ==
  \E r \in Readers, e \in entries :
    Sees(r, e) /\ Open(j, "starByID", "toggle", r, e[1], e[2])

\* ToggleEntryStarred
ToggleEntryStarred(j) ==
  LET r == job[j].user
      e == <<job[j].feed, job[j].article>>
  IN /\ At(j, "toggle") /\ Close(j)
     /\ \/ stars' = IF Sees(r, e) THEN stars \cup {<<r, e[2]>>} ELSE stars
        \/ stars' = stars \ {<<r, e[2]>>}
     /\ UNCHANGED <<entries, subs, follows, shares, mark, history>>

\* ensureSharedEntry: any failure leaves the request without an entry.  The feed
\* is not looked at again.
EnsureSharedEntry(j) ==
  /\ At(j, "ensure")
  /\ \E link \in {job[j].feed, Unlinked} \cap (Feeds \cup {Unlinked}) :
       /\ entries' = IF link = Unlinked THEN entries ELSE entries \cup {<<link, job[j].article>>}
       /\ job' = [job EXCEPT ![j].link = link, ![j].feed = NoFeed,
                             ![j].pc = IF job[j].kind = "share" THEN "check" ELSE "insert"]
  /\ UNCHANGED <<subs, follows, shares, mark, stars, history>>

\* The check of ShareArticle; an error counts as no share.
CheckShared(j) ==
  /\ At(j, "check")
  /\ \E existed \in {FALSE, shares[job[j].user][job[j].article] # NoShare} :
       job' = [job EXCEPT ![j].new = ~ existed, ![j].pc = "insert", ![j].raced = FALSE]
  /\ UNCHANGED <<store, mark, history>>

IsNew(j) == shares[job[j].user][job[j].article] = NoShare

\* The entry the row names after the upsert: COALESCE keeps an earlier one.
LinkKept(j) ==
  LET old == shares[job[j].user][job[j].article]
  IN IF old \in Feeds THEN old ELSE job[j].link

\* Only the sharer and the article matter from here on.
ToTell(j) ==
  job' = [job EXCEPT ![j] = [@ EXCEPT !.pc = "tell", !.link = Unlinked, !.new = FALSE, !.raced = FALSE]]

\* The upsert of ShareArticle and of UpsertShareWithRkey, after which the
\* followers are told or not.
PutShare(j, tells) ==
  LET s == job[j].user
      a == job[j].article
  IN /\ At(j, "insert") /\ job[j].kind \in {"share", "shareEvent"}
     /\ shares' = [shares EXCEPT ![s][a] = LinkKept(j)]
     /\ IF tells THEN ToTell(j) ELSE Close(j)
     /\ owed' = IF IsNew(j) /\ LinkKept(j) # Unlinked /\ ~ job[j].raced
                THEN owed \cup {<<r, a, Cause(j)>> : r \in {q \in Readers :
                       <<q, s>> \in follows /\ mark[q][a] = NoRow}}
                ELSE owed
     /\ UNCHANGED <<entries, subs, follows, stars, mark, word, verdict>>

\* A request tells them if it saw no share when it checked.
ToldByRequest(j) == job[j].new /\ LinkKept(j) # Unlinked

\* Mutation of InsertShare: the relay's event tells of updated rows.
InsertShareUpdated(j) ==
  PutShare(j, IF job[j].kind = "share" THEN ToldByRequest(j) ELSE ~ IsNew(j))

\* An event of the relay tells them if the statement itself says the row is new.
InsertShare(j) ==
  PutShare(j, IF job[j].kind = "share" THEN ToldByRequest(j) ELSE IsNew(j))

\* MarkShareUnreadForFollowers
TellFollowers(j) ==
  /\ At(j, "tell") /\ Close(j)
  /\ Notify({r \in Readers : <<r, job[j].user>> \in follows}, job[j].article)
  /\ UNCHANGED <<store, history>>

\* The last statement of a star by URL, and UpsertStarWithRkey.
InsertStar(j) ==
  /\ At(j, "insert") /\ job[j].kind = "star" /\ Close(j)
  /\ ToggleEntryStarredByURL(job[j].user, job[j].article, TRUE)
  /\ UNCHANGED <<entries, subs, follows, shares, mark, history>>

\* subscribeToFeed: a subscription that exists is returned as it is.
SubscribeToFeed(j) ==
  \E r \in Readers, f \in Feeds, a \in Articles :
    <<r, f>> \notin subs /\ Open(j, "subscribe", "create", r, f, a)

\* CreateSubscription, after which the fetch may bring the article or nothing.
CreateSubscription(j) ==
  /\ At(j, "create")
  /\ subs' = subs \cup {<<job[j].user, job[j].feed>>}
  /\ \E pc \in {"store", "bulk"} : Goto(j, pc)
  /\ UNCHANGED <<entries, follows, shares, mark, stars, history>>

\* UpsertFeedSubscriptionWithRkey, for the relay's event: no backlog to sweep, as
\* no row means read.
HandleFeedSubEvent(r) ==
  \E f \in Feeds : /\ subs' = subs \cup {<<r, f>>}
                   /\ UNCHANGED <<entries, follows, shares, mark, stars, job, history>>

\* ProcessFeed, run by a worker or by the refresh-feed handler.
RefreshFeed(j) ==
  \E f \in Feeds, a \in Articles : Open(j, "refresh", "store", "worker", f, a)

Continue(j) == IF job[j].kind = "subscribe" THEN Goto(j, "bulk") ELSE Close(j)

\* CreateEntry for one item of the parsed feed.
CreateEntry(j) ==
  LET e == <<job[j].feed, job[j].article>>
  IN /\ At(j, "store")
     /\ entries' = entries \cup {e}
     /\ IF e \notin entries THEN Goto(j, "fan") ELSE Continue(j)
     /\ owed' = IF e \in entries THEN owed
                ELSE owed \cup {<<r, e[2], Cause(j)>> : r \in {q \in Readers :
                       <<q, e[1]>> \in subs /\ mark[q][e[2]] = NoRow}}
     /\ UNCHANGED <<subs, follows, shares, mark, stars, word, verdict>>

\* MarkEntryUnreadForSubscribers
FanOut(j) ==
  /\ At(j, "fan") /\ Continue(j)
  /\ Notify({r \in Readers : <<r, job[j].feed>> \in subs}, job[j].article)
  /\ UNCHANGED <<store, history>>

\* MarkFeedEntriesRead at the end of subscribeToFeed.
SweepBacklog(j) ==
  LET seen == InFeed(job[j].user, job[j].feed)
  IN /\ At(j, "bulk") /\ Close(j)
     /\ Sweep(job[j].user, seen) /\ Judge(job[j].user, seen)
     /\ owed' = Undecided(job[j].user, {e[2] : e \in seen})
     /\ UNCHANGED <<store, word>>

\* Any other statement fails: the processor goes on, the others give up.
StatementFails(j) ==
  /\ ~ Free(j) /\ ~ At(j, "ensure") /\ ~ At(j, "check")
  /\ IF At(j, "fan") \/ At(j, "store") THEN Continue(j) ELSE Close(j)
  /\ IF At(j, "fan") \/ At(j, "tell") THEN Forgive(j) ELSE UNCHANGED owed
  /\ UNCHANGED <<store, mark, word, verdict>>

Crash ==
  /\ job' = [j \in Jobs |-> Idle] /\ owed' = {o \in owed : Recorded(o)}
  /\ UNCHANGED <<store, mark, word, verdict>>

-----------------------------------------------------------------------------
Reader(r) ==
  \/ EntriesMark(r) \/ EntriesMarkByUrl(r) \/ FeedsMarkRead(r)
  \/ MarkEntry(r) \/ MarkByURL(r) \/ MarkAllRead(r)
  \/ FollowUser(r) \/ UnfollowUser(r) \/ DeleteSubscription(r)
  \/ UnstarByURL(r) \/ HandleFeedSubEvent(r)

Request(j) ==
  \/ ShareArticle(j) \/ HandleShareEvent(j) \/ StarByURL(j) \/ EntriesStar(j)
  \/ SubscribeToFeed(j) \/ RefreshFeed(j)

Statement(j) ==
  \/ EnsureSharedEntry(j) \/ CheckShared(j) \/ InsertShare(j) \/ TellFollowers(j)
  \/ InsertStar(j) \/ ToggleEntryStarred(j) \/ CreateSubscription(j) \/ CreateEntry(j)
  \/ FanOut(j) \/ SweepBacklog(j) \/ StatementFails(j)

Next ==
  \/ \E r \in Readers : Reader(r)
  \/ \E s \in Sharers : UnshareArticle(s)
  \/ \E j \in Jobs : Request(j) \/ Statement(j)
  \/ Crash

Spec == Init /\ [][Next]_vars

-----------------------------------------------------------------------------
Mark == [status : Status, explicit : BOOLEAN]
Job == [kind : {"idle", "share", "shareEvent", "star", "starByID", "subscribe", "refresh"},
        pc : {"idle", "ensure", "check", "insert", "tell", "toggle", "create", "store", "fan", "bulk"},
        user : Readers \cup Sharers \cup {"none", "worker"}, feed : Feeds \cup {NoFeed},
        article : Articles \cup {"none"}, link : Feeds \cup {Unlinked},
        new : BOOLEAN, raced : BOOLEAN]

StoreType ==
  /\ entries \subseteq Feeds \X Articles
  /\ subs \subseteq Readers \X Feeds /\ follows \subseteq Readers \X Sharers
  /\ stars \subseteq Readers \X Articles
  /\ shares \in [Sharers -> [Articles -> Feeds \cup {Unlinked, NoShare}]]
MarkType ==
  mark \in [Readers -> [Articles -> {row \in Mark : row.explicit => row.status = "read"} \cup {NoRow}]]
JobType == job \in [Jobs -> Job]
HistoryType ==
  /\ word \in [Readers -> [Articles -> Status \cup {"opened", "none"}]]
  /\ verdict \in [Readers -> [Articles -> Status \cup {"none"}]]
  /\ \A o \in owed : o[1] \in Readers /\ o[2] \in Articles

\* Types; a mark that is explicit is a read, as store.go:624 says.
TypeOK == StoreType /\ MarkType /\ JobType /\ HistoryType

\* What a reader last decided about an article, by a mark of its own, by a sweep
\* or by subscribing to a feed that has it, stays: no refresh, share, reshare or
\* relay event that was under way or comes later turns it unread again.
VerdictKept ==
  \A r \in Readers, a \in Articles :
    verdict[r][a] # "none" => mark[r][a].status = verdict[r][a]

\* An article is in the history exactly when the reader's last mark of it was an
\* explicit read, whatever sweeps came before or after (store.go:503).
HistoryFaithful ==
  \A r \in Readers, a \in Articles :
    (\E row \in RunHistory(r) : row.entry[2] = a)
      <=> word[r][a] = "opened" /\ \E f \in Feeds : <<f, a>> \in entries

\* A reader finds an article unread: in the unread list, in the preview of a feed
\* that has it or, with the share counted, on the timeline and the sharer's profile.
FindsInFeed(r, a, f) ==
  /\ \E row \in EntriesList(r) : row.entry = <<f, a>>
  /\ PreviewFeed(r, {a})[a].status = "unread"
FindsShared(r, a, s) ==
  /\ \E row \in EntriesList(r) : row.entry[2] = a /\ row.shared /\ row.counts.shares >= 1
  /\ <<s, a>> \in ListSocialTimeline(r)
  /\ \E item \in ListSharedArticlesByUser(s, r) : item.article = a /\ item.status = "unread"

Finds(o) ==
  \/ \E f \in Feeds : o[3] = <<"feed", f>> /\ FindsInFeed(o[1], o[2], f)
  \/ \E s \in Sharers : o[3] = <<"share", s>> /\ FindsShared(o[1], o[2], s)

\* A reader who had no mark of an article and followed the sharer when a new share of
\* a known entry was stored, or was subscribed when the processor stored an entry,
\* finds it unread until deciding otherwise, leaving or the unsharing, unless the
\* statement that tells fails.  Not so the share of a request whose check saw an
\* earlier one that was unshared before the upsert (store/social.go:374-407).
NoticesDelivered ==
  \A o \in owed :
    \/ Recorded(o) /\ Finds(o)
    \/ \E j \in Jobs :
         job[j].pc \in {"tell", "fan"} /\ job[j].article = o[2] /\ Cause(j) = o[3]

=============================================================================
