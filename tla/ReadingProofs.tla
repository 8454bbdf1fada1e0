---------------------------- MODULE ReadingProofs ----------------------------
(* Proofs about Reading: its types, that a reader's verdict on an article is   *)
(* kept, that the history shows what the reader opened, and that the notices   *)
(* of shares and entries reach everyone and are found in the views.            *)
EXTENDS Reading, FiniteSetTheorems, TLAPS

\* What the steps of a request of each kind work with.
Form(p) ==
  /\ p.kind \in {"share", "shareEvent"} =>
       p.user \in Sharers /\ p.pc \in {"ensure", "check", "insert", "tell"}
  /\ p.kind = "star" => p.user \in Readers /\ p.pc \in {"ensure", "insert"}
  /\ p.kind = "starByID" => p.user \in Readers /\ p.feed \in Feeds /\ p.pc = "toggle"
  /\ p.kind = "subscribe" =>
       p.user \in Readers /\ p.feed \in Feeds /\ p.pc \in {"create", "store", "fan", "bulk"}
  /\ p.kind = "refresh" => p.feed \in Feeds /\ p.pc \in {"store", "fan"}
  /\ p.kind = "idle" => p.pc = "idle"
  /\ p.kind # "idle" => p.article \in Articles
Forms == \A j \in Jobs : Form(job[j])

Inv == TypeOK /\ Forms

\* A mark is explicit and a read exactly when it was the reader's last mark.
Opened ==
  \A r \in Readers, a \in Articles :
    mark[r][a].status = "read" /\ mark[r][a].explicit <=> word[r][a] = "opened"

\* A share request about to store a new row has not seen an older one, unless the
\* article was unshared in between.
Fresh ==
  \A j \in Jobs :
    job[j].kind = "share" /\ job[j].pc = "insert" /\ ~ job[j].raced /\ IsNew(j) => job[j].new

\* A share names a stored entry, and so does a request that is about to store one.
LinksKnown ==
  /\ \A s \in Sharers, a \in Articles : shares[s][a] \in Feeds => <<shares[s][a], a>> \in entries
  /\ \A j \in Jobs : job[j].link \in Feeds => <<job[j].link, job[j].article>> \in entries

\* A notice is due to a reader who still follows the sharer of a share of a known
\* entry, or is subscribed to the feed that has the entry.
Due(o) ==
  \/ \E s \in Sharers : /\ o[3] = <<"share", s>> /\ <<o[1], s>> \in follows
                        /\ shares[s][o[2]] \in Feeds
  \/ \E f \in Feeds : /\ o[3] = <<"feed", f>> /\ <<o[1], f>> \in subs
                      /\ <<f, o[2]>> \in entries
Owing == \A o \in owed : Due(o)

-----------------------------------------------------------------------------
(* The marks *)

\* The rows of entry_read_status, and what is no row.
Rows == {row \in Mark : row.explicit => row.status = "read"} \cup {NoRow}

Unread == [status |-> "unread", explicit |-> FALSE]

\* What can be said of a row.
LEMMA RowFacts ==
  /\ Unread \in Rows /\ Unread # NoRow
  /\ \A row \in Rows : /\ row.status \in Status \/ row = NoRow
                       /\ row.explicit \in BOOLEAN
                       /\ row.explicit => row.status = "read"
                       /\ row.status \in {"none", "read", "unread", "removed"}
                       /\ row.status # "none" => row # NoRow
<1>1. Unread \in Mark /\ ~ Unread.explicit /\ Unread.status = "unread" /\ NoRow.status = "none"
  BY DEF Mark, Unread, Status, NoRow
<1>2. ASSUME NEW row \in Mark, row.explicit => row.status = "read"
      PROVE  /\ row.status \in Status /\ row.explicit \in BOOLEAN
             /\ row.status \in {"none", "read", "unread", "removed"}
  BY DEF Mark, Status
<1>3. NoRow.explicit \in BOOLEAN /\ ~ NoRow.explicit /\ NoRow.status = "none"
  BY DEF NoRow
<1>4. ASSUME NEW row \in Rows
      PROVE  /\ row.status \in Status \/ row = NoRow
             /\ row.explicit \in BOOLEAN
             /\ row.explicit => row.status = "read"
             /\ row.status \in {"none", "read", "unread", "removed"}
             /\ row.status # "none" => row # NoRow
  <2>1. CASE row = NoRow
    BY <1>3, <2>1
  <2>2. CASE row \in Mark /\ (row.explicit => row.status = "read")
    BY <1>2, <1>3, <2>2
  <2>3. QED
    BY <2>1, <2>2 DEF Rows
<1>5. Unread \in Rows /\ Unread # NoRow
  BY <1>1, <1>3 DEF Rows
<1>6. QED
  BY <1>4, <1>5

\* The type of the marks, by their rows.
LEMMA MarkIsRows == MarkType <=> mark \in [Readers -> [Articles -> Rows]]
BY DEF MarkType, Rows

\* The same after a step.
LEMMA MarkIsRowsNext == MarkType' <=> mark' \in [Readers -> [Articles -> Rows]]
BY DEF MarkType, Rows

\* A notice changes the marks of its readers where they have none.
LEMMA NotifyEffect ==
  ASSUME MarkType, NEW readers, NEW b \in Articles, Notify(readers, b)
  PROVE  /\ MarkType'
         /\ \A r \in Readers, a \in Articles :
              mark'[r][a] = IF r \in readers /\ a = b /\ mark[r][a] = NoRow THEN Unread ELSE mark[r][a]
<1>1. mark \in [Readers -> [Articles -> Rows]]
  BY MarkIsRows
<1>2. mark' = [r \in Readers |-> IF r \in readers /\ mark[r][b] = NoRow
                                 THEN [mark[r] EXCEPT ![b] = Unread] ELSE mark[r]]
  BY DEF Notify, Unread
<1>3. ASSUME NEW r \in Readers
      PROVE  /\ mark'[r] \in [Articles -> Rows]
             /\ \A a \in Articles :
                  mark'[r][a] = IF r \in readers /\ a = b /\ mark[r][a] = NoRow THEN Unread ELSE mark[r][a]
  <2>1. CASE r \in readers /\ mark[r][b] = NoRow
    BY <1>1, <1>2, <2>1, RowFacts
  <2>2. CASE ~ (r \in readers /\ mark[r][b] = NoRow)
    BY <1>1, <1>2, <2>2
  <2>3. QED
    BY <2>1, <2>2
<1>4. mark' \in [Readers -> [Articles -> Rows]]
  <2>1. mark' = [r \in Readers |-> mark'[r]]
    BY <1>2
  <2>2. QED
    BY <1>3, <2>1
<1>5. QED
  BY <1>3, <1>4, MarkIsRowsNext

\* A mark replaces one row.
LEMMA SetStatusEffect ==
  ASSUME MarkType, NEW q \in Readers, NEW b \in Articles, NEW status \in Status,
         NEW explicit \in BOOLEAN, SetStatus(q, b, status, explicit)
  PROVE  /\ MarkType'
         /\ mark'[q][b].status = status
         /\ mark'[q][b].explicit = (status = "read" /\ explicit)
         /\ mark'[q][b] # NoRow
         /\ \A r \in Readers, a \in Articles : r # q \/ a # b => mark'[r][a] = mark[r][a]
<1> DEFINE new == [status |-> status, explicit |-> status = "read" /\ explicit]
<1>1. mark \in [Readers -> [Articles -> Rows]]
  BY MarkIsRows
<1>2. new \in Rows /\ new # NoRow /\ new.status = status /\ new.explicit = (status = "read" /\ explicit)
  BY DEF Rows, Mark, NoRow, Status
<1>3. mark' = [mark EXCEPT ![q][b] = new]
  BY DEF SetStatus
<1> HIDE DEF new
<1>4. mark' \in [Readers -> [Articles -> Rows]]
  BY <1>1, <1>2, <1>3
<1>5. mark'[q][b] = new
  BY <1>1, <1>3
<1>6. \A r \in Readers, a \in Articles : r # q \/ a # b => mark'[r][a] = mark[r][a]
  BY <1>1, <1>3
<1>7. QED
  BY <1>2, <1>4, <1>5, <1>6, MarkIsRowsNext

\* A sweep turns the rows of one reader read, and leaves their flags alone.
LEMMA SweepEffect ==
  ASSUME MarkType, NEW q \in Readers, NEW seen, Sweep(q, seen)
  PROVE  /\ MarkType'
         /\ \A a \in Articles : (\E e \in seen : e[2] = a) => mark'[q][a].status = "read"
         /\ \A a \in Articles : ~ (\E e \in seen : e[2] = a) => mark'[q][a] = mark[q][a]
         /\ \A a \in Articles : mark'[q][a] # mark[q][a] => ~ mark'[q][a].explicit /\ ~ mark[q][a].explicit
         /\ \A r \in Readers, a \in Articles : r # q => mark'[r][a] = mark[r][a]
         /\ \A r \in Readers, a \in Articles : mark[r][a] # NoRow => mark'[r][a] # NoRow
<1> DEFINE hit(a) == (\E e \in seen : e[2] = a) /\ mark[q][a].status # "read"
           swept(a) == [mark[q][a] EXCEPT !.status = "read"]
           line == [a \in Articles |-> IF hit(a) THEN swept(a) ELSE mark[q][a]]
<1>1. mark \in [Readers -> [Articles -> Rows]]
  BY MarkIsRows
<1>2. mark' = [mark EXCEPT ![q] = line]
  BY DEF Sweep
<1>3. ASSUME NEW row \in Rows, row.status # "read"
      PROVE  /\ [row EXCEPT !.status = "read"] \in Rows
             /\ [row EXCEPT !.status = "read"].status = "read"
             /\ ~ [row EXCEPT !.status = "read"].explicit /\ ~ row.explicit
             /\ [row EXCEPT !.status = "read"] # NoRow
  <2> DEFINE new == [row EXCEPT !.status = "read"]
  <2>1. ~ row.explicit /\ row.explicit \in BOOLEAN
    BY <1>3, RowFacts
  <2>2. row \in [status : Status \cup {"none"}, explicit : BOOLEAN]
    <3>1. NoRow \in [status : Status \cup {"none"}, explicit : BOOLEAN]
      BY DEF NoRow
    <3>2. \A m \in Mark : m \in [status : Status \cup {"none"}, explicit : BOOLEAN]
      BY DEF Mark
    <3>3. QED
      BY <3>1, <3>2 DEF Rows
  <2>3. /\ new \in [status : Status \cup {"none"}, explicit : BOOLEAN]
        /\ new.status = "read" /\ new.explicit = row.explicit
    BY <2>2 DEF Status
  <2> HIDE DEF new
  <2>4. new \in Mark
    BY <2>3 DEF Mark, Status
  <2>5. new # NoRow
    BY <2>3 DEF NoRow
  <2>6. QED
    BY <2>1, <2>3, <2>4, <2>5 DEF Rows, new
<1>4. \A a \in Articles : hit(a) => /\ swept(a) \in Rows /\ swept(a).status = "read"
                                   /\ ~ swept(a).explicit /\ ~ mark[q][a].explicit /\ swept(a) # NoRow
  BY <1>1, <1>3
<1>5. \A a \in Articles : mark[q][a] \in Rows
  BY <1>1
<1> HIDE DEF swept
<1>6. line \in [Articles -> Rows]
  BY <1>4, <1>5
<1>7. mark'[q] = line /\ \A r \in Readers : r # q => mark'[r] = mark[r]
  BY <1>1, <1>2
<1>8. mark' \in [Readers -> [Articles -> Rows]]
  <2> HIDE DEF line
  <2>1. QED
    BY <1>1, <1>2, <1>6
<1>9. \A a \in Articles : mark'[q][a] = IF hit(a) THEN swept(a) ELSE mark[q][a]
  BY <1>7
<1> HIDE DEF line
<1>10. \A a \in Articles : (\E e \in seen : e[2] = a) => mark'[q][a].status = "read"
  BY <1>4, <1>9
<1>11. \A a \in Articles : ~ (\E e \in seen : e[2] = a) => mark'[q][a] = mark[q][a]
  BY <1>9
<1>12. \A a \in Articles : mark'[q][a] # mark[q][a] => ~ mark'[q][a].explicit /\ ~ mark[q][a].explicit
  BY <1>4, <1>9
<1>13. \A r \in Readers, a \in Articles : mark[r][a] # NoRow => mark'[r][a] # NoRow
  BY <1>4, <1>7, <1>9
<1>14. QED
  BY <1>7, <1>8, <1>10, <1>11, <1>12, <1>13, MarkIsRowsNext

-----------------------------------------------------------------------------
(* The steps *)

\* What a reader does is a mark, a sweep, or a change of what it follows,
\* subscribes to or stars.
LEMMA ReaderCases ==
  ASSUME TypeOK, NEW r \in Readers, Reader(r)
  PROVE  \/ \E a \in Articles, status \in Status, explicit \in BOOLEAN :
              UpdateEntryStatusByURL(r, a, status, explicit)
         \/ \E seen : MarkEntriesRead(r, seen)
         \/ FollowUser(r) \/ UnfollowUser(r) \/ DeleteSubscription(r)
         \/ UnstarByURL(r) \/ HandleFeedSubEvent(r)
<1>1. ASSUME NEW e \in entries, NEW status \in Status, NEW explicit \in BOOLEAN,
             UpdateEntries(r, {e}, status, explicit)
      PROVE  UpdateEntryStatusByURL(r, e[2], status, explicit) /\ e[2] \in Articles
  BY <1>1 DEF UpdateEntries, UpdateEntryStatus, UpdateEntryStatusByURL, TypeOK, StoreType
<1>2. CASE EntriesMark(r) \/ MarkEntry(r)
  BY <1>1, <1>2 DEF EntriesMark, MarkEntry
<1>3. CASE EntriesMarkByUrl(r) \/ MarkByURL(r)
  BY <1>3 DEF EntriesMarkByUrl, MarkByURL
<1>4. CASE FeedsMarkRead(r) \/ MarkAllRead(r)
  BY <1>4 DEF FeedsMarkRead, MarkFeedRead, MarkAllRead, UpdateEntries
<1>5. QED
  BY <1>2, <1>3, <1>4 DEF Reader

\* Every promise that stays is one that was there.
LEMMA StillOwed ==
  ASSUME NEW r, NEW articles
  PROVE  Undecided(r, articles) \subseteq owed
BY DEF Undecided

\* A step of one request leaves it well formed, and the others alone.
LEMMA JobUpdate ==
  ASSUME Inv, NEW j \in Jobs, NEW p \in Job, Form(p), job' = [job EXCEPT ![j] = p]
  PROVE  /\ JobType' /\ Forms'
         /\ job'[j] = p /\ \A i \in Jobs : i # j => job'[i] = job[i]
<1>1. job \in [Jobs -> Job]
  BY DEF Inv, TypeOK, JobType
<1>2. job' \in [Jobs -> Job] /\ job'[j] = p /\ \A i \in Jobs : i # j => job'[i] = job[i]
  BY <1>1
<1>3. \A i \in Jobs : Form(job'[i])
  BY <1>2 DEF Inv, Forms
<1>4. QED
  BY <1>2, <1>3 DEF JobType, Forms

\* No request.
LEMMA IdleForm == Idle \in Job /\ Form(Idle) /\ Idle.pc = "idle"
BY DEF Idle, Job, Form

\* A step from one label to another.
LEMMA GotoUpdate ==
  ASSUME Inv, NEW j \in Jobs, NEW pc, Goto(j, pc),
         \/ job[j].kind = "subscribe" /\ pc \in {"store", "bulk"}
         \/ job[j].kind = "refresh" /\ pc = "fan"
         \/ job[j].kind = "subscribe" /\ pc = "fan"
  PROVE  /\ JobType' /\ Forms'
         /\ job'[j] = [job[j] EXCEPT !.pc = pc]
         /\ \A i \in Jobs : i # j => job'[i] = job[i]
<1> DEFINE p == [job[j] EXCEPT !.pc = pc]
<1>1. job[j] \in Job /\ Form(job[j]) /\ job \in [Jobs -> Job]
  BY DEF Inv, TypeOK, JobType, Forms
<1>2. /\ p \in Job /\ p.pc = pc /\ p.kind = job[j].kind /\ p.user = job[j].user
      /\ p.feed = job[j].feed /\ p.article = job[j].article
  BY <1>1 DEF Job
<1>3. job' = [job EXCEPT ![j] = p]
  BY <1>1 DEF Goto
<1>4. Form(p)
  BY <1>1, <1>2 DEF Form
<1> HIDE DEF p
<1>5. JobType' /\ Forms' /\ job'[j] = p /\ \A i \in Jobs : i # j => job'[i] = job[i]
  BY <1>2, <1>3, <1>4, JobUpdate
<1>6. QED
  BY <1>5 DEF p

\* A request that ends.
LEMMA CloseUpdate ==
  ASSUME Inv, NEW j \in Jobs, Close(j)
  PROVE  JobType' /\ Forms' /\ job'[j] = Idle /\ \A i \in Jobs : i # j => job'[i] = job[i]
BY IdleForm, JobUpdate DEF Close

\* What the processor and a subscription do next: the sweep, or nothing.
LEMMA ContinueUpdate ==
  ASSUME Inv, NEW j \in Jobs, Continue(j)
  PROVE  /\ JobType' /\ Forms'
         /\ job'[j].pc \in {"idle", "bulk"}
         /\ \A i \in Jobs : i # j => job'[i] = job[i]
<1>1. CASE job[j].kind = "subscribe"
  <2>1. Goto(j, "bulk")
    BY <1>1 DEF Continue
  <2>2. /\ JobType' /\ Forms' /\ job'[j] = [job[j] EXCEPT !.pc = "bulk"]
        /\ \A i \in Jobs : i # j => job'[i] = job[i]
    BY <1>1, <2>1, GotoUpdate
  <2>3. job[j] \in Job
    BY DEF Inv, TypeOK, JobType
  <2>4. [job[j] EXCEPT !.pc = "bulk"].pc = "bulk"
    BY <2>3 DEF Job
  <2>5. QED
    BY <2>2, <2>4
<1>2. CASE job[j].kind # "subscribe"
  BY <1>2, CloseUpdate, IdleForm DEF Continue
<1>3. QED
  BY <1>1, <1>2

\* A step of a request that touches no table keeps the invariant.
LEMMA JobOnly ==
  ASSUME Inv, NEW j \in Jobs, NEW p \in Job, Form(p), job' = [job EXCEPT ![j] = p],
         UNCHANGED <<store, mark, history>>
  PROVE  /\ Inv'
         /\ job'[j] = p /\ \A i \in Jobs : i # j => job'[i] = job[i]
<1>1. JobType' /\ Forms' /\ job'[j] = p /\ \A i \in Jobs : i # j => job'[i] = job[i]
  BY JobUpdate
<1>2. StoreType' /\ MarkType' /\ HistoryType'
  BY DEF store, history, Inv, TypeOK, StoreType, MarkType, HistoryType
<1>3. QED
  BY <1>1, <1>2 DEF Inv, TypeOK

\* The requests of several statements start as themselves, with nothing stored,
\* and none at a label where notices are due or a share is put.
LEMMA RequestInv ==
  ASSUME Inv, NEW j \in Jobs, Request(j)
  PROVE  /\ Inv' /\ UNCHANGED <<store, mark, history>>
         /\ job[j].pc = "idle" /\ job'[j].pc \in {"ensure", "toggle", "create", "store"}
         /\ \A i \in Jobs : i # j => job'[i] = job[i]
<1> DEFINE Started(kind, pc, user, feed, article) ==
       [Idle EXCEPT !.kind = kind, !.pc = pc, !.user = user, !.feed = feed, !.article = article]
<1>1. \E p \in Job : /\ Form(p) /\ p.pc \in {"ensure", "toggle", "create", "store"}
                      /\ Free(j) /\ job' = [job EXCEPT ![j] = p] /\ UNCHANGED <<store, mark, history>>
  <2>1. CASE ShareArticle(j)
    <3>1. PICK s \in Sharers, a \in Articles, f \in Feeds \cup {NoFeed} :
            Open(j, "share", "ensure", s, f, a)
      BY <2>1 DEF ShareArticle
    <3>2. /\ Started("share", "ensure", s, f, a) \in Job
          /\ Form(Started("share", "ensure", s, f, a))
          /\ Started("share", "ensure", s, f, a).pc \in {"ensure", "toggle", "create", "store"}
      BY IdleForm DEF Job, Form
    <3>3. QED
      BY <3>1, <3>2 DEF Open
  <2>2. CASE HandleShareEvent(j)
    <3>1. PICK s \in Sharers, a \in Articles, f \in Feeds \cup {NoFeed} :
            Open(j, "shareEvent", "ensure", s, f, a)
      BY <2>2 DEF HandleShareEvent
    <3>2. /\ Started("shareEvent", "ensure", s, f, a) \in Job
          /\ Form(Started("shareEvent", "ensure", s, f, a))
          /\ Started("shareEvent", "ensure", s, f, a).pc \in {"ensure", "toggle", "create", "store"}
      BY IdleForm DEF Job, Form
    <3>3. QED
      BY <3>1, <3>2 DEF Open
  <2>3. CASE StarByURL(j)
    <3>1. PICK r \in Readers, a \in Articles, f \in Feeds \cup {NoFeed} :
            Open(j, "star", "ensure", r, f, a)
      BY <2>3 DEF StarByURL
    <3>2. /\ Started("star", "ensure", r, f, a) \in Job
          /\ Form(Started("star", "ensure", r, f, a))
          /\ Started("star", "ensure", r, f, a).pc \in {"ensure", "toggle", "create", "store"}
      BY IdleForm DEF Job, Form
    <3>3. QED
      BY <3>1, <3>2 DEF Open
  <2>4. CASE EntriesStar(j)
    <3>1. PICK r \in Readers, e \in entries : Open(j, "starByID", "toggle", r, e[1], e[2])
      BY <2>4 DEF EntriesStar
    <3>2. e[1] \in Feeds /\ e[2] \in Articles
      BY DEF Inv, TypeOK, StoreType
    <3>3. /\ Started("starByID", "toggle", r, e[1], e[2]) \in Job
          /\ Form(Started("starByID", "toggle", r, e[1], e[2]))
          /\ Started("starByID", "toggle", r, e[1], e[2]).pc \in {"ensure", "toggle", "create", "store"}
      BY <3>2, IdleForm DEF Job, Form
    <3>4. QED
      BY <3>1, <3>3 DEF Open
  <2>5. CASE SubscribeToFeed(j)
    <3>1. PICK r \in Readers, f \in Feeds, a \in Articles :
            Open(j, "subscribe", "create", r, f, a)
      BY <2>5 DEF SubscribeToFeed
    <3>2. /\ Started("subscribe", "create", r, f, a) \in Job
          /\ Form(Started("subscribe", "create", r, f, a))
          /\ Started("subscribe", "create", r, f, a).pc \in {"ensure", "toggle", "create", "store"}
      BY IdleForm DEF Job, Form
    <3>3. QED
      BY <3>1, <3>2 DEF Open
  <2>6. CASE RefreshFeed(j)
    <3>1. PICK f \in Feeds, a \in Articles : Open(j, "refresh", "store", "worker", f, a)
      BY <2>6 DEF RefreshFeed
    <3>2. /\ Started("refresh", "store", "worker", f, a) \in Job
          /\ Form(Started("refresh", "store", "worker", f, a))
          /\ Started("refresh", "store", "worker", f, a).pc \in {"ensure", "toggle", "create", "store"}
      BY IdleForm DEF Job, Form
    <3>3. QED
      BY <3>1, <3>2 DEF Open
  <2>7. QED
    BY <2>1, <2>2, <2>3, <2>4, <2>5, <2>6 DEF Request
<1>2. PICK p \in Job :
        /\ Form(p) /\ p.pc \in {"ensure", "toggle", "create", "store"}
        /\ Free(j) /\ job' = [job EXCEPT ![j] = p] /\ UNCHANGED <<store, mark, history>>
  BY <1>1
<1>3. Inv' /\ job'[j] = p /\ \A i \in Jobs : i # j => job'[i] = job[i]
  BY <1>2, JobOnly
<1>4. job[j].pc = "idle"
  BY <1>2, IdleForm DEF Free
<1>5. QED
  BY <1>2, <1>3, <1>4

\* A share is stored: the row names an entry or none, and the request goes on to
\* tell the followers or ends.
LEMMA PutShareEffect ==
  ASSUME Inv, NEW j \in Jobs, NEW tells \in BOOLEAN, PutShare(j, tells)
  PROVE  /\ Inv'
         /\ tells => /\ job'[j].pc = "tell" /\ job'[j].kind = job[j].kind
                     /\ job'[j].user = job[j].user /\ job'[j].article = job[j].article
         /\ \A i \in Jobs : i # j => job'[i] = job[i]
         /\ UNCHANGED <<entries, subs, follows, stars, mark, word, verdict>>
<1> DEFINE s == job[j].user
           a == job[j].article
           q == [job[j] EXCEPT !.pc = "tell", !.link = Unlinked, !.new = FALSE, !.raced = FALSE]
<1>1. job[j] \in Job /\ Form(job[j]) /\ job \in [Jobs -> Job]
  BY DEF Inv, TypeOK, JobType, Forms
<1>2. job[j].kind \in {"share", "shareEvent"} /\ s \in Sharers /\ a \in Articles
  BY <1>1 DEF PutShare, Form
<1>3. /\ q \in Job /\ q.pc = "tell" /\ q.kind = job[j].kind
      /\ q.user = job[j].user /\ q.article = job[j].article
  BY <1>1 DEF Job
<1>4. Form(q)
  BY <1>1, <1>2, <1>3 DEF Form
<1> HIDE DEF q
<1>5. /\ JobType' /\ Forms' /\ \A i \in Jobs : i # j => job'[i] = job[i]
      /\ tells => job'[j] = q
  <2>1. CASE tells
    <3>1. job' = [job EXCEPT ![j] = q]
      BY <1>1, <2>1 DEF PutShare, ToTell, q
    <3>2. QED
      BY <1>3, <1>4, <3>1, JobUpdate
  <2>2. CASE ~ tells
    BY <2>2, CloseUpdate DEF PutShare
  <2>3. QED
    BY <2>1, <2>2
<1>6. StoreType'
  <2>1. LinkKept(j) \in Feeds \cup {Unlinked, NoShare}
    BY <1>1 DEF LinkKept, Job
  <2>2. shares' = [shares EXCEPT ![s][a] = LinkKept(j)]
    BY DEF PutShare
  <2>3. shares' \in [Sharers -> [Articles -> Feeds \cup {Unlinked, NoShare}]]
    BY <1>2, <2>1, <2>2 DEF Inv, TypeOK, StoreType
  <2>4. QED
    BY <2>3 DEF PutShare, Inv, TypeOK, StoreType
<1>7. HistoryType'
  <2>1. \A o \in owed' : o \in owed \/ \E r \in Readers : o = <<r, a, Cause(j)>>
    BY DEF PutShare
  <2>2. \A o \in owed' : o[1] \in Readers /\ o[2] \in Articles
    BY <1>2, <2>1 DEF Inv, TypeOK, HistoryType
  <2>3. word' = word /\ verdict' = verdict
    BY DEF PutShare
  <2>4. QED
    BY <2>2, <2>3 DEF Inv, TypeOK, HistoryType
<1>8. MarkType'
  BY DEF PutShare, Inv, TypeOK, MarkType
<1>9. UNCHANGED <<entries, subs, follows, stars, mark, word, verdict>>
  BY DEF PutShare
<1>10. QED
  BY <1>3, <1>5, <1>6, <1>7, <1>8, <1>9 DEF Inv, TypeOK

\* An entry is stored, or was there.
LEMMA CreateEntryInv ==
  ASSUME Inv, NEW j \in Jobs, CreateEntry(j)
  PROVE  /\ Inv'
         /\ <<job[j].feed, job[j].article>> \notin entries =>
              /\ job'[j].pc = "fan" /\ Cause(j)' = Cause(j) /\ job'[j].article = job[j].article
         /\ \A i \in Jobs : i # j => job'[i] = job[i]
<1> DEFINE e == <<job[j].feed, job[j].article>>
<1>1. job[j] \in Job /\ Form(job[j]) /\ job \in [Jobs -> Job]
  BY DEF Inv, TypeOK, JobType, Forms
<1>2. job[j].kind \in {"subscribe", "refresh"} /\ job[j].feed \in Feeds /\ job[j].article \in Articles
  BY <1>1 DEF CreateEntry, At, Form, Job
<1>3. /\ JobType' /\ Forms' /\ \A i \in Jobs : i # j => job'[i] = job[i]
      /\ e \notin entries => job'[j] = [job[j] EXCEPT !.pc = "fan"]
  <2>1. CASE e \in entries
    BY <2>1, ContinueUpdate DEF CreateEntry
  <2>2. CASE e \notin entries
    <3>1. Goto(j, "fan")
      BY <2>2 DEF CreateEntry
    <3>2. QED
      BY <1>2, <3>1, GotoUpdate
  <2>3. QED
    BY <2>1, <2>2
<1>4. StoreType'
  <2>1. entries' = entries \cup {e} /\ UNCHANGED <<subs, follows, shares, stars>>
    BY DEF CreateEntry
  <2>2. QED
    BY <1>2, <2>1 DEF Inv, TypeOK, StoreType
<1>5. HistoryType'
  <2>1. \A o \in owed' : o \in owed \/ \E r \in Readers : o = <<r, e[2], Cause(j)>>
    BY DEF CreateEntry
  <2>2. \A o \in owed' : o[1] \in Readers /\ o[2] \in Articles
    BY <1>2, <2>1 DEF Inv, TypeOK, HistoryType
  <2>3. word' = word /\ verdict' = verdict
    BY DEF CreateEntry
  <2>4. QED
    BY <2>2, <2>3 DEF Inv, TypeOK, HistoryType
<1>6. MarkType'
  BY DEF CreateEntry, Inv, TypeOK, MarkType
<1>7. e \notin entries =>
        /\ job'[j].pc = "fan" /\ job'[j].kind = job[j].kind /\ job'[j].feed = job[j].feed
        /\ job'[j].user = job[j].user /\ job'[j].article = job[j].article
  BY <1>1, <1>3 DEF Job
<1>8. QED
  BY <1>3, <1>4, <1>5, <1>6, <1>7 DEF Inv, TypeOK, Cause

\* The statements that neither mark nor promise, and touch at most one table.
QuietStep(j) ==
  EnsureSharedEntry(j) \/ CheckShared(j) \/ InsertStar(j) \/ ToggleEntryStarred(j) \/ CreateSubscription(j)

\* After them the request is at none of the labels of a notice.
LEMMA QuietInv ==
  ASSUME Inv, NEW j \in Jobs, QuietStep(j)
  PROVE  /\ Inv'
         /\ job[j].pc \notin {"tell", "fan"}
         /\ \A i \in Jobs : i # j => job'[i] = job[i]
         /\ UNCHANGED <<mark, history, follows, shares>>
         /\ entries \subseteq entries' /\ subs \subseteq subs'
<1>1. job[j] \in Job /\ Form(job[j]) /\ job \in [Jobs -> Job]
  BY DEF Inv, TypeOK, JobType, Forms
<1>2. /\ UNCHANGED <<mark, history, follows, shares>>
      /\ entries \subseteq entries' /\ subs \subseteq subs'
      /\ job[j].pc \notin {"tell", "fan"}
  BY DEF QuietStep, EnsureSharedEntry, CheckShared, InsertStar, ToggleEntryStarred,
         CreateSubscription, At, store, history
<1>3. MarkType' /\ HistoryType'
  BY <1>2 DEF Inv, TypeOK, MarkType, HistoryType, history
<1>4. JobType' /\ Forms' /\ StoreType' /\ \A i \in Jobs : i # j => job'[i] = job[i]
  <2>1. CASE EnsureSharedEntry(j)
    <3>1. PICK link \in {job[j].feed, Unlinked} \cap (Feeds \cup {Unlinked}) :
            /\ entries' = IF link = Unlinked THEN entries ELSE entries \cup {<<link, job[j].article>>}
            /\ job' = [job EXCEPT ![j].link = link, ![j].feed = NoFeed,
                                  ![j].pc = IF job[j].kind = "share" THEN "check" ELSE "insert"]
      BY <2>1 DEF EnsureSharedEntry
    <3>a. PICK pc \in {"check", "insert"} : pc = IF job[j].kind = "share" THEN "check" ELSE "insert"
      OBVIOUS
    <3> DEFINE p == [job[j] EXCEPT !.link = link, !.feed = NoFeed, !.pc = pc]
    <3>2. job[j].kind \in {"share", "shareEvent", "star"} /\ job[j].article \in Articles
      BY <1>1, <2>1 DEF EnsureSharedEntry, At, Form, Job
    <3>3. /\ p \in Job /\ p.kind = job[j].kind /\ p.user = job[j].user /\ p.article = job[j].article
          /\ p.pc = pc
      BY <1>1 DEF Job
    <3>4. job' = [job EXCEPT ![j] = p]
      BY <1>1, <3>1, <3>a
    <3> HIDE DEF p
    <3>5. Form(p)
      BY <1>1, <3>2, <3>3, <3>a DEF Form
    <3>6. StoreType'
      BY <2>1, <3>1, <3>2 DEF EnsureSharedEntry, Inv, TypeOK, StoreType
    <3>7. QED
      BY <3>3, <3>4, <3>5, <3>6, JobUpdate
  <2>2. CASE CheckShared(j)
    <3>1. PICK existed \in {FALSE, shares[job[j].user][job[j].article] # NoShare} :
            job' = [job EXCEPT ![j].new = ~ existed, ![j].pc = "insert", ![j].raced = FALSE]
      BY <2>2 DEF CheckShared
    <3> DEFINE p == [job[j] EXCEPT !.new = ~ existed, !.pc = "insert", !.raced = FALSE]
    <3>2. job[j].kind \in {"share", "shareEvent"} /\ existed \in BOOLEAN
      BY <1>1, <2>2 DEF CheckShared, At, Form, Job
    <3>3. /\ p \in Job /\ p.kind = job[j].kind /\ p.user = job[j].user /\ p.article = job[j].article
          /\ p.pc = "insert"
      BY <1>1, <3>2 DEF Job
    <3>4. job' = [job EXCEPT ![j] = p]
      BY <1>1, <3>1
    <3> HIDE DEF p
    <3>5. Form(p)
      BY <1>1, <3>2, <3>3 DEF Form
    <3>6. StoreType'
      BY <2>2 DEF CheckShared, store, Inv, TypeOK, StoreType
    <3>7. QED
      BY <3>3, <3>4, <3>5, <3>6, JobUpdate
  <2>3. CASE InsertStar(j)
    <3>1. job[j].user \in Readers /\ job[j].article \in Articles
      BY <1>1, <2>3 DEF InsertStar, Form
    <3>2. StoreType'
      BY <2>3, <3>1 DEF InsertStar, ToggleEntryStarredByURL, Inv, TypeOK, StoreType
    <3>3. QED
      BY <2>3, <3>2, CloseUpdate DEF InsertStar
  <2>4. CASE ToggleEntryStarred(j)
    <3>1. job[j].user \in Readers /\ job[j].article \in Articles
      BY <1>1, <2>4 DEF ToggleEntryStarred, At, Form, Job
    <3>2. StoreType'
      BY <2>4, <3>1 DEF ToggleEntryStarred, Inv, TypeOK, StoreType
    <3>3. QED
      BY <2>4, <3>2, CloseUpdate DEF ToggleEntryStarred
  <2>5. CASE CreateSubscription(j)
    <3>1. job[j].kind = "subscribe" /\ job[j].user \in Readers /\ job[j].feed \in Feeds
      BY <1>1, <2>5 DEF CreateSubscription, At, Form, Job
    <3>2. StoreType'
      BY <2>5, <3>1 DEF CreateSubscription, Inv, TypeOK, StoreType
    <3>3. PICK pc \in {"store", "bulk"} : Goto(j, pc)
      BY <2>5 DEF CreateSubscription
    <3>4. QED
      BY <3>1, <3>2, <3>3, GotoUpdate
  <2>6. QED
    BY <2>1, <2>2, <2>3, <2>4, <2>5 DEF QuietStep
<1>5. QED
  BY <1>2, <1>3, <1>4 DEF Inv, TypeOK

\* The statements that tell: those of a share's followers and of a feed's
\* subscribers, whoever that is at this moment.
Tells(j, readers) ==
  /\ Notify(readers, job[j].article)
  /\ UNCHANGED <<store, history>>

Audience(j) ==
  IF At(j, "tell") THEN {r \in Readers : <<r, job[j].user>> \in follows}
  ELSE {r \in Readers : <<r, job[j].feed>> \in subs}

\* Both leave the request away from the labels of a notice.
LEMMA TellInv ==
  ASSUME Inv, NEW j \in Jobs, TellFollowers(j) \/ FanOut(j)
  PROVE  /\ Inv'
         /\ job[j].pc \in {"tell", "fan"} /\ job[j].article \in Articles
         /\ Tells(j, Audience(j))
         /\ \A i \in Jobs : i # j => job'[i] = job[i]
<1>1. job[j] \in Job /\ Form(job[j])
  BY DEF Inv, TypeOK, JobType, Forms
<1>2. job[j].pc \in {"tell", "fan"} /\ job[j].article \in Articles
  BY <1>1 DEF TellFollowers, FanOut, At, Form, Job
<1>3. Tells(j, Audience(j))
  <2>1. CASE TellFollowers(j)
    BY <2>1 DEF TellFollowers, Tells, Audience
  <2>2. CASE FanOut(j)
    BY <2>2 DEF FanOut, Tells, Audience, At
  <2>3. QED
    BY <2>1, <2>2
<1>4. JobType' /\ Forms' /\ \A i \in Jobs : i # j => job'[i] = job[i]
  BY CloseUpdate, ContinueUpdate DEF TellFollowers, FanOut
<1>5. MarkType'
  BY <1>2, <1>3, NotifyEffect DEF Inv, TypeOK, Tells
<1>6. StoreType'
  BY <1>3 DEF Tells, store, Inv, TypeOK, StoreType
<1>7. HistoryType'
  BY <1>3 DEF Tells, history, Inv, TypeOK, HistoryType
<1>8. QED
  BY <1>2, <1>3, <1>4, <1>5, <1>6, <1>7 DEF Inv, TypeOK

\* A sweep of one reader keeps the types of marks and history.
LEMMA SweepTypes ==
  ASSUME Inv, NEW r \in Readers, NEW seen, Sweep(r, seen), Judge(r, seen),
         owed' \subseteq owed, UNCHANGED word
  PROVE  MarkType' /\ HistoryType'
<1>1. MarkType'
  BY SweepEffect DEF Inv, TypeOK
<1>2. verdict' \in [Readers -> [Articles -> Status \cup {"none"}]]
  <2> DEFINE line == [a \in Articles |-> IF \E e \in seen : e[2] = a THEN "read" ELSE verdict[r][a]]
  <2>1. verdict \in [Readers -> [Articles -> Status \cup {"none"}]]
    BY DEF Inv, TypeOK, HistoryType
  <2>2. line \in [Articles -> Status \cup {"none"}]
    BY <2>1 DEF Status
  <2>3. verdict' = [verdict EXCEPT ![r] = line]
    BY DEF Judge
  <2> HIDE DEF line
  <2>4. QED
    BY <2>1, <2>2, <2>3
<1>3. QED
  BY <1>1, <1>2 DEF Inv, TypeOK, HistoryType

\* The end of a subscription sweeps the backlog.
LEMMA SweepBacklogInv ==
  ASSUME Inv, NEW j \in Jobs, SweepBacklog(j)
  PROVE  /\ Inv'
         /\ job[j].pc = "bulk" /\ job[j].user \in Readers
         /\ \A i \in Jobs : i # j => job'[i] = job[i]
<1>1. job[j] \in Job /\ Form(job[j])
  BY DEF Inv, TypeOK, JobType, Forms
<1>2. job[j].pc = "bulk" /\ job[j].user \in Readers
  BY <1>1 DEF SweepBacklog, At, Form, Job
<1>3. JobType' /\ Forms' /\ \A i \in Jobs : i # j => job'[i] = job[i]
  BY CloseUpdate DEF SweepBacklog
<1>4. StoreType'
  BY DEF SweepBacklog, store, Inv, TypeOK, StoreType
<1>5. MarkType' /\ HistoryType'
  BY <1>2, SweepTypes, StillOwed DEF SweepBacklog
<1>6. QED
  BY <1>2, <1>3, <1>4, <1>5 DEF Inv, TypeOK

\* A statement that fails changes no table and forgives what it had to tell.
LEMMA StatementFailsInv ==
  ASSUME Inv, NEW j \in Jobs, StatementFails(j)
  PROVE  /\ Inv'
         /\ UNCHANGED <<store, mark, word, verdict>> /\ owed' \subseteq owed
         /\ \A i \in Jobs : i # j => job'[i] = job[i]
         /\ job'[j].pc \in {"idle", "bulk"}
<1>1. UNCHANGED <<store, mark, word, verdict>> /\ owed' \subseteq owed
  BY DEF StatementFails, Forgive
<1>2. JobType' /\ Forms' /\ job'[j].pc \in {"idle", "bulk"} /\ \A i \in Jobs : i # j => job'[i] = job[i]
  BY CloseUpdate, ContinueUpdate, IdleForm DEF StatementFails
<1>3. StoreType' /\ MarkType' /\ HistoryType'
  BY <1>1 DEF store, Inv, TypeOK, StoreType, MarkType, HistoryType
<1>4. QED
  BY <1>1, <1>2, <1>3 DEF Inv, TypeOK

-----------------------------------------------------------------------------
(* The steps of readers and sharers *)

\* A mark of one article by its reader.
LEMMA MarkInv ==
  ASSUME Inv, NEW r \in Readers, NEW a \in Articles, NEW status \in Status,
         NEW explicit \in BOOLEAN, UpdateEntryStatusByURL(r, a, status, explicit)
  PROVE  Inv'
<1>1. MarkType'
  BY SetStatusEffect DEF UpdateEntryStatusByURL, Inv, TypeOK
<1>2. /\ word' \in [Readers -> [Articles -> Status \cup {"opened", "none"}]]
      /\ verdict' \in [Readers -> [Articles -> Status \cup {"none"}]]
  BY DEF UpdateEntryStatusByURL, Say, Inv, TypeOK, HistoryType
<1>3. HistoryType'
  BY <1>2, StillOwed DEF UpdateEntryStatusByURL, Inv, TypeOK, HistoryType
<1>4. StoreType' /\ JobType' /\ Forms'
  BY DEF UpdateEntryStatusByURL, store, Inv, TypeOK, StoreType, JobType, Forms
<1>5. QED
  BY <1>1, <1>3, <1>4 DEF Inv, TypeOK

\* The changes of what a reader follows, subscribes to or stars.
Rearranges(r) ==
  FollowUser(r) \/ UnfollowUser(r) \/ DeleteSubscription(r) \/ UnstarByURL(r) \/ HandleFeedSubEvent(r)

\* They touch neither marks nor entries, and promise nothing.
LEMMA RearrangesInv ==
  ASSUME Inv, NEW r \in Readers, Rearranges(r)
  PROVE  /\ Inv' /\ UNCHANGED <<entries, shares, mark, job, word, verdict>>
         /\ owed' \subseteq owed
<1>1. UNCHANGED <<entries, shares, mark, job, word, verdict>> /\ owed' \subseteq owed
  BY DEF Rearranges, FollowUser, UnfollowUser, DeleteSubscription, UnstarByURL, HandleFeedSubEvent,
         history
<1>2. MarkType' /\ HistoryType' /\ JobType' /\ Forms'
  <2>1. MarkType' /\ JobType' /\ Forms'
    BY <1>1 DEF Inv, TypeOK, MarkType, JobType, Forms
  <2>2. HistoryType'
    BY <1>1 DEF Inv, TypeOK, HistoryType
  <2>3. QED
    BY <2>1, <2>2
<1>3. /\ subs' \subseteq Readers \X Feeds /\ follows' \subseteq Readers \X Sharers
      /\ stars' \subseteq Readers \X Articles
  <2>1. /\ subs \subseteq Readers \X Feeds /\ follows \subseteq Readers \X Sharers
        /\ stars \subseteq Readers \X Articles
    BY DEF Inv, TypeOK, StoreType
  <2>2. subs' \subseteq subs \/ \E f \in Feeds : subs' = subs \cup {<<r, f>>}
    BY DEF Rearranges, FollowUser, UnfollowUser, DeleteSubscription, UnstarByURL, HandleFeedSubEvent
  <2>3. follows' \subseteq follows \/ \E s \in Sharers : follows' = follows \cup {<<r, s>>}
    BY DEF Rearranges, FollowUser, UnfollowUser, DeleteSubscription, UnstarByURL, HandleFeedSubEvent
  <2>4. stars' \subseteq stars
    BY DEF Rearranges, FollowUser, UnfollowUser, DeleteSubscription, UnstarByURL, HandleFeedSubEvent,
           ToggleEntryStarredByURL
  <2>5. QED
    BY <2>1, <2>2, <2>3, <2>4
<1>4. QED
  BY <1>1, <1>2, <1>3 DEF Inv, TypeOK, StoreType

\* A reader's steps.
LEMMA ReaderInv ==
  ASSUME Inv, NEW r \in Readers, Reader(r)
  PROVE  Inv'
<1>1. ASSUME NEW seen, MarkEntriesRead(r, seen)
      PROVE  Inv'
  <2>1. MarkType' /\ HistoryType'
    BY <1>1, SweepTypes, StillOwed DEF MarkEntriesRead
  <2>2. StoreType' /\ JobType' /\ Forms'
    BY <1>1 DEF MarkEntriesRead, store, Inv, TypeOK, StoreType, JobType, Forms
  <2>3. QED
    BY <2>1, <2>2 DEF Inv, TypeOK
<1>2. QED
  BY <1>1, ReaderCases, MarkInv, RearrangesInv DEF Rearranges, Inv

\* An unshare drops the row and tells the requests that have checked for it.
LEMMA UnshareInv ==
  ASSUME Inv, NEW s \in Sharers, UnshareArticle(s)
  PROVE  /\ Inv' /\ UNCHANGED <<entries, subs, follows, mark, stars, word, verdict>>
         /\ owed' \subseteq owed
         /\ \A j \in Jobs : /\ job'[j].pc = job[j].pc /\ job'[j].kind = job[j].kind
                            /\ job'[j].user = job[j].user /\ job'[j].feed = job[j].feed
                            /\ job'[j].article = job[j].article /\ job'[j].new = job[j].new
<1>1. PICK a \in Articles :
        /\ shares' = [shares EXCEPT ![s][a] = NoShare]
        /\ job' = [j \in Jobs |-> IF /\ job[j].kind = "share" /\ At(j, "insert") /\ ~ job[j].new
                                     /\ job[j].user = s /\ job[j].article = a
                                  THEN [job[j] EXCEPT !.raced = TRUE] ELSE job[j]]
  BY DEF UnshareArticle
<1>2. UNCHANGED <<entries, subs, follows, mark, stars, word, verdict>> /\ owed' \subseteq owed
  BY DEF UnshareArticle
<1>3. ASSUME NEW j \in Jobs
      PROVE  /\ job'[j] \in Job
             /\ job'[j].pc = job[j].pc /\ job'[j].kind = job[j].kind
             /\ job'[j].user = job[j].user /\ job'[j].feed = job[j].feed
             /\ job'[j].article = job[j].article /\ job'[j].new = job[j].new
  <2>1. job[j] \in Job
    BY DEF Inv, TypeOK, JobType
  <2>2. job'[j] = job[j] \/ job'[j] = [job[j] EXCEPT !.raced = TRUE]
    BY <1>1
  <2>3. QED
    BY <2>1, <2>2 DEF Job
<1>4. JobType'
  <2>1. job' = [j \in Jobs |-> job'[j]]
    BY <1>1
  <2>2. QED
    BY <1>3, <2>1 DEF JobType
<1>5. Forms'
  <2>1. \A j \in Jobs : Form(job[j])
    BY DEF Inv, Forms
  <2>2. \A j \in Jobs : Form(job'[j])
    BY <1>3, <2>1 DEF Form
  <2>3. QED
    BY <2>2 DEF Forms
<1>6. StoreType'
  BY <1>1, <1>2 DEF Inv, TypeOK, StoreType
<1>7. MarkType' /\ HistoryType'
  BY <1>2 DEF Inv, TypeOK, MarkType, HistoryType
<1>8. QED
  BY <1>2, <1>3, <1>4, <1>5, <1>6, <1>7 DEF Inv, TypeOK

\* A crash ends every request.
LEMMA CrashInv == Inv /\ Crash => Inv'
<1> SUFFICES ASSUME Inv, Crash PROVE Inv'
  OBVIOUS
<1>1. JobType' /\ Forms'
  BY IdleForm DEF Crash, JobType, Forms
<1>2. StoreType' /\ MarkType' /\ HistoryType'
  BY DEF Crash, store, Inv, TypeOK, StoreType, MarkType, HistoryType
<1>3. QED
  BY <1>1, <1>2 DEF Inv, TypeOK

-----------------------------------------------------------------------------
(* The invariant *)

\* It holds in the empty database.
LEMMA InitInv == Init => Inv
<1> SUFFICES ASSUME Init PROVE Inv
  OBVIOUS
<1>1. StoreType
  BY DEF Init, StoreType
<1>2. MarkType
  BY MarkIsRows DEF Init, Rows
<1>3. JobType /\ Forms
  BY IdleForm DEF Init, JobType, Forms
<1>4. HistoryType
  BY DEF Init, HistoryType
<1>5. QED
  BY <1>1, <1>2, <1>3, <1>4 DEF Inv, TypeOK

\* The steps of a request that put a share.
PutsShare(j) == \E tells \in BOOLEAN : InsertShare(j) /\ PutShare(j, tells)

\* What a statement may be.
LEMMA StatementCases ==
  ASSUME Inv, NEW j \in Jobs, Statement(j)
  PROVE  \/ QuietStep(j) \/ PutsShare(j) \/ CreateEntry(j)
         \/ TellFollowers(j) \/ FanOut(j) \/ SweepBacklog(j) \/ StatementFails(j)
<1>1. CASE InsertShare(j)
  <2>1. job[j] \in Job
    BY DEF Inv, TypeOK, JobType
  <2>2. ToldByRequest(j) \in BOOLEAN /\ IsNew(j) \in BOOLEAN
    BY <2>1 DEF ToldByRequest, IsNew, Job
  <2>3. QED
    BY <1>1, <2>2 DEF InsertShare, PutsShare
<1>2. QED
  BY <1>1 DEF Statement, QuietStep

\* Every step keeps it.
LEMMA NextInv == Inv /\ [Next]_vars => Inv'
<1> SUFFICES ASSUME Inv, [Next]_vars PROVE Inv'
  OBVIOUS
<1>1. CASE \E r \in Readers : Reader(r)
  BY <1>1, ReaderInv
<1>2. CASE \E s \in Sharers : UnshareArticle(s)
  BY <1>2, UnshareInv
<1>3. CASE \E j \in Jobs : Request(j)
  BY <1>3, RequestInv
<1>4. CASE \E j \in Jobs : Statement(j)
  <2>1. PICK j \in Jobs : Statement(j)
    BY <1>4
  <2>2. CASE QuietStep(j)
    BY <2>2, QuietInv
  <2>3. CASE PutsShare(j)
    BY <2>3, PutShareEffect DEF PutsShare
  <2>4. CASE CreateEntry(j)
    BY <2>4, CreateEntryInv
  <2>5. CASE TellFollowers(j) \/ FanOut(j)
    BY <2>5, TellInv
  <2>6. CASE SweepBacklog(j)
    BY <2>6, SweepBacklogInv
  <2>7. CASE StatementFails(j)
    BY <2>7, StatementFailsInv
  <2>8. QED
    BY <2>1, <2>2, <2>3, <2>4, <2>5, <2>6, <2>7, StatementCases
<1>5. CASE Crash
  BY <1>5, CrashInv
<1>6. CASE UNCHANGED vars
  BY <1>6 DEF vars, Inv, TypeOK, StoreType, MarkType, JobType, HistoryType, Forms
<1>7. QED
  BY <1>1, <1>2, <1>3, <1>4, <1>5, <1>6 DEF Next

\* The invariant holds in every reachable state.
LEMMA InvHolds == Spec => []Inv
BY InitInv, NextInv, PTL DEF Spec

(* Every table, mark and request keeps its type, for any number of readers,    *)
(* sharers, feeds and overlapping requests; a row that says explicit says read,*)
(* as the sweeps of store.go leave a flag alone that only a read sets.         *)
THEOREM ReadingTypes == Spec => []TypeOK
<1>1. Inv => TypeOK
  BY DEF Inv
<1>2. QED
  BY <1>1, InvHolds, PTL

-----------------------------------------------------------------------------
(* Lists *)

\* What a row of a list says of its entry.
Says(row, r, e) ==
  row.entry = e /\ row.status = StatusOf(r, e[2]) /\ row.shared = Linked(r, e)

\* Counts are all that is added to a row.
LEMMA EnrichedSays ==
  ASSUME NEW r, NEW e, NEW c
  PROVE  /\ Row(r, e).entry = e
         /\ Says([Row(r, e) EXCEPT !.counts = c], r, e)
         /\ [Row(r, e) EXCEPT !.counts = c].counts = c
BY DEF Says, Row

\* So a row stays on its list when the counts are added.
LEMMA Enriched ==
  ASSUME NEW r, NEW e, NEW rows, Row(r, e) \in rows, NEW relay, NEW here
  PROVE  \E row \in EnrichEntryCounts(rows, relay, here) :
           Says(row, r, e) /\ row.counts = Most(relay[e[2]], here[e[2]])
<1> DEFINE c == Most(relay[e[2]], here[e[2]])
<1>1. [Row(r, e) EXCEPT !.counts = c] \in EnrichEntryCounts(rows, relay, here)
  BY EnrichedSays DEF EnrichEntryCounts
<1>2. QED
  BY <1>1, EnrichedSays

\* The history lists one entry of each article that is in it, and no other.
LEMMA HistoryLists ==
  ASSUME NEW r \in Readers, NEW a \in Articles
  PROVE  (\E row \in RunHistory(r) : row.entry[2] = a) <=> InHistory(r, a)
<1> DEFINE one(b) == CHOOSE e \in entries : e[2] = b
<1>1. ASSUME NEW b \in Articles, InHistory(r, b)
      PROVE  one(b)[2] = b
  <2>1. PICK f \in Feeds : <<f, b>> \in entries
    BY <1>1 DEF InHistory
  <2>2. \E e \in entries : e[2] = b
    BY <2>1
  <2>3. QED
    BY <2>2
<1>2. ListHistory(r) = {Row(r, one(b)) : b \in {b \in Articles : InHistory(r, b)}}
  BY DEF ListHistory
<1> HIDE DEF one
<1>3. ASSUME NEW row \in RunHistory(r), row.entry[2] = a
      PROVE  InHistory(r, a)
  <2>1. PICK old \in ListHistory(r) : \E c : row = [old EXCEPT !.counts = c]
    BY <1>3 DEF RunHistory, History, EnrichEntryCounts
  <2>2. PICK b \in Articles : InHistory(r, b) /\ old = Row(r, one(b))
    BY <1>2, <2>1
  <2>3. row.entry = one(b)
    BY <2>1, <2>2, EnrichedSays DEF Says
  <2>4. QED
    BY <1>1, <1>3, <2>2, <2>3
<1>4. ASSUME InHistory(r, a)
      PROVE  \E row \in RunHistory(r) : row.entry[2] = a
  <2>1. Row(r, one(a)) \in ListHistory(r)
    BY <1>2, <1>4
  <2>2. PICK row \in RunHistory(r) : Says(row, r, one(a))
    BY <2>1, Enriched DEF RunHistory, History
  <2>3. QED
    BY <1>1, <1>4, <2>2 DEF Says
<1>5. QED
  BY <1>3, <1>4

\* The unread list has the unread entries of the timeline.
LEMMA UnreadListed ==
  ASSUME NEW r \in Readers, NEW e \in Visible(r), StatusOf(r, e[2]) = "unread"
  PROVE  \E row \in EntriesList(r) :
           /\ Says(row, r, e)
           /\ row.counts = Most(NoCounts[e[2]], GetLocalArticleCountsBatch[e[2]])
<1>1. View(r, Unfiltered) = Visible(r)
  BY DEF View, Unfiltered
<1>2. Row(r, e) \in ListEntries(r, Unfiltered, Unfiltered, "unread", FALSE)
  BY <1>1 DEF ListEntries
<1>3. QED
  BY <1>2, Enriched DEF EntriesList, Entries

\* A share is counted, whether a relay answers or not.
LEMMA ShareCounted ==
  ASSUME NEW s \in Sharers, NEW a \in Articles, shares[s][a] # NoShare
  PROVE  Most(NoCounts[a], GetLocalArticleCountsBatch[a]).shares >= 1
<1> DEFINE sharers == {t \in Sharers : shares[t][a] # NoShare}
<1>1. GetLocalArticleCountsBatch[a].shares = Cardinality(sharers) /\ NoCounts[a].shares = 0
  BY DEF GetLocalArticleCountsBatch, NoCounts, Zero
<1>2. IsFiniteSet(sharers)
  BY ReadingAssumption, FS_Subset
<1>3. Cardinality(sharers) \in Nat /\ Cardinality(sharers) # 0
  BY <1>2, FS_CardinalityType, FS_EmptySet
<1> HIDE DEF sharers
<1>4. Most(NoCounts[a], GetLocalArticleCountsBatch[a]).shares
        = Larger(NoCounts[a].shares, GetLocalArticleCountsBatch[a].shares)
  BY DEF Most
<1>5. QED
  BY <1>1, <1>3, <1>4 DEF Larger

-----------------------------------------------------------------------------
(* Verdicts and history *)

\* No notice touches an article with a verdict, so its mark is the verdict.
LEMMA VerdictStep ==
  ASSUME Inv, VerdictKept, [Next]_vars
  PROVE  VerdictKept'
<1>1. MarkType
  BY DEF Inv, TypeOK
<1>2. \A r \in Readers, a \in Articles : verdict[r][a] # "none" => mark[r][a] # NoRow
  <2>1. \A r \in Readers, a \in Articles : verdict[r][a] \in Status \cup {"none"}
    BY DEF Inv, TypeOK, HistoryType
  <2>2. NoRow.status \notin Status
    BY DEF NoRow, Status
  <2>3. QED
    BY <2>1, <2>2 DEF VerdictKept
<1>3. ASSUME NEW r \in Readers, NEW seen, Sweep(r, seen), Judge(r, seen)
      PROVE  VerdictKept'
  <2>1. /\ \A a \in Articles : (\E e \in seen : e[2] = a) => mark'[r][a].status = "read"
        /\ \A a \in Articles : ~ (\E e \in seen : e[2] = a) => mark'[r][a] = mark[r][a]
        /\ \A q \in Readers, a \in Articles : q # r => mark'[q][a] = mark[q][a]
    BY <1>1, <1>3, SweepEffect
  <2>2. /\ \A a \in Articles : verdict'[r][a] = IF \E e \in seen : e[2] = a THEN "read" ELSE verdict[r][a]
        /\ \A q \in Readers : q # r => verdict'[q] = verdict[q]
    BY <1>3 DEF Judge, Inv, TypeOK, HistoryType
  <2>3. QED
    BY <2>1, <2>2 DEF VerdictKept
<1>4. ASSUME NEW j \in Jobs, TellFollowers(j) \/ FanOut(j)
      PROVE  VerdictKept'
  <2>1. job[j].article \in Articles /\ Tells(j, Audience(j))
    BY <1>4, TellInv
  <2>2. \A r \in Readers, a \in Articles : mark[r][a] # NoRow => mark'[r][a] = mark[r][a]
    BY <1>1, <2>1, NotifyEffect DEF Tells
  <2>3. verdict' = verdict
    BY <2>1 DEF Tells, history
  <2>4. QED
    BY <1>2, <2>2, <2>3 DEF VerdictKept
<1>5. ASSUME UNCHANGED <<mark, verdict>>
      PROVE  VerdictKept'
  BY <1>5 DEF VerdictKept
<1>6. CASE \E r \in Readers : Reader(r)
  <2>1. PICK r \in Readers : Reader(r)
    BY <1>6
  <2>2. ASSUME NEW a \in Articles, NEW status \in Status, NEW explicit \in BOOLEAN,
               UpdateEntryStatusByURL(r, a, status, explicit)
        PROVE  VerdictKept'
    <3>1. /\ mark'[r][a].status = status
          /\ \A q \in Readers, b \in Articles : q # r \/ b # a => mark'[q][b] = mark[q][b]
      BY <1>1, <2>2, SetStatusEffect DEF UpdateEntryStatusByURL
    <3>2. /\ verdict'[r][a] = status
          /\ \A q \in Readers, b \in Articles : q # r \/ b # a => verdict'[q][b] = verdict[q][b]
      BY <2>2 DEF UpdateEntryStatusByURL, Say, Inv, TypeOK, HistoryType
    <3>3. QED
      BY <3>1, <3>2 DEF VerdictKept
  <2>3. ASSUME NEW seen, MarkEntriesRead(r, seen)
        PROVE  VerdictKept'
    BY <1>3, <2>3 DEF MarkEntriesRead
  <2>4. CASE Rearranges(r)
    BY <1>5, <2>4, RearrangesInv
  <2>5. QED
    BY <2>1, <2>2, <2>3, <2>4, ReaderCases DEF Rearranges, Inv
<1>7. CASE \E s \in Sharers : UnshareArticle(s)
  BY <1>5, <1>7, UnshareInv DEF history
<1>8. CASE \E j \in Jobs : Request(j)
  BY <1>5, <1>8, RequestInv DEF history
<1>9. CASE \E j \in Jobs : Statement(j)
  <2>1. PICK j \in Jobs : Statement(j)
    BY <1>9
  <2>2. CASE QuietStep(j)
    BY <1>5, <2>2, QuietInv DEF history
  <2>3. CASE PutsShare(j)
    BY <1>5, <2>3 DEF PutsShare, PutShare
  <2>4. CASE CreateEntry(j)
    BY <1>5, <2>4 DEF CreateEntry
  <2>5. CASE SweepBacklog(j)
    BY <1>3, <2>5, SweepBacklogInv DEF SweepBacklog
  <2>6. CASE StatementFails(j)
    BY <1>5, <2>6, StatementFailsInv
  <2>7. QED
    BY <1>4, <2>1, <2>2, <2>3, <2>4, <2>5, <2>6, StatementCases
<1>10. CASE Crash \/ UNCHANGED vars
  BY <1>5, <1>10 DEF Crash, vars
<1>11. QED
  BY <1>6, <1>7, <1>8, <1>9, <1>10 DEF Next

(* The notices of api/internal/store never insert over a row: what a reader    *)
(* decided about an article, by a mark or a sweep, stays whatever refreshes,   *)
(* shares and relay events were under way.                                     *)
THEOREM VerdictsStay == Spec => []VerdictKept
<1>1. Init => VerdictKept
  BY DEF Init, VerdictKept
<1>2. QED
  BY <1>1, InvHolds, VerdictStep, PTL DEF Spec

\* A flag that a sweep or a notice finds, it leaves, and a mark sets it anew.
LEMMA OpenedStep ==
  ASSUME Inv, Opened, [Next]_vars
  PROVE  Opened'
<1>1. MarkType
  BY DEF Inv, TypeOK
<1> DEFINE Explicit(row) == row.status = "read" /\ row.explicit
<1>2. ASSUME word' = word, \A r \in Readers, a \in Articles : Explicit(mark'[r][a]) <=> Explicit(mark[r][a])
      PROVE  Opened'
  BY <1>2 DEF Opened
<1>3. ASSUME NEW r \in Readers, NEW seen, Sweep(r, seen), word' = word
      PROVE  Opened'
  <2>1. /\ \A a \in Articles : mark'[r][a] # mark[r][a] => ~ mark'[r][a].explicit /\ ~ mark[r][a].explicit
        /\ \A q \in Readers, a \in Articles : q # r => mark'[q][a] = mark[q][a]
    BY <1>1, <1>3, SweepEffect
  <2>2. QED
    BY <1>2, <1>3, <2>1
<1>4. ASSUME NEW j \in Jobs, TellFollowers(j) \/ FanOut(j)
      PROVE  Opened'
  <2>1. job[j].article \in Articles /\ Tells(j, Audience(j))
    BY <1>4, TellInv
  <2>2. \A r \in Readers, a \in Articles :
          mark'[r][a] = mark[r][a] \/ (mark[r][a] = NoRow /\ mark'[r][a] = Unread)
    BY <1>1, <2>1, NotifyEffect DEF Tells
  <2>3. ~ Explicit(NoRow) /\ ~ Explicit(Unread)
    BY DEF NoRow, Unread
  <2>4. word' = word
    BY <2>1 DEF Tells, history
  <2>5. QED
    BY <1>2, <2>2, <2>3, <2>4
<1>5. ASSUME UNCHANGED <<mark, word>>
      PROVE  Opened'
  BY <1>5 DEF Opened
<1>6. CASE \E r \in Readers : Reader(r)
  <2>1. PICK r \in Readers : Reader(r)
    BY <1>6
  <2>2. ASSUME NEW a \in Articles, NEW status \in Status, NEW explicit \in BOOLEAN,
               UpdateEntryStatusByURL(r, a, status, explicit)
        PROVE  Opened'
    <3>1. /\ mark'[r][a].status = status /\ mark'[r][a].explicit = (status = "read" /\ explicit)
          /\ \A q \in Readers, b \in Articles : q # r \/ b # a => mark'[q][b] = mark[q][b]
      BY <1>1, <2>2, SetStatusEffect DEF UpdateEntryStatusByURL
    <3>2. /\ word'[r][a] = IF status = "read" /\ explicit THEN "opened" ELSE status
          /\ \A q \in Readers, b \in Articles : q # r \/ b # a => word'[q][b] = word[q][b]
      BY <2>2 DEF UpdateEntryStatusByURL, Say, Inv, TypeOK, HistoryType
    <3>3. Explicit(mark'[r][a]) <=> word'[r][a] = "opened"
      BY <3>1, <3>2 DEF Status
    <3>4. \A q \in Readers, b \in Articles :
            q # r \/ b # a => (Explicit(mark'[q][b]) <=> word'[q][b] = "opened")
      BY <3>1, <3>2 DEF Opened
    <3>5. QED
      BY <3>3, <3>4 DEF Opened
  <2>3. ASSUME NEW seen, MarkEntriesRead(r, seen)
        PROVE  Opened'
    BY <1>3, <2>3 DEF MarkEntriesRead
  <2>4. CASE Rearranges(r)
    BY <1>5, <2>4, RearrangesInv
  <2>5. QED
    BY <2>1, <2>2, <2>3, <2>4, ReaderCases DEF Rearranges, Inv
<1>7. CASE \E s \in Sharers : UnshareArticle(s)
  BY <1>5, <1>7, UnshareInv DEF history
<1>8. CASE \E j \in Jobs : Request(j)
  BY <1>5, <1>8, RequestInv DEF history
<1>9. CASE \E j \in Jobs : Statement(j)
  <2>1. PICK j \in Jobs : Statement(j)
    BY <1>9
  <2>2. CASE QuietStep(j)
    BY <1>5, <2>2, QuietInv DEF history
  <2>3. CASE PutsShare(j)
    BY <1>5, <2>3 DEF PutsShare, PutShare
  <2>4. CASE CreateEntry(j)
    BY <1>5, <2>4 DEF CreateEntry
  <2>5. CASE SweepBacklog(j)
    BY <1>3, <2>5, SweepBacklogInv DEF SweepBacklog
  <2>6. CASE StatementFails(j)
    BY <1>5, <2>6, StatementFailsInv
  <2>7. QED
    BY <1>4, <2>1, <2>2, <2>3, <2>4, <2>5, <2>6, StatementCases
<1>10. CASE Crash \/ UNCHANGED vars
  BY <1>5, <1>10 DEF Crash, vars
<1>11. QED
  BY <1>6, <1>7, <1>8, <1>9, <1>10 DEF Next

(* The history lists an article exactly when the reader's last mark of it was  *)
(* an explicit read: the sweeps of store.go and its notices never forge nor    *)
(* erase one.                                                                  *)
THEOREM HistoryTrue == Spec => []HistoryFaithful
<1>1. Init => Opened
  BY DEF Init, Opened, NoRow
<1>2. Opened => HistoryFaithful
  BY HistoryLists DEF Opened, HistoryFaithful, InHistory
<1>3. QED
  BY <1>1, <1>2, InvHolds, OpenedStep, PTL DEF Spec

-----------------------------------------------------------------------------
(* Notices *)

\* No share appears between a request's check and its upsert without a row.
LEMMA FreshStep ==
  ASSUME Inv, Fresh, [Next]_vars
  PROVE  Fresh'
<1> DEFINE Ready(j) == job[j].kind = "share" /\ job[j].pc = "insert" /\ ~ job[j].raced
<1>1. ASSUME NEW j \in Jobs, shares' = shares,
             \A i \in Jobs : i # j => job'[i] = job[i],
             Ready(j)' /\ IsNew(j)' => job'[j].new
      PROVE  Fresh'
  BY <1>1 DEF Fresh, IsNew
<1>2. ASSUME UNCHANGED <<shares, job>>
      PROVE  Fresh'
  BY <1>2 DEF Fresh, IsNew
<1>3. CASE \E r \in Readers : Reader(r)
  BY <1>2, <1>3, ReaderCases, RearrangesInv
  DEF Rearranges, UpdateEntryStatusByURL, MarkEntriesRead, store, Inv
<1>4. CASE \E s \in Sharers : UnshareArticle(s)
  <2>1. PICK s \in Sharers : UnshareArticle(s)
    BY <1>4
  <2>2. PICK a \in Articles :
          /\ shares' = [shares EXCEPT ![s][a] = NoShare]
          /\ job' = [j \in Jobs |-> IF /\ job[j].kind = "share" /\ At(j, "insert") /\ ~ job[j].new
                                       /\ job[j].user = s /\ job[j].article = a
                                    THEN [job[j] EXCEPT !.raced = TRUE] ELSE job[j]]
    BY <2>1 DEF UnshareArticle
  <2>3. ASSUME NEW j \in Jobs, Ready(j)', IsNew(j)'
        PROVE  job'[j].new
    <3>1. job[j] \in Job /\ Form(job[j])
      BY DEF Inv, TypeOK, JobType, Forms
    <3>2. /\ job'[j].pc = job[j].pc /\ job'[j].kind = job[j].kind
          /\ job'[j].user = job[j].user /\ job'[j].article = job[j].article /\ job'[j].new = job[j].new
      BY <2>1, UnshareInv
    <3>9. SUFFICES ASSUME ~ job[j].new PROVE FALSE
      BY <3>2
    <3>3. job'[j] = job[j]
      <4>1. [job[j] EXCEPT !.raced = TRUE].raced
        BY <3>1 DEF Job
      <4>2. QED
        BY <2>2, <2>3, <4>1
    <3>4. ~ (job[j].user = s /\ job[j].article = a)
      <4>1. SUFFICES ASSUME job[j].user = s, job[j].article = a PROVE FALSE
        OBVIOUS
      <4>2. job'[j] = [job[j] EXCEPT !.raced = TRUE]
        BY <2>2, <2>3, <3>2, <3>9, <4>1 DEF At
      <4>3. job'[j].raced
        BY <3>1, <4>2 DEF Job
      <4>4. QED
        BY <2>3, <4>3
    <3>5. job[j].user \in Sharers /\ job[j].article \in Articles
      BY <2>3, <3>1, <3>2 DEF Form
    <3>6. shares'[job[j].user][job[j].article] = shares[job[j].user][job[j].article]
      BY <2>2, <3>4, <3>5 DEF Inv, TypeOK, StoreType
    <3>7. Ready(j) /\ IsNew(j)
      BY <2>3, <3>3, <3>6 DEF IsNew
    <3>8. QED
      BY <3>7, <3>9 DEF Fresh
  <2>4. QED
    BY <2>3 DEF Fresh
<1>5. CASE \E j \in Jobs : Request(j)
  BY <1>1, <1>5, RequestInv DEF store
<1>6. CASE \E j \in Jobs : Statement(j)
  <2>1. PICK j \in Jobs : Statement(j)
    BY <1>6
  <2>2. CASE QuietStep(j)
    <3>1. Inv' /\ shares' = shares /\ \A i \in Jobs : i # j => job'[i] = job[i]
      BY <2>2, QuietInv
    <3>2. Ready(j)' /\ IsNew(j)' => job'[j].new
      <4>1. job[j] \in Job /\ Form(job[j]) /\ job \in [Jobs -> Job]
        BY DEF Inv, TypeOK, JobType, Forms
      <4>2. CASE EnsureSharedEntry(j)
        <5>1. PICK link : job' = [job EXCEPT ![j].link = link, ![j].feed = NoFeed,
                             ![j].pc = IF job[j].kind = "share" THEN "check" ELSE "insert"]
          BY <4>2 DEF EnsureSharedEntry
        <5>2. job'[j].kind = job[j].kind /\ job'[j].pc = IF job[j].kind = "share" THEN "check" ELSE "insert"
          BY <4>1, <5>1 DEF Job
        <5>3. QED
          BY <5>2
      <4>3. CASE CheckShared(j)
        <5>1. PICK existed \in {FALSE, shares[job[j].user][job[j].article] # NoShare} :
                job' = [job EXCEPT ![j].new = ~ existed, ![j].pc = "insert", ![j].raced = FALSE]
          BY <4>3 DEF CheckShared
        <5>2. /\ job'[j].new = ~ existed /\ job'[j].user = job[j].user
              /\ job'[j].article = job[j].article
          BY <4>1, <5>1 DEF Job
        <5>3. QED
          BY <3>1, <5>1, <5>2 DEF IsNew
      <4>4. CASE InsertStar(j) \/ ToggleEntryStarred(j)
        <5>1. job'[j] = Idle
          BY <4>1, <4>4 DEF InsertStar, ToggleEntryStarred, Close
        <5>2. QED
          BY <5>1, IdleForm
      <4>5. CASE CreateSubscription(j)
        <5>1. PICK pc \in {"store", "bulk"} : job' = [job EXCEPT ![j].pc = pc]
          BY <4>5 DEF CreateSubscription, Goto
        <5>2. job'[j].pc = pc
          BY <4>1, <5>1 DEF Job
        <5>3. QED
          BY <5>1, <5>2
      <4>6. QED
        BY <2>2, <4>2, <4>3, <4>4, <4>5 DEF QuietStep
    <3>3. QED
      BY <1>1, <3>1, <3>2
  <2>3. CASE PutsShare(j)
    <3>1. PICK tells \in BOOLEAN : PutShare(j, tells)
      BY <2>3 DEF PutsShare
    <3>2. /\ job[j] \in Job /\ Form(job[j])
          /\ job[j].user \in Sharers /\ job[j].article \in Articles
      BY <3>1 DEF PutShare, Inv, TypeOK, JobType, Forms, Form
    <3>3. shares' = [shares EXCEPT ![job[j].user][job[j].article] = LinkKept(j)]
      BY <3>1 DEF PutShare
    <3>4. LinkKept(j) # NoShare
      BY <3>2, ReadingAssumption DEF LinkKept, Job
    <3>5. ~ Ready(j)'
      <4>1. CASE tells
        BY <3>1, <4>1, PutShareEffect
      <4>2. CASE ~ tells
        BY <3>1, <4>2, CloseUpdate, IdleForm DEF PutShare
      <4>3. QED
        BY <4>1, <4>2
    <3>6. ASSUME NEW i \in Jobs, Ready(i)', IsNew(i)'
          PROVE  job'[i].new
      <4>1. i # j /\ job'[i] = job[i]
        BY <3>1, <3>5, <3>6, PutShareEffect
      <4>2. Ready(i)
        BY <3>6, <4>1
      <4>3. job[i].user \in Sharers /\ job[i].article \in Articles
        BY <4>2 DEF Inv, Forms, Form
      <4>4. shares'[job[i].user][job[i].article] = NoShare
        BY <3>6, <4>1 DEF IsNew
      <4>5. IsNew(i)
        BY <3>2, <3>3, <3>4, <4>3, <4>4 DEF IsNew, Inv, TypeOK, StoreType
      <4>6. QED
        BY <4>1, <4>2, <4>5 DEF Fresh
    <3>7. QED
      BY <3>6 DEF Fresh
  <2>4. CASE CreateEntry(j)
    <3>1. shares' = shares /\ \A i \in Jobs : i # j => job'[i] = job[i]
      BY <2>4, CreateEntryInv DEF CreateEntry
    <3>2. job'[j].pc # "insert"
      <4>1. CASE <<job[j].feed, job[j].article>> \in entries
        BY <2>4, <4>1, ContinueUpdate DEF CreateEntry
      <4>2. CASE <<job[j].feed, job[j].article>> \notin entries
        BY <2>4, <4>2, CreateEntryInv
      <4>3. QED
        BY <4>1, <4>2
    <3>3. QED
      BY <1>1, <3>1, <3>2
  <2>5. CASE TellFollowers(j) \/ FanOut(j)
    <3>1. shares' = shares /\ \A i \in Jobs : i # j => job'[i] = job[i]
      BY <2>5, TellInv DEF Tells, store
    <3>2. job'[j].pc # "insert"
      BY <2>5, CloseUpdate, ContinueUpdate, IdleForm DEF TellFollowers, FanOut
    <3>3. QED
      BY <1>1, <3>1, <3>2
  <2>6. CASE SweepBacklog(j)
    <3>1. shares' = shares /\ \A i \in Jobs : i # j => job'[i] = job[i]
      BY <2>6, SweepBacklogInv DEF SweepBacklog, store
    <3>2. job'[j].pc # "insert"
      BY <2>6, CloseUpdate, IdleForm DEF SweepBacklog
    <3>3. QED
      BY <1>1, <3>1, <3>2
  <2>7. CASE StatementFails(j)
    BY <1>1, <2>7, StatementFailsInv DEF store
  <2>8. QED
    BY <2>1, <2>2, <2>3, <2>4, <2>5, <2>6, <2>7, StatementCases
<1>7. CASE Crash
  BY <1>7, IdleForm DEF Crash, Fresh
<1>8. CASE UNCHANGED vars
  BY <1>2, <1>8 DEF vars
<1>9. QED
  BY <1>3, <1>4, <1>5, <1>6, <1>7, <1>8 DEF Next

\* Sharing an entry stores it first.
LEMMA LinksStep ==
  ASSUME Inv, LinksKnown, [Next]_vars
  PROVE  LinksKnown'
<1> DEFINE Known(j) == job[j].link \in Feeds => <<job[j].link, job[j].article>> \in entries
<1>1. Idle.link \notin Feeds /\ job \in [Jobs -> Job] /\ \A j \in Jobs : Known(j)
  BY ReadingAssumption DEF Idle, Inv, TypeOK, JobType, LinksKnown
<1>2. ASSUME entries \subseteq entries', shares' = shares, NEW j \in Jobs,
             \A i \in Jobs : i # j => job'[i] = job[i],
             Known(j)'
      PROVE  LinksKnown'
  BY <1>2 DEF LinksKnown
<1>3. ASSUME UNCHANGED <<entries, shares, job>>
      PROVE  LinksKnown'
  BY <1>3 DEF LinksKnown
<1>4. ASSUME NEW j \in Jobs, Close(j) \/ \E pc : Goto(j, pc), entries \subseteq entries'
      PROVE  Known(j)'
  <2>1. CASE Close(j)
    BY <1>1, <2>1 DEF Close
  <2>2. CASE \E pc : Goto(j, pc)
    <3>1. job'[j].link = job[j].link /\ job'[j].article = job[j].article
      BY <1>1, <2>2 DEF Goto, Job
    <3>2. QED
      BY <1>1, <1>4, <3>1
  <2>3. QED
    BY <1>4, <2>1, <2>2
<1>5. CASE \E r \in Readers : Reader(r)
  BY <1>3, <1>5, ReaderCases, RearrangesInv
  DEF Rearranges, UpdateEntryStatusByURL, MarkEntriesRead, store, Inv
<1>6. CASE \E s \in Sharers : UnshareArticle(s)
  <2>1. PICK s \in Sharers : UnshareArticle(s)
    BY <1>6
  <2>2. PICK a \in Articles :
          /\ shares' = [shares EXCEPT ![s][a] = NoShare]
          /\ job' = [j \in Jobs |-> IF /\ job[j].kind = "share" /\ At(j, "insert") /\ ~ job[j].new
                                       /\ job[j].user = s /\ job[j].article = a
                                    THEN [job[j] EXCEPT !.raced = TRUE] ELSE job[j]]
    BY <2>1 DEF UnshareArticle
  <2>3. entries' = entries
    BY <2>1, UnshareInv
  <2>4. ASSUME NEW t \in Sharers, NEW b \in Articles, shares'[t][b] \in Feeds
        PROVE  shares'[t][b] = shares[t][b]
    BY <2>2, <2>4, ReadingAssumption DEF Inv, TypeOK, StoreType
  <2>5. \A j \in Jobs : job'[j].link = job[j].link /\ job'[j].article = job[j].article
    BY <1>1, <2>2 DEF Job
  <2>6. QED
    BY <2>3, <2>4, <2>5 DEF LinksKnown
<1>7. CASE \E j \in Jobs : Request(j)
  <2>1. PICK j \in Jobs : Request(j)
    BY <1>7
  <2>2. /\ UNCHANGED <<entries, shares>> /\ \A i \in Jobs : i # j => job'[i] = job[i]
    BY <2>1, RequestInv DEF store
  <2>3. \E kind, pc, user, feed, article : Open(j, kind, pc, user, feed, article)
    BY <2>1 DEF Request, ShareArticle, HandleShareEvent, StarByURL, EntriesStar, SubscribeToFeed,
                RefreshFeed
  <2>4. job'[j].link = Unlinked
    BY <1>1, <2>3 DEF Open, Idle
  <2>5. QED
    BY <1>2, <2>2, <2>4, ReadingAssumption
<1>8. CASE \E j \in Jobs : Statement(j)
  <2>1. PICK j \in Jobs : Statement(j)
    BY <1>8
  <2>2. CASE QuietStep(j)
    <3>1. /\ entries \subseteq entries' /\ shares' = shares
          /\ \A i \in Jobs : i # j => job'[i] = job[i]
      BY <2>2, QuietInv
    <3>2. CASE EnsureSharedEntry(j)
      <4>1. PICK link \in {job[j].feed, Unlinked} \cap (Feeds \cup {Unlinked}) :
              /\ entries' = IF link = Unlinked THEN entries ELSE entries \cup {<<link, job[j].article>>}
              /\ job' = [job EXCEPT ![j].link = link, ![j].feed = NoFeed,
                                    ![j].pc = IF job[j].kind = "share" THEN "check" ELSE "insert"]
        BY <3>2 DEF EnsureSharedEntry
      <4>2. job'[j].link = link /\ job'[j].article = job[j].article
        BY <1>1, <4>1 DEF Job
      <4>3. link \in Feeds => <<link, job[j].article>> \in entries'
        BY <4>1, ReadingAssumption
      <4>4. Known(j)'
        BY <4>2, <4>3
      <4>5. QED
        BY <1>2, <3>1, <4>4
    <3>3. CASE CheckShared(j)
      <4>1. PICK existed : job' = [job EXCEPT ![j].new = ~ existed, ![j].pc = "insert", ![j].raced = FALSE]
        BY <3>3 DEF CheckShared
      <4>2. job'[j].link = job[j].link /\ job'[j].article = job[j].article
        BY <1>1, <4>1 DEF Job
      <4>3. QED
        BY <1>1, <1>2, <3>1, <4>2
    <3>4. CASE InsertStar(j) \/ ToggleEntryStarred(j) \/ CreateSubscription(j)
      BY <1>2, <1>4, <3>1, <3>4 DEF InsertStar, ToggleEntryStarred, CreateSubscription
    <3>5. QED
      BY <2>2, <3>2, <3>3, <3>4 DEF QuietStep
  <2>3. CASE PutsShare(j)
    <3>1. PICK tells \in BOOLEAN : PutShare(j, tells)
      BY <2>3 DEF PutsShare
    <3>2. /\ entries' = entries /\ \A i \in Jobs : i # j => job'[i] = job[i]
      BY <3>1, PutShareEffect
    <3>3. job[j] \in Job /\ job[j].user \in Sharers /\ job[j].article \in Articles
      BY <3>1 DEF PutShare, Inv, TypeOK, JobType, Forms, Form
    <3>4. job'[j].link \notin Feeds
      <4>1. CASE tells
        BY <1>1, <3>1, <4>1, ReadingAssumption DEF PutShare, ToTell, Job
      <4>2. CASE ~ tells
        BY <1>1, <3>1, <4>2 DEF PutShare, Close
      <4>3. QED
        BY <4>1, <4>2
    <3>5. LinkKept(j) \in Feeds => <<LinkKept(j), job[j].article>> \in entries
      BY <3>3 DEF LinkKept, LinksKnown
    <3>6. shares' = [shares EXCEPT ![job[j].user][job[j].article] = LinkKept(j)]
      BY <3>1 DEF PutShare
    <3>7. \A t \in Sharers, b \in Articles : shares'[t][b] \in Feeds => <<shares'[t][b], b>> \in entries
      BY <3>3, <3>5, <3>6 DEF LinksKnown, Inv, TypeOK, StoreType
    <3>8. QED
      BY <3>2, <3>4, <3>7 DEF LinksKnown
  <2>4. CASE CreateEntry(j)
    <3>1. entries \subseteq entries' /\ shares' = shares /\ \A i \in Jobs : i # j => job'[i] = job[i]
      BY <2>4, CreateEntryInv DEF CreateEntry
    <3>2. QED
      BY <1>2, <1>4, <2>4, <3>1 DEF CreateEntry, Continue
  <2>5. CASE TellFollowers(j) \/ FanOut(j)
    <3>1. UNCHANGED <<entries, shares>> /\ \A i \in Jobs : i # j => job'[i] = job[i]
      BY <2>5, TellInv DEF Tells, store
    <3>2. QED
      BY <1>2, <1>4, <2>5, <3>1 DEF TellFollowers, FanOut, Continue
  <2>6. CASE SweepBacklog(j)
    <3>1. UNCHANGED <<entries, shares>> /\ \A i \in Jobs : i # j => job'[i] = job[i]
      BY <2>6, SweepBacklogInv DEF SweepBacklog, store
    <3>2. QED
      BY <1>2, <1>4, <2>6, <3>1 DEF SweepBacklog
  <2>7. CASE StatementFails(j)
    <3>1. UNCHANGED <<entries, shares>> /\ \A i \in Jobs : i # j => job'[i] = job[i]
      BY <2>7, StatementFailsInv DEF store
    <3>2. QED
      BY <1>2, <1>4, <2>7, <3>1 DEF StatementFails, Continue
  <2>8. QED
    BY <2>1, <2>2, <2>3, <2>4, <2>5, <2>6, <2>7, StatementCases
<1>9. CASE Crash
  BY <1>1, <1>9 DEF Crash, LinksKnown, store
<1>10. CASE UNCHANGED vars
  BY <1>3, <1>10 DEF vars
<1>11. QED
  BY <1>5, <1>6, <1>7, <1>8, <1>9, <1>10 DEF Next

\* A request that is about to give a notice, and to whom it is due.
Carries(j, o) ==
  job[j].pc \in {"tell", "fan"} /\ job[j].article = o[2] /\ Cause(j) = o[3]

\* What has become of a notice so far: a row that is unread, or a request that is
\* about to give it.
OnItsWay(o) ==
  \/ mark[o[1]][o[2]] = Unread
  \/ mark[o[1]][o[2]] = NoRow /\ \E j \in Jobs : Carries(j, o)

Promised == Owing /\ \A o \in owed : OnItsWay(o)

\* Shares of known entries, entries, follows and subscriptions stay.
Standing ==
  /\ follows \subseteq follows' /\ subs \subseteq subs' /\ entries \subseteq entries'
  /\ \A s \in Sharers, a \in Articles : shares[s][a] \in Feeds => shares'[s][a] \in Feeds

\* Then a notice stays due.
LEMMA DueStays ==
  ASSUME Inv, Standing, NEW o \in owed, Due(o)
  PROVE  Due(o)'
<1>1. o[2] \in Articles
  BY DEF Inv, TypeOK, HistoryType
<1>2. QED
  BY <1>1 DEF Due, Standing

\* Promises outlive a step that keeps all this, their marks and the requests.
LEMMA PromisesOutlive ==
  ASSUME Inv, Promised, Standing, owed' \subseteq owed,
         \A o \in owed' : mark'[o[1]][o[2]] = mark[o[1]][o[2]],
         \A j \in Jobs, o \in owed' : mark[o[1]][o[2]] = NoRow /\ Carries(j, o) => Carries(j, o)'
  PROVE  Promised'
<1>1. ASSUME NEW o \in owed'
      PROVE  Due(o)' /\ OnItsWay(o)'
  <2>1. o \in owed /\ Due(o) /\ OnItsWay(o)
    BY DEF Promised, Owing
  <2>2. Due(o)'
    BY <2>1, DueStays
  <2>3. OnItsWay(o)'
    BY <2>1 DEF OnItsWay
  <2>4. QED
    BY <2>2, <2>3
<1>2. QED
  BY <1>1 DEF Promised, Owing

\* A request that another step leaves alone still carries its notice.
LEMMA StillCarries ==
  ASSUME NEW j \in Jobs, NEW o, Carries(j, o), job'[j] = job[j]
  PROVE  Carries(j, o)'
BY DEF Carries, Cause

\* Causes are told apart by what they are.
LEMMA DistinctCauses ==
  ASSUME NEW x, NEW y
  PROVE  /\ <<"share", x>> = <<"share", y>> => x = y
         /\ <<"feed", x>> = <<"feed", y>> => x = y
         /\ <<"share", x>> # <<"feed", y>>
OBVIOUS

\* What a request is about to tell is of its sharer or its feed.
LEMMA CauseOfTeller ==
  ASSUME Inv, NEW j \in Jobs, job[j].pc \in {"tell", "fan"}
  PROVE  /\ job[j].pc = "tell" => Cause(j) = <<"share", job[j].user>>
         /\ job[j].pc = "fan" => Cause(j) = <<"feed", job[j].feed>>
<1>1. Form(job[j]) /\ job[j] \in Job
  BY DEF Inv, TypeOK, JobType, Forms
<1>2. QED
  BY <1>1 DEF Form, Job, Cause

\* What a reader decides settles the notices it concerns, and no other.
LEMMA DecisionPromises ==
  ASSUME Inv, Promised, NEW r \in Readers, NEW articles, UNCHANGED store,
         owed' = Undecided(r, articles),
         \A q \in Readers, a \in Articles :
           q # r \/ a \notin articles => mark'[q][a] = mark[q][a],
         \A j \in Jobs, o \in owed' : Carries(j, o) => Carries(j, o)'
  PROVE  Promised'
<1>1. Standing /\ owed' \subseteq owed
  BY StillOwed DEF Standing, store
<1>2. ASSUME NEW o \in owed'
      PROVE  mark'[o[1]][o[2]] = mark[o[1]][o[2]]
  <2>1. o \in owed /\ ~ (o[1] = r /\ o[2] \in articles)
    BY DEF Undecided
  <2>2. o[1] \in Readers /\ o[2] \in Articles
    BY <2>1 DEF Inv, TypeOK, HistoryType
  <2>3. QED
    BY <2>1, <2>2
<1>3. QED
  BY <1>1, <1>2, PromisesOutlive

\* A sweep changes the marks of the articles it has seen.
LEMMA SweepSettles ==
  ASSUME Inv, NEW r \in Readers, NEW seen, Sweep(r, seen), NEW q \in Readers, NEW a \in Articles,
         q # r \/ a \notin {e[2] : e \in seen}
  PROVE  mark'[q][a] = mark[q][a]
BY SweepEffect DEF Inv, TypeOK

\* The steps of readers and sharers keep the promises, and take back those to a
\* reader who decides or leaves.
LEMMA ReaderPromises ==
  ASSUME Inv, Promised, NEW r \in Readers, Reader(r)
  PROVE  Promised'
<1>1. ASSUME NEW a \in Articles, NEW status \in Status, NEW explicit \in BOOLEAN,
             UpdateEntryStatusByURL(r, a, status, explicit)
      PROVE  Promised'
  <2>a. PICK only : only = {a}
    OBVIOUS
  <2>1. /\ SetStatus(r, a, status, explicit) /\ UNCHANGED <<store, job>>
        /\ owed' = Undecided(r, only)
    BY <1>1, <2>a DEF UpdateEntryStatusByURL
  <2>2. \A q \in Readers, b \in Articles : q # r \/ b \notin only => mark'[q][b] = mark[q][b]
    BY <2>1, <2>a, SetStatusEffect DEF Inv, TypeOK
  <2>3. \A j \in Jobs, o \in owed' : Carries(j, o) => Carries(j, o)'
    BY <2>1, StillCarries
  <2>4. QED
    BY <2>1, <2>2, <2>3, DecisionPromises
<1>2. ASSUME NEW seen, MarkEntriesRead(r, seen)
      PROVE  Promised'
  <2>1. /\ Sweep(r, seen) /\ UNCHANGED <<store, job>>
        /\ owed' = Undecided(r, {e[2] : e \in seen})
    BY <1>2 DEF MarkEntriesRead
  <2>2. \A q \in Readers, b \in Articles :
          q # r \/ b \notin {e[2] : e \in seen} => mark'[q][b] = mark[q][b]
    BY <2>1, SweepSettles
  <2>3. \A j \in Jobs, o \in owed' : Carries(j, o) => Carries(j, o)'
    BY <2>1, StillCarries
  <2> HIDE <2>1
  <2>4. QED
    BY <2>1, <2>2, <2>3, DecisionPromises
<1>3. CASE Rearranges(r)
  <2>1. UNCHANGED <<entries, shares, mark, job>> /\ owed' \subseteq owed
    BY <1>3, RearrangesInv
  <2>2. ASSUME NEW o \in owed' PROVE OnItsWay(o)'
    <3>1. OnItsWay(o)
      BY <2>1 DEF Promised
    <3>2. \A j \in Jobs : Carries(j, o) => Carries(j, o)'
      BY <2>1, StillCarries
    <3>3. QED
      BY <2>1, <3>1, <3>2 DEF OnItsWay
  <2>3. ASSUME NEW o \in owed' PROVE Due(o)'
    <3>1. Due(o)
      BY <2>1 DEF Promised, Owing
    <3>2. CASE FollowUser(r) \/ UnstarByURL(r) \/ HandleFeedSubEvent(r)
      <4>1. follows \subseteq follows' /\ subs \subseteq subs'
        BY <3>2 DEF FollowUser, UnstarByURL, HandleFeedSubEvent
      <4>2. QED
        BY <2>1, <3>1, <4>1 DEF Due
    <3>3. CASE UnfollowUser(r)
      <4>1. PICK s \in Sharers :
              /\ follows' = follows \ {<<r, s>>} /\ subs' = subs
              /\ owed' = {p \in owed : ~ (p[1] = r /\ p[3] = <<"share", s>>)}
        BY <3>3 DEF UnfollowUser
      <4>2. ~ (o[1] = r /\ o[3] = <<"share", s>>)
        BY <4>1
      <4>3. QED
        BY <2>1, <3>1, <4>1, <4>2 DEF Due
    <3>4. CASE DeleteSubscription(r)
      <4>1. PICK f \in Feeds :
              /\ subs' = subs \ {<<r, f>>} /\ follows' = follows
              /\ owed' = {p \in owed : ~ (p[1] = r /\ p[3] = <<"feed", f>>)}
        BY <3>4 DEF DeleteSubscription
      <4>2. ~ (o[1] = r /\ o[3] = <<"feed", f>>)
        BY <4>1
      <4>3. QED
        BY <2>1, <3>1, <4>1, <4>2 DEF Due
    <3>5. QED
      BY <1>3, <3>2, <3>3, <3>4 DEF Rearranges
  <2>4. QED
    BY <2>2, <2>3 DEF Promised, Owing
<1>4. QED
  BY <1>1, <1>2, <1>3, ReaderCases DEF Rearranges, Inv

\* An unshare takes back the notices of the share, and changes no request that is
\* about to tell.
LEMMA UnsharePromises ==
  ASSUME Inv, Promised, NEW s \in Sharers, UnshareArticle(s)
  PROVE  Promised'
<1>1. PICK a \in Articles :
        /\ shares' = [shares EXCEPT ![s][a] = NoShare]
        /\ owed' = {o \in owed : ~ (o[2] = a /\ o[3] = <<"share", s>>)}
  BY DEF UnshareArticle
<1>2. UNCHANGED <<entries, follows, subs, mark>>
  BY UnshareInv
<1>3. \A j \in Jobs : Cause(j)' = Cause(j) /\ job'[j].pc = job[j].pc /\ job'[j].article = job[j].article
  BY UnshareInv DEF Cause
<1>4. ASSUME NEW o \in owed'
      PROVE  Due(o)' /\ OnItsWay(o)'
  <2>1. o \in owed /\ Due(o) /\ OnItsWay(o) /\ ~ (o[2] = a /\ o[3] = <<"share", s>>)
    BY <1>1 DEF Promised, Owing
  <2>2. o[2] \in Articles
    BY <2>1 DEF Inv, TypeOK, HistoryType
  <2>3. ASSUME NEW t \in Sharers, t # s \/ o[2] # a
        PROVE  shares'[t][o[2]] = shares[t][o[2]]
    BY <1>1, <2>2, <2>3 DEF Inv, TypeOK, StoreType
  <2>4. Due(o)'
    BY <1>2, <2>1, <2>3 DEF Due
  <2>5. OnItsWay(o)'
    BY <1>2, <1>3, <2>1 DEF OnItsWay, Carries
  <2>6. QED
    BY <2>4, <2>5
<1>5. QED
  BY <1>4 DEF Promised, Owing

\* A share that is new promises its followers a notice and goes on to give it.
LEMMA PutSharePromises ==
  ASSUME Inv, Promised, Fresh, NEW j \in Jobs, InsertShare(j)
  PROVE  Promised'
<1> DEFINE tells == IF job[j].kind = "share" THEN ToldByRequest(j) ELSE IsNew(j)
           s == job[j].user
           a == job[j].article
           promises == IsNew(j) /\ LinkKept(j) # Unlinked /\ ~ job[j].raced
<1>1. job[j] \in Job /\ Form(job[j])
  BY DEF Inv, TypeOK, JobType, Forms
<1>2. tells \in BOOLEAN
  BY <1>1 DEF ToldByRequest, IsNew, Job
<1>3. PutShare(j, tells)
  BY DEF InsertShare
<1>4. /\ job[j].pc = "insert" /\ job[j].kind \in {"share", "shareEvent"}
      /\ s \in Sharers /\ a \in Articles
  BY <1>1, <1>3 DEF PutShare, At, Form
<1>5. promises => tells
  BY <1>4 DEF ToldByRequest, Fresh
<1>6. owed' = IF promises
              THEN owed \cup {<<r, a, Cause(j)>> : r \in {q \in Readers : <<q, s>> \in follows /\ mark[q][a] = NoRow}}
              ELSE owed
  BY <1>3 DEF PutShare
<1>7. LinkKept(j) # Unlinked => LinkKept(j) \in Feeds
  BY <1>1 DEF LinkKept, Job
<1>8. shares' = [shares EXCEPT ![s][a] = LinkKept(j)]
  BY <1>3 DEF PutShare
<1>9. promises => shares'[s][a] \in Feeds
  BY <1>4, <1>7, <1>8 DEF Inv, TypeOK, StoreType
<1>10. \A t \in Sharers, b \in Articles : shares[t][b] \in Feeds => shares'[t][b] \in Feeds
  <2>1. shares[s][a] \in Feeds => LinkKept(j) \in Feeds
    BY DEF LinkKept
  <2>2. QED
    BY <1>4, <1>8, <2>1 DEF Inv, TypeOK, StoreType
<1> HIDE DEF promises, tells
<1>11. /\ tells => /\ job'[j].pc = "tell" /\ job'[j].kind = job[j].kind
                   /\ job'[j].user = s /\ job'[j].article = a
       /\ \A i \in Jobs : i # j => job'[i] = job[i]
       /\ UNCHANGED <<entries, follows, subs, mark>>
  BY <1>2, <1>3, PutShareEffect
<1>12. Standing
  BY <1>10, <1>11 DEF Standing
<1>13. ASSUME NEW o \in owed'
       PROVE  Due(o)' /\ OnItsWay(o)'
  <2>1. CASE o \in owed
    <3>1. Due(o)' /\ OnItsWay(o)
      BY <1>12, <2>1, DueStays DEF Promised, Owing
    <3>2. ASSUME NEW i \in Jobs, Carries(i, o)
          PROVE  Carries(i, o)'
      <4>1. i # j
        BY <1>4, <3>2 DEF Carries
      <4>2. QED
        BY <1>11, <3>2, <4>1, StillCarries
    <3>3. QED
      BY <1>11, <3>1, <3>2 DEF OnItsWay
  <2>2. CASE o \notin owed
    <3>1. PICK r \in Readers : promises /\ <<r, s>> \in follows /\ mark[r][a] = NoRow /\ o = <<r, a, Cause(j)>>
      BY <1>6, <2>2
    <3>2. Cause(j) = <<"share", s>>
      BY <1>4 DEF Cause
    <3>3. o[1] = r /\ o[2] = a /\ o[3] = <<"share", s>>
      BY <3>1, <3>2
    <3>4. Cause(j)' = <<"share", s>>
      BY <1>4, <1>5, <1>11, <3>1 DEF Cause
    <3>5. Carries(j, o)'
      BY <1>5, <1>11, <3>1, <3>3, <3>4 DEF Carries
    <3>6. Due(o)'
      BY <1>4, <1>9, <1>11, <3>1, <3>3 DEF Due
    <3>7. OnItsWay(o)'
      BY <1>11, <3>1, <3>3, <3>5 DEF OnItsWay
    <3>8. QED
      BY <3>6, <3>7
  <2>3. QED
    BY <2>1, <2>2
<1>14. QED
  BY <1>13 DEF Promised, Owing

\* So does an entry that is new, to the subscribers of its feed.
LEMMA CreateEntryPromises ==
  ASSUME Inv, Promised, NEW j \in Jobs, CreateEntry(j)
  PROVE  Promised'
<1> DEFINE a == job[j].article
           f == job[j].feed
           new == <<f, a>> \notin entries
<1>1. job[j] \in Job /\ Form(job[j])
  BY DEF Inv, TypeOK, JobType, Forms
<1>2. job[j].pc = "store" /\ job[j].kind \in {"subscribe", "refresh"} /\ f \in Feeds
  BY <1>1 DEF CreateEntry, At, Form, Job
<1>3. Cause(j) = <<"feed", f>>
  BY <1>2 DEF Cause
<1>4. /\ owed' = IF ~ new THEN owed
                 ELSE owed \cup {<<r, a, Cause(j)>> : r \in {q \in Readers : <<q, f>> \in subs /\ mark[q][a] = NoRow}}
      /\ entries' = entries \cup {<<f, a>>}
  BY DEF CreateEntry
<1>5. /\ new => job'[j].pc = "fan" /\ Cause(j)' = Cause(j) /\ job'[j].article = a
      /\ \A i \in Jobs : i # j => job'[i] = job[i]
      /\ UNCHANGED <<follows, subs, shares, mark>>
  BY CreateEntryInv DEF CreateEntry
<1>6. Standing
  BY <1>4, <1>5 DEF Standing
<1> HIDE DEF new
<1>7. ASSUME NEW o \in owed'
      PROVE  Due(o)' /\ OnItsWay(o)'
  <2>1. CASE o \in owed
    <3>1. Due(o)' /\ OnItsWay(o)
      BY <1>6, <2>1, DueStays DEF Promised, Owing
    <3>2. ASSUME NEW i \in Jobs, Carries(i, o)
          PROVE  Carries(i, o)'
      <4>1. i # j
        BY <1>2, <3>2 DEF Carries
      <4>2. QED
        BY <1>5, <3>2, <4>1, StillCarries
    <3>3. QED
      BY <1>5, <3>1, <3>2 DEF OnItsWay
  <2>2. CASE o \notin owed
    <3>1. PICK r \in Readers : new /\ <<r, f>> \in subs /\ mark[r][a] = NoRow /\ o = <<r, a, Cause(j)>>
      BY <1>4, <2>2
    <3>2. o[1] = r /\ o[2] = a /\ o[3] = <<"feed", f>>
      BY <1>3, <3>1
    <3>3. Carries(j, o)'
      BY <1>3, <1>5, <3>1, <3>2 DEF Carries
    <3>4. Due(o)'
      BY <1>2, <1>4, <1>5, <3>1, <3>2 DEF Due
    <3>5. OnItsWay(o)'
      BY <1>5, <3>1, <3>2, <3>3 DEF OnItsWay
    <3>6. QED
      BY <3>4, <3>5
  <2>3. QED
    BY <2>1, <2>2
<1>8. QED
  BY <1>7 DEF Promised, Owing

\* A notice reaches everyone it is due to from this request: what has no row yet
\* is carried by another.
LEMMA TellPromises ==
  ASSUME Inv, Promised, NEW j \in Jobs, TellFollowers(j) \/ FanOut(j)
  PROVE  Promised'
<1>1. /\ job[j].pc \in {"tell", "fan"} /\ job[j].article \in Articles
      /\ Tells(j, Audience(j)) /\ \A i \in Jobs : i # j => job'[i] = job[i]
  BY TellInv
<1>2. owed' = owed /\ Standing /\ MarkType
  BY <1>1 DEF Tells, store, history, Standing, Inv, TypeOK
<1>3. \A r \in Readers, a \in Articles :
        mark'[r][a] = IF r \in Audience(j) /\ a = job[j].article /\ mark[r][a] = NoRow
                      THEN Unread ELSE mark[r][a]
  BY <1>1, <1>2, NotifyEffect DEF Tells
<1>4. ASSUME NEW o \in owed, Carries(j, o)
      PROVE  o[1] \in Audience(j) /\ o[2] = job[j].article
  <2>1. o[1] \in Readers /\ Due(o)
    BY DEF Inv, TypeOK, HistoryType, Promised, Owing
  <2>2. o[2] = job[j].article /\ o[3] = Cause(j)
    BY <1>4 DEF Carries
  <2>3. CASE job[j].pc = "tell"
    <3>1. o[3] = <<"share", job[j].user>>
      BY <2>2, <2>3, CauseOfTeller
    <3>2. <<o[1], job[j].user>> \in follows
      BY <2>1, <3>1, DistinctCauses DEF Due
    <3>3. QED
      BY <2>1, <2>2, <2>3, <3>2 DEF Audience, At
  <2>4. CASE job[j].pc = "fan"
    <3>1. o[3] = <<"feed", job[j].feed>>
      BY <2>2, <2>4, CauseOfTeller
    <3>2. <<o[1], job[j].feed>> \in subs
      BY <2>1, <3>1, DistinctCauses DEF Due
    <3>3. QED
      BY <2>1, <2>2, <2>4, <3>2 DEF Audience, At
  <2>5. QED
    BY <1>1, <2>3, <2>4
<1>5. ASSUME NEW o \in owed
      PROVE  Due(o)' /\ OnItsWay(o)'
  <2>1. Due(o)' /\ OnItsWay(o) /\ o[1] \in Readers /\ o[2] \in Articles
    BY <1>2, DueStays DEF Promised, Owing, Inv, TypeOK, HistoryType
  <2>2. CASE mark'[o[1]][o[2]] = Unread
    BY <2>1, <2>2 DEF OnItsWay
  <2>3. CASE mark'[o[1]][o[2]] # Unread
    <3>1. mark[o[1]][o[2]] = NoRow /\ mark'[o[1]][o[2]] = NoRow
      BY <1>3, <2>1, <2>3 DEF OnItsWay
    <3>2. PICK i \in Jobs : Carries(i, o)
      BY <2>1, <2>3, <3>1, RowFacts DEF OnItsWay
    <3>3. i # j
      BY <1>3, <1>4, <2>1, <2>3, <3>1, <3>2
    <3>4. Carries(i, o)'
      BY <1>1, <3>2, <3>3, StillCarries
    <3>5. QED
      BY <2>1, <3>1, <3>4 DEF OnItsWay
  <2>4. QED
    BY <2>2, <2>3
<1>6. QED
  BY <1>2, <1>5 DEF Promised, Owing

\* A request that fails forgives what it carried.
LEMMA FailPromises ==
  ASSUME Inv, Promised, NEW j \in Jobs, StatementFails(j)
  PROVE  Promised'
<1>1. /\ UNCHANGED <<store, mark>> /\ owed' \subseteq owed
      /\ \A i \in Jobs : i # j => job'[i] = job[i]
  BY StatementFailsInv
<1>2. \A o \in owed' : mark[o[1]][o[2]] = NoRow => ~ Carries(j, o)
  BY DEF StatementFails, Forgive, Recorded, Carries, At
<1>3. \A i \in Jobs, o \in owed' : mark[o[1]][o[2]] = NoRow /\ Carries(i, o) => Carries(i, o)'
  BY <1>1, <1>2, StillCarries
<1>4. Standing
  BY <1>1 DEF Standing, store
<1>5. QED
  BY <1>1, <1>3, <1>4, PromisesOutlive

\* Every step keeps the promises.
LEMMA PromisedStep ==
  ASSUME Inv, Promised, Fresh, [Next]_vars
  PROVE  Promised'
<1>1. ASSUME NEW j \in Jobs, job[j].pc \notin {"tell", "fan"},
             \A i \in Jobs : i # j => job'[i] = job[i]
      PROVE  \A i \in Jobs, o \in owed' : Carries(i, o) => Carries(i, o)'
  <2>1. \A o \in owed' : ~ Carries(j, o)
    BY <1>1 DEF Carries
  <2>2. QED
    BY <1>1, <2>1, StillCarries
<1>2. CASE \E j \in Jobs : Request(j)
  <2>1. PICK j \in Jobs : Request(j)
    BY <1>2
  <2>2. /\ UNCHANGED <<store, mark, history>> /\ job[j].pc \notin {"tell", "fan"}
        /\ \A i \in Jobs : i # j => job'[i] = job[i]
    BY <2>1, RequestInv
  <2>3. Standing /\ owed' = owed /\ mark' = mark
    BY <2>2 DEF Standing, store, history
  <2>4. QED
    BY <1>1, <2>2, <2>3, PromisesOutlive
<1>3. CASE \E j \in Jobs : Statement(j)
  <2>1. PICK j \in Jobs : Statement(j)
    BY <1>3
  <2>2. CASE QuietStep(j)
    <3>1. /\ job[j].pc \notin {"tell", "fan"} /\ \A i \in Jobs : i # j => job'[i] = job[i]
          /\ Standing /\ owed' = owed /\ mark' = mark
      BY <2>2, QuietInv DEF Standing, history
    <3>2. QED
      BY <1>1, <3>1, PromisesOutlive
  <2>3. CASE SweepBacklog(j)
    <3>1. /\ job[j].pc = "bulk" /\ job[j].user \in Readers
          /\ \A i \in Jobs : i # j => job'[i] = job[i]
      BY <2>3, SweepBacklogInv
    <3>a. PICK r \in Readers : \E seen :
            /\ Sweep(r, seen) /\ UNCHANGED store
            /\ owed' = Undecided(r, {e[2] : e \in seen})
      BY <2>3, <3>1 DEF SweepBacklog
    <3>2. PICK seen :
            /\ Sweep(r, seen) /\ UNCHANGED store
            /\ owed' = Undecided(r, {e[2] : e \in seen})
      BY <3>a
    <3>3. \A q \in Readers, b \in Articles :
            q # r \/ b \notin {e[2] : e \in seen} => mark'[q][b] = mark[q][b]
      BY <3>2, SweepSettles
    <3>4. \A i \in Jobs, o \in owed' : Carries(i, o) => Carries(i, o)'
      BY <1>1, <3>1
    <3>5. QED
      BY <3>2, <3>3, <3>4, DecisionPromises
  <2>4. QED
    BY <2>1, <2>2, <2>3, StatementCases, PutSharePromises, CreateEntryPromises, TellPromises,
       FailPromises DEF PutsShare
<1>4. CASE Crash
  <2>1. /\ UNCHANGED <<store, mark>> /\ owed' \subseteq owed
        /\ \A o \in owed' : mark[o[1]][o[2]] # NoRow
    BY <1>4 DEF Crash, Recorded
  <2>2. Standing
    BY <2>1 DEF Standing, store
  <2>3. QED
    BY <2>1, <2>2, PromisesOutlive
<1>5. CASE UNCHANGED vars
  <2>1. Standing /\ UNCHANGED <<owed, mark, job>>
    BY <1>5 DEF vars, Standing
  <2>2. QED
    BY <2>1, StillCarries, PromisesOutlive
<1>6. QED
  BY <1>2, <1>3, <1>4, <1>5, ReaderPromises, UnsharePromises DEF Next

\* A notice that is due and has its row is found.
LEMMA DueIsFound ==
  ASSUME TypeOK, LinksKnown, NEW o, o[1] \in Readers, o[2] \in Articles, Due(o),
         mark[o[1]][o[2]] = Unread
  PROVE  Finds(o)
<1> DEFINE r == o[1]
           a == o[2]
<1>1. StatusOf(r, a) = "unread"
  BY RowFacts DEF StatusOf, Unread
<1>2. ASSUME NEW f \in Feeds, <<f, a>> \in Visible(r)
      PROVE  \E row \in EntriesList(r) :
               /\ Says(row, r, <<f, a>>)
               /\ row.counts = Most(NoCounts[a], GetLocalArticleCountsBatch[a])
  BY <1>1, <1>2, UnreadListed
<1>3. ASSUME NEW f \in Feeds, o[3] = <<"feed", f>>, <<r, f>> \in subs, <<f, a>> \in entries
      PROVE  FindsInFeed(r, a, f)
  <2>1. <<f, a>> \in Visible(r)
    BY <1>3 DEF Visible, Subscribed
  <2>2. \E row \in EntriesList(r) : row.entry = <<f, a>>
    BY <1>2, <2>1 DEF Says
  <2>3. PreviewFeed(r, {a})[a].status = "unread"
    BY <1>1 DEF PreviewFeed, GetEntryStatesByURLs
  <2>4. QED
    BY <2>2, <2>3 DEF FindsInFeed
<1>4. ASSUME NEW s \in Sharers, o[3] = <<"share", s>>, <<r, s>> \in follows, shares[s][a] \in Feeds
      PROVE  FindsShared(r, a, s)
  <2>1. PICK f \in Feeds : f = shares[s][a] /\ <<f, a>> \in entries
    BY <1>4 DEF LinksKnown
  <2>2. Linked(r, <<f, a>>)
    BY <1>4, <2>1 DEF Linked
  <2>3. <<f, a>> \in Visible(r)
    BY <2>1, <2>2 DEF Visible
  <2>4. PICK row \in EntriesList(r) :
          /\ Says(row, r, <<f, a>>)
          /\ row.counts = Most(NoCounts[a], GetLocalArticleCountsBatch[a])
    BY <1>2, <2>3
  <2>5. shares[s][a] # NoShare
    BY <1>4, ReadingAssumption
  <2>6. row.entry[2] = a /\ row.shared /\ row.counts.shares >= 1
    BY <2>2, <2>4, <2>5, ShareCounted DEF Says
  <2>7. <<s, a>> \in ListSocialTimeline(r)
    BY <1>4, <2>5 DEF ListSocialTimeline
  <2>8. \E item \in ListSharedArticlesByUser(s, r) : item.article = a /\ item.status = "unread"
    <3> DEFINE item == [article |-> a, status |-> StatusOf(r, a), starred |-> Starred(r, a)]
    <3>1. item \in ListSharedArticlesByUser(s, r)
      BY <2>5 DEF ListSharedArticlesByUser
    <3>2. item.article = a /\ item.status = "unread"
      BY <1>1
    <3>3. QED
      BY <3>1, <3>2
  <2>9. QED
    BY <2>6, <2>7, <2>8 DEF FindsShared
<1>5. QED
  BY <1>3, <1>4 DEF Due, Finds

(* Nobody falls between two requests for one article: whoever followed the     *)
(* sharer when a new share of a known entry was stored, or was subscribed when *)
(* an entry was stored, finds it unread in every view of it, or is about to be *)
(* told by a request that is under way.  Not promised is the share of a        *)
(* request whose check saw an earlier one, unshared before the upsert.         *)
THEOREM NoticesReachAll == Spec => []NoticesDelivered
<1>1. Init => Promised /\ Fresh /\ LinksKnown
  BY IdleForm, ReadingAssumption DEF Init, Promised, Owing, Fresh, LinksKnown, Idle
<1>2. Inv /\ LinksKnown /\ Promised => NoticesDelivered
  <2>1. ASSUME Inv, LinksKnown, Promised, NEW o \in owed,
               ~ \E j \in Jobs :
                   job[j].pc \in {"tell", "fan"} /\ job[j].article = o[2] /\ Cause(j) = o[3]
        PROVE  Recorded(o) /\ Finds(o)
    <3>1. /\ o[1] \in Readers /\ o[2] \in Articles /\ Due(o)
          /\ mark[o[1]][o[2]] = Unread
      BY <2>1 DEF Inv, TypeOK, HistoryType, Promised, Owing, OnItsWay, Carries
    <3>2. QED
      BY <2>1, <3>1, RowFacts, DueIsFound DEF Recorded, Inv
  <2>2. QED
    BY <2>1 DEF NoticesDelivered
<1>3. QED
  BY <1>1, <1>2, InvHolds, FreshStep, LinksStep, PromisedStep, PTL DEF Spec

=============================================================================
