-------------------------------- MODULE Tui --------------------------------
(* The terminal browser, cli/internal/tui: a loop that takes one key or one     *)
(* answer at a time.  Every command of a key runs on its own, so calls to the   *)
(* API are served and answered in any order, and no answer says which key asked *)
(* for it.  A list of entries and the preview of a feed keep copies of the same *)
(* marks.  Stars are marks under another name and are left out, as is how lists *)
(* scroll.                                                                      *)
EXTENDS Integers, Sequences, FiniteSets, SequencesExt

CONSTANTS
  Feeds, Entries,
  FeedOf,      \* the feed of each entry
  Nested,      \* the feeds that live in the user's one folder at first, if there is one
  Previewed,   \* the feed whose address is typed
  Folder, Tab, \* the folder, and the one fixed item of the sidebar modelled
  MaxQuery,    \* bound on the length of a search
  MaxCalls,    \* bound on the calls under way
  MaxEvents    \* bound on the keys, failures and changes made elsewhere together

None == "none"

ASSUME TuiAssumption ==
  /\ IsFiniteSet(Feeds) /\ IsFiniteSet(Entries)
  /\ Tab # Folder /\ {Tab, Folder} \cap Feeds = {}
  /\ (Feeds \cup {Tab, Folder}) \cap {None, "search", "preview"} = {}
  /\ Nested \subseteq Feeds /\ Previewed \in Feeds /\ FeedOf \in [Entries -> Feeds]
  /\ MaxQuery \in Nat \ {0}
  /\ MaxCalls \in Nat \ {0, 1}   \* TuiInit has two calls under way
  /\ MaxEvents \in Nat

VARIABLES
  subscribed, filed, folder, \* the API: the user's feeds, those in the folder, and if
                             \*   the folder is there yet, or no longer
  status,                    \* the API: each entry's mark
  feeds, folders, rebuilt,   \* the sidebar: what has been loaded
  cursor,                    \* sidebarCursor
  focus, mode, query,        \* the panel, the input mode, the search's length
  loading, err, entries, at, \* the main panel; "at" is entriesCursor
  preview,                   \* feedGet: if there is one, its rows, and (history)
                             \*   those that show the API's latest mark
  cache, subsLoading, subsFor, subsLast,  \* subscriber counts
  calls,                     \* the calls under way, in the order they were made
  due, settled, unlisted,    \* history: the panel last asked for, if answered, and
                             \*   if a load since left the selection unasked for
  shown,                     \* history: what "entries" answers
  fresh,                     \* history: entries whose latest mark the panel got
  altered,                   \* history: feeds or the folder were changed elsewhere
  events                     \* bound: keys, failures and changes so far

server == <<subscribed, filed, folder, status, altered>>
sidebar == <<feeds, folders, rebuilt>>
input == <<focus, mode, query>>
panel == <<entries, at, preview, shown, fresh>>
subs == <<subsLoading, subsFor, subsLast>>
asked == <<due, settled, unlisted>>
tuiVars == <<server, sidebar, cursor, input, loading, err, panel, cache, subs,
             calls, asked, events>>

Marks == {"read", "unread"}
Call(kind, of) == [kind |-> kind, of |-> of, mark |-> None, phase |-> "sent",
                   rows |-> {}, old |-> {}]
Main == {"list", "search", "get"}

\* The commands, each a call under way.
LoadFeeds == Call("feeds", None)
LoadFolders == Call("folders", None)
LoadEntries(item) == Call("list", item)
SearchEntries == Call("search", "search")
FetchFeedSubs(f) == Call("subs", f)
GetFeed == Call("get", "preview")
SetEntryStatusByUrl(e, mark) == [Call("url", e) EXCEPT !.mark = mark]
SetEntryStatus(e, mark) == [Call("mark", e) EXCEPT !.mark = mark]
RefreshFeed(f) == Call("refresh", f)
MarkFeedRead(f) == Call("all", f)

InOrder == [S \in SUBSET Feeds |-> SetToSeq(S)]
Rows(rows) == SetToSeq({[entry |-> r[1], mark |-> r[2]] : r \in rows})
NoPreview == [open |-> FALSE, rows |-> <<>>, fresh |-> {}]

\* What ListFeeds and ListFolders answer: the feeds with the folder each is in.
FeedRows == {<<f, IF f \in filed THEN Folder ELSE None>> : f \in subscribed}
FolderRows == IF folder = "there" THEN {Folder} ELSE {}

\* rebuildSidebar: a feed has no place while its folder is not among those loaded.
In(place) == {f \in Feeds : <<f, place>> \in feeds}
Items ==
  IF ~rebuilt THEN <<>>
  ELSE <<Tab>> \o InOrder[In(None)]
       \o (IF folders THEN <<Folder>> \o InOrder[In(Folder)] ELSE <<>>)

TuiInit ==
  /\ subscribed = Feeds /\ folder \in {"later", "there"}
  /\ filed = (IF folder = "there" THEN Nested ELSE {})
  /\ status = [e \in Entries |-> "unread"]
  /\ feeds = {} /\ folders = FALSE /\ rebuilt = FALSE /\ cursor = 0
  /\ focus = "entries" /\ mode = "keys" /\ query = 0
  /\ loading = FALSE /\ err = FALSE
  /\ entries = <<>> /\ at = 0 /\ preview = NoPreview /\ shown = None
  /\ cache = {} /\ subsLoading = None /\ subsFor = None /\ subsLast = None
  /\ calls = <<LoadFeeds, LoadFolders>>
  /\ due = None /\ settled = TRUE /\ unlisted = FALSE
  /\ fresh = {} /\ altered = FALSE
  /\ events = 0

-----------------------------------------------------------------------------
(* Commands.                                                                   *)

Send(pending, more) ==
  /\ Len(pending) + Len(more) <= MaxCalls
  /\ calls' = pending \o more

\* The panel is asked for something: what comes last must end up on the screen.
AskFor(pending, more, what) ==
  /\ Send(pending, more)
  /\ loading' = TRUE /\ due' = what /\ settled' = FALSE /\ unlisted' = FALSE

\* loadSelection: the entries of an item, and a feed's counts unless cached.
LoadSelection(pending, item) ==
  LET fetch == item \in Feeds /\ item \notin cache IN
  /\ AskFor(pending,
         <<LoadEntries(item)>>
           \o (IF fetch THEN <<FetchFeedSubs(item)>> ELSE <<>>), item)
  /\ subsFor' = (IF item \in Feeds THEN item ELSE None)
  /\ subsLast' = (IF item \in Feeds /\ ~fetch THEN item ELSE None)
  /\ subsLoading' = (IF fetch THEN item ELSE subsLoading)

Emptied == entries' = <<>> /\ shown' = None /\ UNCHANGED fresh

\* An index past the end of m.items: the program dies.
Panic ==
  /\ mode' = "panic"
  /\ UNCHANGED <<server, sidebar, cursor, focus, query, loading, err, panel,
                 cache, subs, calls, asked>>

InRange(c) == c < Len(Items)
Selected == IF InRange(cursor) THEN Items[cursor + 1] ELSE None

-----------------------------------------------------------------------------
(* Keys.                                                                       *)

KeysOnly == mode = "keys"
Apart == <<server, sidebar, err, cache>>   \* what no key changes

SearchKey ==
  /\ KeysOnly
  /\ mode' = "search" /\ query' = 0 /\ focus' = "entries"
  /\ UNCHANGED <<Apart, cursor, loading, panel, subs, calls, asked>>

URLKey ==
  /\ KeysOnly
  /\ mode' = "url" /\ focus' = "entries"
  /\ UNCHANGED <<Apart, query, cursor, loading, panel, subs, calls, asked>>

ReloadKey ==
  /\ KeysOnly
  /\ Send(calls, <<LoadFeeds, LoadFolders>>)
  /\ loading' = TRUE
  /\ UNCHANGED <<Apart, cursor, input, panel, subs, asked>>

\* handleURLKey: esc or an empty address closes the input, an address is fetched.
LeaveURL ==
  /\ mode = "url" /\ mode' = "keys"
  /\ UNCHANGED <<Apart, focus, query, cursor, loading, panel, subs, calls, asked>>

EnterURL ==
  /\ mode = "url" /\ mode' = "keys"
  /\ preview' = NoPreview
  /\ AskFor(calls, <<GetFeed>>, "preview")
  /\ UNCHANGED <<Apart, focus, query, cursor, entries, at, shown, fresh, subs>>

\* A character, or backspace: every search but the empty one is run as typed.
EditSearch(n) ==
  /\ mode = "search" /\ n \in {query - 1, query + 1} \cap 0 .. MaxQuery
  /\ query' = n
  /\ IF n = 0
     THEN UNCHANGED <<calls, loading, asked, panel>>
     ELSE /\ AskFor(calls, <<SearchEntries>>, "search")
          /\ Emptied /\ at' = 0 /\ UNCHANGED preview
  /\ UNCHANGED <<Apart, focus, mode, cursor, subs>>

EscSearch ==
  /\ mode = "search"
  /\ IF Items # <<>> /\ ~InRange(cursor) THEN Panic
     ELSE /\ mode' = "keys" /\ query' = 0
          /\ IF Items = <<>>
             THEN /\ due' = None
                  /\ UNCHANGED <<panel, loading, calls, settled, unlisted, subs>>
             ELSE /\ Emptied /\ preview' = NoPreview /\ UNCHANGED at
                  /\ LoadSelection(calls, Items[cursor + 1])
          /\ UNCHANGED <<Apart, focus, cursor>>

\* A search is confirmed as it stands; an empty one restores the selection, and
\* before there is any it only says it is loading.
EnterSearch ==
  /\ mode = "search"
  /\ IF query = 0 /\ Items # <<>> /\ ~InRange(cursor) THEN Panic
     ELSE /\ mode' = "keys" /\ focus' = "entries"
          /\ at' = 0 /\ preview' = NoPreview
          /\ IF query > 0
             THEN UNCHANGED <<entries, shown, fresh, loading, calls, asked, subs>>
             ELSE /\ Emptied
                  /\ IF Items = <<>>
                     THEN /\ loading' = TRUE /\ due' = None /\ unlisted' = TRUE
                          /\ UNCHANGED <<settled, calls, subs>>
                     ELSE LoadSelection(calls, Items[cursor + 1])
          /\ UNCHANGED <<Apart, query, cursor>>

\* handleSidebarKey: the panel follows the cursor.
MoveTo(c) ==
  /\ KeysOnly /\ focus = "sidebar"
  /\ \/ c = cursor - 1 /\ cursor > 0
     \/ c = cursor + 1 /\ c < Len(Items)
     \/ c \in {0, Len(Items) - 1} /\ c >= 0 /\ c # cursor
  /\ IF ~InRange(c) THEN Panic
     ELSE /\ cursor' = c /\ query' = 0
          /\ Emptied /\ preview' = NoPreview /\ UNCHANGED at
          /\ LoadSelection(calls, Items[c + 1])
          /\ UNCHANGED <<Apart, focus, mode>>

OpenItem ==
  /\ KeysOnly /\ focus = "sidebar" /\ Items # <<>>
  /\ IF ~InRange(cursor) THEN Panic
     ELSE /\ focus' = "entries" /\ query' = 0
          /\ Emptied /\ preview' = NoPreview /\ UNCHANGED at
          /\ LoadSelection(calls, Items[cursor + 1])
          /\ UNCHANGED <<Apart, mode, cursor>>

OnEntries == KeysOnly /\ focus = "entries" /\ ~preview.open

\* handleEntriesKey.  Half a page down an empty list is entry -1.
MoveEntry ==
  /\ OnEntries
  /\ \/ at > 0 /\ at' \in {at - 1, 0}
     \/ at < Len(entries) - 1 /\ at' \in {at + 1, Len(entries) - 1}
     \/ entries = <<>> /\ at' \in {-1, 0}
  /\ UNCHANGED <<Apart, cursor, input, loading, entries, preview, shown, fresh,
                 subs, calls, asked>>

\* "u" and "enter" look at the copy on the screen.  The call is recorded whatever
\* the index: an entry that is not there would be a panic.
MarkEntry(mark) ==
  /\ OnEntries /\ entries # <<>>
  /\ IF at + 1 \notin DOMAIN entries THEN Panic
     ELSE /\ entries[at + 1].mark # mark
          /\ Send(calls, <<SetEntryStatus(entries[at + 1].entry, mark)>>)
          /\ UNCHANGED <<Apart, cursor, input, loading, panel, subs, asked>>

FeedKey ==
  /\ OnEntries /\ InRange(cursor) /\ Items[cursor + 1] \in Feeds
  /\ LET f == Items[cursor + 1]
     IN Send(calls, <<RefreshFeed(f)>>) \/ Send(calls, <<MarkFeedRead(f)>>)
  /\ UNCHANGED <<Apart, cursor, input, loading, panel, subs, asked>>

ToSidebar ==
  /\ OnEntries /\ focus' = "sidebar"
  /\ UNCHANGED <<Apart, mode, query, cursor, loading, panel, subs, calls, asked>>

OnPreview == KeysOnly /\ focus = "entries" /\ preview.open

\* handleFeedGetKey: "u" and "enter" on any item, and leaving, which restores the
\* selection.
MarkPreviewed(mark) ==
  /\ OnPreview
  /\ \E k \in DOMAIN preview.rows :
       /\ preview.rows[k].mark # mark
       /\ Send(calls, <<SetEntryStatusByUrl(preview.rows[k].entry, mark)>>)
  /\ UNCHANGED <<Apart, cursor, input, loading, panel, subs, asked>>

LeavePreview ==
  /\ OnPreview
  /\ IF Items # <<>> /\ ~InRange(cursor) THEN Panic
     ELSE /\ preview' = NoPreview /\ focus' = "sidebar"
          /\ IF Items = <<>>
             THEN /\ due' = None
                  /\ UNCHANGED <<settled, unlisted, loading, calls, subs, entries, shown, fresh>>
             ELSE Emptied /\ LoadSelection(calls, Items[cursor + 1])
          /\ UNCHANGED <<Apart, mode, query, cursor, at>>

-----------------------------------------------------------------------------
(* The API serves a call, at any time before its answer is taken.              *)

Listed(what) ==
  {e \in Entries : /\ FeedOf[e] \in subscribed
                   /\ what = Tab => status[e] = "unread"
                   /\ what \in Feeds => FeedOf[e] = what
                   /\ what = Folder => FeedOf[e] \in filed}
Marked(c) ==
  CASE c.kind \in {"mark", "url"} -> {c.of}
    [] c.kind = "all" -> {e \in Entries : FeedOf[e] = c.of}
    [] OTHER -> {}
Read(c) == IF c.kind \in {"mark", "url"} THEN c.mark ELSE "read"

\* History: a later change of an entry outdates the answers already on their way.
Carried(c) == Marked(c) \cup {e \in Entries : \E m \in Marks : <<e, m>> \in c.rows}
Outdated(changed) ==
  [i \in DOMAIN calls |->
     IF calls[i].phase = "served"
     THEN [calls[i] EXCEPT !.old = @ \cup (changed \cap Carried(calls[i]))]
     ELSE calls[i]]

\* For these it is all one when: they are served as they are answered.
Timeless == {"subs", "refresh"}
Answered(i) == calls[i].phase # "sent" \/ calls[i].kind \in Timeless
Good(i) ==
  calls[i].phase = (IF calls[i].kind \in Timeless THEN "sent" ELSE "served")

\* The answer to a mark reaches the copy it was made from and no other.
Serve(i) ==
  LET c == calls[i]
      changed == {e \in Marked(c) : status[e] # Read(c)} IN
  /\ c.phase = "sent" /\ c.kind \notin Timeless
  /\ status' = [e \in Entries |-> IF e \in changed THEN Read(c) ELSE status[e]]
  /\ calls' = [Outdated(changed) EXCEPT
                 ![i].phase = "served",
                 ![i].rows = CASE c.kind \in {"list", "search"} ->
                                    {<<e, status[e]>> : e \in Listed(c.of)}
                               [] c.kind = "get" ->
                                    {<<e, status[e]>> : e \in {e \in Entries : FeedOf[e] = Previewed}}
                               [] c.kind = "feeds" -> FeedRows
                               [] c.kind = "folders" -> FolderRows
                               [] OTHER -> {}]
  /\ fresh' = (IF c.kind = "url" THEN fresh \ changed ELSE fresh)
  /\ preview' = (IF c.kind = "url" THEN preview ELSE [preview EXCEPT !.fresh = @ \ changed])
  /\ UNCHANGED <<subscribed, filed, folder, altered, sidebar, cursor, input, loading, err, entries, at,
                 shown, cache, subs, asked>>

\* The connection fails, or the API answers with an error status, which only a
\* mark tells apart.  A call that was served may fail too: that matters for marks.
CallFails(i) ==
  /\ calls[i].phase = "sent" \/ (Good(i) /\ Marked(calls[i]) # {})
  /\ calls' = [calls EXCEPT ![i].phase = "failed"]
  /\ fresh' = (IF Good(i) THEN fresh \ Marked(calls[i]) ELSE fresh)
  /\ preview' = (IF Good(i) THEN [preview EXCEPT !.fresh = @ \ Marked(calls[i])] ELSE preview)
  /\ UNCHANGED <<server, sidebar, cursor, input, loading, err, entries, at,
                 shown, cache, subs, asked>>

CallRefused(i) ==
  /\ calls[i].phase = "sent" /\ calls[i].kind \in {"mark", "url"}
  /\ calls' = [calls EXCEPT ![i].phase = "refused"]
  /\ UNCHANGED <<server, sidebar, cursor, input, loading, err, panel, cache, subs, asked>>

\* The user's other programs change the feeds and the folder.  A folder that was
\* deleted does not come back.
Elsewhere ==
  /\ altered' = TRUE
  /\ UNCHANGED <<status, sidebar, cursor, input, loading, err, panel, cache, subs, calls, asked>>

Subscribe(f) ==
  /\ f \notin subscribed /\ subscribed' = subscribed \cup {f}
  /\ UNCHANGED <<filed, folder>> /\ Elsewhere

Unsubscribe(f) ==
  /\ f \in subscribed /\ subscribed' = subscribed \ {f} /\ filed' = filed \ {f}
  /\ UNCHANGED folder /\ Elsewhere

\* update-feed, into the folder or out of it.
Refile(f) ==
  /\ f \in subscribed
  /\ \/ f \in filed /\ filed' = filed \ {f}
     \/ f \notin filed /\ folder = "there" /\ filed' = filed \cup {f}
  /\ UNCHANGED <<subscribed, folder>> /\ Elsewhere

CreateFolder ==
  /\ folder = "later" /\ folder' = "there"
  /\ UNCHANGED <<subscribed, filed>> /\ Elsewhere

\* ON DELETE SET NULL: its feeds stay, outside any folder.
DeleteFolder ==
  /\ folder = "there" /\ folder' = "gone" /\ filed' = {}
  /\ UNCHANGED subscribed /\ Elsewhere

-----------------------------------------------------------------------------
(* Update: an answer is taken.                                                 *)

Pending(i) == RemoveAt(calls, i)

\* History: the last of the panel's calls settles it; an earlier one that is
\* answered after it overtakes it, and a failed one shows nothing.
Settle(i) ==
  LET last == ~settled /\ \A j \in i + 1 .. Len(calls) : calls[j].kind \notin Main IN
  /\ settled' = (settled \/ last)
  /\ due' = (IF settled \/ (last /\ ~Good(i)) THEN None ELSE due)
  /\ UNCHANGED unlisted

ShowError == err' = TRUE

\* Mutation: a reload does not load the selection.
TakeFeedsOnly(i) ==
  /\ calls[i].kind = "feeds" /\ Answered(i)
  /\ IF Good(i)
     THEN /\ feeds' = calls[i].rows /\ rebuilt' = TRUE /\ err' = FALSE
          /\ UNCHANGED folders
          /\ calls' = Pending(i) /\ UNCHANGED <<loading, subs, asked>>
     ELSE /\ ShowError /\ calls' = Pending(i) /\ unlisted' = TRUE
          /\ UNCHANGED <<sidebar, loading, subs, due, settled>>
  /\ UNCHANGED <<server, cursor, input, panel, cache>>

TakeFeeds(i) ==
  /\ calls[i].kind = "feeds" /\ Answered(i)
  /\ IF Good(i)
     THEN /\ feeds' = calls[i].rows /\ rebuilt' = TRUE /\ err' = FALSE
          /\ UNCHANGED folders
          /\ LET items == Items' IN
             IF cursor < Len(items) THEN LoadSelection(Pending(i), items[cursor + 1])
             ELSE /\ calls' = Pending(i) /\ unlisted' = TRUE
                  /\ UNCHANGED <<loading, subs, due, settled>>
     ELSE /\ ShowError /\ calls' = Pending(i) /\ unlisted' = TRUE
          /\ UNCHANGED <<sidebar, loading, subs, due, settled>>
  /\ UNCHANGED <<server, cursor, input, panel, cache>>

\* The sidebar may shift under the cursor; nothing is loaded for what it shows now.
TakeFolders(i) ==
  /\ calls[i].kind = "folders" /\ Answered(i)
  /\ UNCHANGED <<server, cursor, input, loading, panel, cache, subs, due, settled>>
  /\ IF Good(i)
     THEN /\ folders' = (Folder \in calls[i].rows) /\ rebuilt' = TRUE /\ err' = FALSE
          /\ UNCHANGED feeds
          /\ unlisted' = (unlisted \/ Selected' # Selected)
     ELSE ShowError /\ UNCHANGED <<sidebar, unlisted>>
  /\ calls' = Pending(i)

\* Mutations: the cursor stays where it was; a preview stays open.
TakeEntriesInPlace(i) ==
  LET c == calls[i] IN
  /\ c.kind \in {"list", "search"} /\ Answered(i)
  /\ loading' = FALSE
  /\ IF Good(i)
     THEN /\ entries' = Rows(c.rows)
          /\ UNCHANGED at /\ preview' = NoPreview /\ err' = FALSE /\ shown' = c.of
          /\ fresh' = Entries \ c.old
     ELSE ShowError /\ UNCHANGED panel
  /\ calls' = Pending(i) /\ Settle(i)
  /\ UNCHANGED <<server, sidebar, cursor, input, cache, subs>>

TakeEntriesBehind(i) ==
  LET c == calls[i] IN
  /\ c.kind \in {"list", "search"} /\ Answered(i)
  /\ loading' = FALSE
  /\ IF Good(i)
     THEN /\ entries' = Rows(c.rows)
          /\ at' = 0 /\ UNCHANGED preview /\ err' = FALSE /\ shown' = c.of
          /\ fresh' = Entries \ c.old
     ELSE ShowError /\ UNCHANGED panel
  /\ calls' = Pending(i) /\ Settle(i)
  /\ UNCHANGED <<server, sidebar, cursor, input, cache, subs>>

\* Whatever was asked for it: the rows replace those on the screen.
TakeEntries(i) ==
  LET c == calls[i] IN
  /\ c.kind \in {"list", "search"} /\ Answered(i)
  /\ loading' = FALSE
  /\ IF Good(i)
     THEN /\ entries' = Rows(c.rows)
          /\ at' = 0 /\ preview' = NoPreview /\ err' = FALSE /\ shown' = c.of
          /\ fresh' = Entries \ c.old
     ELSE ShowError /\ UNCHANGED panel
  /\ calls' = Pending(i) /\ Settle(i)
  /\ UNCHANGED <<server, sidebar, cursor, input, cache, subs>>

TakePreview(i) ==
  /\ calls[i].kind = "get" /\ Answered(i)
  /\ loading' = FALSE /\ mode' = (IF mode = "url" THEN "keys" ELSE mode)
  /\ preview' = (IF Good(i)
                 THEN [open |-> TRUE, rows |-> Rows(calls[i].rows), fresh |-> Entries \ calls[i].old]
                 ELSE NoPreview)
  /\ err' = ~Good(i)
  /\ focus' = (IF Good(i) THEN "entries" ELSE focus)
  /\ calls' = Pending(i) /\ Settle(i)
  /\ UNCHANGED <<server, sidebar, cursor, query, entries, at, shown, fresh, cache,
                 subs>>

TakeSubs(i) ==
  LET f == calls[i].of IN
  /\ calls[i].kind = "subs" /\ Answered(i)
  /\ subsLoading' = (IF subsLoading = f THEN None ELSE subsLoading)
  /\ IF Good(i) THEN /\ cache' = cache \cup {f}
                     /\ subsLast' = (IF subsFor = f THEN f ELSE subsLast)
     ELSE UNCHANGED <<cache, subsLast>>
  /\ calls' = Pending(i)
  /\ UNCHANGED <<server, sidebar, cursor, input, loading, err, panel, subsFor, asked>>

\* markReadMsg: the status of the reply is never looked at, so a refused mark is
\* shown as well.  Rows are found by id, whatever the list.
Shown(rows, es, mark) ==
  [k \in DOMAIN rows |-> IF rows[k].entry \in es THEN [rows[k] EXCEPT !.mark = mark] ELSE rows[k]]

TakeMark(i) ==
  LET c == calls[i] IN
  /\ c.kind = "mark" /\ Answered(i)
  /\ IF c.phase = "failed" THEN UNCHANGED <<entries, fresh>>
     ELSE /\ entries' = Shown(entries, {c.of}, c.mark)
          /\ fresh' = (IF Good(i) /\ c.old = {} THEN fresh \cup {c.of} ELSE fresh \ {c.of})
  /\ calls' = Pending(i)
  /\ UNCHANGED <<server, sidebar, cursor, input, loading, err, at, preview, shown, cache,
                 subs, asked>>

\* byUrlStatusMsg: so it is here, but the error goes with any answer.
TakeMarkByURL(i) ==
  LET c == calls[i] IN
  /\ c.kind = "url" /\ Answered(i)
  /\ err' = (c.phase = "failed")
  /\ preview' =
       IF c.phase = "failed" \/ ~preview.open THEN preview
       ELSE [preview EXCEPT !.rows = Shown(@, {c.of}, c.mark),
                            !.fresh = IF Good(i) /\ c.old = {} THEN @ \cup {c.of} ELSE @ \ {c.of}]
  /\ calls' = Pending(i)
  /\ UNCHANGED <<server, sidebar, cursor, input, loading, entries, at, shown, fresh, cache,
                 subs, asked>>

\* Mutation: every row is shown as read.
TakeMarkedAll(i) ==
  LET c == calls[i] IN
  /\ c.kind = "all" /\ Answered(i)
  /\ IF Good(i)
     THEN /\ entries' = Shown(entries, Entries, "read")
          /\ fresh' = (fresh \cup Marked(c)) \ c.old
          /\ UNCHANGED err
     ELSE ShowError /\ UNCHANGED <<entries, fresh>>
  /\ calls' = Pending(i)
  /\ UNCHANGED <<server, sidebar, cursor, input, loading, at, preview, shown, cache,
                 subs, asked>>

TakeMarkedFeed(i) ==
  LET c == calls[i] IN
  /\ c.kind = "all" /\ Answered(i)
  /\ IF Good(i)
     THEN /\ entries' = Shown(entries, Marked(c), "read")
          /\ fresh' = (fresh \cup Marked(c)) \ c.old
          /\ UNCHANGED err
     ELSE ShowError /\ UNCHANGED <<entries, fresh>>
  /\ calls' = Pending(i)
  /\ UNCHANGED <<server, sidebar, cursor, input, loading, at, preview, shown, cache,
                 subs, asked>>

\* feedRefreshedMsg: only 204 counts and the API answers 200, so a refresh that
\* worked is an error on the screen and the reload never runs.
TakeRefreshed(i) ==
  /\ calls[i].kind = "refresh" /\ Answered(i)
  /\ ShowError /\ calls' = Pending(i)
  /\ UNCHANGED <<server, sidebar, cursor, input, loading, panel, cache, subs, asked>>

-----------------------------------------------------------------------------

Key ==
  \/ SearchKey \/ URLKey \/ ReloadKey \/ LeaveURL \/ EnterURL
  \/ \E n \in 0 .. MaxQuery : EditSearch(n)
  \/ EscSearch \/ EnterSearch
  \/ \E c \in 0 .. Cardinality(Feeds) + 1 : MoveTo(c)
  \/ OpenItem \/ MoveEntry \/ ToSidebar \/ LeavePreview
  \/ \E m \in Marks : MarkEntry(m) \/ MarkPreviewed(m)
  \/ FeedKey

Mishap ==
  \/ \E i \in DOMAIN calls : CallFails(i) \/ CallRefused(i)
  \/ \E f \in Feeds : Subscribe(f) \/ Unsubscribe(f) \/ Refile(f)
  \/ CreateFolder \/ DeleteFolder

Answer ==
  \E i \in DOMAIN calls :
    \/ Serve(i) \/ TakeFeeds(i) \/ TakeFolders(i) \/ TakeEntries(i) \/ TakePreview(i)
    \/ TakeSubs(i) \/ TakeMark(i) \/ TakeMarkByURL(i)
    \/ TakeMarkedFeed(i) \/ TakeRefreshed(i)

TuiNext ==
  /\ mode # "panic"
  /\ \/ events < MaxEvents /\ events' = events + 1 /\ (Key \/ Mishap)
     \/ UNCHANGED events /\ Answer
TuiSpec == TuiInit /\ [][TuiNext]_tuiVars

-----------------------------------------------------------------------------
(* View: what the screen shows.                                                *)

Searched == mode = "search" \/ query > 0

\* renderSidebarLines: the inputs, the items that are not hidden by them, and the one
\* that is lit.
RenderSidebarLines ==
  [box |-> IF mode = "search" THEN "typing" ELSE IF query > 0 THEN "searched" ELSE None,
   url |-> mode = "url",
   loading |-> loading /\ ~Searched /\ mode # "url" /\ Items = <<>>,
   items |-> {item \in Range(Items) : item = Tab => ~Searched /\ mode # "url"},
   lit |-> Selected, focused |-> focus = "sidebar"]

\* renderEntryList: the counts are those of the selected feed, under any title.
RenderEntryList ==
  [kind |-> "list",
   title |-> IF Searched THEN "search" ELSE Selected,
   counts |-> IF Selected \in Feeds /\ subsFor = Selected THEN subsLast ELSE None,
   counting |-> Selected \in Feeds /\ subsLast = None /\ subsLoading = Selected,
   rows |-> entries, lit |-> IF entries = <<>> THEN 0 ELSE at + 1]

RenderFeedGet == [kind |-> "preview", rows |-> preview.rows]

Hint == [kind |-> "hint"]
Loading == [kind |-> "loading"]

\* renderMainLines
RenderMainLines ==
  IF mode = "url" THEN Hint
  ELSE IF loading /\ ~preview.open THEN Loading
  ELSE IF preview.open THEN RenderFeedGet
  ELSE RenderEntryList

\* View: an error takes the whole screen.
View == IF err THEN [error |-> TRUE]
        ELSE [error |-> FALSE, sidebar |-> RenderSidebarLines, main |-> RenderMainLines]

-----------------------------------------------------------------------------

UnderWay(kinds) == \E i \in DOMAIN calls : calls[i].kind \in kinds

Row == [entry : Entries, mark : Marks]
CallType ==
  [kind : {"feeds", "folders", "list", "search", "subs", "get", "mark", "url", "refresh", "all"},
   of : Feeds \cup Entries \cup {Tab, Folder, None, "search", "preview"},
   mark : Marks \cup {None}, phase : {"sent", "served", "failed", "refused"},
   rows : (SUBSET (Entries \X Marks)) \cup (SUBSET (Feeds \X {None, Folder})) \cup SUBSET {Folder}, old : SUBSET Entries]

\* Type correctness of the model's state (Model, model.go:55).
TuiTypes ==
  /\ subscribed \subseteq Feeds /\ status \in [Entries -> Marks] /\ altered \in BOOLEAN
  /\ filed \subseteq Feeds /\ folder \in {"later", "there", "gone"}
  /\ feeds \subseteq Feeds \X {None, Folder} /\ folders \in BOOLEAN /\ rebuilt \in BOOLEAN
  /\ cursor \in 0 .. Cardinality(Feeds) + 1
  /\ focus \in {"sidebar", "entries"} /\ mode \in {"keys", "search", "url", "panic"}
  /\ query \in 0 .. MaxQuery
  /\ {loading, err, settled, unlisted} \subseteq BOOLEAN
  /\ entries \in Seq(Row) /\ at \in Nat \cup {-1} /\ fresh \subseteq Entries
  /\ preview \in [open : BOOLEAN, rows : Seq(Row), fresh : SUBSET Entries]
  /\ cache \subseteq Feeds /\ {subsLoading, subsFor, subsLast} \subseteq Feeds \cup {None}
  /\ {due, shown} \subseteq Feeds \cup {Tab, Folder, None, "search", "preview"}
  /\ calls \in Seq(CallType) /\ Len(calls) <= MaxCalls
  /\ events \in 0 .. MaxEvents

\* A key never reads past a list, however answers shrink or replace it under the
\* cursor, unless another program of the user changed the feeds or the folder: only
\* then, and only for the sidebar, may an unguarded index fail (m.items at
\* m.sidebarCursor, update.go:265, 280, 338, 346 and 499).  The entries never do.
PanicsOnlyAfterChange ==
  mode = "panic" => altered /\ ~InRange(cursor)

\* "Loading..." ends: while it is on the screen something is on its way that will
\* end it.  Three times nothing is: a reload whose feeds failed and whose folders
\* then cleared the error, one that finds the selection gone (update.go:21-44), and
\* an empty search confirmed before any sidebar.
LoadingEnds ==
  ~UnderWay(Main \cup {"feeds"}) /\ ~unlisted /\ mode # "panic" =>
    LET view == View IN
    ~view.error => view.main # Loading /\ ~view.sidebar.loading

\* Once the calls are answered the screen shows what was asked for last, unless that
\* failed or an answer to an earlier call came after it: answers carry no tag, so
\* each handler must leave the panel to the next (loadEntriesMsg, update.go:46;
\* feedGetMsg, update.go:121).  The title over a list and the item lit in the sidebar
\* are those of the list, unless a search is still typed, or folders that were changed
\* elsewhere moved the lines under the cursor (loadFoldersMsg, update.go:36).  Counts are at all times
\* those of the selected feed, though those of feeds passed by arrive late
\* (feedSubsMsg, update.go:79).
LatestAnswerShown ==
  mode # "panic" =>
    /\ ~UnderWay(Main) /\ due # None =>
         LET view == View
             main == view.main
         IN ~view.error /\ main \notin {Hint, Loading} =>
              IF due = "preview" THEN main.kind = "preview"
              ELSE /\ main.kind = "list" /\ shown = due
                   /\ due = "search" => main.title = due
                   /\ due # "search" /\ ~Searched /\ ~unlisted =>
                        main.title = due /\ view.sidebar.lit = due /\ due \in view.sidebar.items
    /\ subsLast # None /\ RenderEntryList.counts # None =>
         RenderEntryList.counts = Selected /\ Selected \in cache

\* Once the calls are answered, a row whose entry's latest change its panel heard of
\* shows the API's mark, however lists, previews, marks by id and by address and
\* mark-all overlap (markReadMsg, update.go:59; feedMarkedReadMsg, update.go:108;
\* byUrlStatusMsg, update.go:136).
MarksAreTheAPIs ==
  ~UnderWay({"list", "search", "get", "mark", "url", "all"}) =>
    \A copy \in {[rows |-> entries, fresh |-> fresh], [rows |-> preview.rows, fresh |-> preview.fresh]} :
      \A k \in DOMAIN copy.rows :
        copy.rows[k].entry \in copy.fresh => copy.rows[k].mark = status[copy.rows[k].entry]
=============================================================================
