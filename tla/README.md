# Sunred in TLA+

Sunred is a self-hosted feed reader whose social part (follows, shares, stars, feed
subscriptions, profiles) lives in records of the users' AT Protocol repositories,
each on its user's PDS. A *relay* reads the repositories of the users it was told
about and sends what changed to the *instances* (API servers), which keep a cache. A
command line, a terminal browser and a web page talk to an instance. This directory
models the parts of that system where order, concurrency and failure decide whether
the result is right, checks them with TLC on small instances, and proves what is safe in
them with TLAPS for all instances.

Paths are relative to `src/go` unless they start with `src/`.

## 1. Inventory

| Component | Source | State | Operations | Talks to | Model |
|---|---|---|---|---|---|
| Event log and `emit` | `relay/internal/fanout/fanout.go`, `relay/internal/store/store.go` | `relay_events` (seq is a BIGSERIAL), `Fanout.subscribers` | `AppendEvent`, broadcast, `PurgeOldEvents` | called by workers, backfills, refreshes | `RelayEvents` |
| `subscribeEvents` | `relay/internal/server/server.go` | per connection: cursor, channel (256) | register, replay in batches of 200, live loop, ping, teardown | WebSocket to an instance | `RelayEvents` |
| Relay consumer | `api/internal/api/relay_consumer.go`, `api/internal/store/atproto.go` | `atproto_relay_cursor` | dial, process, store cursor, reconnect after 5 s | relay, event handlers | `RelayEvents` |
| Account tracking | `fanout.go`, `server.go`, `store.go` of the relay | `tracked_dids` (status, cursor), `Fanout.workers` | `announceUser`, `EnsureSubscribed`, `runWorker`, `Start` | PDS commit stream, `emit` | `RelayTracking` |
| Backfill, observed records | `relay/internal/fanout/backfill.go`, `store.go` | position in the listing; four `observed_` tables | `listRecords` pages, insert, `backfillComplete`, cut over; counts | PDS, `emit` | `RelayTracking` |
| Handles and accounts | relay `server.go`, `api/internal/api/social.go`, `oauth_handlers.go`, `store/social.go` | `tracked_dids.handle`, `users.handle`, `user_follows` | sign-in, handle change, announce, search, follow and unfollow by handle | relay, PDS | `Identity` |
| Profiles | `fanout.go`, `api.go`, `atproto.go`, `sync.go` | profile columns of `tracked_dids` and `users` | edit, avatar, refresh, pull, clear | PDS, relay | `Profile` |
| Event handlers | `relay_consumer.go` | follows, shares, stars, subscriptions, profiles of an instance | one handler per event type | consumer | `RecordSync`, `Reading`, `FeedRefresh`, `Identity`, `Profile`, `Login` |
| Record write-through, direct sync | `api/internal/api/atproto.go`, `social.go`, `sync.go` | a local row whose rkey is stored later | create, delete, background put and delete, pull without a relay | PDS | `RecordSync` |
| OAuth login, sync status | `oauth_handlers.go`, `oauthstore.go`, `store/sessions.go` | requests, sessions, cookies, `users.pds_sync_status` | login, callback, sign-out, `syncing`/`idle`/`failed`, three minute timer | PDS, relay | `Login` |
| Device-flow login, API tokens | `api/internal/api/device.go`, `cli/internal/client`, `ratelimit` | `device_codes`, `api_tokens`, token bucket, config file | code, poll, confirm, deny, consume, revoke | CLI, browser | `DeviceFlow` |
| Read state, entries, social reading | `store/store.go`, `store/social.go`, `api.go` | entries, marks, stars, shares, follows, subscriptions | mark, sweep, star, share, list, history, preview | feed processor, relay | `Reading` |
| Feed refresh | `scheduler`, `worker`, `reader/processor`, `reader/fetcher` | feeds, `Pool.jobs` | dispatch due feeds, conditional fetch, insert | network | `FeedRefresh` |
| Folders, feeds, OPML | `store.go`, `api.go`, `cli/internal/commands` | folders, feeds, subscriptions | create, move, rename, import, export | CLI, web | `Library` |
| Terminal browser | `cli/internal/tui` | sidebar, panel, search, preview | keys, commands, answers | API | `Tui` |
| The rest | parsers, sanitizer, image proxy, URL normalisation, config, SDK, web | none of their own | transformation, presentation | | section 7 |

### What is hard, and what makes each part correct

* **Event log, server, consumer.** A seq is drawn before its row is visible, and
  broadcast after; replay and live stream overlap; a new connection of an instance
  replaces one not yet torn down; channels drop; cursors are copied by value.
  Correct: the stored cursor never passes an event that was neither processed nor
  excused, and every event is settled in the end.
* **Tracking and backfill.** Boot, announcement and the end of a backfill each start
  the worker of an account, with different ideas of the cursor; several backfills
  and a worker change the same rows; the process may stop anywhere. Correct: one
  worker, a cursor that covers what it passes, events that balance the rows, tables
  that converge to the repository.
* **Write-through and event handlers.** The same record arrives from the user's own
  request, the relay and a pull, with its rkey known late. Correct: row and record
  agree once all is settled, and with the user's last word.
* **Handles.** Three tables hold them, each updated at another time, and every follow
  looks the handle up several times; API and relay match a query each in its own way.
  Correct: whom the search shows is whom the follow reaches and whose record is written.
* **Profiles.** A put replaces four fields read from three places. Correct: the copies
  agree, and no edit undoes another field's.
* **Login.** Two browsers, a goroutine, a timer and an event decide when a spinner
  stops. Correct: idle means loaded, spinners end, each login lands where it was asked.
* **Device flow.** Confirmations race each other, expiry and polls under one shared
  limiter. Correct: a token goes to the login it was minted for; decisions are final.
* **Reading.** An absent row means read, marks belong to URLs, and requests of several
  statements overlap. Correct: a verdict is kept, a history faithful, a notice found.
* **Feed refresh.** Due feeds are dispatched without being claimed, on copies of the
  row. Correct: a stored ETag hides no article, every known feed is refreshed.
* **Library.** Updates read, then write back; imports create folders one by one; folder
  ids are checked by a foreign key that knows of no user; relay events write the same
  rows. Correct: files and folders hold what was asked for.
* **Terminal browser.** Answers carry no tag and come in any order. Correct: the screen
  shows what was asked for last, with the API's marks, and never reads past a list.

The full list of hazards, each at its line with the properties about it, is in
`PROJECT.json`.

## 2. Plan

| # | Module | Models | State |
|---|---|---|---|
| 1 | `RelayEvents`, `RelayEventsInv`, `EventDelivery` | event log, server, consumer; the inductive invariant; the abstract promise | checked, proved |
| 2 | `RelayTracking` | tracking, worker, backfill, boot, the observed tables | checked, proved |
| 3 | `RecordSync` | one record of a user: row, PDS, goroutines, echo, pull | checked, proved for calm users and relayed shares |
| 4 | `DeviceFlow` | grant, confirm, poll, limiter, tokens, config file | checked, proved |
| 5 | `Reading` | read state, shares, subscriptions, views | checked, proved |
| 6 | `FeedRefresh` | scheduler, pool, processor | checked, proved |
| 7 | `Login` | OAuth flow, sessions, sync status | checked, proved |
| 8 | `Tui` | the terminal browser | checked, proved |
| 9 | `Library` | folders, feeds, OPML | checked, proved |
| 10 | `Identity`, `Profile`, composed in `MCAccounts` | handles, follows by handle, profiles | checked, proved |

`RelayEvents` implements `EventDelivery`. What the other modules assume of their
neighbours is what those establish: `RecordSync`, `Identity` and `Profile` read from a
log that loses nothing, since what it loses is the subject of `RelayEvents`; `Login`
lets the relay lose events and says so in its excuses. `MCAccounts` checks two modules
that share no variable in one run.

## 3. The modules

Every module has the code's control: guards, early returns, error paths, the order of
statements. A database statement is one step; a handler of several statements is
several steps, between which others run. Payloads, text and layout are left out.
History variables say *why* a state may look wrong (an excuse the code itself takes),
so that the properties can say there is no other reason.

### RelayEvents, EventDelivery

One instance; instances share only the log. An event is its seq.

| Model | Code |
|---|---|
| `DrawSeq`, `AppendEvent`, `AppendEventFails` | the `INSERT ... RETURNING seq` of `AppendEvent`: sequences are drawn outside of transactions, so rows become visible out of order; a failed one may have left its row |
| `Broadcast`, `SendToSubscriber` | the loop of `emit` with its `select`/`default` |
| `PurgeOldEvents` | the hourly goroutine of `cmd/relay/main.go`; retention is days, so it never meets a row whose emit is running |
| `Dial` | `connect`: cursor read (0 on error), socket accepted |
| `Subscribe`, `ListEventsSince`, `ReplaySend`, `ReplayBatchDone` | the head of `handleSubscribeEvents` and `replaySince`, whose cursor is a copy (`replayCursor`) of the handler's (`hCursor`) |
| `LiveSend`, `LiveSkip` | the live loop |
| `SendFails`, `ReplayQueryFails`, `HandlerReturns`, `Unsubscribe` | the returns of the handler and its deferred teardown |
| `ProcessEvent`, `UpdateRelayCursor` | one iteration of the read loop, in two steps since the instance may stop between them |
| `ReceiveEOF`, `LoseConnection`, `RelayRestart` | the relay closed, the network or the instance failed, the relay failed |

Besides being `processed`, an event has six excuses, each the code's own choice: its
handler `failed` (only logged), it was `dropped` at a full channel, `overtaken` (a
later event was committed before its emit was done), `missed` by a first connection
without a cursor, `purged`, or `burned` (its emit gave up). The 30 s ping is folded
into `SendFails`; frames the instance cannot decode are handler failures. The
invalid-cursor branch (`server.go:542`) equals cursor 0: it logs "replaying from start"
and replays nothing.

In `EventDelivery` events are published and settled, and a position moves so that
nothing unsettled is ever behind it. `RelayEvents` implements it with
`published <- lastSeq`, `settled <- Settled`, `position <- relayCursor`. The position
may move back: after a crash the consumer stores the cursor of a redelivered event.

### RelayTracking

One account; accounts share nothing here. Its records belong to four collections with
a handler and a table each. A record is its rkey. `Accounts` says which collection
each record is in and which records name no followee, feed or article; `Slot` is a set
of announceUser requests, each with the goroutine it may start.

| Model | Code |
|---|---|
| `StartList`, `StartEnsure` | `Start`: list the active accounts, refresh profiles for any length of time, then start workers from the cursors listed |
| `EnsureSubscribed` | the first caller wins |
| `DialPDS`, `StreamFails` | `runWorker` and the dial of `subscribe`; without a cursor the PDS streams from its newest commit |
| `ProcessOp`, `HandleFollow`, `HandleFeedSub`, `HandleShare`, `HandleStar` | `processOp` and the four handlers: a delete removes the row (`DeleteFollow`, ...), anything else fetches |
| `FetchRecord`, `RecordFetched`, `EmitEvent` | `fetchRecord`; the `process...Record` of the collection and its insert (`RecordFollow`, ...); `emit` |
| `ProcessFollowRecord`, `ProcessFeedSubRecord`, `ProcessShareRecord`, `ProcessStarRecord` | the same four for worker and backfill: a record without its subject is dropped, but a share is not looked at |
| `UpdateCursor` | the end of the commit loop |
| `AnnounceRead`, `AnnounceUpsert`, `AnnounceFails` | `UpsertTrackedDID`, whose first SELECT may be stale when the upsert runs, and `handleAnnounceUser` |
| `ListRecords`, `BackfillRecord`, `BackfillEmit`, `PageDone`, `LeaveCollection` | `backfillDID` and `backfillCollection`, collection by collection, page by page |
| `BackfillComplete`, `CutOver` | the end of `BackfillAndSubscribe` |
| `UserFollowerCount` ... `ArticleCounts` | the count endpoints, functions of the tables |
| `RelayRestart` | the process stops anywhere and starts again |

The PDS (`CreateRecord`, `DeleteRecord`, `NextPage`) is external: commits are numbered
by position, listings are newest first, keyed by rkey. A row's change and its event
are separate steps, as they are separate statements. Collections without records are
skipped: listing them finds nothing. Records are never updated in place, as no code of
the repository does that to a follow, share, star or subscription.

### RecordSync

One record of one user: `row` is its row in `user_follows`, `shared_articles`,
`entry_stars` or `subscriptions`, `pds` the records that stand for it, `log` the
relay's events for them. `kind` selects whose code runs, `relayed` whether there is a
relay (then there is an echo) or not (then each login pulls from the PDS), `calm`
whether the user waits until all is settled. The kinds differ: a share row is found by
its id and the others by their natural key (`Addressed`); a second follow or
subscription is refused while a second share or star updates the row and puts again;
an unfollow or unstar without a row goes on while an unshare or unsubscription is not
found; only follows and shares clear the rkey after a delete. Request `n` is a handler
call with the goroutine it spawns; a record it puts has the rkey `n`.

| Model | Code |
|---|---|
| `Follow`, `Share`, `Star`, `Subscribe`, `Spawn` | the handlers of `social.go` and `api.go`, up to the goroutine |
| `StarUnseen` | a star by id whose `INSERT ... SELECT` finds the entry no longer visible (`store.go:656`): no row, no error, and the record is put all the same |
| `PutRecord`, `PutFails`, `PutUnanswered` | done, not done, done but the answer is lost |
| `PersistRkey`, `PersistFails` | `Set...ATProtoRkey` with the new rkey |
| `Unfollow`, `Unshare`, `Unstar`, `Unsubscribe`, `DropRow` | the reverse handlers: first the rkey is read, then the row deleted |
| `LookupRkey`, `WriterFails`, `DeleteRecord`, `DeleteFails`, `ClearRkey` | the deleting branch in `atproto.go`: no session, no rkey, or the rkey read again; the clear follows either way |
| `ConsumeEvent` (eight handlers), `SaveCursor` | the consumer: upsert by natural key, delete by rkey |
| `BackfillFollows` ..., `UpsertListed` | `sync.go`, whose page ages while it is stored |
| `RestartAPI` | goroutines end, unsaved events are applied again |

`unbacked` are rows whose put failed or whose rkey was lost where no relay brings it,
and the row a star did not write where there is no relay to bring it; `leftover` records
a removal was not told of or failed to delete, and the record of such a star; `stale`
rows for which a pull stored a removed record. With a relay the echo of an unseen star
writes the row, and nothing is excused. For shares the properties hold however requests
overlap. For the other kinds they hold only when calm: the row of a later follow is
found by the same pair of users, so an older goroutine reads its rkey
(`atproto.go:150`, though lines 113-115 say it cannot) or clears it (`:161`). So
`UnshareDeletesEarlier` is said of shares only.

### DeviceFlow

A unit of the clock is the poll interval. `CreateDeviceCode`, `Poll`, `AnswerPending`,
`AnswerDenied`, `AnswerToken`, `Consume`, `LoseAnswer`, `GiveUp`, `SaveConfig` are the
CLI's loop and its two endpoints, `Ask`, `AskStatus`, `Deny`, `Mint`, `Authorize` the
browser's: a confirmation reads the row, mints a token and updates the row in three
statements and ignores what the last one finds. `Admit` is the limiter, one bucket for
all callers, whose rate and burst are those of the endpoint called. `CreateToken`,
`Revoke`, `ListTokens` take a caller, resolved by `ResolveUserID` from a bearer token
or a web session; `TokensCreate`, `TokensDelete`, `TokensList` are the CLI's, with the
token of its config file, `WebTokens` the page's. `RestartAPI` empties the limiter.

### Reading

Entries, marks, stars, shares, follows and subscriptions of one instance. A request of
one statement is one step (`MarkEntry`, `MarkByURL`, `MarkAllRead`, `EntriesMark`,
`FeedsMarkRead`, `FollowUser`, `DeleteSubscription`, ...). A request of several is a
job: `ShareArticle` and the relay's `HandleShareEvent` run `EnsureSharedEntry`,
`CheckShared`, `InsertShare`, `TellFollowers`; `SubscribeToFeed` runs
`CreateSubscription`, `CreateEntry`, `FanOut`, `SweepBacklog`; a refresh runs
`CreateEntry`, `FanOut`. `StatementFails` and `Crash` may end it. What a reader gets to
see are functions of the state: `ListEntries` with its filters and three sources,
`ListHistory`, `GetEntry`, `PreviewFeed`, `ListSharedArticlesByUser`,
`ListSocialTimeline`, and the counts of `EnrichEntryCounts`, whatever the relay
answers. Texts, paging, search, and the count and list of a feed's subscribers are left
out; the latter are two reads of one table that nothing decides by.

### FeedRefresh

`Tick` takes copies of the due feeds and `Submit` blocks on the queue; `Worker` takes
one and runs `ProcessFeed` (`Fetch`, `CountEntriesByFeed`, `KeepAnyway`, `Refetch`,
`CreateEntry`, `SaveRefreshed`, ...) on that copy; `RefreshFeed`, `CreateFeed`,
`ImportOPML` run it from a request beside the pool. Nothing claims a feed. Failures of
fetches and statements, panics, and restarts are mishaps. Time is the order in which
`next_check_at` passes.

### Login

`HandleLogin`, `StartFails`, `ProcessCallback`, `GetOrCreateUserByDID`,
`SetUserPDSSession`, `StartSync`, `IssueSession`, `HandleSignout` are the handlers of
`oauth_handlers.go`, statement by statement, for logins of two browsers with a cookie
each. The goroutine a login leaves behind pulls (`Pull`, `PullEnds`: `BackfillFollows`
and `BackfillRecords` load a collection, fail, or pass over what they could not write,
which is only logged, or could not read, for the profile) or announces
(`AnnounceNew`, `AnnounceKnown`, `AnnounceFails`) and waits for a timer (`TimerFires`,
`TimerSets`). The relay may know the account from elsewhere, backfill it, lose its
events; `RestartAPI` ends the goroutines and timers.

### Tui

Keys (`SearchKey`, `EnterSearch`, `MoveTo`, `OpenItem`, `MarkEntry`, `MarkPreviewed`,
`LeavePreview`, ...) run `Update` once and may leave commands; each is a call that the
API serves at some moment (`Serve`, `CallFails`, `CallRefused`) and whose answer is taken later
(`TakeFeeds`, `TakeEntries`, `TakePreview`, `TakeMark`, `TakeMarkByURL`, ...), in any
order. `View` is what the screen shows: `RenderSidebarLines`, `RenderMainLines`,
`RenderEntryList`, `RenderFeedGet`. The user's other programs `Subscribe`, `Unsubscribe`
and refile feeds and create and delete a folder; there is one, which is there from the
start or comes later, may go, and does not come back. `altered` says whether they did.
Stars run the code of marks and are left out, as is scrolling.

### Library

A handler of one statement is one step (`CreateFolder`, `UpdateFolder`,
`DeleteFolder`). Folders of other users come and go too (`OthersCreate`,
`OthersDelete`): ids are drawn from one sequence, and a request may name any that exists,
whoever owns it, as only the foreign key looks (`Exists`). Events of the relay and the
login sync make and delete rows and write titles (`RelayFeed`, `RelayUnfeed`,
`RelayTitle`). Subscribing, update-feed (`ReadForUpdate`, `UpdateSubscription`),
unsubscribing, the export (`ListFeeds`, then `Export`) and the import (`ListFolders`,
then `NextOutline` for each outline) are calls whose statements interleave. An OPML
file is a set of pairs of a folder title and a feed. `FeedsMove`, `FeedsRename`,
`FoldersCreate` and the like are the CLI's commands with what they leave out of a request.

### Identity, Profile, MCAccounts

`Identity` has three tables of handles: the network's (`holds`), the relay's
(`tracked`), the instance's (`users`). `Move`, `HandleCallback`, `UpsertHandle`,
`DeleteUser`, `AnnounceTrackedDIDs`, `HandleAnnounceUser` change them; a follow is
`Lookup`, `Resolve`, `CreateRemoteUser`, `FollowCreated`, and then the goroutine,
`ResolveFollowee`, `PutFollow`, `SetFollowATProtoRkey`; each looks the handle up again.
`GetUserProfile`, `ListUserFollowers`, `WellKnownATProtoDID` are functions of the state,
and so is `Search`, of a query, a limit and whether the relay answers. A query is what it
matches: the handles the API matches with it, trimmed and escaped; those the relay
matches with it as it is, where `_` and `%` stand for anything; and the accounts whose
display name it is found in.

`Profile` has the three copies of a profile. A field of a copy is the number of the
edit that set it. `UpdateUser`, `UploadAvatar`, `DeleteAvatar` go through
`ExistingProfileBlobRefs` or `GetUserByID` to `PutProfile`; `HandleProfile`,
`ProcessProfileRecord`, `RefreshProfile` are the relay's, `HandleProfileEvent` and
`BackfillProfile` the instance's. The two modules share no variable; `MCAccounts` has
the behaviours of either in one run.

## 4. What is checked

| Run | Question | Result |
|---|---|---|
| `events_safe` | With concurrent emits, overlapping connections, tiny channels, failing queries and handlers, the purge and restarts, does an event slip, and does the protocol implement its promise? | none slips; it does |
| `events_live` | Is every event settled in the end? | yes |
| `events_lost` | Can the consumer resume without losing events, as its comment says? | **no** |
| `tracking` | Do cursor, rows, events and counts agree, and do the tables converge to the repository but for named gaps? | yes |
| `record` | Do requests, echoes, a pull and a failure leave row, record and last word in step, but for named excuses? Does an unshare delete a later share's record? | yes; no |
| `device` | Do tokens reach the login they were minted for, are decisions final, is the limiter bounded, are early approvals served? | yes |
| `reading` | Are verdicts kept, histories faithful, and notices delivered, all the way to the list, preview or timeline they are found in? | yes; but one race of a share loses them |
| `refresh` | Does a stored ETag hide an article, and is every known feed refreshed again and again? | no; yes |
| `login` | Does idle mean loaded, but for what was passed over in silence, does the spinner end, does each login land where it was asked to? | yes, but for named excuses |
| `tui` | Does the screen show what was asked for last with the API's marks, does "Loading..." end, when does it panic? | yes; only after feeds or the folder were changed elsewhere |
| `library` | Do exports list every feed at the top level or in the user's own folders, imports file what they read, updates keep what they were not asked to change? | yes |
| `accounts` | Do follows match records, do search, follow and pages agree on handles, do the copies of a profile agree? | yes, but for named excuses |

### The disagreement

`events_lost`: two goroutines in `emit` broadcast 2 before 1; the live loop skips 1 as
"already replayed" (`relay/internal/server/server.go:577`); the cursor is at 2 for good.

### Further facts

These follow from the models, or were met while reading the code for them, and have no
run of their own; the models contain them unless the text says otherwise.

*Relay.* The live loop compares with a cursor that the replay, given a copy, never
advances (`server.go:577`, `598`): events emitted during the replay are sent twice,
though the comment at `:531` says they are skipped. An instance pointed at another
relay sends the old one's cursor (`relay_consumer.go:102`; the URL stored beside it is
ignored). An announcement may beat `Start` to the worker after a restart, which then
streams from the newest commit (`server.go:196`, `fanout.go:74-75`). An account is
`active` before its backfill has run, so a restart in between leaves it without
backfill or completion event (`store.go:112`, `server.go:139-140`). An account in error
keeps its worker, and announcing it starts a backfill beside it (`backfill.go:27`):
`RowsFollowCommits` says that this is the only source of ghost rows. A share with an
empty `articleUrl` is recorded while the other kinds drop such a record. A follow
updated under its rkey would leave two rows (not modelled).

*Records.* A second share puts a second record and overwrites the rkey
(`atproto.go:183`). Unsubscribing before the put is stored starts no goroutine, and the
record stays. Starring by id after the entry ceased to be visible answers 204 and puts
a record without a row (`StarUnseen`); without a relay no row comes until a pull. A
follow, an unfollow before its put is stored, and a follow again: the goroutine of the
unfollow reads the rkey of the later row and deletes its record (`atproto.go:150`, against
the comment at 113-115; the model has it for users who do not wait, whom no run lets
follow).

*Login and tokens.* A pull that could not write some rows, or skipped follows of accounts
unknown here, or got any error for the profile, ends as idle (`sync.go:73-79`, `118`,
`157`, `184`, `212`). Logging in again while a first backfill runs dismisses the spinner
early (`oauth_handlers.go:250-258`). An account tracked for another instance is never
backfilled here. An API restart forgets the timer. A late approval may be missed,
though `login.go:49-51` says otherwise; `Authorized: true` is told although another
decision came first; a CLI whose token was revoked can only be refused.
Not modelled: expired sessions and requests, `PurgeExpiredDeviceCodes`,
`DisconnectATProto` (no callers); `cfg.Token[:8]` on a short token.

*Reading.* `update-entries` without ids marks all read, whatever the status
(`api.go:920`). An entry first materialised by a share or star never becomes unread for
the subscribers of its feed. One share without an entry by anybody followed empties the
feeds view (`store.go:393`, `NOT IN` with NULL), though the comment at `:387` says the
views partition the timeline; what is both subscribed and linked is in neither. A mark of many turns
`removed` into `read`. A share again whose check still saw the earlier one, unshared before the
upsert, is new and tells nobody (`store/social.go:374-407`, against the comment at 405);
`NoticesDelivered` excuses it. `get-entry`
enriches a copy, so its counts are always 0. Not modelled: `PurgeOldEntries` names a
dropped column and has no caller; the consumer looks up a shared entry by its raw URL.

*Refresh.* Feeds with a NULL `next_check_at` sort last, so never-tried feeds may starve
while others are due. A failed insert whose refresh saved a tag loses the article until
the feed changes. A feed that panics its worker stays at the head of the queue. Not
modelled: items without a link share one hash; `Pool.Stop` has no caller.

*Terminal browser.* `m.items[m.sidebarCursor]` is unguarded: a feed removed, a folder
deleted or a feed refiled elsewhere, and `r`, leave the cursor behind the last item. "Loading..." stays when `r`'s feeds fail and its folders then clear
the error, or when the selection is gone. Answers carry no tag, so a late list replaces
a newer one and closes an opened preview. Toggles ignore HTTP status codes; a mark by
URL changes the preview's copy only and one by id the list's only; any by-URL answer
clears a standing error. `R` and `feeds refresh` expect 204 where the handler answers
200. ctrl+d on an empty list sets the cursor to -1, which the next list sets right.

*Library.* `feeds move <id> 0` sends folder 0, a foreign key error, and an absent id
keeps the folder, so nothing can unfile a feed, though the help says so
(`feeds.go:253`). A feed may be filed in another user's folder, where no list of folders
shows it and no export writes it (`api.go:446`, `545-553`, `1283`, against `1257`), and from
where that user's deletion takes it. A folder updated without `parent_id` is unnested. Moving a feed pins
its shown title as an override (`api.go:549`). A failed fetch at subscription overwrites
a good title with the URL. An export drops empty folders and nesting, an import titles.
A folder may become its own ancestor; the recursive query at `store.go:403` then does
not end (the query is not modelled).

*Handles and profiles.* A new account whose handle a stale row holds cannot sign in nor
be followed; one that has moved keeps its old handle here while another row holds the
new one. A login whose `getSession` fails announces an empty handle, and the relay
forgets it. `AnnounceTrackedDIDs` announces stubs and nicks again and takes a moved
handle back. A user with a nick, or whose handle moved, finds themself in their own search, which the comment at
`api/social.go:287` rules out. A followed account that the relay knows by another handle is
listed twice, the second time as not followed; and for a query with `_` or `%` the relay
also lists under a local row's handle whom it has for it. A follow may reach
the old account of a handle through a stale row. Deleting an account leaves its records
and the relay's row. `existingProfileBlobRefs` returns nothing on any failure, so the
images are wiped; a put drops the fields it does not know (not modelled); two edits'
goroutines may put in the other order; the removal of the record clears the relay's
copy and tells nobody; a refresh may store an older copy over a newer one and clears
the profile on any error.

### Bounds

* `events_safe`: two emits, two connection slots (an old handler and the one that
  replaces it; slots are reused), `ChanCap`, `BatchSize` and `WireCap` 1, so that the
  first event fills a channel and every row a batch; three seqs, one lost connection or
  restart, and a constraint of two mishaps in all (failing queries and handlers,
  purges). `events_live`: two seqs, two breaks, channel of 2. `events_lost`: three seqs,
  channel and batch of 3, no break.
* `tracking`: two records and `PageSize` 1, so that a listing has two pages and a record
  can come or go between them; two slots, so two backfills overlap; one failure (error,
  broken stream or restart) for an account with one collection, none for accounts with
  records of two collections in and against the order of the crawl, blank ones among
  them. `MaxAnnounces` 2, but while no worker runs an announcement is always possible.
* `record`: four requests are two of a kind and two removals, so that goroutines of one
  meet those of the next; every kind with and without a relay, and shares also without
  calm, with and without a relay; one pull, one failed call or restart.
* `device`: two logins of one machine, two confirmations, codes that live 3 intervals, a
  clock to 7, rates and bursts in the proportions of the code so that refusals happen,
  one token made by hand, one fault.
* `reading`: one reader, one sharer, one article in two feeds, two overlapping jobs;
  no other bound.
* `refresh`: two feeds, one with a tag, a worker, a request, a queue of 1, two
  documents per feed that overlap, one mishap; three deployments (several batch sizes).
* `login`: two logins, two browsers, follows and one public collection, one mishap.
* `tui`: two feeds, one of them in a folder and one also typed as an address, two
  entries, searches of two letters, three calls under way, five keys, failures and
  changes elsewhere.
* `library`: two calls, two feeds, two titles, four folders of the user and others, three
  requests and events in all; a file with all feeds in a folder, or at the top, or none.
  `accounts`: three accounts, three handles, a nick, three requests and three changes;
  queries that match everything on both sides, on one, or by display name, and a limit
  of two, which the two others fill; three edits of two texts and two images, two overlapping,
  one mishap, which the constraint does not combine with edits in haste.
* Symmetry is used in safety runs only.
* Deadlock is checked in `reading`. Elsewhere a state without a step is a bound used
  up, or a process that has ended (a login, the browser after a panic).

### Fairness

`RelayEvents`: an emit finishes, a handler with something to do does it (its loop blocks
only in a send; a dead socket fails the next send or ping), the consumer reads, stores
and redials in one loop. `RelayTracking`: `Start`, the worker and each backfill are
goroutines that run on while the PDS answers; an instance that lost the relay reconnects
and announces. `FeedRefresh`: the clock, the scheduler's goroutine, its blocking submit
and each worker run; a fetch ends by the client's timeout. `Login`: only the goroutine
and timer a login leaves behind. Nothing obliges requests, new events, commits,
failures, restarts, publishers, users or the relay's answers. The other modules state
safety only.

## 5. What is proved

TLAPS proves every safety property the runs check, for every value of the constants;
those of `RecordSync` under one hypothesis on its users (`Orderly`, below). Each proof
module has the types and the invariants of its component, a lemma per action or per
conjunct, and the theorems at its end; section by section it follows the module it is
about. The table names the inductive invariant that carries each theorem, which is what
a change of the code would have to keep.

| Theorems | Properties | Inductive invariant |
|---|---|---|
| `RelayEventsProofs`: `TypeCorrect`, `DeliveryInvariant`, `CursorSafe`, `RegistrationSafe`, `ReplayComplete`, `SkipsSafe`, `Refinement` | all of `events_safe`, among them `Spec => Delivery!Spec` | `TypeOK /\ NoGap` |
| `RelayTrackingProofs`: `TrackingTypes`, `CursorSafe`, `CursorMonotone`, `EventsBalance`, `RowsFollow` | `CursorCovers`, `CursorNeverRegresses`, `EventsBalanceRows`, `RowsFollowCommits` | `Inv`, then `Cursors`, `Balanced`, `InHand` |
| `RecordSyncProofs`: `RecordSyncTypes`, `SharesDeleteEarlier`, `RowsAreBacked`, `RecordsAreMirrored`, `LastWordIsKept`, `RemovalsAreKept` | `UnshareDeletesEarlier`, `RowBacked`, `RecordMirrored`, `LastWordKept`, `RemovalKept` | `Bounded`, `Earlier`, `Gone`; `Mirror` |
| `CliProofs`, on `DeviceFlow`: `DeviceTypes`, `DecisionsFinal`, `TokensSafe`, `AdmissionsBounded`, `EarlyApprovalsServed` | `DecisionFinal`, `TokensAccounted`, `AdmissionBounded`, `EarlyApprovalServed` | `Inv`, then `Budget`, `Pace` |
| `ReadingProofs`: `ReadingTypes`, `VerdictsStay`, `HistoryTrue`, `NoticesReachAll` | `VerdictKept`, `HistoryFaithful`, `NoticesDelivered` | `Inv`, then `Opened`, `Fresh`, `Promised` |
| `FeedsProofs`, on `FeedRefresh`: `RefreshTypes`, `ValidatorsCover` | `ValidatorCovers` | `TypeOK /\ Covers` |
| `FeedsProofs`, on `Library`: `LibraryTypesKept`, `ExportsComplete`, `ImportsFaithful`, `RequestsAreKept` | `ExportComplete`, `ImportFaithful`, `RequestsKept` | `LibraryInv` |
| `LoginProofs`: `LoginTypes`, `IdleMeansSynced`, `LandsRight` | `IdleMeansLoaded`, `LandsWhereAsked` | `FlowPart`, `SyncPart` |
| `AccountsProofs`: `IdentityTypesKept`, `FollowsAreMirrored`, `SearchIsHonest`, `ProfileTypesKept`, `CopiesDoAgree`, `LastEditIsKept` | `FollowsMirrored`, `SearchHonest`, `CopiesAgree`, `LastEditKept` | `IdentityInv`; `ProfileInv` |
| `CliProofs`, on `Tui`: `TuiTypesKept`, `KeysStayInLists`, `LoadingIsForACall`, `LatestIsShown`, `MarksShownAreTheAPIs` | `PanicsOnlyAfterChange`, `LoadingEnds`, `LatestAnswerShown`, `MarksAreTheAPIs` | `TuiInv` |

### Assumptions

The only assumptions are those each module states of its constants: bounds are natural
numbers; capacities, batches, rates and lifetimes are not 0; a value that stands for "none"
is none of the others; accounts, feeds, readers and sharers are finite where the code counts them.
Three say a little more: no handle of the network is a nick of this instance
(`IdentityAssumption`; a nick has no dot), the names of text fields are not
"avatar" or "banner" (`ProfileAssumption`), and the bound on calls leaves room for the
two the browser starts with (`TuiAssumption`, where feeds and entries are finite too). TLC evaluates them in every run.

### The invariants, and why they are needed

*RelayEvents: `NoGap`.* `CursorAccounted` is about the end of a pipeline. To show that
storing a seq keeps it, one must know that whatever precedes the seq in the frame queue,
the batch, the channel and the log is settled or ahead of it in the same place.
`RelayEventsInv` says so stage by stage: `LogInv` (a seq drawn has a row, a fate or a
running emit; a row ahead of a running emit makes that one `overtaken`), `Stream(c)` (no
gap in channel, batch and frames of the connection being read, nor behind its two
cursors), `CursorInv`, and `Ownership`, `Quiet` for which handler owns what. The steps that
carry the weight are `Subscribe` (everything committed is either in the replay's reach,
or broadcast later to the channel now registered), `Broadcast` to a full channel, and
`LiveSkip`, which is sound only because lower seqs in the channel are settled,
`overtaken` or reached by the replay.

*RelayTracking: `Cursors`.* The stored cursor is written by an unconditional update, from
the position of whichever worker runs. That it covers and never regresses needs the
same of every copy of it: the worker's, the one `Start` listed before, and the stream's
position. `Balanced` counts events and rows of one record; it needs that a record's
insert or delete and its event are separate steps with an owner (`Emitters`). `InHand`
holds what the worker has seen of the record of its commit until the cursor is stored.

*RecordSync: `Mirror`.* "Once all has settled" says nothing of the states in between, so
`Mirror` says for each of them what is still to come. A row without an rkey has a put, an
event or a goroutine that will bring it (`Unkeyed`); a row with one has its record or an
event that deletes it (`Keyed`); a record that stays has its row or a later event
(`Coming`), and the event of a record that goes precedes that of one that stays
(`Ordered`), which is why an echo cannot leave the wrong one. `Word`, `Reversed` and
`Undone` tie this to the user's last word. It is proved under
`Orderly == calm \/ (kind = "share" /\ relayed)`: for a user who waits, of every kind, with
and without a relay, and for shares with a relay however requests overlap. For hasty
follows, stars and subscriptions the properties are false (section 3, `RecordSync`);
hasty shares without a relay are left to TLC.
`SharesDeleteEarlier` needs none of this: every rkey in sight belongs to a request that
has started (`Bounded`), a removal holds one older than itself (`Earlier`), and the row
it dropped is not found again (`Gone`), which is where ids differ from natural keys.

*DeviceFlow: `Codes`, `Budget`, `Pace`.* `Codes` makes the row of a code, the login that
polls and the first decision agree. `Budget` is the accountant's sum of the limiter: what
was admitted plus what is left comes out of one burst per run of the API and what the
faster rate refilled until the bucket was last looked at. `Pace` solves the loop of the
CLI: a login that was told to slow down has waited as long as its interval tells, so one
that expires was approved in the last half of its wait, or not at all.

*Reading.* `VerdictKept` follows from the types of the rows and `NotifyEffect` (a notice
writes only where there is no row). `HistoryFaithful` needs `Opened`, for all marks;
`NoticesDelivered` needs `Fresh` (of requests sharing one article at once, one sees the row
is new), `Owing` (a notice is owed to those who still follow or subscribe), `Promised` (a
notice owed has been stored, or some job carries it) and `LinksKnown` (a share's entry
exists, so that what was told is in a view). It excuses the request whose check saw a share
that was gone by the upsert (`raced`).

*FeedRefresh: `Covers`.* Copies of a row are taken by the scheduler, wait in a queue and are
processed beside each other; the invariant says of each copy what the property says of
the row, and of each refresh that what it saw is stored, to do or failed.

*Login.* `RecordsFirst` is the point: until its records are handled an account has no
`backfillComplete` at the head of its events, so the handler of that event cannot dismiss
the spinner too early. `PulledLoaded` does the same for a pull: what it is through with is
loaded, or it remembers an error, or it has passed something over; an event handler that
logs its error has passed over too (`Settled`). `OwnCookie` says that a
flow alone in its browser finds its own cookie.

*Library: `LibraryInv`.* No subscription is in a folder that does not exist (`InFolders`, the
foreign key), of whomever. A feed that is not subscribed has no request to keep
(`OffBare`). What an export has listed stays placeable until the folder is deleted, which
excuses it (`Placed`); what exports left out was in folders of others (`Omissions`). An update writes back what it has read (`ReadAsGiven`). An import's map
from titles to folders may go stale, by a deletion or another title; `Mapped` says it has
no other way to be wrong, and `ImportedRight` relates it to what that import has already
subscribed to: those feeds are where the map says (`InMap`), which is why two outlines of
one title cannot end in two folders. For that,
imports have to be told apart (`CallsNumbered`).

*Identity: `IdentityInv`.* A table never has two accounts with a handle (`Tables`), whoever
is followed has a row (`Referenced`), and, as long as no handle changed hands during a
request, `Matched`: for everyone but the followee of the request under way, row and record
match. `Course` says how far that request has come, `Echoed` what the relay has still to
tell, `Numbered` and `Distinct` that rkeys are fresh and name one record. `SearchHonest`
rests on `Tables` alone: a page of the API that leaves room for the relay is all that
matches (`AddedTo`), so for a query without wildcards a handle the relay adds is that of
no row (`AddedIsNew`).

*Profile: `ProfileInv`.* `Told` relates the queue of commits to the record, `Copies` says that
slow copies not overtaken are the record and that cache and row are the record or have a
commit, an event or a put coming; `Unhurried` describes the one edit under way when edits
wait for one another (`Pending`). The theorems are about `IdentitySpec` and `ProfileSpec`, each
alone: the behaviours of `MCAccounts`, and without its constraint.

*Tui: `TuiInv`.* Answers carry no tag, so the screen can only be related to the calls under
way. `PanelRight`: until the panel is settled its last call is for what was asked for
last, and from then on the panel shows that; an earlier answer that comes later makes the
panel owe nothing (`due`). `SearchRight` and `LitRight` tie what was asked for to the
typed search and to the item under the cursor, which the answers of feeds and folders may
shift. `LoadingRight` gives every "Loading..." a call. `OnItem` is why no key reads past
the sidebar: as long as nothing was changed elsewhere, what is loaded and what is on its
way is what the API has (`Grown`), the sidebar only grows and the cursor stays on an item; `Within` says the same of the list of entries. `MarksRight` says of each
row that it has the API's mark, or that a call already served will bring it, or that its
panel missed the change; for that, what a served call carries must be right but for the
entries changed since (`CarriesRight`), which is what the order of serving and answering
could break. `CountsRight` is about the cache that the counts of feeds passed by fill.

Each invariant was checked with TLC on a run's constants before it was proved. That is
how an error of the model came to light: in `RecordSync` a subscription that was refused
once counted as the user's last put (`Spawned`, `LastPutLost`), which only `Word` could
notice.

## 6. What is only model-checked

* Liveness: `EveryEventSettles`, `EventuallyMirrors`, `EventuallyRefreshed`, `SpinnerEnds`. It
  rests on fairness, hence on ENABLED, which the prover does not do.
* `RecordSync` outside of `Orderly`: shares in haste without a relay.

No module declares a RECURSIVE operator.

## 7. Not modelled

See `components` in `PROJECT.json`. The generated SDK (9981 of the 25336 lines of Go) is
request plumbing. The feed parser, sanitizer, discoverer, image proxy and URL
normalisation transform text and keep no state; the models take a URL as normalised
once. Configuration, CORS, logging and migrations run once, before anything concurrent.
The web front end calls the handlers modelled here. The OAuth protocol, with its nonces,
is the indigo library's; `Login` models what the callback stores. The AT Protocol client
encodes and sends; `RecordSync` assumes of it that `NewTID` repeats no rkey. Of the HTTP
API, onboarding flags, health and single-row reads are left out.

## 8. Running

    tlc -config RelayEvents_safe.cfg MCRelayEvents      (also _live, _lost)
    tlc -config RelayTracking.cfg MCRelayTracking
    tlc -config RecordSync.cfg MCRecordSync
    tlc -config DeviceFlow.cfg MCDeviceFlow
    tlc -config Reading.cfg MCReading
    tlc -config FeedRefresh.cfg MCFeedRefresh
    tlc -config Login.cfg MCLogin
    tlc -config Tui.cfg MCTui
    tlc -config Library.cfg MCLibrary
    tlc -config Accounts.cfg MCAccounts
    tlapm RelayEventsProofs.tla
    tlapm RelayTrackingProofs.tla
    tlapm RecordSyncProofs.tla
    tlapm CliProofs.tla
    tlapm ReadingProofs.tla
    tlapm FeedsProofs.tla
    tlapm LoginProofs.tla
    tlapm AccountsProofs.tla
