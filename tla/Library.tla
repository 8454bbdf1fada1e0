------------------------------ MODULE Library ------------------------------
(* The feeds and folders of one user: the statements of api/internal/store on  *)
(* folders, feeds and subscriptions, the handlers of api.go that run them, and *)
(* the commands of the CLI that send those requests.                           *)
(*                                                                             *)
(* A handler of one statement is one step.  The others are calls, whose        *)
(* statements interleave with those of other calls: subscribing, an update of  *)
(* a subscription, an unsubscription, the export and the import of an OPML     *)
(* file.  Every row carries its user, but two things cross: a feed's own row   *)
(* is everybody's, and the foreign keys of a folder's parent and of a feed's   *)
(* folder accept the id of any user's folder.                                  *)
(*                                                                             *)
(* A file is a set of pairs <<folder title, feed>>: nesting is flattened by    *)
(* both sides, and titles of feeds are written but not read back.  Folder 0 is *)
(* NULL, and an id that a request leaves out.                                  *)
EXTENDS Integers, FiniteSets

CONSTANTS
  Call,       \* slots of calls that may overlap
  Feed,
  Title,      \* titles of folders
  Root,       \* the place of an outline outside every folder
  Foreign,    \* OPML files made elsewhere
  MaxFolders, \* bound: folders ever created
  MaxCalls    \* bound: requests and events

ASSUME LibraryAssumption ==
  /\ Root \notin Title
  /\ Foreign \subseteq SUBSET ((Title \cup {Root}) \X Feed)
  /\ MaxFolders \in Nat /\ MaxCalls \in Nat

VARIABLES
  folders,    \* id -> [title, parent]
  others,     \* the ids of other users' folders
  lastFolder, \* the sequence that numbers them all
  title,      \* feeds.title, "" when there is no row: "url" stands for the feed's
              \* URL, "site" for the title the feed gives itself
  subs,       \* subscriptions: [on, folder, name], name being title_override
  file,       \* the user's OPML file
  call,       \* the calls under way
  calls       \* requests and events so far

\* History.
VARIABLES
  asked,      \* of each subscription, the folder and name last asked for
  raced,      \* feeds whose update wrote back what another step had changed
  origin,     \* of each subscription an import made: the title of its outline, and
              \* which import
  renamed,    \* folders that were given another title
  omitted     \* feeds an export left out though nothing happened to them, each with
              \* whose folder it was listed in

rows == <<folders, others, lastFolder, title, subs>>
history == <<asked, raced, origin, renamed, omitted>>
libraryVars == <<rows, file, call, calls, history>>

\* What a foreign key accepts: the id of a folder of any user.
Exists(id) == id \in DOMAIN folders \cup others
Off == [on |-> FALSE, folder |-> 0, name |-> ""]
NoFolder == [title |-> Root, parent |-> 0]
NotAsked == [folder |-> 0, name |-> ""]
NoOrigin == [title |-> Root, by |-> 0]
NoCall == [op |-> "none", pc |-> "idle", nr |-> 0, feed |-> "none", folder |-> 0,
           name |-> "", given |-> {}, seen |-> NotAsked, todo |-> {}, place |-> Root,
           known |-> [t \in Title |-> 0], listed |-> [f \in {} |-> 0], stayed |-> {}]

LibraryInit ==
  /\ folders = [id \in {} |-> NoFolder] /\ others = {} /\ lastFolder = 0
  /\ title = [f \in Feed |-> ""] /\ subs = [f \in Feed |-> Off]
  /\ file \in Foreign
  /\ call = [c \in Call |-> NoCall] /\ calls = 0
  /\ asked = [f \in Feed |-> NotAsked] /\ raced = {}
  /\ origin = [f \in Feed |-> NoOrigin] /\ renamed = {} /\ omitted = {}

Requested == calls < MaxCalls /\ calls' = calls + 1

\* A call of slot c, NoCall with some of its fields changed.
Begin(c, new) ==
  /\ call[c].pc = "idle"
  /\ Requested
  /\ call' = [call EXCEPT ![c] = [new EXCEPT !.nr = calls + 1]]
  /\ UNCHANGED <<rows, file, history>>

GoOn(c, pc) == call' = [call EXCEPT ![c].pc = pc]

End(c) == call' = [call EXCEPT ![c] = NoCall]

\* A title as the lists show it: COALESCE(title_override, title).
Shown(f) == IF subs[f].name # "" THEN subs[f].name ELSE title[f]

-----------------------------------------------------------------------------
(* Folders.  A parent or folder that does not exist violates a foreign key,    *)
(* and the request is refused.                                                 *)

InsertFolder(t, parent) ==
  /\ lastFolder < MaxFolders
  /\ folders' = [id \in DOMAIN folders \cup {lastFolder + 1} |->
       IF id = lastFolder + 1 THEN [title |-> t, parent |-> parent] ELSE folders[id]]
  /\ lastFolder' = lastFolder + 1

CreateFolder(t, parent) ==
  /\ Requested
  /\ Exists(parent) \/ parent = 0
  /\ InsertFolder(t, parent)
  /\ UNCHANGED <<others, title, subs, file, call, history>>

\* The parent is written as given, itself and its descendants included; left out
\* it is cleared.
UpdateFolder(id, t, parent) ==
  /\ Requested
  /\ id \in DOMAIN folders
  /\ Exists(parent) \/ parent = 0
  /\ folders' = [folders EXCEPT ![id] = [title |-> t, parent |-> parent]]
  /\ renamed' = IF t = folders[id].title THEN renamed ELSE renamed \cup {id}
  /\ UNCHANGED <<others, lastFolder, title, subs, file, call, asked, raced, origin, omitted>>

Filed(id) == {f \in Feed : subs[f].on /\ subs[f].folder = id}

\* Calls that are listing feeds need not list those of fs any more.
Excuse(fs) == [c \in Call |-> [call[c] EXCEPT !.stayed = @ \ fs]]

\* Feeds whose listed folder is id.
ListedIn(c, id) == {f \in DOMAIN call[c].listed : call[c].listed[f] = id}

\* ON DELETE SET NULL: the feeds and the folders in it move to the top, whosever
\* the folder was.
Unfile(id) ==
  /\ folders' = [g \in DOMAIN folders \ {id} |->
       [folders[g] EXCEPT !.parent = IF @ = id THEN 0 ELSE @]]
  /\ subs' = [f \in Feed |-> IF f \in Filed(id) THEN [subs[f] EXCEPT !.folder = 0] ELSE subs[f]]
  /\ asked' = [f \in Feed |-> IF asked[f].folder = id THEN [asked[f] EXCEPT !.folder = 0]
                              ELSE asked[f]]
  /\ origin' = [f \in Feed |-> IF f \in Filed(id) THEN NoOrigin ELSE origin[f]]
  /\ call' = [c \in Call |-> [call[c] EXCEPT !.stayed = @ \ ListedIn(c, id)]]
  /\ UNCHANGED <<lastFolder, title, file, raced, renamed, omitted>>

DeleteFolder(id) ==
  /\ Requested
  /\ id \in DOMAIN folders
  /\ Unfile(id)
  /\ UNCHANGED others

\* Another user creates a folder, or deletes one.
OthersCreate ==
  /\ Requested
  /\ lastFolder < MaxFolders
  /\ lastFolder' = lastFolder + 1
  /\ others' = others \cup {lastFolder + 1}
  /\ UNCHANGED <<folders, title, subs, file, call, history>>

OthersDelete(id) ==
  /\ id \in others
  /\ Unfile(id)
  /\ others' = others \ {id}
  /\ UNCHANGED calls

-----------------------------------------------------------------------------
(* subscribeToFeed, for one feed or for the outlines of an import              *)

AskSubscribe(c, f, id) ==
  /\ Exists(id) \/ id = 0
  /\ Begin(c, [NoCall EXCEPT !.op = "create", !.pc = "discover", !.feed = f, !.folder = id])

\* An import goes on with its next outline.
Answer(c) == IF call[c].op = "import" THEN GoOn(c, "next") ELSE End(c)

\* The fetch gives the feed's own title, or fails and leaves the URL.
Discover(c) ==
  /\ call[c].pc = "discover"
  /\ \E t \in {"url", "site"} : call' = [call EXCEPT ![c].pc = "lookup", ![c].name = t]
  /\ UNCHANGED <<rows, file, calls, history>>

\* A subscription that exists is returned as it is.
Lookup(c) ==
  /\ call[c].pc = "lookup"
  /\ IF subs[call[c].feed].on THEN Answer(c) ELSE GoOn(c, "feed")
  /\ UNCHANGED <<rows, file, calls, history>>

\* GetOrCreateFeed, under a name of its own: ON CONFLICT the title is overwritten, as
\* it is never empty.
StoreFeed(c) ==
  /\ call[c].pc = "feed"
  /\ title' = [title EXCEPT ![call[c].feed] = call[c].name]
  /\ GoOn(c, "insert")
  /\ UNCHANGED <<folders, others, lastFolder, subs, file, calls, history>>

NewSubscription(c) ==
  LET f == call[c].feed IN
  /\ subs' = [subs EXCEPT ![f] = [on |-> TRUE, folder |-> call[c].folder, name |-> ""]]
  /\ asked' = [asked EXCEPT ![f] = [folder |-> call[c].folder, name |-> ""]]
  /\ origin' = [origin EXCEPT ![f] =
       IF call[c].op = "import" THEN [title |-> call[c].place, by |-> call[c].nr]
       ELSE NoOrigin]

\* ON CONFLICT DO NOTHING.  A folder deleted since fails the foreign key.
CreateSubscription(c) ==
  /\ call[c].pc = "insert"
  /\ \/ /\ call[c].folder # 0 /\ ~Exists(call[c].folder)
        /\ Answer(c)
        /\ UNCHANGED <<subs, asked, origin>>
     \/ /\ call[c].folder = 0 \/ Exists(call[c].folder)
        /\ IF subs[call[c].feed].on THEN UNCHANGED <<subs, asked, origin>>
           ELSE NewSubscription(c)
        /\ GoOn(c, "view")
  /\ UNCHANGED <<folders, others, lastFolder, title, file, calls, raced, renamed, omitted>>

\* The subscription is read back, and once more after the feed was processed if
\* it was not found.  The second time, the handler follows a nil pointer: the
\* call ends there, and with it a whole import.
ReadBack(c) ==
  /\ call[c].pc \in {"view", "again"}
  /\ \/ subs[call[c].feed].on /\ Answer(c)
     \/ ~subs[call[c].feed].on /\ call[c].pc = "view" /\ GoOn(c, "again")
     \/ ~subs[call[c].feed].on /\ call[c].pc = "again" /\ End(c)
  /\ UNCHANGED <<rows, file, calls, history>>

-----------------------------------------------------------------------------
(* Updating and deleting a subscription                                        *)

\* What the request gives, folder or name; an id of no folder at all may be given.
AskUpdate(c, f, id, name) ==
  /\ id # 0 \/ name # ""
  /\ Begin(c, [NoCall EXCEPT !.op = "update", !.pc = "read", !.feed = f, !.folder = id,
       !.name = name,
       !.given = {x \in {"folder", "name"} : IF x = "folder" THEN id # 0 ELSE name # ""}])

\* What the handler reads of a subscription.
Seen(f) == [folder |-> subs[f].folder, name |-> Shown(f)]

\* Mutation of ReadForUpdate: a folder that is left out becomes NULL.
ReadNameForUpdate(c) ==
  /\ call[c].pc = "read"
  /\ IF ~subs[call[c].feed].on THEN End(c)
     ELSE call' = [call EXCEPT ![c].pc = "write", ![c].seen = Seen(call[c].feed),
       ![c].name = IF "name" \in call[c].given THEN @ ELSE Shown(call[c].feed)]
  /\ UNCHANGED <<rows, file, calls, history>>

\* What is left out is taken from the subscription as it is: a feed that is only
\* moved keeps from then on the title it had.
ReadForUpdate(c) ==
  /\ call[c].pc = "read"
  /\ LET f == call[c].feed IN
     IF ~subs[f].on THEN End(c)
     ELSE call' = [call EXCEPT ![c].pc = "write", ![c].seen = Seen(f),
            ![c].folder = IF "folder" \in call[c].given THEN @ ELSE subs[f].folder,
            ![c].name = IF "name" \in call[c].given THEN @ ELSE Shown(f)]
  /\ UNCHANGED <<rows, file, calls, history>>

\* The write puts back a value that has changed since the read.
WritesBack(c) ==
  LET f == call[c].feed IN
  \/ "folder" \notin call[c].given /\ call[c].seen.folder # subs[f].folder
  \/ "name" \notin call[c].given /\ call[c].seen.name # Shown(f)

UpdateSubscription(c) ==
  /\ call[c].pc = "write"
  /\ LET f == call[c].feed IN
     IF subs[f].on /\ (call[c].folder = 0 \/ Exists(call[c].folder))
     THEN /\ subs' = [subs EXCEPT ![f].folder = call[c].folder, ![f].name = call[c].name]
          /\ asked' = [asked EXCEPT
               ![f].folder = IF "folder" \in call[c].given THEN call[c].folder ELSE @,
               ![f].name = IF "name" \in call[c].given THEN call[c].name ELSE @]
          /\ raced' = IF WritesBack(c) THEN raced \cup {f} ELSE raced
          /\ origin' = IF "folder" \in call[c].given THEN [origin EXCEPT ![f] = NoOrigin]
                       ELSE origin
     ELSE UNCHANGED <<subs, asked, raced, origin>>
  /\ End(c)
  /\ UNCHANGED <<folders, others, lastFolder, title, file, calls, renamed, omitted>>

AskUnsubscribe(c, f) ==
  /\ subs[f].on
  /\ Begin(c, [NoCall EXCEPT !.op = "delete", !.pc = "delete", !.feed = f])

\* The row of feed f is deleted, and with it what was asked of it.
Drop(f) ==
  /\ subs' = [subs EXCEPT ![f] = Off]
  /\ asked' = [asked EXCEPT ![f] = NotAsked]
  /\ origin' = [origin EXCEPT ![f] = NoOrigin]
  /\ raced' = raced \ {f}
  /\ UNCHANGED <<folders, others, lastFolder, title, file, renamed, omitted>>

DeleteSubscription(c) ==
  /\ call[c].pc = "delete"
  /\ Drop(call[c].feed)
  /\ call' = [Excuse({call[c].feed}) EXCEPT ![c] = NoCall]
  /\ UNCHANGED calls

-----------------------------------------------------------------------------
(* The user's records, as events of the relay and the login sync write them    *)

\* GetOrCreateFeed for a record, or for another user who subscribes.
RelayTitle(f) ==
  /\ Requested
  /\ \E t \in {"url", "site"} : title' = [title EXCEPT ![f] = t]
  /\ UNCHANGED <<folders, others, lastFolder, subs, file, call, history>>

\* A row that exists only gets the rkey of the record; a new one is in no folder.
RelayFeed(f) ==
  /\ Requested
  /\ subs' = [subs EXCEPT ![f] = IF @.on THEN @
                                   ELSE [on |-> TRUE, folder |-> 0, name |-> ""]]
  /\ UNCHANGED <<folders, others, lastFolder, title, file, call, history>>

\* DeleteFeedByRkey, of a row that has the rkey.
RelayUnfeed(f) ==
  /\ Requested
  /\ subs[f].on
  /\ Drop(f)
  /\ call' = Excuse({f})

-----------------------------------------------------------------------------
(* OPML                                                                        *)

AskExport(c) ==
  Begin(c, [NoCall EXCEPT !.op = "export", !.pc = "feeds"])

Subscribed == {f \in Feed : subs[f].on}

ListFeeds(c) ==
  /\ call[c].pc = "feeds"
  /\ call' = [call EXCEPT ![c].pc = "folders", ![c].stayed = Subscribed,
                           ![c].listed = [f \in Subscribed |-> subs[f].folder]]
  /\ UNCHANGED <<rows, file, calls, history>>

\* Mutation of Outlines: the feeds without a folder are forgotten.
FiledOutlines(listed) ==
  {<<folders[listed[f]].title, f>> : f \in {g \in DOMAIN listed : listed[g] \in DOMAIN folders}}

\* The outlines of the listed feeds: by folder, then those without one.
Outlines(listed) ==
  {<<folders[listed[f]].title, f>> : f \in {g \in DOMAIN listed : listed[g] \in DOMAIN folders}}
    \cup {<<Root, f>> : f \in {g \in DOMAIN listed : listed[g] = 0}}

\* Whose folder a listed feed is in, the top level counting as the user's own.
Whose(id) == IF id \in others THEN "others" ELSE "own"

\* A feed whose folder is gone by now, or is another user's, is in neither part.
Export(c) ==
  /\ call[c].pc = "folders" /\ call[c].op = "export"
  /\ file' = Outlines(call[c].listed)
  /\ omitted' = omitted \cup {<<f, Whose(call[c].listed[f])>> :
       f \in {g \in call[c].stayed : \A t \in Title \cup {Root} : <<t, g>> \notin file'}}
  /\ End(c)
  /\ UNCHANGED <<rows, calls, asked, raced, origin, renamed>>

AskImport(c) ==
  Begin(c, [NoCall EXCEPT !.op = "import", !.pc = "folders", !.todo = file])

\* Of two folders with one title the last listed counts.
ListFolders(c) ==
  /\ call[c].pc = "folders" /\ call[c].op = "import"
  /\ \E k \in [Title -> {0} \cup DOMAIN folders] :
       /\ \A t \in Title :
            LET ids == {id \in DOMAIN folders : folders[id].title = t}
            IN  IF ids = {} THEN k[t] = 0 ELSE k[t] \in ids
       /\ call' = [call EXCEPT ![c].pc = "next", ![c].known = k]
  /\ UNCHANGED <<rows, file, calls, history>>

\* Call c goes on to subscribe to the feed of outline o, in folder id, which its map
\* has for that title.
TakeOutline(c, o, id, map) ==
  call' = [call EXCEPT ![c].pc = "discover", ![c].feed = o[2], ![c].place = o[1],
                       ![c].todo = @ \ {o}, ![c].folder = id, ![c].known = map]

\* Mutation of NextOutline: a folder just created is not entered in the map.
NextOutlineForgetful(c) ==
  /\ call[c].pc = "next" /\ call[c].todo # {}
  /\ \E o \in call[c].todo :
       IF o[1] = Root \/ call[c].known[o[1]] # 0
       THEN /\ TakeOutline(c, o, IF o[1] = Root THEN 0 ELSE call[c].known[o[1]], call[c].known)
            /\ UNCHANGED <<folders, lastFolder>>
       ELSE InsertFolder(o[1], 0) /\ TakeOutline(c, o, lastFolder + 1, call[c].known)
  /\ UNCHANGED <<others, title, subs, file, calls, history>>

\* A feed at the top, in a folder of the map, or in one created for it.
NextOutline(c) ==
  /\ call[c].pc = "next" /\ call[c].todo # {}
  /\ \E o \in call[c].todo : LET map == call[c].known IN
       \/ /\ o[1] = Root
          /\ TakeOutline(c, o, 0, map) /\ UNCHANGED <<folders, lastFolder>>
       \/ /\ o[1] # Root /\ map[o[1]] # 0
          /\ TakeOutline(c, o, map[o[1]], map) /\ UNCHANGED <<folders, lastFolder>>
       \/ /\ o[1] # Root /\ map[o[1]] = 0
          /\ InsertFolder(o[1], 0)
          /\ TakeOutline(c, o, lastFolder + 1, [map EXCEPT ![o[1]] = lastFolder + 1])
  /\ UNCHANGED <<others, title, subs, file, calls, history>>

ImportDone(c) ==
  /\ call[c].pc = "next" /\ call[c].todo = {}
  /\ End(c)
  /\ UNCHANGED <<rows, file, calls, history>>

-----------------------------------------------------------------------------
(* Who calls: the web client any of it, the CLI with these arguments.  An id of *)
(* a folder is whatever the user gives, and may be that of another user's.     *)

AnyFolder == DOMAIN folders \cup others

\* "move <id> 0" sends folder 0, which is no folder.
TopLevel == -1

FoldersCreate == \E t \in Title : CreateFolder(t, 0)
FoldersDelete == \E id \in DOMAIN folders : DeleteFolder(id)
FeedsAdd(c) == \E f \in Feed : AskSubscribe(c, f, 0)
FeedsDelete(c) == \E f \in Feed : AskUnsubscribe(c, f)
FeedsRename(c) == \E f \in Feed : AskUpdate(c, f, 0, "mine")
FeedsMove(c) == \E f \in Feed, id \in {TopLevel} \cup AnyFolder : AskUpdate(c, f, id, "")

Command(c) == FeedsAdd(c) \/ FeedsDelete(c) \/ FeedsRename(c) \/ FeedsMove(c)

WebFolders ==
  \/ \E t \in Title, id \in AnyFolder : CreateFolder(t, id)
  \/ \E id \in DOMAIN folders, t \in Title, parent \in {0} \cup AnyFolder :
       UpdateFolder(id, t, parent)

WebCall(c) ==
  \/ \E f \in Feed, id \in AnyFolder :
       AskSubscribe(c, f, id) \/ AskUpdate(c, f, id, "mine")
  \/ AskExport(c) \/ AskImport(c)

CallStep(c) ==
  \/ Discover(c) \/ Lookup(c) \/ StoreFeed(c) \/ CreateSubscription(c) \/ ReadBack(c)
  \/ ReadForUpdate(c) \/ UpdateSubscription(c) \/ DeleteSubscription(c)
  \/ ListFeeds(c) \/ Export(c)
  \/ ListFolders(c) \/ NextOutline(c) \/ ImportDone(c)

Elsewhere ==
  \/ OthersCreate
  \/ \E id \in others : OthersDelete(id)
  \/ \E f \in Feed : RelayTitle(f) \/ RelayFeed(f) \/ RelayUnfeed(f)

LibraryNext ==
  \/ FoldersCreate \/ FoldersDelete \/ WebFolders \/ Elsewhere
  \/ \E c \in Call : Command(c) \/ WebCall(c) \/ CallStep(c)

LibrarySpec == LibraryInit /\ [][LibraryNext]_libraryVars

-----------------------------------------------------------------------------
(* Properties *)

\* An export lists every feed that was subscribed from its first read to its last,
\* is in no folder or in one of the user's own, and whose folder was not deleted
\* in between, as the feeds are read before the folders that decide where they
\* are written.
ExportComplete == \A f \in Feed : <<f, "own">> \notin omitted

\* The feeds an import subscribed to are in folders with the titles of their
\* outlines, those of one outline together, until somebody moves a feed or
\* renames or deletes the folder, whatever else happens to folders meanwhile.
ImportFaithful ==
  \A f, g \in Feed :
    LET settled(x) == subs[x].on /\ origin[x].by # 0 /\ x \notin raced
                        /\ subs[x].folder \notin renamed
    IN
    /\ settled(f) => IF origin[f].title = Root THEN subs[f].folder = 0
                     ELSE /\ subs[f].folder # 0
                          /\ folders[subs[f].folder].title = origin[f].title
    /\ settled(f) /\ settled(g) /\ origin[f] = origin[g] => subs[f].folder = subs[g].folder

\* As long as a feed's row stays, the feed is in the folder and has the name its
\* user last asked for: a request that gives one of the two leaves the other,
\* unless that was changed between the read and the write of update-feed.  Only
\* the deletion of the folder, by its user or by another whose folder it was,
\* moves the feed to the top level, and a relay event for a row that exists
\* leaves both.  What a request was refused is not asked for: a move to the top
\* level always is, whatever the help of the CLI says (feeds.go:253).  (A row
\* deleted and made again, by requests or by events, has what was asked for since.)
RequestsKept ==
  \A f \in Feed \ raced :
    subs[f].on => /\ subs[f].folder = asked[f].folder
                  /\ asked[f].name # "" => subs[f].name = asked[f].name
=============================================================================
