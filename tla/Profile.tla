------------------------------ MODULE Profile ------------------------------
(* The profile of one user of an instance with a relay, in its three copies:   *)
(* the app.bsky.actor.profile record on the PDS, the relay's tracked_dids row  *)
(* and the API's users row.                                                    *)
(*                                                                             *)
(* An edit here changes the row and puts the record from a goroutine; an       *)
(* avatar is put first and cached after.  Another client of the network edits  *)
(* the record.  The relay's worker fetches it for every commit, caches it and  *)
(* tells the API, which overwrites the row.  Two slow copies run beside that:  *)
(* the relay's refresh, at its start and when the user is announced again, and *)
(* the API's pull, when the user logs in or is followed.                       *)
(*                                                                             *)
(* A field of a copy is the number of the edit that set it, 0 being empty.     *)
EXTENDS Integers, Sequences, FiniteSets

CONSTANTS
  Job,       \* slots of edits and avatar requests that may overlap
  Text,      \* the display name and the bio
  MaxEdits,  \* bound: edits, here and elsewhere
  MaxMishaps \* bound: slow copies, and reads and writes of the PDS that fail

ASSUME ProfileAssumption ==
  /\ Text \cap {"avatar", "banner"} = {}
  /\ MaxEdits \in Nat /\ MaxMishaps \in Nat

Field == Text \cup {"avatar", "banner"}
Empty == [f \in Field |-> 0]

VARIABLES
  record,  \* PDS: the record
  missing, \* PDS: there is none
  cache,   \* relay: the profile columns of tracked_dids
  row,     \* API: the profile columns of users
  commits, \* on the firehose: "write" or "delete"
  worker,  \* the relay's worker: [pc, copy]
  refresh, \* the relay's refresh: [pc, copy]
  events,  \* profile events the API has not handled
  pull,    \* the API's pull: [pc, copy]
  job,     \* edits and avatar requests: [pc, op, put], put being what they will write
  edits, mishaps

\* History.
VARIABLES
  asked,   \* the last value anybody gave each field
  raced,   \* the record changed while a slow copy of it was under way
  failed,  \* copies that a fault or the removal of the record left behind
  hurried  \* an edit did not wait for an earlier one, or began from a copy left behind

pds == <<record, missing, commits>>
relay == <<cache, worker, refresh>>
bounds == <<edits, mishaps>>
history == <<asked, raced, failed, hurried>>
profileVars == <<pds, relay, row, events, pull, job, bounds, history>>

Rest == [pc |-> "idle", copy |-> Empty]
NoJob == [pc |-> "idle", op |-> "none", nr |-> 0, put |-> Empty]

ProfileInit ==
  /\ record = Empty /\ missing = TRUE /\ cache = Empty /\ row = Empty
  /\ commits = <<>> /\ worker = Rest /\ refresh = Rest /\ events = <<>> /\ pull = Rest
  /\ job = [j \in Job |-> NoJob]
  /\ edits = 0 /\ mishaps = 0
  /\ asked = Empty /\ raced = FALSE /\ failed = {} /\ hurried = FALSE

Mishap == mishaps < MaxMishaps /\ mishaps' = mishaps + 1

\* No edit and no echo of one is under way.
Quiet ==
  /\ \A j \in Job : job[j].pc = "idle"
  /\ commits = <<>> /\ worker = Rest /\ events = <<>>

Settled == Quiet /\ refresh = Rest /\ pull = Rest

\* A slow copy was read and not yet written everywhere.
Slow == refresh.pc # "idle" \/ pull.pc # "idle" \/ \E j \in Job : job[j].pc = "cache"

\* The record becomes r; putRecord replaces it as a whole.
Write(r) ==
  /\ record' = r /\ missing' = FALSE
  /\ commits' = Append(commits, "write")
  /\ raced' = (raced \/ Slow)

-----------------------------------------------------------------------------
(* Edits here                                                                  *)

Begin(j, r) ==
  /\ job[j].pc = "idle"
  /\ edits < MaxEdits /\ edits' = edits + 1
  /\ job' = [job EXCEPT ![j] = r]
  /\ hurried' = (hurried \/ ~Quiet \/ raced \/ failed # {})
  /\ UNCHANGED <<pds, relay, events, pull, mishaps, raced, failed>>

\* update-me with a name or with both, update-handle with a bio.  The goroutine is
\* given the row as it is after the update.
UpdateUser(j, fields) ==
  LET new == [f \in Field |-> IF f \in fields THEN edits + 1 ELSE row[f]] IN
  /\ row' = new
  /\ asked' = [f \in Field |-> IF f \in fields THEN edits + 1 ELSE asked[f]]
  /\ Begin(j, [pc |-> "refs", op |-> "text", nr |-> edits + 1, put |-> new])

AvatarRequest(j, op) ==
  /\ Begin(j, [pc |-> "refs", op |-> op, nr |-> edits + 1, put |-> Empty])
  /\ UNCHANGED row

\* Once its blob is on the PDS.
UploadAvatar(j) == AvatarRequest(j, "upload") /\ asked' = [asked EXCEPT !.avatar = edits + 1]

DeleteAvatar(j) == AvatarRequest(j, "delete") /\ asked' = [asked EXCEPT !.avatar = 0]

Advance(j, pc, put) == job' = [job EXCEPT ![j].pc = pc, ![j].put = put]
JobOver(j) == job' = [job EXCEPT ![j] = NoJob]

\* An edit has its text; an avatar request takes it from the row next.
Images(j, avatar, banner) ==
  Advance(j, IF job[j].op = "text" THEN "put" ELSE "user",
     [job[j].put EXCEPT !.avatar = avatar, !.banner = banner])

\* Mutation of ExistingProfileBlobRefs: only the avatar is carried over.
AvatarRefOnly(j) ==
  /\ job[j].pc = "refs"
  /\ Images(j, record.avatar, 0)
  /\ UNCHANGED <<pds, relay, row, events, pull, bounds, history>>

\* The images of the record, to be put again.  None if it is missing, and none if
\* the read fails.
ExistingProfileBlobRefs(j) ==
  /\ job[j].pc = "refs"
  /\ \/ Images(j, record.avatar, record.banner) /\ UNCHANGED <<mishaps, failed>>
     \/ Images(j, 0, 0) /\ Mishap /\ failed' = failed \cup {"record"}
  /\ UNCHANGED <<pds, relay, row, events, pull, edits, asked, raced, hurried>>

GetUserByID(j) ==
  /\ job[j].pc = "user"
  /\ Advance(j, "put", [row EXCEPT !.avatar = IF job[j].op = "upload" THEN job[j].nr ELSE 0,
                              !.banner = job[j].put.banner])
  /\ UNCHANGED <<pds, relay, row, events, pull, bounds, history>>

\* A put that fails leaves the row with the edit, or an avatar request without any
\* effect.
PutProfile(j) ==
  /\ job[j].pc = "put"
  /\ \/ /\ Write(job[j].put)
        /\ IF job[j].op = "text" THEN JobOver(j) ELSE Advance(j, "cache", job[j].put)
        /\ UNCHANGED <<mishaps, failed>>
     \/ /\ Mishap /\ failed' = failed \cup {"record", "row"}
        /\ JobOver(j)
        /\ UNCHANGED <<pds, raced>>
  /\ UNCHANGED <<relay, row, events, pull, edits, asked, hurried>>

UpdateUserAvatar(j) ==
  /\ job[j].pc = "cache"
  /\ row' = [row EXCEPT !.avatar = job[j].put.avatar]
  /\ JobOver(j)
  /\ UNCHANGED <<pds, relay, events, pull, bounds, history>>

-----------------------------------------------------------------------------
(* Edits elsewhere                                                             *)

Elsewhere(f) ==
  /\ edits < MaxEdits /\ edits' = edits + 1
  /\ Write([record EXCEPT ![f] = edits + 1])
  /\ asked' = [asked EXCEPT ![f] = edits + 1]
  /\ hurried' = (hurried \/ ~Quiet)
  /\ UNCHANGED <<relay, row, events, pull, job, mishaps, failed>>

\* Nobody is told: the relay empties its copy, and the row stays.
DeleteRecord ==
  /\ edits < MaxEdits /\ edits' = edits + 1
  /\ ~missing /\ missing' = TRUE /\ record' = Empty
  /\ commits' = Append(commits, "delete")
  /\ raced' = (raced \/ Slow) /\ failed' = failed \cup {"row"}
  /\ asked' = Empty /\ hurried' = (hurried \/ ~Quiet)
  /\ UNCHANGED <<relay, row, events, pull, job, mishaps>>

-----------------------------------------------------------------------------
(* The relay                                                                   *)

\* The next commit.  A delete clears the cache; for a write the record is fetched,
\* and if that fails the commit is passed over.
HandleProfile ==
  /\ worker.pc = "idle" /\ commits # <<>>
  /\ commits' = Tail(commits)
  /\ \/ /\ Head(commits) = "delete" /\ cache' = Empty
        /\ UNCHANGED <<worker, mishaps, failed>>
     \/ /\ Head(commits) = "write" /\ ~missing
        /\ worker' = [pc |-> "fetched", copy |-> record]
        /\ UNCHANGED <<cache, mishaps, failed>>
     \/ /\ Head(commits) = "write" /\ missing
        /\ UNCHANGED <<cache, worker, mishaps, failed>>
     \/ /\ Head(commits) = "write" /\ Mishap /\ failed' = failed \cup {"cache", "row"}
        /\ UNCHANGED <<cache, worker>>
  /\ UNCHANGED <<record, missing, row, refresh, events, pull, job, edits, asked, raced, hurried>>

\* Mutation of RecordProfile: an event only if something changed.
RecordChanged(p, p2) ==
  /\ p.pc = "fetched"
  /\ cache' = p.copy
  /\ p2 = IF cache = p.copy THEN Rest ELSE [p EXCEPT !.pc = "recorded"]

RecordProfile(p, p2) ==
  /\ p.pc = "fetched"
  /\ cache' = p.copy
  /\ p2 = [p EXCEPT !.pc = "recorded"]

\* The event goes out whether the copy changed or not.
Emit(p, p2) ==
  /\ p.pc = "recorded"
  /\ events' = Append(events, p.copy)
  /\ p2 = Rest

ProcessProfileRecord ==
  /\ \/ RecordProfile(worker, worker') /\ UNCHANGED <<events, refresh>>
     \/ Emit(worker, worker') /\ UNCHANGED <<cache, refresh>>
     \/ RecordProfile(refresh, refresh') /\ UNCHANGED <<events, worker>>
     \/ Emit(refresh, refresh') /\ UNCHANGED <<cache, worker>>
  /\ UNCHANGED <<pds, row, pull, job, bounds, history>>

\* Whatever the fetch fails for, the cache is cleared and nobody is told.
RefreshProfile ==
  /\ refresh.pc = "idle" /\ Mishap
  /\ \/ ~missing /\ refresh' = [pc |-> "fetched", copy |-> record] /\ UNCHANGED failed
     \/ missing /\ refresh' = [pc |-> "clear", copy |-> Empty] /\ UNCHANGED failed
     \/ refresh' = [pc |-> "clear", copy |-> Empty] /\ failed' = failed \cup {"cache"}
  /\ UNCHANGED <<pds, cache, worker, row, events, pull, job, edits, asked, raced, hurried>>

ClearProfile ==
  /\ refresh.pc = "clear"
  /\ cache' = Empty /\ refresh' = Rest
  /\ UNCHANGED <<pds, worker, row, events, pull, job, bounds, history>>

-----------------------------------------------------------------------------
(* The API                                                                     *)

HandleProfileEvent ==
  /\ events # <<>>
  /\ row' = Head(events) /\ events' = Tail(events)
  /\ UNCHANGED <<pds, relay, pull, job, bounds, history>>

\* A record that is missing or cannot be read leaves the row alone.
BackfillProfile ==
  /\ pull.pc = "idle" /\ ~missing /\ Mishap
  /\ pull' = [pc |-> "fetched", copy |-> record]
  /\ UNCHANGED <<pds, relay, row, events, job, edits, history>>

UpdateUserProfileFromPDS ==
  /\ pull.pc = "fetched"
  /\ row' = pull.copy /\ pull' = Rest
  /\ UNCHANGED <<pds, relay, events, job, bounds, history>>

ProfileNext ==
  \/ \E j \in Job :
       \/ \E fields \in (SUBSET Text) \ {{}} : UpdateUser(j, fields)
       \/ UploadAvatar(j) \/ DeleteAvatar(j)
       \/ ExistingProfileBlobRefs(j) \/ GetUserByID(j) \/ PutProfile(j) \/ UpdateUserAvatar(j)
  \/ \E f \in Text \cup {"banner"} : Elsewhere(f)
  \/ DeleteRecord
  \/ HandleProfile \/ ProcessProfileRecord \/ RefreshProfile \/ ClearProfile
  \/ HandleProfileEvent \/ BackfillProfile \/ UpdateUserProfileFromPDS

ProfileSpec == ProfileInit /\ [][ProfileNext]_profileVars

-----------------------------------------------------------------------------
(* Properties *)

\* When nothing is under way the three copies are one, whatever edits overlapped:
\* unless the record changed under a slow copy, or a fault or the removal of the
\* record left a copy behind.
CopiesAgree ==
  Settled /\ ~raced =>
    /\ "cache" \notin failed => cache = record
    /\ "row" \notin failed => row = record

\* A field of the record has the value it was last given, here or elsewhere, though
\* each put replaces all four and takes them from three places: for edits that wait
\* for the echo of the one before and whose reads and writes of the PDS succeed.
LastEditKept ==
  Settled /\ ~hurried /\ failed = {} => record = asked
=============================================================================
