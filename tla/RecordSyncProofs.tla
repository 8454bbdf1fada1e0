-------------------------- MODULE RecordSyncProofs --------------------------
(* Proofs about RecordSync: types; that a removal deletes no record of a later  *)
(* follow or share; and, by the inductive invariant Mirror, that the row, the   *)
(* record and the user's last word agree once all has settled.                  *)
EXTENDS RecordSync, TLAPS

\* What the rows, events and pages hold are rkeys of requests that have started.
Bounded ==
  /\ row.rkey <= started
  /\ \A r \in pds \union page : r <= started
  /\ \A i \in 1..Len(log) : log[i].rkey <= started
  /\ \A n \in Request : req[n].pc # "done" => n <= started

\* A handler reads an rkey of before its own request.
Earlier ==
  \A n \in Request :
    req[n].pc \in {"drop", "lookup", "delete"} => req[n].rkey < n

\* Ids are not reused: the row that an unshare dropped does not come back.
Gone ==
  \A n \in Request : req[n].pc = "lookup" => ~Addressed(n)

\* The steps of a removal after its handler has read the rkey.
RemoveStep(n) == DropRow(n) \/ DeleteStep(n) \/ ClearRkey(n)

\* The steps that are no request's.
OtherStep == ConsumeEvent \/ SaveCursor \/ BackfillUserFromPDS \/ UpsertListed \/ RestartAPI

(* A step is one of a request or of the consumer, a backfill or a restart. *)
LEMMA StepCases ==
  ASSUME Step
  PROVE  \/ \E n \in Request :
              UserRequest(n) \/ CreateSubscription(n) \/ PutStep(n) \/ RemoveStep(n)
         \/ OtherStep
BY DEF Step, ATProtoSyncFollow, ATProtoSyncShare, ATProtoSyncStar, ATProtoSyncFeedSubscription,
       RemoveStep, OtherStep

-----------------------------------------------------------------------------
(* Types *)

(* The initial state has its types. *)
LEMMA InitTypes == Init => TypeOK
<1> SUFFICES ASSUME Init PROVE TypeOK
  OBVIOUS
<1> USE RecordSyncAssumption DEF Init, NoRow, Done, Request, Rkey
<1>1. log \in Seq(Event) /\ pos \in 0..Len(log) /\ saved \in 0..Len(log)
  OBVIOUS
<1>2. row \in [id : Nat, rkey : Rkey] /\ lastId \in Nat /\ row.id <= lastId
  OBVIOUS
<1>3. started \in 0..MaxRequests /\ backfills \in 0..MaxBackfills /\ faults \in 0..MaxFaults
  OBVIOUS
<1>4. QED
  BY <1>1, <1>2, <1>3 DEF TypeOK

(* What the reused parts of the actions do to the row and the requests. *)
LEMMA UpsertType ==
  ASSUME TypeOK, NEW r \in Rkey, Upsert(r)
  PROVE  /\ row' \in [id : Nat, rkey : Rkey] /\ lastId' \in Nat /\ row'.id <= lastId'
         /\ lastId <= lastId'
BY DEF TypeOK, Upsert, Insert, Rkey

(* An update of the rkey keeps the type of the row. *)
LEMMA SetRkeyType ==
  ASSUME TypeOK, NEW n \in Request, NEW r \in Rkey, SetRkey(n, r)
  PROVE  row' \in [id : Nat, rkey : Rkey] /\ row'.id <= lastId
BY DEF TypeOK, SetRkey, Rkey

(* A request that moves on keeps the type of the requests. *)
LEMMA GotoType ==
  ASSUME TypeOK, NEW n \in Request, NEW pc, Goto(n, pc),
         pc \in {"create", "put", "persist", "drop", "lookup", "delete", "clear", "done"}
  PROVE  req' \in [Request ->
           [op : {"none", "put", "remove"}, id : 0..lastId, rkey : Rkey,
            pc : {"create", "put", "persist", "drop", "lookup", "delete", "clear", "done"}]]
BY DEF TypeOK, Goto

(* The steps of the handlers that follow, share, star and subscribe, and of    *)
(* those that take it back, keep the types.                                    *)
LEMMA RequestTypes ==
  ASSUME TypeOK, NEW n \in Request, UserRequest(n) \/ CreateSubscription(n)
  PROVE  TypeOK'
<1> USE RecordSyncAssumption DEF TypeOK, Request, Rkey, NoRow
<1>1. CASE Follow(n)
  BY <1>1 DEF Follow, Begin, Insert, Spawn, remoteVars, consumerVars, backfillVars
<1>2. CASE Share(n)
  BY <1>2 DEF Share, Begin, Insert, Spawn, localVars, remoteVars, consumerVars, backfillVars
<1>3. CASE Star(n)
  BY <1>3 DEF Star, Begin, Insert, Spawn, localVars, remoteVars, consumerVars, backfillVars
<1>8. CASE StarUnseen(n)
  <2>1. /\ started' \in 0..MaxRequests /\ lastId' = lastId + 1 /\ lastId' \in Nat
        /\ wanted' = TRUE
        /\ UNCHANGED <<row, pds, log, pos, saved, page, backfills, faults, stale>>
    BY <1>8 DEF StarUnseen, Begin, remoteVars, consumerVars, backfillVars
  <2>2. unbacked' \subseteq 0..lastId' /\ leftover' \subseteq Request \union {0}
        /\ stale' \subseteq 0..lastId' /\ row'.id <= lastId'
    BY <1>8, <2>1 DEF StarUnseen
  <2>3. req' \in [Request ->
           [op : {"none", "put", "remove"}, id : 0..lastId', rkey : Rkey,
            pc : {"create", "put", "persist", "drop", "lookup", "delete", "clear", "done"}]]
    BY <1>8, <2>1 DEF StarUnseen
  <2>4. QED
    BY <2>1, <2>2, <2>3
<1>4. CASE Subscribe(n)
  BY <1>4 DEF Subscribe, Begin, localVars, remoteVars, consumerVars, backfillVars, history
<1>5. CASE CreateSubscription(n)
  BY <1>5 DEF CreateSubscription, Insert, Spawn, localVars, remoteVars, consumerVars, boundVars,
              backfillVars
<1>6. CASE ReadRkey(n)
  BY <1>6 DEF ReadRkey, Begin, localVars, remoteVars, consumerVars, backfillVars, history
<1>7. QED
  BY <1>1, <1>2, <1>3, <1>4, <1>5, <1>6, <1>8
  DEF UserRequest, Unfollow, Unshare, Unstar, Unsubscribe

(* The steps of the goroutine that puts the record keep the types. *)
LEMMA PutTypes ==
  ASSUME TypeOK, NEW n \in Request, PutStep(n)
  PROVE  TypeOK'
<1> USE RecordSyncAssumption DEF localVars, remoteVars, consumerVars, boundVars,
                                 backfillVars, history, Fails
<1>1. [op |-> "create", rkey |-> n] \in Event
  BY DEF Event
<1>2. /\ Append(log, [op |-> "create", rkey |-> n]) \in Seq(Event)
      /\ Len(Append(log, [op |-> "create", rkey |-> n])) = Len(log) + 1
      /\ Len(log) \in Nat
  BY <1>1 DEF TypeOK
<1>9. Tell("create", n) => log' \in Seq(Event) /\ Len(log') \in Len(log)..Len(log) + 1
  BY <1>2 DEF Tell, TypeOK
<1>10. LoseRkey(n) => unbacked' \subseteq 0..lastId
  BY DEF LoseRkey, TypeOK
<1>3. CASE PutRecord(n)
  BY <1>2, <1>3, <1>9, GotoType DEF PutRecord, TypeOK
<1>4. CASE PutFails(n)
  <2>1. req[n].id \in 0..lastId
    BY DEF TypeOK
  <2>2. unbacked' \subseteq 0..lastId
    BY <1>4, <2>1 DEF PutFails, TypeOK
  <2>3. /\ faults' \in 0..MaxFaults
        /\ UNCHANGED <<row, lastId, pds, log, pos, saved, started, page, backfills,
                       wanted, leftover, stale>>
    BY <1>4 DEF PutFails, TypeOK
  <2>4. req' \in [Request ->
           [op : {"none", "put", "remove"}, id : 0..lastId, rkey : Rkey,
            pc : {"create", "put", "persist", "drop", "lookup", "delete", "clear", "done"}]]
    BY <1>4, GotoType DEF PutFails
  <2>5. QED
    BY <2>2, <2>3, <2>4 DEF TypeOK
<1>5. CASE PutUnanswered(n)
  BY <1>2, <1>5, <1>9, <1>10, GotoType DEF PutUnanswered, TypeOK
<1>6. CASE PersistRkey(n)
  BY <1>6, GotoType, SetRkeyType DEF PersistRkey, TypeOK, Rkey
<1>7. CASE PersistFails(n)
  BY <1>7, <1>10, GotoType DEF PersistFails, TypeOK
<1>8. QED
  BY <1>3, <1>4, <1>5, <1>6, <1>7 DEF PutStep

(* The steps of the handler that drops the row and of the goroutine that       *)
(* deletes the record keep the types.                                          *)
LEMMA RemoveTypes ==
  ASSUME TypeOK, NEW n \in Request, RemoveStep(n)
  PROVE  TypeOK'
<1> USE RecordSyncAssumption DEF localVars, remoteVars, consumerVars, boundVars,
                                 backfillVars, history, Fails
<1>1. req[n].rkey \in Rkey /\ 0 \in Rkey
  BY DEF TypeOK, Rkey
<1>2. CASE DropRow(n)
  <2>1. Unknown(n) \subseteq Rkey
    BY DEF Unknown, Rkey
  <2>2. NoRow \in [id : Nat, rkey : Rkey] /\ NoRow.id <= lastId
    BY DEF NoRow, Rkey, TypeOK
  <2>3. CASE row' = NoRow /\ (Addressed(n) \/ kind # "share")
    BY <1>2, <2>1, <2>2, <2>3, GotoType DEF DropRow, AfterDrop, TypeOK
  <2>4. CASE ~Addressed(n) /\ kind = "share"
    BY <1>2, <2>4, GotoType DEF DropRow, AfterDrop, TypeOK
  <2>5. QED
    BY <1>2, <2>3, <2>4 DEF DropRow
<1>3. CASE LookupRkey(n)
  <2> DEFINE k == IF req[n].rkey = 0 /\ Addressed(n) THEN row.rkey ELSE req[n].rkey
  <2>1. k \in Rkey
    BY <1>1 DEF TypeOK
  <2>2. req' = [req EXCEPT ![n].rkey = k, ![n].pc = IF k = 0 THEN "done" ELSE "delete"]
    BY <1>3 DEF LookupRkey
  <2> HIDE DEF k
  <2>3. QED
    BY <1>3, <2>1, <2>2 DEF LookupRkey, TypeOK
<1>4. CASE WriterFails(n)
  BY <1>1, <1>4, GotoType DEF WriterFails, TypeOK
<1>5. CASE DeleteRecord(n)
  <2>1. CASE req[n].rkey \in pds
    <3>1. [op |-> "delete", rkey |-> req[n].rkey] \in Event
      BY <2>1 DEF Event, TypeOK
    <3> DEFINE l == Append(log, [op |-> "delete", rkey |-> req[n].rkey])
    <3>4. l \in Seq(Event) /\ Len(l) = Len(log) + 1 /\ log \in Seq(Event) /\ Len(log) \in Nat
      BY <3>1 DEF TypeOK
    <3>5. log' = l \/ log' = log
      BY <1>5, <2>1 DEF DeleteRecord, Tell
    <3> HIDE DEF l
    <3>2. /\ log' \in Seq(Event) /\ Len(log') \in Len(log)..Len(log) + 1 /\ Len(log) \in Nat
      BY <3>4, <3>5
    <3>3. QED
      BY <1>5, <3>2, GotoType DEF DeleteRecord, AfterDelete, TypeOK
  <2>2. CASE req[n].rkey \notin pds
    BY <1>5, <2>2, GotoType DEF DeleteRecord, AfterDelete, TypeOK
  <2>3. QED
    BY <2>1, <2>2
<1>6. CASE DeleteFails(n)
  BY <1>1, <1>6, GotoType DEF DeleteFails, AfterDelete, TypeOK
<1>7. CASE ClearRkey(n)
  BY <1>1, <1>7, GotoType, SetRkeyType DEF ClearRkey, TypeOK
<1>8. QED
  BY <1>2, <1>3, <1>4, <1>5, <1>6, <1>7 DEF RemoveStep, DeleteStep

(* The consumer applies an event by an upsert or a deletion by the rkey. *)
LEMMA EventCases ==
  ASSUME NEW e, ProcessEvent(e)
  PROVE  Upsert(e.rkey) \/ ApplyDelete(e.rkey)
BY DEF ProcessEvent, HandleFollowEvent, HandleUnfollowEvent, HandleShareEvent, HandleUnshareEvent,
       HandleStarEvent, HandleUnstarEvent, HandleFeedSubEvent, HandleFeedUnsubEvent

(* A backfill that starts only reads the PDS. *)
LEMMA BackfillLists == BackfillUserFromPDS => ListRecords
BY DEF BackfillUserFromPDS, BackfillFollows, BackfillShares, BackfillStars,
       BackfillFeedSubscriptions

(* The consumer, the backfill and a restart keep the types. *)
LEMMA OtherTypes ==
  ASSUME TypeOK, OtherStep
  PROVE  TypeOK'
<1> USE RecordSyncAssumption DEF localVars, remoteVars, consumerVars, boundVars,
                                 backfillVars, history, Fails
<1>1. CASE ConsumeEvent
  <2> DEFINE e == log[pos + 1]
  <2>1. pos + 1 \in 1..Len(log) /\ e \in Event /\ Len(log) \in Nat
    BY <1>1 DEF ConsumeEvent, TypeOK
  <2>2. e.rkey \in Rkey
    BY <2>1 DEF Event, Rkey
  <2>3. /\ row' \in [id : Nat, rkey : Rkey] /\ lastId' \in Nat
        /\ row'.id <= lastId' /\ lastId <= lastId'
    <3>1. CASE Upsert(e.rkey)
      BY <2>2, <3>1, UpsertType
    <3>2. CASE ApplyDelete(e.rkey)
      BY <3>2 DEF ApplyDelete, TypeOK, NoRow, Rkey
    <3>3. QED
      BY <1>1, <3>1, <3>2, EventCases DEF ConsumeEvent
  <2>4. QED
    BY <1>1, <2>1, <2>3 DEF ConsumeEvent, TypeOK
<1>2. CASE SaveCursor
  BY <1>2 DEF SaveCursor, TypeOK
<1>3. CASE ListRecords
  BY <1>3 DEF ListRecords, TypeOK
<1>4. CASE UpsertListed
  <2>1. PICK r \in page : Upsert(r) /\ page' = page \ {r} /\ stale' \subseteq stale \union {row'.id}
    BY <1>4 DEF UpsertListed
  <2>2. /\ row' \in [id : Nat, rkey : Rkey] /\ lastId' \in Nat
        /\ row'.id <= lastId' /\ lastId <= lastId'
    BY <2>1, UpsertType DEF TypeOK, Rkey
  <2>3. /\ stale' \subseteq 0..lastId' /\ unbacked' \subseteq 0..lastId'
        /\ req' \in [Request ->
             [op : {"none", "put", "remove"}, id : 0..lastId', rkey : Rkey,
              pc : {"create", "put", "persist", "drop", "lookup", "delete", "clear", "done"}]]
    <3>1. row'.id \in 0..lastId' /\ 0..lastId \subseteq 0..lastId' /\ stale \subseteq 0..lastId
      BY <2>2 DEF TypeOK
    <3>2. stale' \subseteq 0..lastId'
      BY <2>1, <3>1
    <3>3. unbacked' = unbacked /\ req' = req
      BY <1>4 DEF UpsertListed
    <3>4. QED
      BY <3>1, <3>2, <3>3 DEF TypeOK
  <2>4. /\ page' \subseteq Request
        /\ UNCHANGED <<pds, log, pos, saved, started, backfills, faults, wanted, leftover>>
    BY <1>4, <2>1 DEF UpsertListed, TypeOK
  <2>5. QED
    BY <2>2, <2>3, <2>4 DEF TypeOK
<1>5. CASE RestartAPI
  <2>1. \A n \in Request : req[n].id \in 0..lastId /\ req[n].rkey \in Rkey
    BY DEF TypeOK
  <2>2. unbacked' \subseteq 0..lastId /\ leftover' \subseteq Rkey
    BY <1>5, <2>1 DEF RestartAPI, TypeOK
  <2>3. req' \in [Request ->
           [op : {"none", "put", "remove"}, id : 0..lastId, rkey : Rkey,
            pc : {"create", "put", "persist", "drop", "lookup", "delete", "clear", "done"}]]
    BY <1>5 DEF RestartAPI, TypeOK
  <2>4. /\ faults' \in 0..MaxFaults /\ page' = {} /\ pos' = saved
        /\ UNCHANGED <<row, lastId, pds, log, saved, started, backfills, wanted, stale>>
    BY <1>5 DEF RestartAPI, TypeOK
  <2>5. QED
    BY <2>2, <2>3, <2>4 DEF TypeOK
<1>6. QED
  BY <1>1, <1>2, <1>3, <1>4, <1>5, BackfillLists DEF OtherStep

(* Every step, or stutter, keeps the types. *)
LEMMA NextTypes == TypeOK /\ [Next]_vars => TypeOK'
<1>1. ASSUME TypeOK, Next PROVE TypeOK'
  BY <1>1, StepCases, RequestTypes, PutTypes, RemoveTypes, OtherTypes DEF Next
<1>2. ASSUME TypeOK, UNCHANGED vars PROVE TypeOK'
  BY <1>2 DEF TypeOK, vars
<1>3. QED
  BY <1>1, <1>2

(* The types of the model: rows, records, events and requests, for any number  *)
(* of requests, backfills and faults.                                          *)
THEOREM RecordSyncTypes == Spec => []TypeOK
BY InitTypes, NextTypes, PTL DEF Spec

-----------------------------------------------------------------------------
(* Removals *)

(* Every rkey in the model is a natural number. *)
LEMMA RkeysNat ==
  ASSUME TypeOK
  PROVE  /\ \A i \in 1..Len(log) : log[i].rkey \in Nat
         /\ \A r \in pds \union page : r \in Nat
         /\ row.rkey \in Nat /\ started \in Nat
         /\ \A n \in Request : req[n].rkey \in Nat
<1>1. \A i \in 1..Len(log) : log[i] \in Event
  BY DEF TypeOK
<1>2. Request \subseteq Nat /\ Rkey \subseteq Nat
  BY RecordSyncAssumption DEF Request, Rkey
<1>3. \A i \in 1..Len(log) : log[i].rkey \in Request
  BY <1>1 DEF Event
<1>4. /\ \A r \in pds \union page : r \in Request
      /\ row.rkey \in Rkey /\ started \in Nat
      /\ \A n \in Request : req[n].rkey \in Rkey
  BY DEF TypeOK
<1>5. QED
  BY <1>2, <1>3, <1>4

(* A request more leaves what is bounded so. *)
LEMMA LaterBounded ==
  ASSUME TypeOK, Bounded, started' = started + 1,
         pds' = pds, page' = page, log' = log, row' = row \/ row'.rkey = 0
  PROVE  /\ row'.rkey <= started'
         /\ \A r \in pds' \union page' : r <= started'
         /\ \A i \in 1..Len(log') : log'[i].rkey <= started'
<1>1. \A k \in Nat : k <= started => k <= started'
  BY RkeysNat
<1>2. row'.rkey <= started'
  BY <1>1, RkeysNat DEF Bounded
<1>3. \A r \in pds' \union page' : r <= started'
  BY <1>1, RkeysNat DEF Bounded
<1>4. \A i \in 1..Len(log') : log'[i].rkey <= started'
  BY <1>1, RkeysNat DEF Bounded
<1>5. QED
  BY <1>2, <1>3, <1>4

(* What an upsert and an update do to a row that a request does not address.   *)
LEMMA UpsertGone ==
  ASSUME TypeOK, kind = "share", kind' = kind, NEW n \in Request, ~Addressed(n), NEW r, Upsert(r),
         req'[n].id = req[n].id
  PROVE  ~Addressed(n)'
BY DEF TypeOK, Upsert, Insert, Addressed

(* Nor does an update make a request address a row. *)
LEMMA SetRkeyGone ==
  ASSUME TypeOK, kind' = kind, NEW m \in Request, NEW n \in Request, NEW r, SetRkey(m, r),
         ~Addressed(n), req'[n].id = req[n].id
  PROVE  ~Addressed(n)'
BY DEF TypeOK, SetRkey, Addressed

(* A request that only moves on keeps its id and rkey, and the others all.     *)
LEMMA GotoFields ==
  ASSUME TypeOK, NEW n \in Request, NEW pc, Goto(n, pc)
  PROVE  /\ \A m \in Request : req'[m].id = req[m].id /\ req'[m].rkey = req[m].rkey
         /\ \A m \in Request \ {n} : req'[m] = req[m]
         /\ req'[n].pc = pc
BY DEF TypeOK, Goto

Inv == TypeOK /\ Bounded /\ Earlier /\ Gone

(* The initial state satisfies the invariant. *)
LEMMA InitInv == Init => Inv
<1> SUFFICES ASSUME Init PROVE Inv
  OBVIOUS
<1>1. TypeOK
  BY InitTypes
<1>2. Bounded /\ Earlier /\ Gone
  BY DEF Init, Bounded, Earlier, Gone, NoRow, Done
<1>3. QED
  BY <1>1, <1>2 DEF Inv

(* The handlers start with rkeys and ids that are older than themselves. *)
LEMMA RequestInv ==
  ASSUME Inv, kind = "share", kind' = kind, NEW n \in Request,
         UserRequest(n)
  PROVE  Bounded' /\ Earlier' /\ Gone'
<1> USE RecordSyncAssumption DEF Inv, TypeOK, Request, Rkey
<1>1. CASE Share(n)
  <2>1. \A m \in Request \ {n} : req'[m] = req[m]
    BY <1>1 DEF Share, Spawn
  <2>2. req'[n].pc = "put" /\ n = started + 1 /\ started' = n
    BY <1>1 DEF Share, Spawn, Begin
  <2>3. /\ pds' = pds /\ page' = page /\ log' = log
        /\ row' = row \/ (row'.rkey = 0 /\ row'.id = lastId + 1)
    BY <1>1 DEF Share, Spawn, Insert, localVars, remoteVars, backfillVars
  <2>4. Bounded'
    <3>1. \A m \in Request : req'[m].pc # "done" => m <= started'
      <4>1. \A m \in Request : m <= started => m <= started'
        BY <2>2
      <4>2. \A m \in Request \ {n} : req[m].pc # "done" => m <= started
        BY DEF Bounded
      <4>3. n <= started'
        BY <2>2
      <4>4. QED
        BY <2>1, <4>1, <4>2, <4>3, Zenon
    <3>2. QED
      BY <2>2, <2>3, <3>1, LaterBounded DEF Bounded
  <2>5. Earlier'
    BY <2>1, <2>2 DEF Earlier
  <2>6. Gone'
    BY <2>1, <2>2, <2>3 DEF Gone, Addressed
  <2>7. QED
    BY <2>4, <2>5, <2>6
<1>2. CASE ReadRkey(n)
  <2>1. /\ \A m \in Request \ {n} : req'[m] = req[m]
        /\ req'[n].pc = "drop" /\ req'[n].rkey = row.rkey
    BY <1>2 DEF ReadRkey
  <2>2. /\ n = started + 1 /\ started' = n
        /\ pds' = pds /\ page' = page /\ log' = log /\ row' = row
    BY <1>2 DEF ReadRkey, Begin, localVars, remoteVars, backfillVars
  <2>3. Bounded'
    <3>1. \A m \in Request : req'[m].pc # "done" => m <= started'
      <4>1. \A m \in Request : m <= started => m <= started'
        BY <2>2
      <4>2. \A m \in Request \ {n} : req[m].pc # "done" => m <= started
        BY DEF Bounded
      <4>3. n <= started'
        BY <2>2
      <4>4. QED
        BY <2>1, <4>1, <4>2, <4>3, Zenon
    <3>2. QED
      BY <2>2, <3>1, LaterBounded DEF Bounded
  <2>4. Earlier'
    <3>1. \A m \in Request \ {n} :
            req'[m].pc \in {"drop", "lookup", "delete"} => req'[m].rkey < m
      BY <2>1 DEF Earlier
    <3>2. req'[n].rkey < n
      BY <2>1, <2>2, RkeysNat DEF Bounded
    <3>3. QED
      BY <3>1, <3>2, Zenon DEF Earlier
  <2>5. Gone'
    BY <2>1, <2>2 DEF Gone, Addressed
  <2>6. QED
    BY <2>3, <2>4, <2>5
<1>3. QED
  BY <1>1, <1>2
  DEF UserRequest, Follow, Star, StarUnseen, Subscribe, CreateSubscription, Unfollow, Unshare, Unstar, Unsubscribe

(* A subscription that is created has no rkey, and its id is new. *)
LEMMA CreateInv ==
  ASSUME Inv, kind = "share", kind' = kind, NEW n \in Request, CreateSubscription(n)
  PROVE  Bounded' /\ Earlier' /\ Gone'
<1> USE RecordSyncAssumption DEF Inv, TypeOK, Request, Rkey
<1>1. /\ \A m \in Request \ {n} : req'[m] = req[m]
      /\ req'[n].pc = "put" /\ n <= started
  BY DEF CreateSubscription, Spawn, Bounded
<1>2. /\ pds' = pds /\ page' = page /\ log' = log /\ started' = started
      /\ row' = row \/ (row'.rkey = 0 /\ row'.id = lastId + 1)
  BY DEF CreateSubscription, Spawn, Insert, localVars, remoteVars, backfillVars, boundVars
<1>3. Bounded'
  <2>1. \A m \in Request : req'[m].pc # "done" => m <= started'
    BY <1>1, <1>2 DEF Bounded
  <2>2. row'.rkey <= started'
    BY <1>2, RkeysNat DEF Bounded
  <2>3. QED
    BY <1>2, <2>1, <2>2 DEF Bounded
<1>4. Earlier'
  BY <1>1 DEF Earlier
<1>5. Gone'
  <2>1. ASSUME NEW m \in Request, req'[m].pc = "lookup" PROVE ~Addressed(m)'
    <3>1. m # n /\ req'[m] = req[m] /\ ~Addressed(m)
      BY <1>1, <2>1 DEF Gone
    <3>2. req[m].id <= lastId /\ req[m].id \in Nat /\ lastId \in Nat
      OBVIOUS
    <3>3. row' = row \/ row'.id # req[m].id
      BY <1>2, <3>2
    <3>4. QED
      BY <3>1, <3>3 DEF Addressed
  <2>2. QED
    BY <2>1 DEF Gone
<1>6. QED
  BY <1>3, <1>4, <1>5

(* The goroutine that puts writes its own rkey, and to no dropped row. *)
LEMMA PutInv ==
  ASSUME Inv, kind = "share", kind' = kind, NEW n \in Request, PutStep(n)
  PROVE  Bounded' /\ Earlier' /\ Gone'
<1> USE RecordSyncAssumption DEF Inv, localVars, remoteVars, boundVars, backfillVars, Fails
<1>1. /\ n <= started /\ started' = started /\ page' = page
      /\ Goto(n, "persist") \/ Goto(n, "done")
  BY DEF Bounded, PutStep, PutRecord, PutFails, PutUnanswered, PersistRkey, PersistFails
<1>2. /\ pds' = pds \/ pds' = pds \union {n}
      /\ log' = log \/ log' = Append(log, [op |-> "create", rkey |-> n])
      /\ row' = row \/ SetRkey(n, n)
  BY DEF Tell, PutStep, PutRecord, PutFails, PutUnanswered, PersistRkey, PersistFails
<1>3. /\ \A m \in Request : req'[m].id = req[m].id /\ req'[m].rkey = req[m].rkey
      /\ \A m \in Request \ {n} : req'[m] = req[m]
      /\ req'[n].pc \in {"persist", "done"}
  BY <1>1, GotoFields
<1>4. \A i \in 1..Len(log') : log'[i].rkey <= started'
  <2>1. CASE log' = log
    BY <1>1, <2>1 DEF Bounded
  <2>2. CASE log' = Append(log, [op |-> "create", rkey |-> n])
    BY <1>1, <2>2 DEF Bounded, TypeOK
  <2>3. QED
    BY <1>2, <2>1, <2>2
<1>5. row'.rkey <= started'
  BY <1>1, <1>2 DEF Bounded, SetRkey, TypeOK
<1>6. Bounded'
  BY <1>1, <1>2, <1>3, <1>4, <1>5 DEF Bounded
<1>7. Earlier'
  BY <1>3 DEF Earlier
<1>8. Gone'
  BY <1>2, <1>3, SetRkeyGone DEF Gone, Addressed
<1>9. QED
  BY <1>6, <1>7, <1>8

(* The goroutine that deletes keeps to the rkey the handler gave it. *)
LEMMA RemoveInv ==
  ASSUME Inv, kind = "share", kind' = kind, NEW n \in Request, RemoveStep(n)
  PROVE  Bounded' /\ Earlier' /\ Gone'
<1> USE RecordSyncAssumption DEF Inv, localVars, remoteVars, boundVars, backfillVars, Fails
<1>1. n <= started /\ started' = started /\ page' = page
  BY DEF Bounded, RemoveStep, DeleteStep, DropRow, LookupRkey, WriterFails, DeleteRecord,
         DeleteFails, ClearRkey
<1>2. CASE DropRow(n)
  <2>1. /\ pds' = pds /\ log' = log
        /\ row' = row \/ row' = NoRow
        /\ Goto(n, "lookup") \/ Goto(n, "done")
    BY <1>2 DEF DropRow, AfterDrop
  <2>2. req'[n].pc = "lookup" => row' = NoRow
    <3>1. req'[n].pc = AfterDrop(n)
      BY <1>2, GotoFields DEF DropRow
    <3>2. QED
      BY <1>2, <3>1 DEF DropRow, AfterDrop
  <2>3. /\ \A m \in Request : req'[m].id = req[m].id /\ req'[m].rkey = req[m].rkey
        /\ \A m \in Request \ {n} : req'[m] = req[m]
        /\ req'[n].pc \in {"lookup", "done"}
    BY <2>1, GotoFields
  <2>4. Bounded'
    <3>1. row'.rkey <= started'
      BY <1>1, <2>1, RkeysNat DEF Bounded, NoRow
    <3>2. \A m \in Request : req'[m].pc # "done" => m <= started'
      BY <1>1, <2>3 DEF Bounded
    <3>3. QED
      BY <1>1, <2>1, <3>1, <3>2 DEF Bounded
  <2>5. Earlier'
    BY <1>2, <2>3 DEF Earlier, DropRow
  <2>6. Gone'
    BY <2>1, <2>2, <2>3 DEF Gone, Addressed
  <2>7. QED
    BY <2>4, <2>5, <2>6
<1>3. CASE LookupRkey(n)
  <2>1. /\ \A m \in Request \ {n} : req'[m] = req[m]
        /\ req'[n].rkey = req[n].rkey /\ req'[n].pc \in {"delete", "done"}
        /\ pds' = pds /\ log' = log /\ row' = row
    BY <1>3 DEF LookupRkey, Gone, TypeOK
  <2>2. req[n].pc = "lookup"
    BY <1>3 DEF LookupRkey
  <2>3. QED
    BY <1>1, <2>1, <2>2 DEF Bounded, Earlier, Gone, Addressed
<1>4. CASE WriterFails(n) \/ DeleteFails(n)
  <2>1. /\ Goto(n, "done") \/ Goto(n, "clear")
        /\ pds' = pds /\ log' = log /\ row' = row
    BY <1>4 DEF WriterFails, DeleteFails, AfterDelete
  <2>2. /\ \A m \in Request : req'[m].id = req[m].id /\ req'[m].rkey = req[m].rkey
        /\ \A m \in Request \ {n} : req'[m] = req[m]
        /\ req'[n].pc \in {"done", "clear"}
    BY <2>1, GotoFields
  <2>3. QED
    BY <1>1, <2>1, <2>2 DEF Bounded, Earlier, Gone, Addressed
<1>5. CASE DeleteRecord(n)
  <2>1. /\ \A m \in Request : req'[m].id = req[m].id /\ req'[m].rkey = req[m].rkey
        /\ \A m \in Request \ {n} : req'[m] = req[m]
        /\ req'[n].pc = "clear"
    BY <1>5, GotoFields DEF DeleteRecord, AfterDelete
  <2>2. /\ row' = row /\ pds' \subseteq pds
        /\ req[n].pc = "delete" /\ req[n].rkey < n
    BY <1>5 DEF DeleteRecord, Earlier
  <2>3. \A i \in 1..Len(log') : log'[i].rkey <= started'
    <3>1. CASE log' = log
      BY <1>1, <3>1 DEF Bounded
    <3>2. CASE log' = Append(log, [op |-> "delete", rkey |-> req[n].rkey])
      <4>1. /\ req[n].rkey \in Nat /\ started \in Nat /\ n \in Nat
            /\ log \in Seq(Event)
        <5>1. TypeOK /\ n \in Nat
          BY DEF Request
        <5>2. QED
          BY <5>1, RkeysNat DEF TypeOK
      <4>2. req[n].rkey <= started
        BY <1>1, <2>2, <4>1
      <4>3. /\ Len(log') = Len(log) + 1
            /\ \A i \in 1..Len(log) : log'[i] = log[i]
            /\ log'[Len(log) + 1].rkey = req[n].rkey
        BY <3>2, <4>1
      <4>4. QED
        BY <1>1, <4>1, <4>2, <4>3 DEF Bounded
    <3>3. QED
      BY <1>5, <3>1, <3>2 DEF DeleteRecord, Tell
  <2>4. Bounded'
    BY <1>1, <2>1, <2>2, <2>3 DEF Bounded
  <2>5. Earlier'
    BY <2>1 DEF Earlier
  <2>6. Gone'
    BY <2>1, <2>2 DEF Gone, Addressed
  <2>7. QED
    BY <2>4, <2>5, <2>6
<1>6. CASE ClearRkey(n)
  <2>1. /\ \A m \in Request : req'[m].id = req[m].id /\ req'[m].rkey = req[m].rkey
        /\ \A m \in Request \ {n} : req'[m] = req[m]
        /\ req'[n].pc = "done"
    BY <1>6, GotoFields DEF ClearRkey
  <2>2. /\ pds' = pds /\ log' = log /\ SetRkey(n, 0)
        /\ row'.rkey <= started'
    BY <1>1, <1>6 DEF ClearRkey, SetRkey, Bounded, TypeOK
  <2>3. Gone'
    BY <2>1, <2>2, SetRkeyGone DEF Gone
  <2>4. QED
    BY <1>1, <2>1, <2>2, <2>3 DEF Bounded, Earlier
<1>7. QED
  BY <1>2, <1>3, <1>4, <1>5, <1>6 DEF RemoveStep, DeleteStep

(* The consumer, the backfill and a restart store only rkeys that were put. *)
LEMMA OtherInv ==
  ASSUME Inv, kind = "share", kind' = kind, OtherStep
  PROVE  Bounded' /\ Earlier' /\ Gone'
<1> USE DEF Inv, localVars, remoteVars, boundVars, backfillVars, Fails
<1>1. CASE ConsumeEvent
  <2> DEFINE e == log[pos + 1]
  <2>1. pos + 1 \in 1..Len(log)
    BY <1>1 DEF ConsumeEvent, TypeOK
  <2>2. e.rkey <= started
    BY <2>1 DEF Bounded
  <2>3. /\ req' = req /\ started' = started /\ pds' = pds /\ log' = log /\ page' = page
        /\ Upsert(e.rkey) \/ ApplyDelete(e.rkey)
    BY <1>1, EventCases DEF ConsumeEvent
  <2>4. row'.rkey <= started
    BY <2>2, <2>3 DEF Upsert, Insert, ApplyDelete, Bounded, TypeOK, NoRow, Rkey, Request
  <2>5. \A n \in Request : ~Addressed(n) => ~Addressed(n)'
    BY <2>3, UpsertGone DEF ApplyDelete, Addressed, NoRow
  <2>6. QED
    BY <2>3, <2>4, <2>5 DEF Bounded, Earlier, Gone
<1>2. CASE SaveCursor
  BY <1>2 DEF SaveCursor, Bounded, Earlier, Gone, Addressed
<1>3. CASE ListRecords
  BY <1>3 DEF ListRecords, Bounded, Earlier, Gone, Addressed
<1>4. CASE UpsertListed
  <2>1. PICK r \in page : Upsert(r) /\ page' = page \ {r}
    BY <1>4 DEF UpsertListed
  <2>2. req' = req /\ started' = started /\ pds' = pds /\ log' = log
    BY <1>4 DEF UpsertListed
  <2>3. row'.rkey <= started
    BY <2>1 DEF Upsert, Insert, Bounded, TypeOK
  <2>4. \A n \in Request : ~Addressed(n) => ~Addressed(n)'
    BY <2>1, <2>2, UpsertGone
  <2>5. QED
    BY <2>1, <2>2, <2>3, <2>4 DEF Bounded, Earlier, Gone
<1>5. CASE RestartAPI
  <2>1. \A n \in Request : req'[n].pc = "done"
    BY <1>5 DEF RestartAPI, TypeOK
  <2>2. UNCHANGED <<row, pds, log, started>> /\ page' = {}
    BY <1>5 DEF RestartAPI
  <2>3. QED
    BY <2>1, <2>2 DEF Bounded, Earlier, Gone
<1>6. QED
  BY <1>1, <1>2, <1>3, <1>4, <1>5, BackfillLists DEF OtherStep

(* The removal of a share deletes only records of earlier shares, for any      *)
(* number of requests, failures, restarts and backfills: the row is found by   *)
(* its id, and ids are not reused.  The other kinds find theirs by what it is   *)
(* about, and a removal may find the row of a later request.                   *)
THEOREM SharesDeleteEarlier == Spec => []UnshareDeletesEarlier
<1> DEFINE I == TypeOK /\ (kind = "share" => Inv)
<1>1. I /\ [Next]_vars => I'
  <2> SUFFICES ASSUME I, [Next]_vars PROVE I'
    OBVIOUS
  <2>1. TypeOK'
    BY NextTypes
  <2>2. kind' = kind
    BY DEF Next, vars
  <2>3. ASSUME kind = "share" PROVE Bounded' /\ Earlier' /\ Gone'
    <3>1. CASE Next
      BY <2>2, <2>3, <3>1, StepCases, RequestInv, CreateInv, PutInv, RemoveInv, OtherInv DEF Next
    <3>2. CASE UNCHANGED vars
      BY <2>3, <3>2 DEF Inv, vars, Bounded, Earlier, Gone, Addressed
    <3>3. QED
      BY <3>1, <3>2
  <2>4. QED
    BY <2>1, <2>2, <2>3 DEF Inv
<1>2. I => UnshareDeletesEarlier
  BY DEF Inv, Earlier, UnshareDeletesEarlier
<1>3. Init => I
  BY InitInv, InitTypes
<1>4. QED
  BY <1>1, <1>2, <1>3, PTL DEF Spec

-----------------------------------------------------------------------------
(* The row and the record.  Where the user waits for each request, or shares   *)
(* where there is a relay, the row and the record match once all has settled.  *)

\* A user who does not wait is told of shares only: they are found by their id.
Orderly == calm \/ (kind = "share" /\ relayed)

\* The record that request r puts has been put, or its put has failed.
PutDone(r) == Spawned(r) /\ req[r].pc \in {"persist", "done"}

\* A removal is about to delete record r.
Doomed(r) == \E m \in Request : req[m].pc \in {"lookup", "delete"} /\ req[m].rkey = r

\* Record r is gone or about to go; record r is there and will stay.
Dead(r) == r \notin pds \/ Doomed(r)
Live(r) == r \in pds /\ r \notin leftover /\ ~Doomed(r)

\* The relay's event is still to be applied.
Pending(op, r) == \E i \in pos + 1..Len(log) : log[i].op = op /\ log[i].rkey = r

\* Only the newest row exists.
Rows == row = NoRow \/ (row.id = lastId /\ row.id # 0)

\* What a request that is at some point of its course is.
Courses ==
  \A n \in Request :
    /\ n > started => req[n].op = "none" /\ req[n].pc = "done"
    /\ req[n].pc \in {"put", "persist"} => Spawned(n)
    /\ req[n].pc = "create" => req[n].op = "put" /\ kind = "subscription"
    /\ req[n].pc \in {"drop", "lookup", "delete", "clear"} => req[n].op = "remove"
    /\ req[n].pc = "clear" => kind \in {"follow", "share"}
    /\ req[n].op # "remove" => req[n].rkey = 0

\* An rkey that is found anywhere is that of a put that is over.
Keys ==
  \A r \in Request :
    /\ r \in pds \union page \/ row.rkey = r => PutDone(r)
    /\ \A m \in Request : req[m].rkey = r => PutDone(r)
    /\ \A i \in 1..Len(log) : log[i].rkey = r => PutDone(r)
    /\ r \in leftover => req[r].op = "put" /\ req[r].pc # "create"

\* The log tells of every record that it has been put and, last, deleted.
Told ==
  /\ ~relayed => log = <<>>
  /\ relayed => \A r \in pds : \E i \in 1..Len(log) : log[i].op = "create" /\ log[i].rkey = r
  /\ \A i \in 1..Len(log) : log[i].op = "delete" => log[i].rkey \notin pds
  /\ \A i \in 1..Len(log) : log[i].op = "create" =>
       \/ log[i].rkey \in pds
       \/ \E k \in i + 1..Len(log) : log[k].op = "delete" /\ log[k].rkey = log[i].rkey
  /\ saved <= pos

\* Who waits has one request under way, and only its own events to come.
Alone ==
  calm => \A n \in Request : req[n].pc # "done" =>
    /\ n = started
    /\ \A i \in pos + 1..Len(log) :
         log[i].op = IF req[n].op = "put" THEN "create" ELSE "delete"
    /\ req[n].pc = "drop" => pos = Len(log)
    /\ req[n].pc = "drop" /\ req[n].rkey # 0 => row # NoRow
    /\ req[n].pc \in {"put", "persist"} =>
         row # NoRow \/ (kind = "star" /\ (relayed \/ n \in leftover))

\* A goroutine that stores its rkey in the row stores that of a record.
Persisting ==
  \A n \in Request :
    req[n].pc = "persist" /\ (Addressed(n) \/ kind = "star") => n \in pds /\ ~Doomed(n)

\* The removal of a share finds no row after it has dropped its own; the row
\* that another removal finds then is one that a backfill has brought back.
Finds ==
  \A m \in Request :
    /\ kind = "share" /\ req[m].pc \in {"lookup", "delete", "clear"} => ~Addressed(m)
    /\ calm /\ row # NoRow /\ req[m].pc \in {"lookup", "delete"}
         /\ req[m].rkey \in {0, row.rkey} => row.id \in stale
    /\ calm /\ row # NoRow /\ req[m].pc \in {"lookup", "delete", "clear"}
         /\ kind = "follow" => row.id \in stale

\* A row without an rkey gets one, or its put or its rkey was lost.
Unkeyed ==
  row # NoRow /\ row.rkey = 0 =>
    \/ row.id \in unbacked \union stale
    \/ \E n \in Request : req[n].id = row.id /\ req[n].pc = "put"
    \/ relayed /\ \E i \in pos + 1..Len(log) : log[i].op = "create"
    \/ ~relayed /\ \E n \in Request : req[n].id = row.id /\ req[n].pc = "persist"

\* A row with an rkey has its record, or an event will delete the row.
Keyed ==
  \A r \in Request : row.rkey = r => r \in pds \/ row.id \in stale \/ Pending("delete", r)

\* The event of a record that goes comes before that of a record that stays.
Ordered ==
  stale = {} => \A i \in 1..Len(log) : \A d, s \in Request :
    log[i].op = "create" /\ log[i].rkey = d /\ Dead(d) /\ Live(s) =>
      \E k \in i + 1..Len(log) : log[k].op = "create" /\ log[k].rkey = s

\* A record that stays will have its row.
Coming ==
  stale = {} => \A d, s \in Request :
    (row = NoRow \/ (row.rkey = d /\ Dead(d))) /\ Live(s) => Pending("create", s)

\* After a follow the record of the last put is there, comes, or was lost.
Word ==
  wanted /\ stale = {} => \E n \in Request :
    /\ Spawned(n) /\ \A m \in Request : Spawned(m) => m <= n
    /\ \/ req[n].id \in unbacked
       \/ n \notin leftover /\ ~Doomed(n) /\ (req[n].pc = "put" \/ n \in pds)

\* After a removal every record is unknown to it, about to go or gone.
Reversed ==
  ~wanted => \A n \in Request : Spawned(n) =>
    n \in leftover \/ Doomed(n) \/ (PutDone(n) /\ n \notin pds)

\* After a removal a row is one of such a record, or a stale page's.
Undone ==
  ~wanted /\ row # NoRow /\ row.id \notin stale =>
    \/ row.rkey \in leftover
    \/ \E r \in Request : row.rkey = r /\ (Doomed(r) \/ Pending("delete", r))

Mirror ==
  /\ Rows /\ Courses /\ Keys /\ Told /\ Alone /\ Persisting /\ Finds
  /\ Unkeyed /\ Keyed /\ Ordered /\ Coming /\ Word /\ Reversed /\ Undone

(* The rkeys of requests are numbers other than 0, and rows have ids from 1 on. *)
LEMMA Numbers ==
  ASSUME TypeOK
  PROVE  /\ Request \subseteq Nat /\ 0 \notin Request
         /\ row.rkey \in Rkey /\ row.id \in Nat /\ lastId \in Nat /\ started \in Nat
         /\ pos \in Nat /\ Len(log) \in Nat /\ pos <= Len(log)
         /\ saved \in Nat /\ saved <= Len(log)
         /\ pds \subseteq Request /\ page \subseteq Request
         /\ \A i \in 1..Len(log) : log[i].rkey \in Request /\ log[i].op \in {"create", "delete"}
         /\ \A n \in Request :
              /\ req[n].id \in Nat /\ req[n].id <= lastId /\ req[n].rkey \in Rkey
              /\ req[n].op \in {"none", "put", "remove"}
<1> USE RecordSyncAssumption
<1>1. Request \subseteq Nat /\ 0 \notin Request
  BY DEF Request
<1>2. /\ row.rkey \in Rkey /\ row.id \in Nat /\ lastId \in Nat /\ started \in Nat
      /\ pds \subseteq Request /\ page \subseteq Request
  BY DEF TypeOK
<1>3. log \in Seq(Event) /\ Len(log) \in Nat /\ pos \in 0..Len(log) /\ saved \in 0..Len(log)
  BY DEF TypeOK
<1>4. \A i \in 1..Len(log) : log[i] \in Event
  BY <1>3
<1>5. \A i \in 1..Len(log) : log[i].rkey \in Request /\ log[i].op \in {"create", "delete"}
  BY <1>4 DEF Event
<1>6. \A n \in Request :
         /\ req[n].id \in Nat /\ req[n].id <= lastId /\ req[n].rkey \in Rkey
         /\ req[n].op \in {"none", "put", "remove"}
  BY <1>2 DEF TypeOK
<1>7. QED
  BY <1>1, <1>2, <1>3, <1>5, <1>6

(* A request that moves on keeps everything but its place. *)
LEMMA Moves ==
  ASSUME TypeOK, NEW n \in Request, NEW pc, Goto(n, pc)
  PROVE  /\ \A m \in Request :
              /\ req'[m].op = req[m].op /\ req'[m].id = req[m].id /\ req'[m].rkey = req[m].rkey
              /\ m # n => req'[m].pc = req[m].pc
         /\ req'[n].pc = pc
         /\ \A m \in Request : Spawned(m)' <=> Spawned(m)
<1>1. /\ \A m \in Request :
              /\ req'[m].op = req[m].op /\ req'[m].id = req[m].id /\ req'[m].rkey = req[m].rkey
              /\ m # n => req'[m].pc = req[m].pc
      /\ req'[n].pc = pc
  BY DEF TypeOK, Goto
<1>2. QED
  BY <1>1 DEF Spawned

(* A step that leaves the row, the records, the log and what the user wants,   *)
(* and starts, dooms and spares no record, leaves what is said about these.    *)
LEMMA Quiet ==
  ASSUME TypeOK, Mirror,
         UNCHANGED <<kind, calm, relayed, row, lastId, pds, log, pos, wanted, leftover, stale>>,
         unbacked \subseteq unbacked',
         \A m \in Request : (Spawned(m)' <=> Spawned(m)) /\ (PutDone(m)' <=> PutDone(m))
                            /\ (Doomed(m)' <=> Doomed(m)),
         \A m \in Request : Spawned(m) =>
           req'[m].id = req[m].id /\ (req[m].pc = "put" => req'[m].pc = "put")
  PROVE  Rows' /\ Keyed' /\ Ordered' /\ Coming' /\ Word' /\ Reversed' /\ Undone'
<1>1. Rows'
  BY DEF Mirror, Rows
<1>2. \A op : \A r \in Request : Pending(op, r)' <=> Pending(op, r)
  BY DEF Pending
<1>3. \A r \in Request : (Live(r)' <=> Live(r)) /\ (Dead(r)' <=> Dead(r))
  BY DEF Live, Dead
<1>4. Keyed'
  BY <1>2 DEF Mirror, Keyed
<1>5. Ordered'
  BY <1>3 DEF Mirror, Ordered
<1>6. Coming'
  BY <1>2, <1>3 DEF Mirror, Coming
<1>7. Word'
  BY DEF Mirror, Word
<1>8. Reversed'
  BY DEF Mirror, Reversed
<1>9. Undone'
  BY <1>2 DEF Mirror, Undone
<1>10. QED
  BY <1>1, <1>4, <1>5, <1>6, <1>7, <1>8, <1>9

(* A follow, share, star or subscription, once it has its row. *)
LEMMA SpawnMirror ==
  ASSUME TypeOK, Mirror, Orderly, UNCHANGED <<kind, calm, relayed>>, NEW n \in Request,
         (row = NoRow /\ Insert(0)) \/ (row # NoRow /\ UNCHANGED localVars),
         Spawn(n, row'.id),
         Begin(n) \/ (req[n].pc = "create" /\ UNCHANGED boundVars)
  PROVE  Mirror'
<1> USE DEF Mirror, localVars
<1>1. /\ \A m \in Request \ {n} :
           /\ req'[m].op = req[m].op /\ req'[m].id = req[m].id
           /\ req'[m].rkey = req[m].rkey /\ req'[m].pc = req[m].pc
      /\ req'[n].op = "put" /\ req'[n].pc = "put" /\ req'[n].id = row'.id /\ req'[n].rkey = 0
  BY DEF Spawn, TypeOK
<1>2. /\ UNCHANGED <<pds, log, pos, saved, page, unbacked, leftover, stale>>
      /\ wanted' = TRUE
  BY DEF Spawn, remoteVars, consumerVars, backfillVars
<1>3. \/ row' = row /\ lastId' = lastId /\ row # NoRow
      \/ row = NoRow /\ row'.id = lastId + 1 /\ lastId' = lastId + 1 /\ row'.rkey = 0
  BY DEF Insert
<1>4. /\ started' \in Nat /\ started <= started' /\ n <= started'
      /\ req[n].pc \in {"done", "create"} /\ ~PutDone(n) /\ n \notin leftover
      /\ \A m \in Request : m > started' => m > started
      /\ \A m \in Request : req[m].op # "none" => m <= n
      /\ calm => (\A m \in Request \ {n} : req[m].pc = "done") /\ n = started'
      /\ calm => \A i \in pos + 1..Len(log) : log[i].op = "create"
  <2>1. CASE Begin(n)
    <3>1. started' = n /\ n = started + 1 /\ (calm => Idle)
      BY <2>1 DEF Begin
    <3>2. req[n].op = "none" /\ req[n].pc = "done" /\ ~PutDone(n) /\ n \notin leftover
      BY <3>1, Numbers DEF Courses, PutDone, Spawned, Keys
    <3>3. \A m \in Request : req[m].op # "none" => m <= n
      BY <3>1, Numbers DEF Courses
    <3>4. calm => pos = Len(log) /\ \A m \in Request : req[m].pc = "done"
      BY <3>1 DEF Idle
    <3>5. QED
      BY <3>1, <3>2, <3>3, <3>4, Numbers
  <2>2. CASE req[n].pc = "create" /\ UNCHANGED boundVars
    <3>1. started' = started
      BY <2>2 DEF boundVars
    <3>2. calm /\ req[n].op = "put" /\ ~PutDone(n) /\ n \notin leftover
      BY <2>2 DEF Courses, Orderly, PutDone, Keys
    <3>3. n = started /\ \A m \in Request \ {n} : req[m].pc = "done"
      BY <2>2, <3>2 DEF Alone
    <3>4. \A m \in Request : req[m].op # "none" => m <= n
      BY <3>3, Numbers DEF Courses
    <3>5. \A i \in pos + 1..Len(log) : log[i].op = "create"
      BY <2>2, <3>2 DEF Alone
    <3>6. QED
      BY <2>2, <3>1, <3>2, <3>3, <3>4, <3>5, Numbers
  <2>3. QED
    BY <2>1, <2>2
<1>5. row' # NoRow /\ row'.id # 0
  BY <1>3, Numbers DEF Rows, NoRow
<1>6. /\ \A m \in Request : (Spawned(m)' <=> Spawned(m) \/ m = n)
      /\ \A m \in Request : (PutDone(m)' <=> PutDone(m))
  BY <1>1, <1>4, <1>5 DEF Spawned, PutDone
<1>7. \A r \in Request : (Doomed(r)' <=> Doomed(r)) /\ (Dead(r)' <=> Dead(r)) /\ (Live(r)' <=> Live(r))
  <2>1. \A r \in Request : (Doomed(r)' <=> Doomed(r))
    BY <1>1, <1>4 DEF Doomed
  <2>2. QED
    BY <1>2, <2>1 DEF Dead, Live
<1>8. \A m \in Request \ {n} : ~calm => (Addressed(m)' => Addressed(m))
  BY <1>1, <1>3, Numbers DEF Addressed, Orderly
<1>9. Rows' /\ Told'
  <2>1. Rows'
    BY <1>3, <1>5 DEF Rows
  <2>2. Told'
    BY <1>2 DEF Told
  <2>3. QED
    BY <2>1, <2>2
<1>10. Courses'
  <2>1. ASSUME NEW m \in Request, m # n
        PROVE  /\ m > started' => req'[m].op = "none" /\ req'[m].pc = "done"
               /\ req'[m].pc \in {"put", "persist"} => Spawned(m)'
               /\ req'[m].pc = "create" => req'[m].op = "put" /\ kind' = "subscription"
               /\ req'[m].pc \in {"drop", "lookup", "delete", "clear"} => req'[m].op = "remove"
               /\ req'[m].pc = "clear" => kind' \in {"follow", "share"}
               /\ req'[m].op # "remove" => req'[m].rkey = 0
    BY <1>1, <1>4, <1>6, <2>1 DEF Courses
  <2>2. ~(n > started')
    BY <1>4, Numbers
  <2>3. QED
    BY <1>1, <1>6, <2>1, <2>2 DEF Courses
<1>11. Keys'
  <2>1. ASSUME NEW r \in Request
        PROVE  /\ r \in pds' \union page' \/ row'.rkey = r => PutDone(r)'
               /\ \A m \in Request : req'[m].rkey = r => PutDone(r)'
               /\ \A i \in 1..Len(log') : log'[i].rkey = r => PutDone(r)'
    <3>1. r # 0 /\ (row'.rkey = r => row.rkey = r)
      BY <1>3, Numbers
    <3>2. \A m \in Request : req'[m].rkey = r => req[m].rkey = r
      BY <1>1, <3>1
    <3>3. QED
      BY <1>2, <1>6, <3>1, <3>2 DEF Keys
  <2>2. \A r \in Request : r \in leftover' => req'[r].op = "put" /\ req'[r].pc # "create"
    BY <1>1, <1>2 DEF Keys
  <2>3. QED
    BY <2>1, <2>2 DEF Keys
<1>12. Alone'
  BY <1>1, <1>2, <1>4, <1>5 DEF Alone
<1>13. Persisting'
  BY <1>1, <1>2, <1>4, <1>7, <1>8 DEF Persisting
<1>14. Finds'
  BY <1>1, <1>4, <1>8 DEF Finds
<1>15. Unkeyed'
  BY <1>1, <1>2, <1>3 DEF Unkeyed
<1>16. \A op : \A r \in Request : Pending(op, r)' <=> Pending(op, r)
  BY <1>2 DEF Pending
<1>17. Keyed'
  BY <1>2, <1>3, <1>16, Numbers DEF Keyed
<1>18. Ordered'
  BY <1>2, <1>7 DEF Ordered
<1>19. Coming'
  BY <1>2, <1>3, <1>5, <1>7, <1>16, Numbers DEF Coming, NoRow
<1>20. Word'
  <2>1. n \notin leftover /\ ~Doomed(n)
    BY <1>4, Numbers DEF Keys, Doomed
  <2>2. \A m \in Request : Spawned(m)' => m <= n
    BY <1>4, <1>6, Numbers DEF Spawned
  <2>3. QED
    BY <1>1, <1>2, <1>6, <1>7, <2>1, <2>2 DEF Word
<1>21. Reversed' /\ Undone'
  BY <1>2 DEF Reversed, Undone
<1>22. QED
  BY <1>9, <1>10, <1>11, <1>12, <1>13, <1>14, <1>15, <1>17, <1>18, <1>19, <1>20, <1>21

(* A star that wrote no row: where there is a relay its record will bring one. *)
LEMMA UnseenMirror ==
  ASSUME TypeOK, Mirror, Orderly, UNCHANGED <<kind, calm, relayed>>, NEW n \in Request,
         StarUnseen(n)
  PROVE  Mirror'
<1> USE DEF Mirror
<1>1. /\ \A m \in Request \ {n} :
           /\ req'[m].op = req[m].op /\ req'[m].id = req[m].id
           /\ req'[m].rkey = req[m].rkey /\ req'[m].pc = req[m].pc
      /\ req'[n].op = "put" /\ req'[n].pc = "put" /\ req'[n].id = lastId + 1 /\ req'[n].rkey = 0
  BY DEF StarUnseen, TypeOK
<1>2. /\ UNCHANGED <<row, pds, log, pos, saved, page, stale>>
      /\ wanted' = TRUE /\ row = NoRow /\ lastId' = lastId + 1 /\ kind = "star"
      /\ unbacked \subseteq unbacked' /\ (~relayed => lastId + 1 \in unbacked')
      /\ leftover \subseteq leftover' /\ leftover' \subseteq leftover \union {n}
      /\ relayed => leftover' = leftover
      /\ ~relayed => n \in leftover'
      /\ started' = n /\ n = started + 1
  BY DEF StarUnseen, Begin, remoteVars, consumerVars, backfillVars
<1>3. calm /\ pos = Len(log) /\ \A m \in Request : req[m].pc = "done"
  BY <1>2 DEF StarUnseen, Begin, Idle, Orderly
<1>4. req[n].op = "none" /\ ~PutDone(n) /\ n \notin leftover /\ ~Doomed(n)
  BY <1>2, <1>3, Numbers DEF Courses, PutDone, Spawned, Keys, Doomed
<1>5. /\ \A m \in Request : (Spawned(m)' <=> Spawned(m) \/ m = n)
      /\ \A m \in Request : (PutDone(m)' <=> PutDone(m))
      /\ \A m \in Request : req[m].op # "none" => m <= n
  <2>1. lastId + 1 # 0
    BY Numbers
  <2>2. \A m \in Request : (Spawned(m)' <=> Spawned(m) \/ m = n)
    BY <1>1, <1>4, <2>1 DEF Spawned
  <2>3. \A m \in Request : (PutDone(m)' <=> PutDone(m))
    BY <1>1, <1>4, <2>2 DEF PutDone
  <2>4. \A m \in Request : req[m].op # "none" => m <= n
    BY <1>2, Numbers DEF Courses
  <2>5. QED
    BY <2>2, <2>3, <2>4
<1>6. \A m \in Request : (Doomed(m)' <=> Doomed(m)) /\ (Dead(m)' <=> Dead(m)) /\ (Live(m)' => Live(m))
  <2>1. \A m \in Request : Doomed(m)' <=> Doomed(m)
    BY <1>1, <1>3 DEF Doomed
  <2>2. QED
    BY <1>2, <2>1 DEF Dead, Live
<1>7. \A op : \A m \in Request : Pending(op, m)' <=> Pending(op, m)
  BY <1>2 DEF Pending
<1>8. Rows' /\ Told' /\ Persisting' /\ Finds' /\ Unkeyed'
  <2>1. Rows' /\ Finds' /\ Unkeyed'
    BY <1>2 DEF Rows, Finds, Unkeyed, NoRow, Addressed
  <2>2. Told'
    BY <1>2 DEF Told
  <2>3. Persisting'
    BY <1>1, <1>3 DEF Persisting
  <2>4. QED
    BY <2>1, <2>2, <2>3
<1>9. Courses'
  <2>1. \A m \in Request : m > started' => m > started /\ m # n
    BY <1>2, Numbers
  <2>2. QED
    BY <1>1, <1>2, <1>5, <2>1 DEF Courses
<1>10. Keys'
  <2>1. ASSUME NEW m \in Request
        PROVE  /\ m \in pds' \union page' \/ row'.rkey = m => PutDone(m)'
               /\ \A k \in Request : req'[k].rkey = m => PutDone(m)'
               /\ \A i \in 1..Len(log') : log'[i].rkey = m => PutDone(m)'
    <3>1. m # 0
      BY Numbers
    <3>2. \A k \in Request : req'[k].rkey = m => req[k].rkey = m
      BY <1>1, <3>1
    <3>3. QED
      BY <1>2, <1>5, <3>2 DEF Keys
  <2>2. \A m \in Request : m \in leftover' => req'[m].op = "put" /\ req'[m].pc # "create"
    BY <1>1, <1>2 DEF Keys
  <2>3. QED
    BY <2>1, <2>2 DEF Keys
<1>11. Alone'
  <2>1. \A m \in Request : req'[m].pc # "done" => m = n
    BY <1>1, <1>3
  <2>2. ~\E i \in pos' + 1..Len(log') : TRUE
    BY <1>2, <1>3, Numbers
  <2>3. QED
    BY <1>1, <1>2, <2>1, <2>2 DEF Alone
<1>12. Keyed' /\ Undone' /\ Reversed'
  BY <1>2, <1>7 DEF Keyed, Undone, Reversed
<1>13. Ordered' /\ Coming'
  BY <1>2, <1>6, <1>7 DEF Ordered, Coming
<1>14. Word'
  <2>1. Spawned(n)' /\ \A m \in Request : Spawned(m)' => m <= n
    BY <1>1, <1>5, Numbers DEF Spawned
  <2>2. \/ req'[n].id \in unbacked'
        \/ n \notin leftover' /\ ~Doomed(n)' /\ req'[n].pc = "put"
    BY <1>1, <1>2, <1>4, <1>6
  <2>3. QED
    BY <2>1, <2>2 DEF Word
<1>15. QED
  BY <1>8, <1>9, <1>10, <1>11, <1>12, <1>13, <1>14

(* A subscription that is asked for has no row and no goroutine yet. *)
LEMMA SubscribeMirror ==
  ASSUME TypeOK, Mirror, Orderly, UNCHANGED <<kind, calm, relayed>>, NEW n \in Request,
         Subscribe(n)
  PROVE  Mirror'
<1> USE DEF Mirror
<1>1. /\ \A m \in Request \ {n} :
           /\ req'[m].op = req[m].op /\ req'[m].id = req[m].id
           /\ req'[m].rkey = req[m].rkey /\ req'[m].pc = req[m].pc
      /\ req'[n].op = "put" /\ req'[n].pc = "create" /\ req'[n].id = 0 /\ req'[n].rkey = 0
  BY DEF Subscribe, TypeOK
<1>2. /\ UNCHANGED <<row, lastId, pds, log, pos, saved, page, wanted, unbacked, leftover, stale>>
      /\ row = NoRow /\ kind = "subscription" /\ calm
      /\ started' = n /\ n = started + 1
      /\ pos = Len(log) /\ \A m \in Request : req[m].pc = "done"
  BY DEF Subscribe, localVars, remoteVars, consumerVars, backfillVars, history, Begin, Orderly, Idle
<1>3. req[n].op = "none" /\ n \notin leftover
  BY <1>2, Numbers DEF Courses, Keys
<1>4. \A m \in Request :
        (Spawned(m)' <=> Spawned(m)) /\ (PutDone(m)' <=> PutDone(m)) /\ (Doomed(m)' <=> Doomed(m))
  <2>1. \A m \in Request : (Spawned(m)' <=> Spawned(m)) /\ (PutDone(m)' <=> PutDone(m))
    BY <1>1, <1>3 DEF Spawned, PutDone
  <2>2. \A m \in Request : Doomed(m)' <=> Doomed(m)
    BY <1>1, <1>2 DEF Doomed
  <2>3. QED
    BY <2>1, <2>2
<1>5. Rows' /\ Keyed' /\ Ordered' /\ Coming' /\ Word' /\ Reversed' /\ Undone'
  BY <1>1, <1>2, <1>3, <1>4, Quiet DEF Spawned
<1>6. Courses'
  <2>1. \A m \in Request : m > started' => m > started /\ m # n
    BY <1>2, Numbers
  <2>2. QED
    BY <1>1, <1>2, <1>4, <2>1 DEF Courses
<1>7. Keys'
  BY <1>1, <1>2, <1>3, <1>4, Numbers DEF Keys
<1>8. Told'
  BY <1>2 DEF Told
<1>9. Alone'
  <2>1. \A m \in Request : req'[m].pc # "done" => m = n
    BY <1>1, <1>2
  <2>2. ~\E i \in pos' + 1..Len(log') : TRUE
    BY <1>2, Numbers
  <2>3. QED
    BY <1>1, <1>2, <2>1, <2>2 DEF Alone
<1>10. Persisting' /\ Finds' /\ Unkeyed'
  BY <1>1, <1>2 DEF Persisting, Finds, Unkeyed
<1>11. QED
  BY <1>5, <1>6, <1>7, <1>8, <1>9, <1>10

(* A removal that has read the rkey has not touched anything yet. *)
LEMMA ReadMirror ==
  ASSUME TypeOK, Mirror, Orderly, UNCHANGED <<kind, calm, relayed>>, NEW n \in Request,
         ReadRkey(n)
  PROVE  Mirror'
<1> USE DEF Mirror
<1>1. /\ \A m \in Request \ {n} :
           /\ req'[m].op = req[m].op /\ req'[m].id = req[m].id
           /\ req'[m].rkey = req[m].rkey /\ req'[m].pc = req[m].pc
      /\ req'[n].op = "remove" /\ req'[n].pc = "drop"
      /\ req'[n].id = row.id /\ req'[n].rkey = row.rkey
  BY DEF ReadRkey, TypeOK
<1>2. /\ UNCHANGED <<row, lastId, pds, log, pos, saved, page, wanted, unbacked, leftover, stale>>
      /\ started' = n /\ n = started + 1
      /\ calm => pos = Len(log) /\ \A m \in Request : req[m].pc = "done"
  BY DEF ReadRkey, localVars, remoteVars, consumerVars, backfillVars, history, Begin, Idle
<1>3. req[n].op = "none" /\ req[n].pc = "done" /\ n \notin leftover
  BY <1>2, Numbers DEF Courses, Keys
<1>4. \A m \in Request :
        (Spawned(m)' <=> Spawned(m)) /\ (PutDone(m)' <=> PutDone(m)) /\ (Doomed(m)' <=> Doomed(m))
  <2>1. \A m \in Request : (Spawned(m)' <=> Spawned(m)) /\ (PutDone(m)' <=> PutDone(m))
    BY <1>1, <1>3 DEF Spawned, PutDone
  <2>2. \A m \in Request : Doomed(m)' <=> Doomed(m)
    BY <1>1, <1>3 DEF Doomed
  <2>3. QED
    BY <2>1, <2>2
<1>5. Rows' /\ Keyed' /\ Ordered' /\ Coming' /\ Word' /\ Reversed' /\ Undone'
  BY <1>1, <1>2, <1>3, <1>4, Quiet DEF Spawned
<1>6. Courses'
  <2>1. \A m \in Request : m > started' => m > started /\ m # n
    BY <1>2, Numbers
  <2>2. QED
    BY <1>1, <1>2, <1>4, <2>1 DEF Courses
<1>7. Keys'
  <2>1. ASSUME NEW r \in Request, NEW m \in Request, req'[m].rkey = r PROVE PutDone(r)'
    BY <1>1, <1>4, <2>1 DEF Keys
  <2>2. \A r \in Request : r \in leftover' => req'[r].op = "put" /\ req'[r].pc # "create"
    BY <1>1, <1>2, <1>3 DEF Keys
  <2>3. QED
    BY <1>2, <1>4, <2>1, <2>2 DEF Keys
<1>8. Told'
  BY <1>2 DEF Told
<1>9. Alone'
  <2>1. calm => \A m \in Request : req'[m].pc # "done" => m = n
    BY <1>1, <1>2
  <2>2. calm => ~\E i \in pos' + 1..Len(log') : TRUE
    BY <1>2, Numbers
  <2>3. QED
    BY <1>1, <1>2, <2>1, <2>2 DEF Alone, NoRow
<1>10. Persisting' /\ Finds'
  BY <1>1, <1>2, <1>3, <1>4 DEF Persisting, Finds, Addressed
<1>11. Unkeyed'
  BY <1>1, <1>2, <1>3 DEF Unkeyed
<1>12. QED
  BY <1>5, <1>6, <1>7, <1>8, <1>9, <1>10, <1>11

(* The PDS has the record: its event, where there is a relay, is the log's last. *)
LEMMA PutMirror ==
  ASSUME TypeOK, Mirror, Orderly, UNCHANGED <<kind, calm, relayed>>, NEW n \in Request,
         PutRecord(n) \/ PutUnanswered(n)
  PROVE  Mirror'
<1> USE DEF Mirror
<1>1. PICK pc \in {"persist", "done"} :
        /\ Goto(n, pc)
        /\ pc = "done" => LoseRkey(n)
        /\ unbacked \subseteq unbacked'
  BY DEF PutRecord, PutUnanswered, LoseRkey, history
<1>2. /\ req[n].pc = "put" /\ pds' = pds \union {n} /\ Tell("create", n)
      /\ UNCHANGED <<row, lastId, pos, saved, page, started, wanted, leftover, stale>>
  BY DEF PutRecord, PutUnanswered, localVars, consumerVars, backfillVars, boundVars, history, Fails
<1>3. /\ \A m \in Request :
           /\ req'[m].op = req[m].op /\ req'[m].id = req[m].id /\ req'[m].rkey = req[m].rkey
           /\ m # n => req'[m].pc = req[m].pc
           /\ Spawned(m)' <=> Spawned(m)
      /\ req'[n].pc \in {"persist", "done"}
      /\ req'[n].pc = "done" => LoseRkey(n)
  BY <1>1, Moves
<1>4. /\ Spawned(n) /\ ~PutDone(n) /\ req[n].op = "put"
  BY <1>2 DEF Courses, PutDone, Spawned
<1>5. /\ PutDone(n)' /\ \A m \in Request : m # n => (PutDone(m)' <=> PutDone(m))
  BY <1>3, <1>4 DEF PutDone
<1>6. /\ \A m \in Request : Doomed(m)' <=> Doomed(m)
      /\ ~Doomed(n) /\ n \notin pds /\ row.rkey # n
      /\ \A i \in 1..Len(log) : log[i].rkey # n
  <2>1. \A m \in Request : Doomed(m)' <=> Doomed(m)
    BY <1>2, <1>3 DEF Doomed
  <2>2. ~Doomed(n) /\ n \notin pds /\ row.rkey # n
    BY <1>4 DEF Keys, Doomed
  <2>3. \A i \in 1..Len(log) : log[i].rkey # n
    BY <1>4 DEF Keys
  <2>4. QED
    BY <2>1, <2>2, <2>3
<1>7. /\ \A m \in Request : m # n => (Dead(m)' <=> Dead(m)) /\ (Live(m)' <=> Live(m))
      /\ ~Dead(n)'
  BY <1>2, <1>6 DEF Dead, Live
<1>8. /\ Len(log') \in Nat /\ Len(log) <= Len(log')
      /\ \A i \in 1..Len(log) : log'[i] = log[i]
      /\ \A i \in 1..Len(log') : i \notin 1..Len(log) => log'[i].op = "create" /\ log'[i].rkey = n
      /\ relayed => Len(log) + 1 \in 1..Len(log')
      /\ ~relayed => log' = log
  <2> DEFINE e == [op |-> "create", rkey |-> n]
  <2>1. e \in Event /\ log \in Seq(Event)
    BY DEF Event, TypeOK
  <2>2. e.op = "create" /\ e.rkey = n /\ log' = IF relayed THEN Append(log, e) ELSE log
    BY <1>2 DEF Tell
  <2> HIDE DEF e
  <2>3. CASE relayed
    BY <2>1, <2>2, <2>3
  <2>4. CASE ~relayed
    BY <2>1, <2>2, <2>4
  <2>5. QED
    BY <2>3, <2>4
<1>9. \A op : \A r \in Request : Pending(op, r) => Pending(op, r)'
  BY <1>2, <1>8, Numbers DEF Pending
<1>10. relayed => Pending("create", n)'
  BY <1>2, <1>8, Numbers DEF Pending
<1>11. Rows' /\ Persisting' /\ Finds'
  <2>1. Rows'
    BY <1>2 DEF Rows
  <2>2. Persisting'
    BY <1>2, <1>3, <1>6 DEF Persisting, Addressed
  <2>3. Finds'
    BY <1>2, <1>3, <1>4 DEF Finds, Addressed
  <2>4. QED
    BY <2>1, <2>2, <2>3
<1>12. Courses'
  BY <1>2, <1>3, <1>4 DEF Courses
<1>13. Keys'
  <2>1. ASSUME NEW r \in Request
        PROVE  /\ r \in pds' \union page' \/ row'.rkey = r => PutDone(r)'
               /\ \A m \in Request : req'[m].rkey = r => PutDone(r)'
               /\ r \in leftover' => req'[r].op = "put" /\ req'[r].pc # "create"
    BY <1>2, <1>3, <1>5 DEF Keys
  <2>2. ASSUME NEW r \in Request, NEW i \in 1..Len(log'), log'[i].rkey = r PROVE PutDone(r)'
    BY <1>5, <1>8, <2>2 DEF Keys
  <2>3. QED
    BY <2>1, <2>2 DEF Keys
<1>14. Told'
  <2>1. CASE relayed
    <3>1. \A r \in pds' : \E i \in 1..Len(log') : log'[i].op = "create" /\ log'[i].rkey = r
      <4>1. ASSUME NEW r \in pds
            PROVE  \E i \in 1..Len(log') : log'[i].op = "create" /\ log'[i].rkey = r
        <5>1. PICK i \in 1..Len(log) : log[i].op = "create" /\ log[i].rkey = r
          BY <2>1 DEF Told
        <5>2. i \in 1..Len(log') /\ log'[i] = log[i]
          BY <1>8, <5>1, Numbers
        <5>3. QED
          BY <5>1, <5>2
      <4>2. Len(log) + 1 \notin 1..Len(log)
        BY Numbers
      <4>3. \E i \in 1..Len(log') : log'[i].op = "create" /\ log'[i].rkey = n
        BY <1>8, <2>1, <4>2
      <4>4. QED
        BY <1>2, <4>1, <4>3
    <3>2. \A i \in 1..Len(log') : log'[i].op = "delete" => log'[i].rkey \notin pds'
      BY <1>2, <1>6, <1>8 DEF Told
    <3>3. ASSUME NEW i \in 1..Len(log'), log'[i].op = "create", log'[i].rkey \notin pds'
          PROVE  \E k \in i + 1..Len(log') : log'[k].op = "delete" /\ log'[k].rkey = log'[i].rkey
      <4>1. i \in 1..Len(log) /\ log'[i] = log[i] /\ log[i].rkey \notin pds
        BY <1>2, <1>8, <3>3
      <4>2. PICK k \in i + 1..Len(log) : log[k].op = "delete" /\ log[k].rkey = log[i].rkey
        BY <3>3, <4>1 DEF Told
      <4>3. k \in i + 1..Len(log') /\ log'[k] = log[k]
        BY <1>8, <4>1, <4>2, Numbers
      <4>4. QED
        BY <4>1, <4>2, <4>3
    <3>4. QED
      BY <1>2, <2>1, <3>1, <3>2, <3>3 DEF Told
  <2>2. CASE ~relayed
    BY <1>2, <1>8, <2>2 DEF Told
  <2>3. QED
    BY <2>1, <2>2
<1>15. Alone'
  <2>1. ASSUME calm, NEW m \in Request, req'[m].pc # "done"
        PROVE  /\ m = n /\ m = started' /\ req'[m].op = "put"
               /\ row' # NoRow \/ (kind = "star" /\ (relayed \/ n \in leftover))
    BY <1>2, <1>3, <1>4, <2>1 DEF Alone, NoRow
  <2>2. ASSUME calm, NEW i \in pos' + 1..Len(log') PROVE log'[i].op = "create"
    BY <1>2, <1>4, <1>8, <2>2, Numbers DEF Alone
  <2>3. QED
    BY <1>2, <1>3, <2>1, <2>2 DEF Alone, NoRow
<1>16. Unkeyed'
  <2> SUFFICES ASSUME row # NoRow, row.rkey = 0, row.id \notin unbacked' \union stale
               PROVE  \/ \E m \in Request : req'[m].id = row.id /\ req'[m].pc = "put"
                      \/ relayed /\ \E i \in pos + 1..Len(log') : log'[i].op = "create"
                      \/ ~relayed /\ \E m \in Request : req'[m].id = row.id /\ req'[m].pc = "persist"
    BY <1>2 DEF Unkeyed, NoRow
  <2>1. CASE relayed
    BY <1>8, <2>1, Numbers
  <2>2. CASE ~relayed
    <3>1. PICK m \in Request : req[m].id = row.id /\ req[m].pc \in {"put", "persist"}
      BY <1>1, <2>2 DEF Unkeyed
    <3>2. CASE m # n
      BY <1>3, <2>2, <3>1, <3>2
    <3>3. CASE m = n
      BY <1>3, <2>2, <3>1, <3>3 DEF LoseRkey
    <3>4. QED
      BY <3>2, <3>3
  <2>3. QED
    BY <2>1, <2>2
<1>17. Keyed'
  BY <1>2, <1>9 DEF Keyed
<1>18. Ordered'
  <2> SUFFICES ASSUME stale = {}, NEW i \in 1..Len(log'), NEW d \in Request, NEW s \in Request,
                      log'[i].op = "create", log'[i].rkey = d, Dead(d)', Live(s)'
               PROVE  \E k \in i + 1..Len(log') : log'[k].op = "create" /\ log'[k].rkey = s
    BY <1>2 DEF Ordered
  <2>1. i \in 1..Len(log) /\ d # n /\ Dead(d) /\ log'[i] = log[i] /\ relayed
    BY <1>7, <1>8 DEF Told
  <2>2. CASE s = n
    BY <1>8, <2>1, <2>2, Numbers
  <2>3. CASE s # n
    <3>1. PICK k \in i + 1..Len(log) : log[k].op = "create" /\ log[k].rkey = s
      BY <1>7, <2>1, <2>3 DEF Ordered
    <3>2. k \in i + 1..Len(log') /\ log'[k] = log[k]
      BY <1>8, <2>1, <3>1, Numbers
    <3>3. QED
      BY <3>1, <3>2
  <2>4. QED
    BY <2>2, <2>3
<1>19. Coming'
  <2> SUFFICES ASSUME stale = {}, NEW d \in Request, NEW s \in Request,
                      row = NoRow \/ (row.rkey = d /\ Dead(d)'), Live(s)'
               PROVE  Pending("create", s)'
    BY <1>2 DEF Coming, NoRow
  <2>1. row = NoRow \/ (row.rkey = d /\ Dead(d))
    BY <1>6, <1>7
  <2>2. CASE s # n
    BY <1>7, <1>9, <2>1, <2>2 DEF Coming
  <2>3. CASE s = n /\ relayed
    BY <1>10, <2>3
  <2>4. CASE ~relayed
    <3>1. /\ calm /\ \A m \in Request : req[m].pc # "done" => m = n
          /\ row # NoRow \/ n \in leftover
      BY <1>2, <2>4 DEF Orderly, Alone
    <3>5. row # NoRow \/ s # n
      BY <1>2, <3>1 DEF Live
    <3>2. ~Doomed(d)
      BY <1>2, <3>1 DEF Doomed
    <3>3. row # NoRow => d \notin pds /\ ~Pending("delete", d)
      BY <2>1, <2>4, <3>1, <3>2, Numbers DEF Dead, Told, Pending
    <3>4. CASE s = n
      BY <2>1, <3>3, <3>4, <3>5 DEF Keyed
    <3>6. QED
      BY <2>2, <3>4
  <2>5. QED
    BY <2>2, <2>3, <2>4
<1>20. Word'
  BY <1>1, <1>2, <1>3, <1>6 DEF Word
<1>21. Reversed'
  BY <1>2, <1>3, <1>4, <1>5, <1>6 DEF Reversed
<1>22. Undone'
  BY <1>2, <1>6, <1>9 DEF Undone, NoRow
<1>23. QED
  BY <1>11, <1>12, <1>13, <1>14, <1>15, <1>16, <1>17, <1>18, <1>19, <1>20, <1>21, <1>22

(* The put has failed: the row stays without a record. *)
LEMMA PutFailsMirror ==
  ASSUME TypeOK, Mirror, Orderly, UNCHANGED <<kind, calm, relayed>>, NEW n \in Request,
         PutFails(n)
  PROVE  Mirror'
<1> USE DEF Mirror
<1>1. /\ req[n].pc = "put" /\ unbacked' = unbacked \union {req[n].id}
      /\ UNCHANGED <<row, lastId, pds, log, pos, saved, page, started, wanted, leftover, stale>>
  BY DEF PutFails, localVars, remoteVars, consumerVars, backfillVars, Fails
<1>2. /\ \A m \in Request :
           /\ req'[m].op = req[m].op /\ req'[m].id = req[m].id /\ req'[m].rkey = req[m].rkey
           /\ m # n => req'[m].pc = req[m].pc
           /\ Spawned(m)' <=> Spawned(m)
      /\ req'[n].pc = "done"
  BY Moves DEF PutFails
<1>3. \A m \in Request : PutDone(m) => PutDone(m)'
  BY <1>1, <1>2 DEF PutDone
<1>4. /\ \A m \in Request : Doomed(m)' <=> Doomed(m)
      /\ \A m \in Request : (Dead(m)' <=> Dead(m)) /\ (Live(m)' <=> Live(m))
  <2>1. \A m \in Request : Doomed(m)' <=> Doomed(m)
    BY <1>1, <1>2 DEF Doomed
  <2>2. QED
    BY <1>1, <2>1 DEF Dead, Live
<1>5. \A op : \A r \in Request : Pending(op, r)' <=> Pending(op, r)
  BY <1>1 DEF Pending
<1>6. Rows' /\ Told'
  <2>1. Rows'
    BY <1>1 DEF Rows
  <2>2. Told'
    BY <1>1 DEF Told
  <2>3. QED
    BY <2>1, <2>2
<1>7. Courses'
  BY <1>1, <1>2 DEF Courses
<1>8. Keys'
  <2>1. ASSUME NEW r \in Request
        PROVE  /\ r \in pds' \union page' \/ row'.rkey = r => PutDone(r)'
               /\ \A m \in Request : req'[m].rkey = r => PutDone(r)'
               /\ r \in leftover' => req'[r].op = "put" /\ req'[r].pc # "create"
    BY <1>1, <1>2, <1>3 DEF Keys
  <2>2. \A r \in Request : \A i \in 1..Len(log') : log'[i].rkey = r => PutDone(r)'
    BY <1>1, <1>3 DEF Keys
  <2>3. QED
    BY <2>1, <2>2 DEF Keys
<1>9. Alone'
  BY <1>1, <1>2 DEF Alone, NoRow
<1>10. Persisting' /\ Finds'
  BY <1>1, <1>2, <1>4 DEF Persisting, Finds, Addressed
<1>11. Unkeyed'
  BY <1>1, <1>2 DEF Unkeyed, NoRow
<1>12. Keyed' /\ Ordered'
  BY <1>1, <1>4, <1>5 DEF Keyed, Ordered
<1>13. Coming'
  BY <1>1, <1>4, <1>5 DEF Coming
<1>14. Word'
  BY <1>1, <1>2, <1>4 DEF Word
<1>15. Reversed'
  BY <1>1, <1>2, <1>3, <1>4 DEF Reversed
<1>16. Undone'
  BY <1>1, <1>4, <1>5 DEF Undone
<1>17. QED
  BY <1>6, <1>7, <1>8, <1>9, <1>10, <1>11, <1>12, <1>13, <1>14, <1>15, <1>16

(* The rkey is stored in the row, if the row is still there, or it is lost. *)
LEMMA PersistMirror ==
  ASSUME TypeOK, Mirror, Orderly, UNCHANGED <<kind, calm, relayed>>, NEW n \in Request,
         PersistRkey(n) \/ PersistFails(n)
  PROVE  Mirror'
<1> USE DEF Mirror
<1>1. /\ req[n].pc = "persist" /\ unbacked \subseteq unbacked'
      /\ \/ row' = row /\ ~Addressed(n)
         \/ row' = row /\ LoseRkey(n)
         \/ /\ row # NoRow /\ Addressed(n) /\ row'.id = row.id /\ row'.rkey = n
      /\ UNCHANGED <<lastId, pds, log, pos, saved, page, started, wanted, leftover, stale>>
  BY DEF PersistRkey, PersistFails, SetRkey, Addressed, localVars, remoteVars, consumerVars,
         backfillVars, boundVars, history, Fails, LoseRkey, TypeOK
<1>2. /\ \A m \in Request :
           /\ req'[m].op = req[m].op /\ req'[m].id = req[m].id /\ req'[m].rkey = req[m].rkey
           /\ m # n => req'[m].pc = req[m].pc
           /\ Spawned(m)' <=> Spawned(m)
      /\ req'[n].pc = "done"
  BY Moves DEF PersistRkey, PersistFails
<1>3. \A m \in Request : PutDone(m)' <=> PutDone(m)
  BY <1>1, <1>2 DEF PutDone
<1>4. /\ \A m \in Request : Doomed(m)' <=> Doomed(m)
      /\ \A m \in Request : (Dead(m)' <=> Dead(m)) /\ (Live(m)' <=> Live(m))
  <2>1. \A m \in Request : Doomed(m)' <=> Doomed(m)
    BY <1>1, <1>2 DEF Doomed
  <2>2. QED
    BY <1>1, <2>1 DEF Dead, Live
<1>5. \A op : \A r \in Request : Pending(op, r)' <=> Pending(op, r)
  BY <1>1 DEF Pending
<1>6. Spawned(n) /\ PutDone(n) /\ n # 0
  BY <1>1, Numbers DEF Courses, PutDone
<1>7. Told' /\ Courses' /\ Ordered'
  <2>1. Told'
    BY <1>1 DEF Told
  <2>2. Courses'
    BY <1>1, <1>2 DEF Courses
  <2>3. Ordered'
    BY <1>1, <1>4 DEF Ordered
  <2>4. QED
    BY <2>1, <2>2, <2>3
<1>8. Keys'
  <2>1. ASSUME NEW r \in Request
        PROVE  /\ r \in pds' \union page' \/ row'.rkey = r => PutDone(r)'
               /\ \A m \in Request : req'[m].rkey = r => PutDone(r)'
               /\ r \in leftover' => req'[r].op = "put" /\ req'[r].pc # "create"
    BY <1>1, <1>2, <1>3, <1>6 DEF Keys
  <2>2. \A r \in Request : \A i \in 1..Len(log') : log'[i].rkey = r => PutDone(r)'
    BY <1>1, <1>3 DEF Keys
  <2>3. QED
    BY <2>1, <2>2 DEF Keys
<1>9. Alone'
  BY <1>1, <1>2, <1>6, Numbers DEF Alone, NoRow
<1>10. Word' /\ Reversed'
  BY <1>1, <1>2, <1>3, <1>4 DEF Word, Reversed
<1>11. CASE row' = row
  <2>1. Rows' /\ Persisting' /\ Finds'
    BY <1>1, <1>2, <1>4, <1>11 DEF Rows, Persisting, Finds, Addressed
  <2>2. Unkeyed'
    <3> SUFFICES ASSUME row # NoRow, row.rkey = 0, row.id \notin unbacked' \union stale
                 PROVE  \/ \E m \in Request : req'[m].id = row.id /\ req'[m].pc = "put"
                        \/ relayed /\ \E i \in pos + 1..Len(log) : log[i].op = "create"
                        \/ ~relayed /\ \E m \in Request : req'[m].id = row.id /\ req'[m].pc = "persist"
      BY <1>1, <1>11 DEF Unkeyed, NoRow
    <3>1. CASE \E m \in Request : req[m].id = row.id /\ req[m].pc = "put"
      BY <1>1, <1>2, <3>1
    <3>2. CASE relayed /\ \E i \in pos + 1..Len(log) : log[i].op = "create"
      BY <3>2
    <3>3. CASE ~relayed /\ \E m \in Request : req[m].id = row.id /\ req[m].pc = "persist"
      <4>1. PICK m \in Request : req[m].id = row.id /\ req[m].pc = "persist"
        BY <3>3
      <4>2. CASE m # n
        BY <1>2, <3>3, <4>1, <4>2
      <4>3. CASE m = n
        <5>1. Addressed(n)
          BY <4>1, <4>3 DEF Addressed
        <5>2. LoseRkey(n)
          BY <1>1, <1>6, <1>11, <5>1
        <5>3. QED
          BY <3>3, <4>1, <4>3, <5>2 DEF LoseRkey
      <4>4. QED
        BY <4>2, <4>3
    <3>4. QED
      BY <1>1, <3>1, <3>2, <3>3 DEF Unkeyed
  <2>3. Keyed' /\ Coming' /\ Undone'
    BY <1>1, <1>4, <1>5, <1>11 DEF Keyed, Coming, Undone
  <2>4. QED
    BY <1>7, <1>8, <1>9, <1>10, <2>1, <2>2, <2>3
<1>12. CASE row # NoRow /\ Addressed(n) /\ row'.id = row.id /\ row'.rkey = n
  <2>1. n \in pds /\ ~Doomed(n) /\ row' # NoRow
    BY <1>1, <1>6, <1>12 DEF Persisting, NoRow
  <2>2. Rows'
    BY <1>1, <1>12, <2>1, Numbers DEF Rows, NoRow
  <2>3. \A m \in Request : Addressed(m)' <=> Addressed(m)
    BY <1>2, <1>12, <2>1 DEF Addressed
  <2>4. Persisting' /\ Finds'
    <3>1. Persisting'
      BY <1>1, <1>2, <1>4, <2>3 DEF Persisting
    <3>2. calm => \A m \in Request : req'[m].pc = "done"
      BY <1>1, <1>2 DEF Alone
    <3>3. Finds'
      BY <1>2, <2>3, <3>2 DEF Finds
    <3>4. QED
      BY <3>1, <3>3
  <2>5. Unkeyed' /\ Keyed'
    BY <1>1, <1>6, <1>12, <2>1 DEF Unkeyed, Keyed
  <2>6. Coming'
    BY <1>1, <1>4, <1>12, <2>1 DEF Coming, Dead, NoRow
  <2>7. Undone'
    BY <1>1, <1>6, <1>12, <2>1 DEF Undone, Reversed
  <2>8. QED
    BY <1>7, <1>8, <1>9, <1>10, <2>2, <2>4, <2>5, <2>6, <2>7
<1>13. QED
  BY <1>1, <1>11, <1>12

(* The row is dropped: every record is that of the removal, or unknown to it.  *)
LEMMA DropMirror ==
  ASSUME TypeOK, Mirror, Orderly, UNCHANGED <<kind, calm, relayed>>, NEW n \in Request,
         DropRow(n)
  PROVE  Mirror'
<1> USE DEF Mirror
<1>1. /\ req[n].pc = "drop" /\ Goto(n, AfterDrop(n)) /\ AfterDrop(n) \in {"done", "lookup"}
      /\ UNCHANGED <<lastId, pds, log, pos, saved, page, started, unbacked, stale>>
  BY DEF DropRow, AfterDrop, localVars, remoteVars, consumerVars, backfillVars, boundVars
<1>2. /\ \A m \in Request :
           /\ req'[m].op = req[m].op /\ req'[m].id = req[m].id /\ req'[m].rkey = req[m].rkey
           /\ m # n => req'[m].pc = req[m].pc
           /\ Spawned(m)' <=> Spawned(m)
      /\ req'[n].pc = AfterDrop(n)
  BY <1>1, Moves
<1>3. req[n].op = "remove"
  BY <1>1 DEF Courses
<1>4. \A m \in Request : PutDone(m)' <=> PutDone(m)
  BY <1>1, <1>2, <1>3 DEF PutDone, Spawned
<1>5. Told' /\ Courses'
  <2>1. Told'
    BY <1>1 DEF Told
  <2>2. Courses'
    BY <1>1, <1>2, <1>3 DEF Courses
  <2>3. QED
    BY <2>1, <2>2
<1>6. CASE ~Addressed(n) /\ kind = "share"
  <2>1. row' = row /\ leftover' = leftover /\ wanted' = wanted
    BY <1>1, <1>6 DEF DropRow
  <2>2. \/ req'[n].pc = "done"
        \/ req[n].rkey = 0 /\ row = NoRow /\ calm /\ kind # "share"
    BY <1>1, <1>2, <1>6 DEF AfterDrop, Addressed, Alone, Orderly
  <2>3. \A m \in Request : Doomed(m)' <=> Doomed(m)
    <3>1. ~(req[n].pc \in {"lookup", "delete"})
      BY <1>1
    <3>2. \A m \in Request : ~(req'[n].pc \in {"lookup", "delete"} /\ req'[n].rkey = m)
      BY <1>2, <2>2, Numbers
    <3>3. QED
      BY <1>2, <3>1, <3>2 DEF Doomed
  <2>4. Rows' /\ Keyed' /\ Ordered' /\ Coming' /\ Word' /\ Reversed' /\ Undone'
    <3>1. \A m \in Request : Spawned(m) =>
            req'[m].id = req[m].id /\ (req[m].pc = "put" => req'[m].pc = "put")
      BY <1>1, <1>2
    <3>2. QED
      BY <1>1, <1>2, <1>4, <2>1, <2>3, <3>1, Quiet
  <2>5. Keys'
    BY <1>1, <1>2, <1>3, <1>4, <2>1 DEF Keys
  <2>6. Alone'
    BY <1>1, <1>2, <1>3, <2>1, <2>2 DEF Alone, NoRow
  <2>7. Persisting' /\ Finds' /\ Unkeyed'
    <3>1. Persisting'
      BY <1>1, <1>2, <2>1, <2>2, <2>3 DEF Persisting, Addressed
    <3>2. Finds'
      BY <1>1, <1>2, <2>1, <2>2 DEF Finds, Addressed, NoRow
    <3>3. Unkeyed'
      BY <1>1, <1>2, <2>1 DEF Unkeyed, NoRow
    <3>4. QED
      BY <3>1, <3>2, <3>3
  <2>8. QED
    BY <1>5, <2>4, <2>5, <2>6, <2>7
<1>7. CASE Addressed(n) \/ kind # "share"
  <2>1. row' = NoRow /\ leftover' = leftover \union Unknown(n) /\ ~wanted'
    BY <1>1, <1>7 DEF DropRow
  <2>2. \A m \in Request : Spawned(m) => m \in leftover' \/ Doomed(m)'
    <3> SUFFICES ASSUME NEW m \in Request, Spawned(m), m \notin leftover' PROVE Doomed(m)'
      OBVIOUS
    <3>1. m = req[n].rkey /\ m # 0
      BY <2>1, Numbers DEF Unknown, Spawned
    <3>2. req'[n].pc = "lookup" /\ req'[n].rkey = m
      BY <1>2, <1>7, <3>1 DEF AfterDrop
    <3>3. QED
      BY <3>2 DEF Doomed
  <2>3. \A m \in Request : ~Live(m)'
    BY <1>1, <2>2 DEF Live, Keys, PutDone
  <2>11. Persisting'
    <3>1. \A m \in Request : req'[m].pc = "persist" => ~Addressed(m)' /\ kind # "star"
      BY <1>1, <1>2, <2>1 DEF Addressed, Orderly, Alone
    <3>2. QED
      BY <3>1 DEF Persisting
  <2>4. Rows' /\ Persisting' /\ Finds' /\ Unkeyed' /\ Word' /\ Undone'
    BY <2>1, <2>11 DEF Rows, Finds, Unkeyed, Word, Undone, Addressed, NoRow
  <2>5. Keyed'
    BY <2>1, Numbers DEF Keyed, NoRow
  <2>6. Keys'
    <3>1. ASSUME NEW r \in Request
          PROVE  /\ r \in pds' \union page' \/ row'.rkey = r => PutDone(r)'
                 /\ \A m \in Request : req'[m].rkey = r => PutDone(r)'
                 /\ \A i \in 1..Len(log') : log'[i].rkey = r => PutDone(r)'
      BY <1>1, <1>2, <1>4, <2>1, Numbers DEF Keys, NoRow
    <3>2. \A m \in Request : req[m].pc # "create"
      BY <1>1, <1>3 DEF Courses, Alone, Orderly
    <3>3. \A r \in Request : r \in leftover' => req'[r].op = "put" /\ req'[r].pc # "create"
      BY <1>1, <1>2, <2>1, <3>2 DEF Keys, Unknown
    <3>4. QED
      BY <3>1, <3>3 DEF Keys
  <2>7. Alone'
    <3>1. ASSUME calm, NEW m \in Request, req'[m].pc # "done"
          PROVE  m = n /\ m = started' /\ pos' = Len(log')
      BY <1>1, <1>2, <3>1 DEF Alone
    <3>2. ASSUME calm, NEW i \in pos' + 1..Len(log') PROVE FALSE
      BY <1>1, <3>2, Numbers DEF Alone
    <3>3. QED
      BY <1>1, <1>2, <3>1, <3>2 DEF Alone
  <2>8. Ordered' /\ Coming'
    BY <2>3 DEF Ordered, Coming
  <2>9. Reversed'
    BY <1>2, <2>2 DEF Reversed
  <2>10. QED
    BY <1>5, <2>4, <2>5, <2>6, <2>7, <2>8, <2>9
<1>8. QED
  BY <1>6, <1>7

(* A goroutine that knows its rkey goes on with it; one that does not finds an *)
(* rkey only in a row that a backfill has brought back.                        *)
LEMMA LookupMirror ==
  ASSUME TypeOK, Mirror, Orderly, UNCHANGED <<kind, calm, relayed>>, NEW n \in Request,
         LookupRkey(n)
  PROVE  Mirror'
<1> USE DEF Mirror
<1> DEFINE k == IF req[n].rkey = 0 /\ Addressed(n) THEN row.rkey ELSE req[n].rkey
<1>1. /\ req[n].pc = "lookup" /\ req[n].op = "remove"
      /\ UNCHANGED <<row, lastId, pds, log, pos, saved, page, started, wanted, unbacked,
                     leftover, stale>>
  BY DEF LookupRkey, Courses, localVars, remoteVars, consumerVars, backfillVars, boundVars, history
<1>2. /\ \A m \in Request :
           /\ req'[m].op = req[m].op /\ req'[m].id = req[m].id
           /\ m # n => req'[m].rkey = req[m].rkey /\ req'[m].pc = req[m].pc
           /\ Spawned(m)' <=> Spawned(m)
      /\ req'[n].rkey = k /\ req'[n].pc = IF k = 0 THEN "done" ELSE "delete"
  <2>1. req' = [req EXCEPT ![n].rkey = k, ![n].pc = IF k = 0 THEN "done" ELSE "delete"]
    BY DEF LookupRkey
  <2> HIDE DEF k
  <2>2. /\ \A m \in Request :
             /\ req'[m].op = req[m].op /\ req'[m].id = req[m].id
             /\ m # n => req'[m].rkey = req[m].rkey /\ req'[m].pc = req[m].pc
        /\ req'[n].rkey = k /\ req'[n].pc = IF k = 0 THEN "done" ELSE "delete"
    BY <2>1 DEF TypeOK
  <2>3. QED
    BY <2>2 DEF Spawned
<1>3. k = req[n].rkey \/ (req[n].rkey = 0 /\ Addressed(n) /\ k = row.rkey)
  OBVIOUS
<1> HIDE DEF k
<1>4. \A m \in Request : PutDone(m)' <=> PutDone(m)
  BY <1>1, <1>2 DEF PutDone, Spawned
<1>5. Told' /\ Courses'
  <2>1. Told'
    BY <1>1 DEF Told
  <2>2. Courses'
    BY <1>1, <1>2 DEF Courses
  <2>3. QED
    BY <2>1, <2>2
<1>6. Keys'
  <2>1. ASSUME NEW r \in Request, NEW m \in Request, req'[m].rkey = r PROVE PutDone(r)'
    BY <1>2, <1>3, <1>4, <2>1 DEF Keys
  <2>2. QED
    BY <1>1, <1>2, <1>4, <2>1 DEF Keys
<1>7. Alone'
  BY <1>1, <1>2 DEF Alone, NoRow
<1>8. Unkeyed'
  BY <1>1, <1>2 DEF Unkeyed, NoRow
<1>9. CASE k = req[n].rkey
  <2>1. \A m \in Request : Doomed(m)' <=> Doomed(m)
    BY <1>1, <1>2, <1>9, Numbers DEF Doomed
  <2>2. Rows' /\ Keyed' /\ Ordered' /\ Coming' /\ Word' /\ Reversed' /\ Undone'
    <3>1. \A m \in Request : Spawned(m) =>
            req'[m].id = req[m].id /\ (req[m].pc = "put" => req'[m].pc = "put")
      BY <1>1, <1>2
    <3>2. QED
      BY <1>1, <1>2, <1>4, <2>1, <3>1, Quiet
  <2>3. Persisting'
    BY <1>1, <1>2, <2>1 DEF Persisting, Addressed
  <2>4. Finds'
    BY <1>1, <1>2, <1>9 DEF Finds, Addressed, NoRow
  <2>5. QED
    BY <1>5, <1>6, <1>7, <1>8, <2>2, <2>3, <2>4
<1>10. CASE req[n].rkey = 0 /\ Addressed(n)
  <2>1. calm /\ row # NoRow /\ row.id \in stale
    BY <1>1, <1>10 DEF Finds, Orderly, Addressed
  <2>2. \A m \in Request : Doomed(m) => Doomed(m)'
    BY <1>1, <1>2, <1>10, Numbers DEF Doomed
  <2>3. \A op : \A r \in Request : Pending(op, r)' <=> Pending(op, r)
    BY <1>1 DEF Pending
  <2>4. Rows' /\ Ordered' /\ Coming' /\ Word' /\ Undone'
    BY <1>1, <2>1 DEF Rows, Ordered, Coming, Word, Undone
  <2>5. Keyed'
    BY <1>1, <2>1 DEF Keyed
  <2>6. Reversed'
    BY <1>1, <1>2, <1>4, <2>2 DEF Reversed
  <2>7. \A m \in Request : req'[m].pc # "persist"
    BY <1>1, <1>2, <2>1 DEF Alone
  <2>8. Persisting' /\ Finds'
    BY <1>1, <1>2, <2>1, <2>7 DEF Persisting, Finds, Addressed, NoRow
  <2>9. QED
    BY <1>5, <1>6, <1>7, <1>8, <2>4, <2>5, <2>6, <2>8
<1>11. QED
  BY <1>3, <1>9, <1>10

(* The removal gives up on the PDS: its record is left over. *)
LEMMA GivesUpMirror ==
  ASSUME TypeOK, Mirror, Orderly, UNCHANGED <<kind, calm, relayed>>, NEW n \in Request,
         WriterFails(n) \/ DeleteFails(n)
  PROVE  Mirror'
<1> USE DEF Mirror
<1>1. /\ req[n].pc \in {"lookup", "delete"} /\ leftover' = leftover \union {req[n].rkey}
      /\ \E pc \in {"done", "clear"} :
           Goto(n, pc) /\ (pc = "clear" => req[n].pc = "delete" /\ kind \in {"follow", "share"})
      /\ UNCHANGED <<row, lastId, pds, log, pos, saved, page, started, wanted, unbacked, stale>>
  BY DEF WriterFails, DeleteFails, AfterDelete, localVars, remoteVars, consumerVars, backfillVars,
         Fails
<1>2. /\ \A m \in Request :
           /\ req'[m].op = req[m].op /\ req'[m].id = req[m].id /\ req'[m].rkey = req[m].rkey
           /\ m # n => req'[m].pc = req[m].pc
           /\ Spawned(m)' <=> Spawned(m)
      /\ req'[n].pc \in {"done", "clear"}
      /\ req'[n].pc = "clear" => req[n].pc = "delete" /\ kind \in {"follow", "share"}
  BY <1>1, Moves
<1>3. req[n].op = "remove"
  BY <1>1 DEF Courses
<1>4. \A m \in Request : PutDone(m)' <=> PutDone(m)
  BY <1>1, <1>2, <1>3 DEF PutDone, Spawned
<1>5. /\ \A m \in Request : Doomed(m)' => Doomed(m)
      /\ \A m \in Request : Doomed(m) => Doomed(m)' \/ m \in leftover'
      /\ \A m \in Request : m \in leftover' => m \in leftover \/ Doomed(m)
      /\ leftover \subseteq leftover'
  BY <1>1, <1>2 DEF Doomed
<1>6. \A m \in Request : (Dead(m)' => Dead(m)) /\ (Live(m)' => Live(m))
  BY <1>1, <1>5 DEF Dead, Live
<1>7. \A op : \A r \in Request : Pending(op, r)' <=> Pending(op, r)
  BY <1>1 DEF Pending
<1>8. Rows' /\ Told' /\ Courses'
  <2>1. Rows'
    BY <1>1 DEF Rows
  <2>2. Told'
    BY <1>1 DEF Told
  <2>3. Courses'
    BY <1>1, <1>2, <1>3 DEF Courses
  <2>4. QED
    BY <2>1, <2>2, <2>3
<1>9. Keys'
  <2>1. ASSUME NEW r \in Request
        PROVE  /\ r \in pds' \union page' \/ row'.rkey = r => PutDone(r)'
               /\ \A m \in Request : req'[m].rkey = r => PutDone(r)'
               /\ \A i \in 1..Len(log') : log'[i].rkey = r => PutDone(r)'
    BY <1>1, <1>2, <1>4 DEF Keys
  <2>2. ASSUME NEW r \in Request, r \in leftover'
        PROVE  req'[r].op = "put" /\ req'[r].pc # "create"
    <3>1. CASE r \in leftover
      BY <1>2, <3>1 DEF Keys
    <3>2. CASE r = req[n].rkey
      <4>1. PutDone(r)
        BY <3>2 DEF Keys
      <4>2. QED
        BY <1>2, <4>1 DEF PutDone, Spawned
    <3>3. QED
      BY <1>1, <2>2, <3>1, <3>2
  <2>3. QED
    BY <2>1, <2>2 DEF Keys
<1>10. Alone'
  BY <1>1, <1>2, <1>3 DEF Alone, NoRow
<1>11. Persisting' /\ Unkeyed'
  <2>1. Persisting'
    BY <1>1, <1>2, <1>5 DEF Persisting, Addressed
  <2>2. Unkeyed'
    BY <1>1, <1>2 DEF Unkeyed, NoRow
  <2>3. QED
    BY <2>1, <2>2
<1>12. Finds'
  BY <1>1, <1>2 DEF Finds, Addressed, NoRow
<1>13. Keyed'
  BY <1>1, <1>7 DEF Keyed
<1>14. Ordered'
  BY <1>1, <1>6 DEF Ordered
<1>15. Coming'
  BY <1>1, <1>6, <1>7 DEF Coming
<1>16. Word'
  BY <1>1, <1>2, <1>5 DEF Word
<1>17. Reversed'
  BY <1>1, <1>2, <1>4, <1>5 DEF Reversed
<1>18. Undone'
  BY <1>1, <1>5, <1>7 DEF Undone, NoRow
<1>19. QED
  BY <1>8, <1>9, <1>10, <1>11, <1>12, <1>13, <1>14, <1>15, <1>16, <1>17, <1>18

(* The record is gone: its deletion, where there is a relay, is the log's last. *)
LEMMA DeleteMirror ==
  ASSUME TypeOK, Mirror, Orderly, UNCHANGED <<kind, calm, relayed>>, NEW n \in Request,
         DeleteRecord(n)
  PROVE  Mirror'
<1> USE DEF Mirror
<1>20. PICK r \in Rkey : r = req[n].rkey
  BY Numbers
<1>1. /\ req[n].pc = "delete" /\ pds' = pds \ {r} /\ Goto(n, AfterDelete)
      /\ (r \in pds /\ Tell("delete", r)) \/ (r \notin pds /\ log' = log)
      /\ UNCHANGED <<row, lastId, pos, saved, page, started, wanted, unbacked, leftover, stale>>
  BY <1>20 DEF DeleteRecord, localVars, consumerVars, backfillVars, boundVars, history
<1>2. /\ \A m \in Request :
           /\ req'[m].op = req[m].op /\ req'[m].id = req[m].id /\ req'[m].rkey = req[m].rkey
           /\ m # n => req'[m].pc = req[m].pc
           /\ Spawned(m)' <=> Spawned(m)
      /\ req'[n].pc \in {"done", "clear"}
      /\ req'[n].pc = "clear" => kind \in {"follow", "share"}
  BY <1>1, Moves DEF AfterDelete
<1>3. req[n].op = "remove"
  BY <1>1 DEF Courses
<1>4. \A m \in Request : PutDone(m)' <=> PutDone(m)
  BY <1>1, <1>2, <1>3 DEF PutDone, Spawned
<1>5. /\ \A m \in Request : Doomed(m)' => Doomed(m)
      /\ \A m \in Request : Doomed(m) => Doomed(m)' \/ m = r
      /\ r \in Request => Doomed(r)
  BY <1>1, <1>2, <1>20 DEF Doomed
<1>6. \A m \in Request : (Dead(m)' => Dead(m)) /\ (Live(m)' => Live(m))
  BY <1>1, <1>5 DEF Dead, Live
<1>7. /\ Len(log') \in Nat /\ Len(log) <= Len(log')
      /\ \A i \in 1..Len(log) : log'[i] = log[i]
      /\ \A i \in 1..Len(log') : i \notin 1..Len(log) => log'[i].op = "delete" /\ log'[i].rkey = r
      /\ relayed /\ r \in pds =>
           /\ Len(log) + 1 \in 1..Len(log') /\ Len(log) + 1 \notin 1..Len(log)
      /\ ~relayed => log' = log
      /\ \A i \in 1..Len(log') : i \notin 1..Len(log) => r \in pds
  <2> DEFINE e == [op |-> "delete", rkey |-> r]
  <2>1. CASE r \in pds
    <3>1. e \in Event /\ log \in Seq(Event)
      BY <2>1 DEF Event, TypeOK
    <3>2. e.op = "delete" /\ e.rkey = r /\ log' = IF relayed THEN Append(log, e) ELSE log
      BY <1>1, <2>1 DEF Tell
    <3> HIDE DEF e
    <3>3. CASE relayed
      BY <2>1, <3>1, <3>2, <3>3
    <3>4. CASE ~relayed
      BY <3>1, <3>2, <3>4
    <3>5. QED
      BY <3>3, <3>4
  <2>2. CASE r \notin pds
    BY <1>1, <2>2, Numbers
  <2>3. QED
    BY <2>1, <2>2
<1>8. /\ \A op : \A m \in Request : Pending(op, m) => Pending(op, m)'
      /\ relayed /\ r \in pds => Pending("delete", r)'
  <2>1. \A op : \A m \in Request : Pending(op, m) => Pending(op, m)'
    BY <1>1, <1>7, Numbers DEF Pending
  <2>2. ASSUME relayed, r \in pds PROVE Pending("delete", r)'
    <3>1. /\ Len(log) + 1 \in pos' + 1..Len(log')
          /\ log'[Len(log) + 1].op = "delete" /\ log'[Len(log) + 1].rkey = r
      BY <1>1, <1>7, <2>2, Numbers
    <3>2. QED
      BY <3>1 DEF Pending
  <2>3. QED
    BY <2>1, <2>2
<1>9. Rows' /\ Courses'
  BY <1>1, <1>2, <1>3 DEF Rows, Courses
<1>10. Keys'
  <2>1. ASSUME NEW m \in Request
        PROVE  /\ m \in pds' \union page' \/ row'.rkey = m => PutDone(m)'
               /\ \A x \in Request : req'[x].rkey = m => PutDone(m)'
               /\ m \in leftover' => req'[m].op = "put" /\ req'[m].pc # "create"
    BY <1>1, <1>2, <1>3, <1>4 DEF Keys
  <2>2. ASSUME NEW m \in Request, NEW i \in 1..Len(log'), log'[i].rkey = m PROVE PutDone(m)'
    BY <1>1, <1>4, <1>7, <2>2 DEF Keys
  <2>3. QED
    BY <2>1, <2>2 DEF Keys
<1>11. Told'
  <2>1. CASE relayed
    <3>1. ASSUME NEW m \in pds'
          PROVE  \E i \in 1..Len(log') : log'[i].op = "create" /\ log'[i].rkey = m
      <4>1. PICK i \in 1..Len(log) : log[i].op = "create" /\ log[i].rkey = m
        BY <1>1, <2>1, <3>1 DEF Told
      <4>2. i \in 1..Len(log') /\ log'[i] = log[i]
        BY <1>7, Numbers
      <4>3. QED
        BY <4>1, <4>2
    <3>2. \A i \in 1..Len(log') : log'[i].op = "delete" => log'[i].rkey \notin pds'
      BY <1>1, <1>7 DEF Told
    <3>3. ASSUME NEW i \in 1..Len(log'), log'[i].op = "create", log'[i].rkey \notin pds'
          PROVE  \E k \in i + 1..Len(log') : log'[k].op = "delete" /\ log'[k].rkey = log'[i].rkey
      <4>1. i \in 1..Len(log) /\ log'[i] = log[i]
        BY <1>7, <3>3
      <4>2. CASE log[i].rkey \notin pds
        <5>1. PICK k \in i + 1..Len(log) : log[k].op = "delete" /\ log[k].rkey = log[i].rkey
          BY <3>3, <4>1, <4>2 DEF Told
        <5>2. k \in i + 1..Len(log') /\ log'[k] = log[k]
          BY <1>7, <4>1, <5>1, Numbers
        <5>3. QED
          BY <4>1, <5>1, <5>2
      <4>3. CASE log[i].rkey \in pds
        <5>1. log[i].rkey = r /\ r \in pds
          BY <1>1, <3>3, <4>1, <4>3
        <5>2. /\ Len(log) + 1 \in i + 1..Len(log')
              /\ log'[Len(log) + 1].op = "delete" /\ log'[Len(log) + 1].rkey = r
          BY <1>7, <2>1, <4>1, <5>1, Numbers
        <5>3. QED
          BY <4>1, <5>1, <5>2
      <4>4. QED
        BY <4>2, <4>3
    <3>4. QED
      BY <1>1, <2>1, <3>1, <3>2, <3>3 DEF Told
  <2>2. CASE ~relayed
    BY <1>1, <1>7, <2>2 DEF Told
  <2>3. QED
    BY <2>1, <2>2
<1>12. Alone'
  <2>1. ASSUME calm, NEW m \in Request, req'[m].pc # "done"
        PROVE  m = n /\ m = started' /\ req'[m].op = "remove"
    BY <1>1, <1>2, <1>3, <2>1 DEF Alone
  <2>2. ASSUME calm, NEW i \in pos' + 1..Len(log') PROVE log'[i].op = "delete"
    BY <1>1, <1>3, <1>7, <2>2, Numbers DEF Alone
  <2>3. QED
    BY <1>2, <2>1, <2>2 DEF Alone
<1>13. Persisting' /\ Finds'
  <2>1. Persisting'
    BY <1>1, <1>2, <1>5 DEF Persisting, Addressed
  <2>2. Finds'
    BY <1>1, <1>2 DEF Finds, Addressed, NoRow
  <2>3. QED
    BY <2>1, <2>2
<1>14. Unkeyed'
  <2>1. ASSUME NEW i \in pos + 1..Len(log), log[i].op = "create"
        PROVE  \E k \in pos' + 1..Len(log') : log'[k].op = "create"
    <3>1. i \in pos' + 1..Len(log') /\ log'[i] = log[i]
      BY <1>1, <1>7, Numbers
    <3>2. QED
      BY <2>1, <3>1
  <2>2. \A m \in Request : req[m].pc \in {"put", "persist"} => req'[m].pc = req[m].pc
    BY <1>1, <1>2
  <2>3. QED
    BY <1>1, <1>2, <2>1, <2>2 DEF Unkeyed, NoRow
<1>15. row # NoRow /\ row.rkey = r /\ r \in Request =>
         row.id \in stale \/ Pending("delete", r)'
  <2> SUFFICES ASSUME row # NoRow, row.rkey = r, r \in Request, row.id \notin stale
               PROVE  Pending("delete", r)'
    OBVIOUS
  <2>1. CASE r \in pds
    <3>1. relayed
      BY <1>1, <1>20 DEF Finds, Orderly
    <3>2. QED
      BY <1>8, <2>1, <3>1
  <2>2. CASE r \notin pds
    BY <1>8, <2>2 DEF Keyed
  <2>3. QED
    BY <2>1, <2>2
<1>16. Keyed'
  <2>1. ASSUME NEW m \in Request, row.rkey = m
        PROVE  m \in pds' \/ row.id \in stale \/ Pending("delete", m)'
    <3>1. row # NoRow
      BY <2>1, Numbers DEF NoRow
    <3>2. QED
      BY <1>1, <1>8, <1>15, <2>1, <3>1 DEF Keyed
  <2>2. QED
    BY <1>1, <2>1 DEF Keyed
<1>17. Ordered'
  <2> SUFFICES ASSUME stale = {}, NEW i \in 1..Len(log'), NEW d \in Request, NEW s \in Request,
                      log'[i].op = "create", log'[i].rkey = d, Dead(d)', Live(s)'
               PROVE  \E k \in i + 1..Len(log') : log'[k].op = "create" /\ log'[k].rkey = s
    BY <1>1 DEF Ordered
  <2>1. i \in 1..Len(log) /\ Dead(d) /\ Live(s) /\ log'[i] = log[i]
    BY <1>6, <1>7
  <2>2. PICK k \in i + 1..Len(log) : log[k].op = "create" /\ log[k].rkey = s
    BY <2>1 DEF Ordered
  <2>3. k \in i + 1..Len(log') /\ log'[k] = log[k]
    BY <1>7, <2>1, <2>2, Numbers
  <2>4. QED
    BY <2>2, <2>3
<1>18. Coming' /\ Word' /\ Reversed'
  <2>1. Coming'
    BY <1>1, <1>6, <1>8 DEF Coming
  <2>2. Word'
    BY <1>1, <1>2, <1>3, <1>5 DEF Word
  <2>3. Reversed'
    BY <1>1, <1>2, <1>4, <1>5, <1>20 DEF Reversed, Keys
  <2>4. QED
    BY <2>1, <2>2, <2>3
<1>19. Undone'
  <2> SUFFICES ASSUME ~wanted, row # NoRow, row.id \notin stale, row.rkey \notin leftover
               PROVE  \E m \in Request : row.rkey = m /\ (Doomed(m)' \/ Pending("delete", m)')
    BY <1>1 DEF Undone, NoRow
  <2>1. PICK m \in Request : row.rkey = m /\ (Doomed(m) \/ Pending("delete", m))
    BY DEF Undone
  <2>2. QED
    BY <1>5, <1>8, <1>15, <2>1
<1>21. QED
  BY <1>9, <1>10, <1>11, <1>12, <1>13, <1>14, <1>16, <1>17, <1>18, <1>19

(* The row that a removal clears is one that a backfill has brought back. *)
LEMMA ClearMirror ==
  ASSUME TypeOK, Mirror, Orderly, UNCHANGED <<kind, calm, relayed>>, NEW n \in Request,
         ClearRkey(n)
  PROVE  Mirror'
<1> USE DEF Mirror
<1>1. /\ req[n].pc = "clear" /\ req[n].op = "remove"
      /\ row' = row \/ (Addressed(n) /\ row # NoRow /\ row'.id = row.id /\ row'.rkey = 0)
      /\ UNCHANGED <<lastId, pds, log, pos, saved, page, started, wanted, unbacked, leftover, stale>>
  BY DEF ClearRkey, SetRkey, Addressed, Courses, localVars, remoteVars, consumerVars, backfillVars,
         boundVars, history, TypeOK
<1>2. /\ \A m \in Request :
           /\ req'[m].op = req[m].op /\ req'[m].id = req[m].id /\ req'[m].rkey = req[m].rkey
           /\ m # n => req'[m].pc = req[m].pc
           /\ Spawned(m)' <=> Spawned(m)
      /\ req'[n].pc = "done"
  BY Moves DEF ClearRkey
<1>3. \A m \in Request :
        (Spawned(m)' <=> Spawned(m)) /\ (PutDone(m)' <=> PutDone(m)) /\ (Doomed(m)' <=> Doomed(m))
  <2>1. \A m \in Request : PutDone(m)' <=> PutDone(m)
    BY <1>1, <1>2 DEF PutDone, Spawned
  <2>2. \A m \in Request : Doomed(m)' <=> Doomed(m)
    BY <1>1, <1>2 DEF Doomed
  <2>3. QED
    BY <1>2, <2>1, <2>2
<1>4. Told' /\ Courses' /\ Reversed'
  <2>1. Told'
    BY <1>1 DEF Told
  <2>2. Courses'
    BY <1>1, <1>2 DEF Courses
  <2>3. Reversed'
    BY <1>1, <1>2, <1>3 DEF Reversed
  <2>4. QED
    BY <2>1, <2>2, <2>3
<1>5. Keys'
  BY <1>1, <1>2, <1>3, Numbers DEF Keys
<1>6. Alone'
  BY <1>1, <1>2, Numbers DEF Alone, NoRow, Rows
<1>7. CASE row' = row
  <2>1. Rows' /\ Keyed' /\ Ordered' /\ Coming' /\ Word' /\ Reversed' /\ Undone'
    <3>1. \A m \in Request : Spawned(m) =>
            req'[m].id = req[m].id /\ (req[m].pc = "put" => req'[m].pc = "put")
      BY <1>1, <1>2
    <3>2. QED
      BY <1>1, <1>2, <1>3, <1>7, <3>1, Quiet
  <2>2. Persisting' /\ Finds'
    BY <1>1, <1>2, <1>3, <1>7 DEF Persisting, Finds, Addressed
  <2>3. Unkeyed'
    BY <1>1, <1>2, <1>7 DEF Unkeyed, NoRow
  <2>4. QED
    BY <1>4, <1>5, <1>6, <2>1, <2>2, <2>3
<1>8. CASE Addressed(n) /\ row # NoRow /\ row'.id = row.id /\ row'.rkey = 0
  <2>1. calm /\ row.id \in stale
    BY <1>1, <1>8 DEF Finds, Courses, Orderly
  <2>2. \A m \in Request : req'[m].pc = "done"
    BY <1>1, <1>2, <2>1 DEF Alone
  <2>3. Rows' /\ Persisting' /\ Finds'
    BY <1>1, <1>8, <2>2, Numbers DEF Rows, Persisting, Finds, NoRow
  <2>4. Unkeyed' /\ Undone'
    BY <1>1, <1>8, <2>1 DEF Unkeyed, Undone
  <2>5. Keyed' /\ Ordered' /\ Coming' /\ Word'
    BY <1>1, <1>8, <2>1, Numbers DEF Keyed, Ordered, Coming, Word
  <2>6. QED
    BY <1>4, <1>5, <1>6, <2>3, <2>4, <2>5
<1>9. QED
  BY <1>1, <1>7, <1>8

(* An upsert makes the row one with the rkey it brings, and gives a new row a  *)
(* new id, so that no request under way addresses it by its id.                *)
LEMMA UpsertRow ==
  ASSUME TypeOK, Mirror, Orderly, UNCHANGED <<kind, calm, relayed, req>>,
         NEW r \in Request, Upsert(r)
  PROVE  /\ row' # NoRow /\ row'.rkey = r /\ row'.id # 0 /\ row'.id = lastId'
         /\ \A m \in Request : kind = "share" /\ Addressed(m)' => Addressed(m)
         /\ \A m \in Request :
              req[m].pc = "persist" /\ Addressed(m)' => Addressed(m) \/ kind = "star"
<1> USE DEF Mirror
<1>1. \/ row = NoRow /\ row'.id = lastId + 1 /\ lastId' = lastId + 1 /\ row'.rkey = r
      \/ row # NoRow /\ row'.id = row.id /\ lastId' = lastId /\ row'.rkey = r
  BY DEF Upsert, Insert, TypeOK
<1>2. row' # NoRow /\ row'.rkey = r /\ row'.id # 0 /\ row'.id = lastId'
  BY <1>1, Numbers DEF Rows, NoRow
<1>3. \A m \in Request : kind = "share" /\ Addressed(m)' => Addressed(m)
  BY <1>1, Numbers DEF Addressed
<1>4. \A m \in Request :
        req[m].pc = "persist" /\ Addressed(m)' => Addressed(m) \/ kind = "star"
  BY <1>3 DEF Addressed, Orderly, Alone
<1>5. QED
  BY <1>2, <1>3, <1>4

(* The event of a put brings the row of a record that is there, or that a      *)
(* later event takes away again.                                               *)
LEMMA CreateEventMirror ==
  ASSUME TypeOK, Mirror, Orderly, UNCHANGED <<kind, calm, relayed>>,
         UNCHANGED <<pds, log, saved, page, started, req, wanted, unbacked, leftover, stale>>,
         pos' = pos + 1, pos < Len(log), NEW r \in Request,
         log[pos + 1].op = "create", log[pos + 1].rkey = r, Upsert(r)
  PROVE  Mirror'
<1> USE DEF Mirror
<1>1. /\ row' # NoRow /\ row'.rkey = r /\ row'.id # 0 /\ row'.id = lastId'
      /\ \A m \in Request : kind = "share" /\ Addressed(m)' => Addressed(m)
      /\ \A m \in Request :
           req[m].pc = "persist" /\ Addressed(m)' => Addressed(m) \/ kind = "star"
  BY UpsertRow
<1>2. /\ pos + 1 \in 1..Len(log) /\ pos + 1 \in pos + 1..Len(log)
      /\ r # 0 /\ relayed
      /\ \A i \in pos' + 1..Len(log) : i \in pos + 1..Len(log)
  BY Numbers DEF Told
<1>3. \A m \in Request :
        (Spawned(m)' <=> Spawned(m)) /\ (PutDone(m)' <=> PutDone(m)) /\ (Doomed(m)' <=> Doomed(m))
        /\ (Dead(m)' <=> Dead(m)) /\ (Live(m)' <=> Live(m))
  BY DEF Spawned, PutDone, Doomed, Dead, Live
<1>4. PutDone(r) /\ Spawned(r)
  BY <1>2 DEF Keys, PutDone
<1>5. r \in pds \/ Pending("delete", r)'
  <2> SUFFICES ASSUME r \notin pds PROVE Pending("delete", r)'
    OBVIOUS
  <2>1. PICK k \in (pos + 1) + 1..Len(log) : log[k].op = "delete" /\ log[k].rkey = r
    BY <1>2 DEF Told
  <2>2. QED
    BY <2>1 DEF Pending
<1>6. Rows' /\ Courses'
  BY <1>1, <1>3 DEF Rows, Courses
<1>7. Keys'
  <2>1. ASSUME NEW m \in Request
        PROVE  /\ m \in pds' \union page' \/ row'.rkey = m => PutDone(m)'
               /\ \A x \in Request : req'[x].rkey = m => PutDone(m)'
               /\ \A i \in 1..Len(log') : log'[i].rkey = m => PutDone(m)'
               /\ m \in leftover' => req'[m].op = "put" /\ req'[m].pc # "create"
    BY <1>1, <1>3, <1>4 DEF Keys
  <2>2. QED
    BY <2>1 DEF Keys
<1>8. Told'
  BY Numbers DEF Told
<1>9. Alone'
  BY <1>1, <1>2 DEF Alone
<1>10. Persisting'
  BY <1>1, <1>3 DEF Persisting
<1>11. Finds'
  <2>1. calm => \A m \in Request : req[m].pc \notin {"lookup", "delete", "clear"}
    BY <1>2 DEF Alone, Courses
  <2>2. QED
    BY <1>1, <2>1 DEF Finds
<1>12. Unkeyed' /\ Keyed'
  BY <1>1, <1>2, <1>5 DEF Unkeyed, Keyed
<1>13. Ordered' /\ Word' /\ Reversed'
  BY <1>3 DEF Ordered, Word, Reversed
<1>14. Coming'
  <2> SUFFICES ASSUME stale = {}, NEW s \in Request, Dead(r), Live(s)
               PROVE  Pending("create", s)'
    BY <1>1, <1>3 DEF Coming
  <2>1. PICK k \in (pos + 1) + 1..Len(log) : log[k].op = "create" /\ log[k].rkey = s
    BY <1>2 DEF Ordered
  <2>2. QED
    BY <2>1 DEF Pending
<1>15. Undone'
  BY <1>1, <1>3, <1>4, <1>5 DEF Undone, Reversed
<1>16. QED
  BY <1>6, <1>7, <1>8, <1>9, <1>10, <1>11, <1>12, <1>13, <1>14, <1>15

(* The event of a deletion takes away the row of its record, and no other.     *)
LEMMA DeleteEventMirror ==
  ASSUME TypeOK, Mirror, Orderly, UNCHANGED <<kind, calm, relayed>>,
         UNCHANGED <<pds, log, saved, page, started, req, wanted, unbacked, leftover, stale>>,
         pos' = pos + 1, pos < Len(log), NEW r \in Request,
         log[pos + 1].op = "delete", log[pos + 1].rkey = r, ApplyDelete(r)
  PROVE  Mirror'
<1> USE DEF Mirror
<1>1. /\ (row' = row /\ row.rkey # r) \/ (row' = NoRow /\ row.rkey = r)
      /\ lastId' = lastId
  BY DEF ApplyDelete
<1>2. /\ pos + 1 \in 1..Len(log) /\ pos + 1 \in pos + 1..Len(log)
      /\ r # 0
      /\ \A i \in pos + 1..Len(log) : i = pos + 1 \/ i \in pos' + 1..Len(log)
      /\ \A i \in pos' + 1..Len(log) : i \in pos + 1..Len(log)
  BY Numbers
<1>3. \A m \in Request :
        (Spawned(m)' <=> Spawned(m)) /\ (PutDone(m)' <=> PutDone(m)) /\ (Doomed(m)' <=> Doomed(m))
        /\ (Dead(m)' <=> Dead(m)) /\ (Live(m)' <=> Live(m))
  BY DEF Spawned, PutDone, Doomed, Dead, Live
<1>4. r \notin pds
  BY <1>2 DEF Told
<1>5. /\ \A s \in Request : Pending("create", s) => Pending("create", s)'
      /\ \A s \in Request : s # r /\ Pending("delete", s) => Pending("delete", s)'
  BY <1>2 DEF Pending
<1>6. Rows' /\ Courses' /\ Told'
  <2>1. Rows'
    BY <1>1 DEF Rows
  <2>2. Courses'
    BY <1>3 DEF Courses
  <2>3. Told'
    BY Numbers DEF Told
  <2>4. QED
    BY <2>1, <2>2, <2>3
<1>7. Keys'
  <2>1. ASSUME NEW m \in Request
        PROVE  /\ m \in pds' \union page' \/ row'.rkey = m => PutDone(m)'
               /\ \A x \in Request : req'[x].rkey = m => PutDone(m)'
               /\ \A i \in 1..Len(log') : log'[i].rkey = m => PutDone(m)'
               /\ m \in leftover' => req'[m].op = "put" /\ req'[m].pc # "create"
    BY <1>1, <1>3, Numbers DEF Keys, NoRow
  <2>2. QED
    BY <2>1 DEF Keys
<1>8. Alone'
  <2>1. ASSUME calm, NEW m \in Request, req[m].pc # "done"
        PROVE  req[m].op # "put" /\ req[m].pc \notin {"drop", "put", "persist"}
    BY <1>2, <2>1, Numbers DEF Alone, Courses, Spawned
  <2>2. QED
    BY <1>2, <2>1 DEF Alone
<1>9. Persisting' /\ Finds'
  <2>1. \A m \in Request : Addressed(m)' => Addressed(m) /\ row' = row
    BY <1>1 DEF Addressed
  <2>2. Persisting'
    BY <1>3, <2>1 DEF Persisting
  <2>3. Finds'
    BY <1>1, <2>1 DEF Finds, NoRow
  <2>4. QED
    BY <2>2, <2>3
<1>10. Unkeyed'
  <2>1. (\E i \in pos + 1..Len(log) : log[i].op = "create")
        => \E i \in pos' + 1..Len(log') : log'[i].op = "create"
    BY <1>2
  <2>2. QED
    BY <1>1, <2>1 DEF Unkeyed, NoRow
<1>11. Keyed'
  <2>1. ASSUME NEW m \in Request, row'.rkey = m PROVE row' = row /\ m # r
    BY <1>1, <2>1, Numbers DEF NoRow
  <2>2. QED
    BY <1>5, <2>1 DEF Keyed
<1>12. Ordered' /\ Word' /\ Reversed'
  BY <1>3 DEF Ordered, Word, Reversed
<1>13. Coming'
  <2> SUFFICES ASSUME stale = {}, NEW d \in Request, NEW s \in Request,
                      row' = NoRow \/ (row'.rkey = d /\ Dead(d)), Live(s)
               PROVE  Pending("create", s)'
    BY <1>3 DEF Coming, NoRow
  <2>1. row = NoRow \/ \E x \in Request : row.rkey = x /\ Dead(x)
    BY <1>1, <1>4 DEF Dead
  <2>2. QED
    BY <1>5, <2>1 DEF Coming
<1>14. Undone'
  <2> SUFFICES ASSUME ~wanted, row' = row, row # NoRow, row.rkey # r, row.id \notin stale,
                      row.rkey \notin leftover
               PROVE  \E m \in Request : row.rkey = m /\ (Doomed(m)' \/ Pending("delete", m)')
    BY <1>1 DEF Undone, NoRow
  <2>1. QED
    BY <1>3, <1>5 DEF Undone
<1>15. QED
  BY <1>6, <1>7, <1>8, <1>9, <1>10, <1>11, <1>12, <1>13, <1>14

(* A backfill stores a record that is there and stays, or its row is marked.   *)
LEMMA ListedMirror ==
  ASSUME TypeOK, Mirror, Orderly, UNCHANGED <<kind, calm, relayed>>, UpsertListed
  PROVE  Mirror'
<1> USE DEF Mirror
<1>1. PICK r \in page : /\ Upsert(r) /\ page' = page \ {r}
                        /\ stale' = IF Removed(r) THEN stale \union {row'.id} ELSE stale
                        /\ UNCHANGED <<pds, log, pos, saved, started, req, wanted, unbacked, leftover>>
  BY DEF UpsertListed, remoteVars, consumerVars, boundVars
<1>2. r \in Request /\ PutDone(r) /\ Spawned(r) /\ r # 0
  BY Numbers DEF Keys, PutDone
<1>3. /\ row' # NoRow /\ row'.rkey = r /\ row'.id # 0 /\ row'.id = lastId'
      /\ \A m \in Request : kind = "share" /\ Addressed(m)' => Addressed(m)
      /\ \A m \in Request :
           req[m].pc = "persist" /\ Addressed(m)' => Addressed(m) \/ kind = "star"
  BY <1>1, <1>2, UpsertRow
<1>4. \A m \in Request :
        (Spawned(m)' <=> Spawned(m)) /\ (PutDone(m)' <=> PutDone(m)) /\ (Doomed(m)' <=> Doomed(m))
        /\ (Dead(m)' <=> Dead(m)) /\ (Live(m)' <=> Live(m))
  BY <1>1 DEF Spawned, PutDone, Doomed, Dead, Live
<1>5. Rows' /\ Courses' /\ Told'
  <2>1. Rows'
    BY <1>3 DEF Rows
  <2>2. Courses'
    BY <1>1, <1>4 DEF Courses
  <2>3. Told'
    BY <1>1 DEF Told
  <2>4. QED
    BY <2>1, <2>2, <2>3
<1>6. Keys'
  <2>1. ASSUME NEW m \in Request
        PROVE  /\ m \in pds' \union page' \/ row'.rkey = m => PutDone(m)'
               /\ \A x \in Request : req'[x].rkey = m => PutDone(m)'
               /\ \A i \in 1..Len(log') : log'[i].rkey = m => PutDone(m)'
               /\ m \in leftover' => req'[m].op = "put" /\ req'[m].pc # "create"
    BY <1>1, <1>2, <1>3, <1>4 DEF Keys
  <2>2. QED
    BY <2>1 DEF Keys
<1>7. Alone'
  BY <1>1, <1>3 DEF Alone
<1>8. Persisting'
  BY <1>1, <1>3, <1>4 DEF Persisting
<1>9. Unkeyed' /\ Reversed'
  BY <1>1, <1>2, <1>3, <1>4 DEF Unkeyed, Reversed
<1>10. CASE Removed(r)
  <2>1. row'.id \in stale'
    BY <1>1, <1>10
  <2>2. Finds'
    BY <1>1, <1>3, <2>1 DEF Finds
  <2>3. Keyed' /\ Ordered' /\ Coming' /\ Word' /\ Undone'
    BY <2>1 DEF Keyed, Ordered, Coming, Word, Undone
  <2>4. QED
    BY <1>5, <1>6, <1>7, <1>8, <1>9, <2>2, <2>3
<1>11. CASE ~Removed(r)
  <2>1. /\ stale' = stale /\ r \in pds /\ ~Doomed(r)
        /\ \A m \in Request : req[m].pc \in {"lookup", "delete"} => req[m].rkey \notin {0, r}
        /\ \A m \in Request : req[m].pc \in {"lookup", "delete", "clear"} => kind # "follow"
    BY <1>1, <1>11 DEF Removed, Doomed
  <2>2. Finds'
    BY <1>1, <1>3, <2>1 DEF Finds
  <2>3. Keyed'
    BY <1>1, <1>3, <2>1 DEF Keyed
  <2>4. Ordered' /\ Word'
    BY <1>1, <1>4, <2>1 DEF Ordered, Word
  <2>5. Coming'
    BY <1>1, <1>3, <1>4, <2>1 DEF Coming, Dead
  <2>6. Undone'
    BY <1>1, <1>2, <1>3, <2>1 DEF Undone, Reversed
  <2>7. QED
    BY <1>5, <1>6, <1>7, <1>8, <1>9, <2>2, <2>3, <2>4, <2>5, <2>6
<1>12. QED
  BY <1>10, <1>11

(* A restart ends what was under way, and the consumer resumes where it has    *)
(* stored its cursor: the events it applies once more are still in order.      *)
LEMMA RestartMirror ==
  ASSUME TypeOK, Mirror, Orderly, UNCHANGED <<kind, calm, relayed>>, RestartAPI
  PROVE  Mirror'
<1> USE DEF Mirror
<1>1. \A m \in Request :
        /\ req'[m].op = req[m].op /\ req'[m].id = req[m].id /\ req'[m].rkey = req[m].rkey
        /\ req'[m].pc = "done"
  BY DEF RestartAPI, TypeOK
<1>2. /\ UNCHANGED <<row, lastId, pds, log, saved, started, wanted, stale>>
      /\ page' = {} /\ pos' = saved
      /\ unbacked \subseteq unbacked' /\ leftover \subseteq leftover'
  BY DEF RestartAPI, localVars, remoteVars, Fails
<1>3. /\ \A m \in Request : req[m].pc = "put" => req[m].id \in unbacked'
      /\ \A m \in Request : req[m].pc = "persist" /\ ~relayed => req[m].id \in unbacked'
  BY DEF RestartAPI
<1>4. /\ \A m \in Request : Doomed(m) => m \in leftover'
      /\ \A m \in Request : m \in leftover' => m \in leftover \/ Doomed(m)
      /\ \A m \in Request : ~Doomed(m)'
  BY <1>1 DEF RestartAPI, Doomed
<1>5. \A m \in Request : (Spawned(m)' <=> Spawned(m)) /\ (PutDone(m) => PutDone(m)')
  BY <1>1 DEF Spawned, PutDone
<1>6. \A m \in Request : (Dead(m)' => Dead(m)) /\ (Live(m)' => Live(m))
  BY <1>2, <1>4 DEF Dead, Live
<1>7. /\ \A i \in pos + 1..Len(log) : i \in pos' + 1..Len(log')
      /\ \A op : \A m \in Request : Pending(op, m) => Pending(op, m)'
  <2>1. \A i \in pos + 1..Len(log) : i \in pos' + 1..Len(log')
    BY <1>2, Numbers DEF Told
  <2>2. \A op : \A m \in Request : Pending(op, m) => Pending(op, m)'
    BY <1>2, <2>1 DEF Pending
  <2>3. QED
    BY <2>1, <2>2
<1>8. Rows' /\ Told'
  <2>1. Rows'
    BY <1>2 DEF Rows
  <2>2. Told'
    BY <1>2, Numbers DEF Told
  <2>3. QED
    BY <2>1, <2>2
<1>9. Courses' /\ Alone' /\ Persisting' /\ Finds'
  <2>1. Courses'
    BY <1>1, <1>2, <1>5 DEF Courses
  <2>2. Alone' /\ Persisting' /\ Finds'
    BY <1>1 DEF Alone, Persisting, Finds
  <2>3. QED
    BY <2>1, <2>2
<1>10. Keys'
  <2>1. ASSUME NEW r \in Request
        PROVE  /\ r \in pds' \union page' \/ row'.rkey = r => PutDone(r)'
               /\ \A m \in Request : req'[m].rkey = r => PutDone(r)'
               /\ \A i \in 1..Len(log') : log'[i].rkey = r => PutDone(r)'
    BY <1>1, <1>2, <1>5 DEF Keys
  <2>2. ASSUME NEW r \in Request, r \in leftover'
        PROVE  req'[r].op = "put" /\ req'[r].pc # "create"
    <3>1. CASE r \in leftover
      BY <1>1, <3>1 DEF Keys
    <3>2. CASE Doomed(r)
      <4>1. PutDone(r)
        BY <3>2 DEF Keys, Doomed
      <4>2. QED
        BY <1>1, <4>1 DEF PutDone, Spawned
    <3>3. QED
      BY <1>4, <2>2, <3>1, <3>2
  <2>3. QED
    BY <2>1, <2>2 DEF Keys
<1>11. Unkeyed'
  <2> SUFFICES ASSUME row # NoRow, row.rkey = 0, row.id \notin unbacked' \union stale
               PROVE  relayed /\ \E i \in pos' + 1..Len(log') : log'[i].op = "create"
    BY <1>2 DEF Unkeyed, NoRow
  <2>1. relayed /\ \E i \in pos + 1..Len(log) : log[i].op = "create"
    BY <1>2, <1>3 DEF Unkeyed
  <2>2. QED
    BY <1>2, <1>7, <2>1
<1>12. Keyed' /\ Ordered' /\ Coming'
  <2>1. Keyed'
    BY <1>2, <1>7 DEF Keyed
  <2>2. Ordered'
    BY <1>2, <1>6 DEF Ordered
  <2>3. Coming'
    BY <1>2, <1>6, <1>7 DEF Coming
  <2>4. QED
    BY <2>1, <2>2, <2>3
<1>13. Word'
  BY <1>1, <1>2, <1>3, <1>4, <1>5 DEF Word
<1>14. Reversed'
  BY <1>1, <1>2, <1>4, <1>5 DEF Reversed
<1>15. Undone'
  BY <1>2, <1>4, <1>7 DEF Undone
<1>16. QED
  BY <1>8, <1>9, <1>10, <1>11, <1>12, <1>13, <1>14, <1>15

(* A cursor that is saved and a page that is read leave all of this. *)
LEMMA ReadsMirror ==
  ASSUME TypeOK, Mirror, Orderly, UNCHANGED <<kind, calm, relayed>>,
         SaveCursor \/ ListRecords \/ UNCHANGED vars
  PROVE  Mirror'
<1> USE DEF Mirror
<1>1. /\ UNCHANGED <<row, lastId, pds, log, pos, started, req, wanted, unbacked, leftover, stale>>
      /\ saved' \in {saved, pos} /\ page' \in {page, pds}
  BY DEF SaveCursor, ListRecords, vars, localVars, remoteVars, consumerVars, boundVars,
         backfillVars, history
<1>2. \A m \in Request :
        (Spawned(m)' <=> Spawned(m)) /\ (PutDone(m)' <=> PutDone(m)) /\ (Doomed(m)' <=> Doomed(m))
  BY <1>1 DEF Spawned, PutDone, Doomed
<1>3. Rows' /\ Keyed' /\ Ordered' /\ Coming' /\ Word' /\ Reversed' /\ Undone'
  BY <1>1, <1>2, Quiet
<1>4. Keys'
  BY <1>1, <1>2 DEF Keys
<1>5. Told'
  BY <1>1, Numbers DEF Told
<1>6. Courses' /\ Alone'
  BY <1>1, <1>2 DEF Courses, Alone, NoRow
<1>7. Persisting' /\ Finds' /\ Unkeyed'
  BY <1>1, <1>2 DEF Persisting, Finds, Unkeyed, Addressed, NoRow
<1>8. QED
  BY <1>3, <1>4, <1>5, <1>6, <1>7

(* Every step keeps the match of the row and the record. *)
LEMMA NextMirror ==
  ASSUME TypeOK, Mirror, Orderly, [Next]_vars
  PROVE  Mirror'
<1>1. UNCHANGED <<kind, calm, relayed>>
  BY DEF Next, vars
<1>2. CASE UNCHANGED vars
  BY <1>1, <1>2, ReadsMirror
<1>3. ASSUME NEW n \in Request, UserRequest(n) \/ CreateSubscription(n) PROVE Mirror'
  <2>1. CASE Follow(n)
    <3>1. row = NoRow /\ Insert(0) /\ Spawn(n, row'.id) /\ Begin(n)
      BY <2>1 DEF Follow, Insert
    <3>2. QED
      BY <1>1, <3>1, SpawnMirror
  <2>2. CASE Share(n)
    BY <1>1, <2>2, SpawnMirror DEF Share
  <2>3. CASE Star(n) \/ StarUnseen(n)
    BY <1>1, <2>3, SpawnMirror, UnseenMirror DEF Star
  <2>4. CASE CreateSubscription(n)
    BY <1>1, <2>4, SpawnMirror DEF CreateSubscription
  <2>5. CASE Subscribe(n)
    BY <1>1, <2>5, SubscribeMirror
  <2>6. CASE ReadRkey(n)
    BY <1>1, <2>6, ReadMirror
  <2>7. QED
    BY <1>3, <2>1, <2>2, <2>3, <2>4, <2>5, <2>6
    DEF UserRequest, Unfollow, Unshare, Unstar, Unsubscribe
<1>4. ASSUME NEW n \in Request, PutStep(n) PROVE Mirror'
  BY <1>1, <1>4, PutMirror, PutFailsMirror, PersistMirror DEF PutStep
<1>5. ASSUME NEW n \in Request, RemoveStep(n) PROVE Mirror'
  BY <1>1, <1>5, DropMirror, LookupMirror, GivesUpMirror, DeleteMirror, ClearMirror
  DEF RemoveStep, DeleteStep
<1>6. CASE ConsumeEvent
  <2>1. PICK r \in Request : log[pos + 1].rkey = r
    BY <1>6, Numbers DEF ConsumeEvent
  <2>2. /\ UNCHANGED <<pds, log, saved, page, started, req, wanted, unbacked, leftover, stale>>
        /\ pos' = pos + 1 /\ pos < Len(log)
    BY <1>6 DEF ConsumeEvent, remoteVars, boundVars, backfillVars, history
  <2>3. \/ log[pos + 1].op = "create" /\ Upsert(r)
        \/ log[pos + 1].op = "delete" /\ ApplyDelete(r)
    BY <1>6, <2>1
    DEF ConsumeEvent, ProcessEvent, HandleFollowEvent, HandleUnfollowEvent, HandleShareEvent,
        HandleUnshareEvent, HandleStarEvent, HandleUnstarEvent, HandleFeedSubEvent,
        HandleFeedUnsubEvent
  <2>4. QED
    BY <1>1, <2>1, <2>2, <2>3, CreateEventMirror, DeleteEventMirror
<1>7. CASE SaveCursor \/ BackfillUserFromPDS \/ UpsertListed \/ RestartAPI
  BY <1>1, <1>7, BackfillLists, ReadsMirror, ListedMirror, RestartMirror
<1>8. QED
  BY <1>2, <1>3, <1>4, <1>5, <1>6, <1>7, StepCases DEF Next, OtherStep

(* The initial state has no row, no record and nothing wanted. *)
LEMMA InitMirror == Init => Mirror
<1> SUFFICES ASSUME Init PROVE Mirror
  OBVIOUS
<1>1. TypeOK
  BY InitTypes
<1>2. /\ row = NoRow /\ row.rkey = 0 /\ pds = {} /\ page = {} /\ log = <<>> /\ Len(log) = 0
      /\ pos = 0 /\ saved = 0 /\ ~wanted /\ leftover = {}
      /\ \A n \in Request : req[n].op = "none" /\ req[n].pc = "done" /\ req[n].rkey = 0
  BY DEF Init, NoRow, Done
<1>3. Rows /\ Courses /\ Told /\ Alone /\ Persisting /\ Finds /\ Unkeyed
  BY <1>2 DEF Rows, Courses, Told, Alone, Persisting, Finds, Unkeyed
<1>4. Keys /\ Keyed
  BY <1>1, <1>2, Numbers DEF Keys, Keyed
<1>5. Ordered /\ Coming /\ Word /\ Reversed /\ Undone
  BY <1>2 DEF Ordered, Coming, Word, Reversed, Undone, Live, Spawned
<1>6. QED
  BY <1>3, <1>4, <1>5 DEF Mirror

(* Where the user waits for each request, and for shares with a relay, the row *)
(* and the record keep matching as the inductive invariant says.               *)
LEMMA MirrorKept == Spec => [](TypeOK /\ (Orderly => Mirror))
<1>1. Init => TypeOK /\ (Orderly => Mirror)
  BY InitTypes, InitMirror
<1>2. TypeOK /\ (Orderly => Mirror) /\ [Next]_vars => (TypeOK /\ (Orderly => Mirror))'
  <2> SUFFICES ASSUME TypeOK, Orderly => Mirror, [Next]_vars
               PROVE  TypeOK' /\ (Orderly' => Mirror')
    OBVIOUS
  <2>1. TypeOK'
    BY NextTypes
  <2>2. Orderly' => Orderly
    BY DEF Next, vars, Orderly
  <2>3. QED
    BY <2>1, <2>2, NextMirror
<1>3. QED
  BY <1>1, <1>2, PTL DEF Spec

(* In the end nothing is doomed and no event is to come. *)
LEMMA Settled ==
  ASSUME TypeOK, Idle
  PROVE  /\ \A n \in Request : req[n].pc = "done"
         /\ \A r \in Request : ~Doomed(r)
         /\ \A op : \A r \in Request : ~Pending(op, r)
         /\ \A i \in pos + 1..Len(log) : FALSE
<1>1. \A i \in pos + 1..Len(log) : FALSE
  BY Numbers DEF Idle
<1>2. \A n \in Request : req[n].pc = "done"
  BY DEF Idle
<1>3. QED
  BY <1>1, <1>2 DEF Doomed, Pending

(* Once everything has settled a row stands for a record that the PDS has, or  *)
(* its put or rkey was lost, or a stale page brought it: for any number of     *)
(* requests, failures, restarts and backfills.                                 *)
THEOREM RowsAreBacked == Spec => [](Orderly => RowBacked)
<1>1. TypeOK /\ (Orderly => Mirror) => (Orderly => RowBacked)
  <2> SUFFICES ASSUME TypeOK, Mirror, Idle, row # NoRow, row.id \notin unbacked \union stale
               PROVE  row.rkey \in pds
    BY DEF RowBacked
  <2>1. row.rkey # 0
    BY Settled DEF Mirror, Unkeyed
  <2>2. row.rkey \in Request
    BY <2>1, Numbers DEF Rkey
  <2>3. QED
    BY <2>2, Settled DEF Mirror, Keyed
<1>2. QED
  BY <1>1, MirrorKept, PTL

(* Once everything has settled a record on the PDS has a row, or a removal did *)
(* not know of it or failed to delete it, or it is that of a star that wrote no *)
(* row and there is no relay (store.go:656).                                   *)
THEOREM RecordsAreMirrored == Spec => [](Orderly => RecordMirrored)
<1>1. TypeOK /\ (Orderly => Mirror) => (Orderly => RecordMirrored)
  <2> SUFFICES ASSUME TypeOK, Mirror, Idle, row = NoRow, stale = {}, NEW s \in pds
               PROVE  s \in leftover
    BY DEF RecordMirrored
  <2>1. s \in Request
    BY Numbers
  <2>2. QED
    BY <2>1, Settled DEF Mirror, Coming, Live
<1>2. QED
  BY <1>1, MirrorKept, PTL

(* If the user's last word was a follow or a share, and it reached the PDS,    *)
(* its row is there in the end, whatever echoes, replays or deletions came     *)
(* late.                                                                       *)
THEOREM LastWordIsKept == Spec => [](Orderly => LastWordKept)
<1>1. TypeOK /\ (Orderly => Mirror) => (Orderly => LastWordKept)
  <2> SUFFICES ASSUME TypeOK, Mirror, Idle, wanted, ~LastPutLost, stale = {}
               PROVE  row # NoRow
    BY DEF LastWordKept
  <2>1. PICK n \in Request :
          /\ Spawned(n) /\ \A m \in Request : Spawned(m) => m <= n
          /\ \/ req[n].id \in unbacked
             \/ n \notin leftover /\ ~Doomed(n) /\ (req[n].pc = "put" \/ n \in pds)
    BY DEF Mirror, Word
  <2>2. n \in pds /\ n \notin leftover /\ ~Doomed(n)
    BY <2>1, Settled DEF LastPutLost
  <2>3. QED
    BY <2>1, <2>2, Settled DEF Mirror, Coming, Live
<1>2. QED
  BY <1>1, MirrorKept, PTL

(* A row that is there in the end against the user's last word comes from a    *)
(* record the removal did not know of or failed to delete, or a stale page.    *)
THEOREM RemovalsAreKept == Spec => [](Orderly => RemovalKept)
<1>1. TypeOK /\ (Orderly => Mirror) => (Orderly => RemovalKept)
  BY Settled DEF Mirror, Undone, RemovalKept
<1>2. QED
  BY <1>1, MirrorKept, PTL
=============================================================================
