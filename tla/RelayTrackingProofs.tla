------------------------- MODULE RelayTrackingProofs -------------------------
(* Proofs about RelayTracking: its types, that the stored cursor covers what   *)
(* was processed and never regresses, that events balance rows, and that rows  *)
(* follow the commits.                                                         *)
EXTENDS RelayTracking, FiniteSetTheorems, TLAPS

\* The worker has opened a stream; it is at a commit.
Streaming == wpc \in {"recv", "fetch", "record", "emit", "cursor"}
AtCommit == wpc \in {"fetch", "record", "emit", "cursor"}

\* The worker is at a commit of the stream, and fetches only what was created.
Worker ==
  /\ AtCommit => pos < Len(commits)
  /\ wpc \in {"fetch", "record"} => Op.op = "create"

\* A record is in the repository from its creation to its deletion, and a
\* deletion is final: rkeys are not used again.
Repository ==
  \A i \in 1..Len(commits) :
    /\ commits[i].rkey \in 1..created
    /\ commits[i].op = "delete" => commits[i].rkey \notin repo

\* The backfills under way that have the event of a record to emit.
Emitters(r) == {a \in Slot : apc[a] = "emit" /\ held[a] = r}
Emitting ==
  /\ \A r \in Rkey : IsFiniteSet(Emitters(r))
  /\ \A a \in Slot : apc[a] = "emit" => held[a] \in 1..created
  /\ \A a \in Slot : apc[a] \in {"list", "page", "emit"} => col[a] \in Collection

Inv == TypeOK /\ Worker /\ Repository /\ Emitting

\* Whatever cursor a worker resumes from, or is about to, passes only commits
\* that were processed or skipped, and lies no lower than the stored one.
Covered(n) == \A i \in 1..n : i \in handled \union skipped
Cursors ==
  /\ Covered(cursorSeq) /\ Covered(wCursor) /\ Covered(bootCursor)
  /\ Streaming => Covered(pos) /\ cursorSeq <= pos
  /\ wpc # "none" /\ wCursor > 0 => cursorSeq <= wCursor
  /\ startPc = "ensure" /\ wpc = "none" => bootCursor = cursorSeq

\* The first conjunct of EventsBalanceRows.
Balanced == \A r \in Rkey : Balance(r) = IF Observed(r) THEN 1 ELSE 0

\* What the worker has found of the record of its commit, and done to its row,
\* still holds when it stores the cursor.
Followed(op, r) ==
  /\ op = "create" /\ r \in repo => Observed(r) \/ Dropped(r) \/ r \in failed
  /\ op = "delete" /\ Observed(r) => r \in ghosts \union failed
InHand ==
  /\ wpc \in {"emit", "cursor"} => Followed(Op.op, Op.rkey)
  /\ wpc = "record" => ~ DeletionHandled(Op.rkey)

-----------------------------------------------------------------------------
(* The collections and their order *)

\* The four collections and the order of their crawl.
LEMMA FourCollections ==
  /\ Collection = {"follow", "subscription", "share", "star"}
  /\ Position("follow") = 1 /\ Position("subscription") = 2
  /\ Position("share") = 3 /\ Position("star") = 4
<1>1. Len(Collections) = 4 /\ 1..4 = {1, 2, 3, 4}
  BY DEF Collections
<1>2. /\ Collections[1] = "follow" /\ Collections[2] = "subscription"
      /\ Collections[3] = "share" /\ Collections[4] = "star"
  BY DEF Collections
<1>3. Collection = {"follow", "subscription", "share", "star"}
  BY <1>1, <1>2 DEF Collection
<1>4. \A i \in 1..4 : Position(Collections[i]) = i
  <2>1. \A i, j \in 1..4 : Collections[i] = Collections[j] => i = j
    BY <1>1, <1>2
  <2>2. \A i \in 1..4 : \E j \in 1..4 : Collections[j] = Collections[i]
    OBVIOUS
  <2>3. QED
    BY <1>1, <2>1, <2>2 DEF Position
<1>5. QED
  BY <1>1, <1>2, <1>3, <1>4

\* Of collections that are not none at all, one comes first.
LEMMA FirstOf ==
  ASSUME NEW cs \in SUBSET Collection, cs # {}
  PROVE  First(cs) \in cs
<1>1. \E c \in cs : \A d \in cs : Position(c) <= Position(d)
  <2>1. cs \in SUBSET {"follow", "subscription", "share", "star"}
    BY FourCollections
  <2>2. \E n \in {1, 2, 3, 4} : /\ \E c \in cs : Position(c) = n
                                /\ \A d \in cs : n <= Position(d)
    <3>1. CASE "follow" \in cs
      BY <2>1, <3>1, FourCollections
    <3>2. CASE "follow" \notin cs /\ "subscription" \in cs
      BY <2>1, <3>2, FourCollections
    <3>3. CASE "follow" \notin cs /\ "subscription" \notin cs /\ "share" \in cs
      BY <2>1, <3>3, FourCollections
    <3>4. CASE cs = {"star"}
      BY <3>4, FourCollections
    <3>5. QED
      BY <2>1, <3>1, <3>2, <3>3, <3>4
  <2>3. QED
    BY <2>2
<1>2. QED
  BY <1>1 DEF First

\* Every record belongs to a collection, and every collection follows to one.
LEMMA Kinds ==
  ASSUME TypeOK
  PROVE  /\ \A r \in Rkey : Kind(r) \in Collection
         /\ Crawled \in SUBSET Collection /\ Crawled # {}
         /\ \A c : After(c) \in SUBSET Collection
         /\ 1..created \subseteq Rkey /\ account.blank \subseteq Rkey /\ created \in Nat
<1>1. account \in [of : [Rkey -> Collection], blank : SUBSET Rkey, failures : Nat]
  BY ConstantsOK DEF TypeOK, PDSType
<1>2. \A r \in Rkey : Kind(r) \in Collection
  BY <1>1 DEF Kind
<1>3. 1 \in Rkey /\ 1..created \subseteq Rkey /\ created \in Nat
  BY ConstantsOK DEF Rkey, TypeOK, PDSType
<1>4. Crawled \in SUBSET Collection /\ Crawled # {}
  BY <1>2, <1>3 DEF Crawled
<1>5. \A c : After(c) \in SUBSET Collection
  BY DEF After, Crawled
<1>6. QED
  BY <1>1, <1>2, <1>3, <1>4, <1>5

-----------------------------------------------------------------------------
(* What the operations on a table do *)

\* Processing a record inserts its row, unless it is there or the record is
\* dropped, and touches no other row.
LEMMA Processed ==
  ASSUME TypeOK, NEW r \in 1..created, ProcessRecord(r)
  PROVE  \/ observed' = observed /\ (Observed(r) \/ Dropped(r))
         \/ ~ Observed(r) /\ observed' = [observed EXCEPT ![Kind(r)] = @ \union {r}]
<1>1. Kind(r) \in Collection /\ observed \in [Collection -> SUBSET (1..created)]
  BY Kinds DEF TypeOK, TableType
<1>2. (observed' = observed /\ Dropped(r)) \/ observed' = [observed EXCEPT ![Kind(r)] = @ \union {r}]
  BY <1>1
  DEF ProcessRecord, ProcessFollowRecord, ProcessFeedSubRecord, ProcessShareRecord,
      ProcessStarRecord, RecordFollow, RecordFeedSubscription, RecordShare, RecordStar, Insert,
      Dropped
<1>3. Observed(r) => [observed EXCEPT ![Kind(r)] = @ \union {r}] = observed
  BY <1>1 DEF Observed
<1>4. QED
  BY <1>2, <1>3

\* A row more or less keeps the tables' types, and is the only one observed or
\* not observed any more.
LEMMA RowChanged ==
  ASSUME TypeOK, NEW r \in 1..created, account' = account, created' = created,
         \/ observed' = observed
         \/ observed' = [observed EXCEPT ![Kind(r)] = @ \union {r}]
         \/ observed' = [observed EXCEPT ![Kind(r)] = @ \ {r}]
  PROVE  /\ observed' \in [Collection -> SUBSET (1..created)]
         /\ \A c \in Collection : observed'[c] \subseteq Of(c)
         /\ \A s \in Rkey : s # r => (Observed(s)' <=> Observed(s))
         /\ observed' = [observed EXCEPT ![Kind(r)] = @ \union {r}] => Observed(r)'
         /\ observed' = [observed EXCEPT ![Kind(r)] = @ \ {r}] => ~ Observed(r)'
         /\ observed' = observed => (Observed(r)' <=> Observed(r))
<1>1. /\ Kind(r) \in Collection /\ observed \in [Collection -> SUBSET (1..created)]
      /\ \A c \in Collection : observed[c] \subseteq Of(c)
      /\ \A s \in Rkey : Kind(s) \in Collection
  BY Kinds DEF TypeOK, TableType
<1>2. r \in Of(Kind(r))
  BY DEF Of
<1>3. \A s : Kind(s)' = Kind(s)
  BY DEF Kind
<1>4. observed' \in [Collection -> SUBSET (1..created)]
  BY <1>1
<1>5. \A c \in Collection : observed'[c] \subseteq Of(c)
  BY <1>1, <1>2
<1>6. \A s \in Rkey : s # r => (Observed(s)' <=> Observed(s))
  BY <1>1, <1>3 DEF Observed
<1>7. /\ observed' = [observed EXCEPT ![Kind(r)] = @ \union {r}] => Observed(r)'
      /\ observed' = [observed EXCEPT ![Kind(r)] = @ \ {r}] => ~ Observed(r)'
      /\ observed' = observed => (Observed(r)' <=> Observed(r))
  BY <1>1, <1>3 DEF Observed
<1>8. QED
  BY <1>4, <1>5, <1>6, <1>7

\* An element of a sequence is of the type of its elements.
LEMMA ElementTyped ==
  ASSUME NEW S, NEW s \in Seq(S), NEW i \in 1..Len(s)
  PROVE  s[i] \in S
OBVIOUS

\* Every commit creates or deletes a record.
LEMMA CommitTyped ==
  ASSUME TypeOK, NEW i \in 1..Len(commits)
  PROVE  commits[i].op \in {"create", "delete"} /\ commits[i].rkey \in Rkey
<1>1. commits \in Seq([op : {"create", "delete"}, rkey : Rkey])
  BY DEF TypeOK, PDSType
<1>2. commits[i] \in [op : {"create", "delete"}, rkey : Rkey]
  BY <1>1, ElementTyped
<1>3. QED
  BY <1>2

\* The operation at hand is on a record that has existed.
LEMMA OpAtHand ==
  ASSUME Inv, pos < Len(commits)
  PROVE  /\ pos \in Nat /\ pos + 1 \in 1..Len(commits)
         /\ Op.rkey \in 1..created /\ Op.op \in {"create", "delete"}
         /\ Op.op = "delete" => Op.rkey \notin repo
<1>1. pos \in Nat /\ pos + 1 \in 1..Len(commits)
  BY DEF Inv, TypeOK, WorkerType, PDSType
<1>2. commits[pos + 1].op \in {"create", "delete"}
  BY <1>1, CommitTyped DEF Inv
<1>3. QED
  BY <1>1, <1>2 DEF Op, Inv, Repository

\* What the handlers of the four collections do with an operation: a create is
\* fetched, a delete takes the row, and only a row that was there is told of.
LEMMA OpHandled ==
  ASSUME Inv, ProcessOp
  PROVE  \/ /\ Op.op = "create" /\ wpc' = "fetch"
            /\ UNCHANGED <<observed, failed>>
         \/ /\ Op.op = "delete" /\ wpc' = (IF Observed(Op.rkey) THEN "emit" ELSE "cursor")
            /\ observed' = [observed EXCEPT ![Kind(Op.rkey)] = @ \ {Op.rkey}]
            /\ UNCHANGED failed
         \/ /\ Op.op = "delete" /\ wpc' = "cursor"
            /\ failed' = failed \union {Op.rkey} /\ UNCHANGED observed
<1>1. Op.op \in {"create", "delete"} /\ Op.rkey \in Rkey
  BY OpAtHand, Kinds DEF ProcessOp, Inv
<1>2. CASE Op.op = "create"
  BY <1>2
  DEF ProcessOp, HandleFollow, HandleFeedSub, HandleShare, HandleStar, Fetch
<1>3. CASE Op.op = "delete"
  <2>1. Remove(Kind(Op.rkey))
    BY <1>3
    DEF ProcessOp, HandleFollow, HandleFeedSub, HandleShare, HandleStar, DeleteFollow,
        DeleteFeedSubscription, DeleteShare, DeleteStar
  <2>2. QED
    BY <1>3, <2>1 DEF Remove, Observed
<1>4. QED
  BY <1>1, <1>2, <1>3

\* A failure is counted.
LEMMA FailureCounted ==
  ASSUME TypeOK, Failure \/ NoFailure
  PROVE  failures' \in Nat
BY DEF TypeOK, SlotType, Failure, NoFailure

\* Some event is appended or lost.
LEMMA AppendedOrLost ==
  ASSUME TypeOK, NEW r \in Rkey, NEW d \in Int, AppendOrLose(r, d)
  PROVE  /\ net' \in [Rkey -> Int] /\ lost' \in [Rkey -> Int]
         /\ net'[r] + lost'[r] = net[r] + lost[r] + d
         /\ \A s \in Rkey : s # r => net'[s] + lost'[s] = net[s] + lost[s]
         /\ failures' \in Nat
<1>1. net \in [Rkey -> Int] /\ lost \in [Rkey -> Int]
  BY DEF TypeOK, TableType
<1>2. CASE net' = Counted(net, r, d) /\ NoFailure /\ UNCHANGED lost
  BY <1>1, <1>2, FailureCounted DEF Counted
<1>3. CASE Failure /\ lost' = Counted(lost, r, d) /\ UNCHANGED net
  BY <1>1, <1>3, FailureCounted DEF Counted
<1>4. QED
  BY <1>2, <1>3 DEF AppendOrLose

-----------------------------------------------------------------------------
(* The invariant the other proofs rest on *)

\* A commit goes to the end of the stream, and what was there stays.
LEMMA Committed ==
  ASSUME TypeOK, NEW op \in {"create", "delete"}, NEW r \in Rkey, Commit(op, r)
  PROVE  /\ Len(commits') = Len(commits) + 1 /\ Len(commits) \in Nat
         /\ commits' \in Seq([op : {"create", "delete"}, rkey : Rkey])
         /\ \A i \in 1..Len(commits) : commits'[i] = commits[i]
         /\ commits'[Len(commits) + 1] = [op |-> op, rkey |-> r]
<1> DEFINE CT == [op : {"create", "delete"}, rkey : Rkey]
<1>1. commits \in Seq(CT) /\ [op |-> op, rkey |-> r] \in CT
  BY DEF TypeOK, PDSType
<1> HIDE DEF CT
<1>2. commits' = Append(commits, [op |-> op, rkey |-> r])
  BY DEF Commit
<1>3. /\ Len(commits') = Len(commits) + 1 /\ Len(commits) \in Nat /\ commits' \in Seq(CT)
      /\ \A i \in 1..Len(commits) : commits'[i] = commits[i]
      /\ commits'[Len(commits) + 1] = [op |-> op, rkey |-> r]
  BY <1>1, <1>2
<1>4. QED
  BY <1>3 DEF CT

\* The emitters of a record after a step of slot a.
LEMMA EmittersOf ==
  ASSUME NEW a \in Slot, \A b \in Slot \ {a} : apc'[b] = apc[b] /\ held'[b] = held[b], NEW r
  PROVE  Emitters(r)' = IF apc'[a] = "emit" /\ held'[a] = r
                        THEN Emitters(r) \union {a} ELSE Emitters(r) \ {a}
BY DEF Emitters

\* Whoever the emitters are after a step of one slot, they are finitely many.
LEMMA EmittersFinite ==
  ASSUME Emitting, NEW a \in Slot, \A b \in Slot \ {a} : apc'[b] = apc[b] /\ held'[b] = held[b],
         NEW r \in Rkey
  PROVE  IsFiniteSet(Emitters(r)')
<1>1. IsFiniteSet(Emitters(r))
  BY DEF Emitting
<1>2. IsFiniteSet(Emitters(r) \union {a}) /\ IsFiniteSet(Emitters(r) \ {a})
  BY <1>1, FS_AddElement, FS_RemoveElement
<1>3. QED
  BY <1>2, EmittersOf

\* Nothing is tracked, and no worker or backfill runs, at first.
LEMMA InitInv == Init => Inv
<1> SUFFICES ASSUME Init PROVE Inv
  OBVIOUS
<1> USE DEF Init
<1>1. account \in Accounts /\ created = 0 /\ commits = <<>> /\ Len(commits) = 0
  OBVIOUS
<1>2. PDSType
  BY <1>1, ConstantsOK DEF PDSType
<1>3. WorkerType /\ Worker /\ Repository /\ HistoryType
  BY <1>1 DEF WorkerType, Worker, Repository, HistoryType, AtCommit
<1>4. TableType
  BY <1>1 DEF TableType, Of
<1>5. SlotType
  <2>1. MaxRkey \in Nat /\ 0 \in 0..(MaxRkey + 1) /\ 0 \in 0..created
    BY <1>1, ConstantsOK
  <2>2. /\ apc \in [Slot -> {"idle"}] /\ oldStatus \in [Slot -> {"untracked"}]
        /\ col \in [Slot -> {"none"}] /\ page \in [Slot -> {{}}]
        /\ token \in [Slot -> {0}] /\ held \in [Slot -> {0}]
        /\ awaited = FALSE /\ announces = 0 /\ failures = 0
    OBVIOUS
  <2> HIDE DEF Init
  <2>3. QED
    BY <2>1, <2>2 DEF SlotType
<1>6. Emitting
  <2>1. \A r : Emitters(r) = {}
    BY DEF Emitters
  <2>2. QED
    BY <2>1, FS_EmptySet DEF Emitting
<1>7. QED
  BY <1>2, <1>3, <1>4, <1>5, <1>6 DEF Inv, TypeOK

\* The account creates and deletes records.
LEMMA PDSInv ==
  ASSUME Inv, CreateRecord \/ \E r \in Rkey : DeleteRecord(r)
  PROVE  Inv'
<1> DEFINE n == Len(commits)
<1>1. /\ TypeOK /\ Worker /\ Repository /\ Emitting
      /\ created \in 0..MaxRkey /\ MaxRkey \in Nat /\ repo \subseteq 1..created
  BY ConstantsOK DEF Inv, TypeOK, PDSType
<1>2. PICK op \in {"create", "delete"}, r \in Rkey :
        /\ Commit(op, r)
        /\ \/ op = "create" /\ r = created + 1 /\ created' = r /\ repo' = repo \union {r}
           \/ op = "delete" /\ r \in repo /\ created' = created /\ repo' = repo \ {r}
  BY <1>1 DEF CreateRecord, DeleteRecord, Rkey
<1>3. UNCHANGED <<account, rowVars, tableVars, bootVars, workerVars, slotVars, awaited, counters,
                  history>>
  BY DEF CreateRecord, DeleteRecord
<1> USE DEF rowVars, tableVars, bootVars, workerVars, slotVars, counters, history
<1>4. /\ Len(commits') = n + 1 /\ n \in Nat
      /\ commits' \in Seq([op : {"create", "delete"}, rkey : Rkey])
      /\ \A i \in 1..n : commits'[i] = commits[i]
      /\ commits'[n + 1] = [op |-> op, rkey |-> r]
  BY <1>1, <1>2, Committed
<1> HIDE DEF n
<1>5. 1..created \subseteq 1..created' /\ created' \in 0..MaxRkey /\ repo' \subseteq 1..created'
  <2>1. created \in Nat /\ r \in 1..MaxRkey
    BY <1>1, <1>2 DEF Rkey
  <2>2. CASE r = created + 1 /\ created' = r /\ repo' = repo \union {r}
    BY <1>1, <2>1, <2>2
  <2>3. CASE created' = created /\ repo' = repo \ {r}
    BY <1>1, <2>3
  <2>4. QED
    BY <1>2, <2>2, <2>3
<1>6. 1..n \subseteq 1..(n + 1) /\ 0..n \subseteq 0..(n + 1) /\ 0..created \subseteq 0..created'
  BY <1>1, <1>2, <1>4, <1>5
<1>7. PDSType'
  BY <1>1, <1>3, <1>4, <1>5 DEF TypeOK, PDSType
<1>8. WorkerType'
  BY <1>1, <1>3, <1>4, <1>6 DEF TypeOK, WorkerType, n
<1>9. TableType'
  <2>1. \A c : Of(c) \subseteq Of(c)'
    BY <1>3, <1>5 DEF Of, Kind
  <2>2. observed' \in [Collection -> SUBSET (1..created')]
    BY <1>1, <1>3, <1>5 DEF TypeOK, TableType
  <2>3. QED
    BY <1>1, <1>3, <2>1, <2>2 DEF TypeOK, TableType
<1>10. SlotType'
  <2>1. page' \in [Slot -> SUBSET (1..created')] /\ held' \in [Slot -> 0..created']
    BY <1>1, <1>3, <1>5, <1>6 DEF TypeOK, SlotType
  <2>2. QED
    BY <1>1, <1>3, <2>1 DEF TypeOK, SlotType
<1>11. HistoryType'
  BY <1>1, <1>3, <1>4, <1>5, <1>6 DEF TypeOK, HistoryType, n
<1>12. Worker'
  <2>1. pos \in Nat /\ (AtCommit => pos + 1 \in 1..n)
    BY <1>1 DEF Worker, TypeOK, WorkerType, PDSType, n
  <2>2. AtCommit => Op' = Op
    BY <1>3, <1>4, <2>1 DEF Op
  <2>3. pos' = pos /\ wpc' = wpc /\ (AtCommit => pos < Len(commits'))
    BY <1>3, <1>4, <2>1
  <2>4. QED
    BY <1>1, <2>2, <2>3 DEF Worker, AtCommit
<1>13. Repository'
  <2>1. ASSUME NEW i \in 1..n
        PROVE  commits'[i].rkey \in 1..created' /\ (commits'[i].op = "delete" => commits'[i].rkey \notin repo')
    <3>1. commits'[i] = commits[i] /\ commits[i].rkey \in 1..created
          /\ (commits[i].op = "delete" => commits[i].rkey \notin repo)
      BY <1>1, <1>4, <2>1 DEF Repository, n
    <3>2. commits[i].rkey # created + 1
      BY <1>1, <3>1
    <3>3. commits[i].op = "delete" => commits[i].rkey \notin repo'
      BY <1>2, <3>1, <3>2
    <3>4. commits[i].rkey \in 1..created'
      BY <1>5, <3>1
    <3>5. QED
      BY <3>1, <3>3, <3>4
  <2>2. r \in 1..created' /\ (op = "delete" => r \notin repo')
    <3>1. CASE op = "create" /\ r = created + 1 /\ created' = r
      BY <1>1, <3>1
    <3>2. CASE op = "delete" /\ r \in repo /\ created' = created /\ repo' = repo \ {r}
      BY <1>1, <3>2
    <3>3. QED
      BY <1>2, <3>1, <3>2
  <2>3. ASSUME NEW i \in 1..Len(commits')
        PROVE  commits'[i].rkey \in 1..created' /\ (commits'[i].op = "delete" => commits'[i].rkey \notin repo')
    <3>1. i \in 1..n \/ i = n + 1
      BY <1>4
    <3>2. QED
      BY <1>4, <2>1, <2>2, <3>1
  <2>4. QED
    BY <2>3 DEF Repository
<1>14. Emitting'
  <2>1. \A s : Emitters(s)' = Emitters(s)
    BY <1>3 DEF Emitters
  <2>2. QED
    BY <1>1, <1>3, <1>5, <2>1 DEF Emitting
<1>15. QED
  BY <1>7, <1>8, <1>9, <1>10, <1>11, <1>12, <1>13, <1>14 DEF Inv, TypeOK

\* What a step that leaves the PDS alone has to keep.
LEMMA Kept ==
  ASSUME Inv, UNCHANGED <<account, pdsVars>>,
         WorkerType', TableType', SlotType', HistoryType', Emitting',
         AtCommit' => pos' < Len(commits),
         wpc' \in {"fetch", "record"} => commits[pos' + 1].op = "create"
  PROVE  Inv'
<1> USE DEF pdsVars
<1>1. PDSType'
  BY DEF Inv, TypeOK, PDSType
<1>2. Repository'
  BY DEF Inv, Repository
<1>3. Worker'
  BY DEF Worker, Op, AtCommit
<1>4. QED
  BY <1>1, <1>2, <1>3 DEF Inv, TypeOK

\* Start lists what to resume, and gives the cursor it listed to a worker.
LEMMA StartInv ==
  ASSUME Inv, StartStep
  PROVE  Inv'
<1> USE DEF rowVars, tableVars, bootVars, workerVars, slotVars, history
<1>1. /\ TypeOK /\ Worker /\ Emitting /\ failures' \in Nat
      /\ UNCHANGED <<account, pdsVars, rowVars, tableVars, slotVars, awaited, announces, history>>
  BY FailureCounted DEF Inv, StartStep, StartList, StartEnsure, NoFailure, counters, TypeOK, SlotType
<1>2. /\ wCursor' \in 0..Len(commits) /\ bootCursor' \in 0..Len(commits) /\ pos' = pos
      /\ startPc' \in {"list", "ensure", "done"}
      /\ wpc' = wpc \/ wpc' = "dial"
  BY <1>1 DEF StartStep, StartList, StartEnsure, EnsureSubscribed, TypeOK, WorkerType, PDSType
<1>3. WorkerType'
  BY <1>1, <1>2 DEF TypeOK, WorkerType, pdsVars
<1>4. TableType' /\ SlotType' /\ HistoryType' /\ Emitting'
  BY <1>1 DEF TypeOK, TableType, SlotType, HistoryType, Emitting, Emitters, Of, Kind, pdsVars
<1>5. AtCommit' => pos' < Len(commits)
  BY <1>1, <1>2 DEF AtCommit, Worker
<1>6. wpc' \in {"fetch", "record"} => commits[pos' + 1].op = "create"
  BY <1>1, <1>2 DEF Worker, Op
<1>7. QED
  BY <1>1, <1>3, <1>4, <1>5, <1>6, Kept

\* The process starts anew; what it had in hand is a matter of history.
LEMMA RestartInv ==
  ASSUME Inv, RelayRestart
  PROVE  Inv'
<1>1. /\ TypeOK /\ Emitting /\ failures' \in Nat /\ created \in Nat
      /\ UNCHANGED <<account, pdsVars, rowVars, tableVars, awaited, announces, handled, skipped,
                     crawled, ghosts>>
      /\ startPc' = "list" /\ bootCursor' = 0 /\ wpc' = "none" /\ wCursor' = 0 /\ pos' = 0
      /\ apc' = [a \in Slot |-> "idle"] /\ oldStatus' = [a \in Slot |-> "untracked"]
      /\ col' = [a \in Slot |-> "none"] /\ page' = [a \in Slot |-> {}]
      /\ token' = [a \in Slot |-> 0] /\ held' = [a \in Slot |-> 0]
      /\ lost' = [r \in Rkey |-> lost[r] + Pending(r)]
      /\ failed' = failed \union UNION {Remaining(a) : a \in Slot}
  BY FailureCounted, ConstantsOK DEF Inv, RelayRestart, TypeOK, PDSType
<1> USE DEF rowVars, tableVars, pdsVars
<1>2. WorkerType'
  BY <1>1 DEF TypeOK, WorkerType, PDSType
<1>3. \A r \in Rkey : Pending(r) \in Int
  <2>1. ASSUME NEW r \in Rkey PROVE Cardinality(Emitters(r)) \in Nat
    BY <1>1, <2>1, FS_CardinalityType DEF Emitting
  <2>2. QED
    BY <2>1 DEF Pending, Emitters, Weight
<1>4. TableType'
  <2>1. lost' \in [Rkey -> Int]
    BY <1>1, <1>3 DEF TypeOK, TableType
  <2>2. QED
    BY <1>1, <2>1 DEF TypeOK, TableType, Of, Kind
<1>5. SlotType'
  BY <1>1, ConstantsOK DEF TypeOK, SlotType
<1>6. HistoryType'
  <2>1. \A a \in Slot : Remaining(a) \subseteq 1..created
    BY <1>1 DEF TypeOK, PDSType, SlotType, Remaining, Unlisted
  <2>2. QED
    BY <1>1, <2>1 DEF TypeOK, HistoryType
<1>7. Emitting'
  <2>1. \A r : Emitters(r)' = {}
    BY <1>1 DEF Emitters
  <2>2. QED
    BY <1>1, <2>1, FS_EmptySet DEF Emitting
<1>8. QED
  BY <1>1, <1>2, <1>4, <1>5, <1>6, <1>7, Kept DEF AtCommit

\* The worker opens a stream, waits for a commit and goes through its operation.
LEMMA WorkerInv ==
  ASSUME Inv, WorkerStep
  PROVE  Inv'
<1> USE DEF rowVars, tableVars, bootVars, slotVars
<1>1. /\ TypeOK /\ Worker /\ Emitting /\ Len(commits) \in Nat
      /\ cursorSeq \in 0..Len(commits) /\ wCursor \in 0..Len(commits) /\ pos \in 0..Len(commits)
      /\ handled \subseteq 1..Len(commits) /\ skipped \subseteq 1..Len(commits)
      /\ failed \subseteq 1..created
  BY DEF Inv, TypeOK, PDSType, WorkerType, HistoryType
<1>2. /\ UNCHANGED <<account, pdsVars, startPc, bootCursor, slotVars, awaited, announces, crawled,
                     ghosts>>
      /\ failures' \in Nat
  <2>1. \A r, d : AppendOrLose(r, d) => Failure \/ NoFailure
    BY DEF AppendOrLose
  <2>2. Failure \/ NoFailure \/ UNCHANGED failures
    BY <2>1
    DEF WorkerStep, DialPDS, StreamFails, ProcessOp, HandleFollow, HandleFeedSub, HandleShare,
        HandleStar, DeleteFollow, DeleteFeedSubscription, DeleteShare, DeleteStar, Remove, Fetch,
        FetchRecord, RecordFetched, EmitEvent, UpdateCursor, counters
  <2>3. failures' \in Nat
    BY <1>1, <2>2, FailureCounted DEF TypeOK, SlotType
  <2>4. QED
    BY <2>3
    DEF WorkerStep, DialPDS, StreamFails, ProcessOp, FetchRecord, RecordFetched, EmitEvent,
        UpdateCursor, counters, history
<1>3. SlotType' /\ Emitting'
  <2>1. \A r : Emitters(r)' = Emitters(r)
    BY <1>2 DEF Emitters
  <2>2. QED
    BY <1>1, <1>2, <2>1 DEF TypeOK, SlotType, Emitting, pdsVars
<1>4. ASSUME UNCHANGED <<observed, net, lost>>
      PROVE  TableType'
  <2>1. created' = created /\ account' = account
    BY <1>2 DEF pdsVars
  <2>2. \A c : Of(c)' = Of(c)
    BY <2>1 DEF Of, Kind
  <2>3. QED
    BY <1>1, <1>4, <2>1, <2>2 DEF TypeOK, TableType
<1>5. CASE DialPDS
  <2>1. /\ wpc' = "recv" /\ pos' \in 0..Len(commits) /\ skipped' \subseteq 1..Len(commits)
        /\ UNCHANGED <<status, cursorSeq, tableVars, wCursor, handled, crawled, failed, ghosts, lost>>
    <3>1. pos' \in {wCursor, Len(commits)} /\ skipped' \in {skipped, skipped \union (1..Len(commits) \ handled)}
      BY <1>5 DEF DialPDS
    <3>2. Len(commits) \in 0..Len(commits)
      BY <1>1
    <3>3. QED
      BY <1>1, <1>5, <3>1, <3>2 DEF DialPDS
  <2>2. WorkerType' /\ HistoryType'
    BY <1>1, <1>2, <2>1 DEF TypeOK, WorkerType, HistoryType, pdsVars
  <2>3. QED
    BY <1>2, <1>3, <1>4, <2>1, <2>2, Kept DEF AtCommit
<1>6. CASE StreamFails
  <2>1. /\ wpc' = "dial" /\ pos' = 0 /\ status' \in {"error", status}
        /\ UNCHANGED <<cursorSeq, tableVars, wCursor, history>>
    BY <1>6 DEF StreamFails
  <2>2. WorkerType' /\ HistoryType' /\ UNCHANGED lost
    BY <1>1, <1>2, <2>1 DEF TypeOK, WorkerType, HistoryType, history, pdsVars
  <2>3. QED
    BY <1>2, <1>3, <1>4, <2>1, <2>2, Kept DEF AtCommit
<1>7. ASSUME wpc' \in {"fetch", "record", "emit", "cursor"}, failed' \subseteq 1..created,
             pos < Len(commits), wpc' \in {"fetch", "record"} => Op.op = "create",
             TableType', UNCHANGED <<rowVars, wCursor, pos, handled, skipped>>
      PROVE  Inv'
  <2>1. WorkerType' /\ HistoryType'
    BY <1>1, <1>2, <1>7 DEF TypeOK, WorkerType, HistoryType, pdsVars
  <2>2. QED
    BY <1>2, <1>3, <1>7, <2>1, Kept DEF Op
<1>8. CASE ProcessOp
  <2>1. /\ pos < Len(commits)
        /\ UNCHANGED <<rowVars, net, wCursor, pos, handled, skipped, lost>>
    BY <1>8 DEF ProcessOp
  <2>2. Op.rkey \in 1..created
    BY <2>1, OpAtHand
  <2>3. /\ wpc' \in {"fetch", "record", "emit", "cursor"} /\ failed' \subseteq 1..created
        /\ wpc' \in {"fetch", "record"} => Op.op = "create"
        /\ observed' = observed \/ observed' = [observed EXCEPT ![Kind(Op.rkey)] = @ \ {Op.rkey}]
    BY <1>1, <1>8, <2>2, OpHandled
  <2>4. TableType'
    <3>1. /\ observed' \in [Collection -> SUBSET (1..created)]
          /\ \A c \in Collection : observed'[c] \subseteq Of(c)
      BY <1>1, <1>2, <2>2, <2>3, RowChanged DEF pdsVars
    <3>2. QED
      BY <1>1, <1>2, <2>1, <3>1 DEF TypeOK, TableType, Of, Kind, pdsVars
  <2>5. QED
    BY <1>7, <2>1, <2>3, <2>4
<1>9. CASE FetchRecord
  <2>1. /\ AtCommit /\ wpc' \in {"record", "cursor"} /\ Op.op = "create"
        /\ failed' \in {failed, failed \union {Op.rkey}}
        /\ UNCHANGED <<rowVars, tableVars, wCursor, pos, handled, skipped, lost>>
    BY <1>1, <1>9 DEF FetchRecord, AtCommit, Worker
  <2>2. Op.rkey \in 1..created /\ pos < Len(commits)
    BY <1>1, <2>1, OpAtHand DEF Worker
  <2>3. QED
    BY <1>1, <1>4, <1>7, <2>1, <2>2
<1>10. CASE RecordFetched
  <2>1. /\ AtCommit /\ wpc' \in {"emit", "cursor"}
        /\ failed' \in {failed, failed \union {Op.rkey}}
        /\ observed' = observed \/ ProcessRecord(Op.rkey)
        /\ UNCHANGED <<rowVars, net, wCursor, pos, handled, skipped, lost>>
    BY <1>1, <1>10 DEF RecordFetched, AtCommit
  <2>2. Op.rkey \in 1..created /\ pos < Len(commits)
    BY <1>1, <2>1, OpAtHand DEF Worker
  <2>3. TableType'
    <3>1. observed' = observed \/ observed' = [observed EXCEPT ![Kind(Op.rkey)] = @ \union {Op.rkey}]
      BY <1>1, <2>1, <2>2, Processed
    <3>2. /\ observed' \in [Collection -> SUBSET (1..created)]
          /\ \A c \in Collection : observed'[c] \subseteq Of(c)
      BY <1>1, <1>2, <2>2, <3>1, RowChanged DEF pdsVars
    <3>3. QED
      BY <1>1, <1>2, <2>1, <3>2 DEF TypeOK, TableType, Of, Kind, pdsVars
  <2>4. QED
    BY <1>1, <1>7, <2>1, <2>2, <2>3
<1>11. CASE EmitEvent
  <2>1. /\ AtCommit /\ wpc' = "cursor" /\ AppendOrLose(Op.rkey, Weight(Op.op))
        /\ UNCHANGED <<rowVars, observed, wCursor, pos, handled, skipped, failed>>
    BY <1>11 DEF EmitEvent, AtCommit
  <2>2. Op.rkey \in Rkey /\ pos < Len(commits) /\ Weight(Op.op) \in Int
    BY <1>1, <2>1, OpAtHand, Kinds DEF Worker, Weight
  <2>3. net' \in [Rkey -> Int] /\ lost' \in [Rkey -> Int]
    BY <1>1, <2>1, <2>2, AppendedOrLost
  <2>4. TableType'
    BY <1>1, <1>2, <2>1, <2>3 DEF TypeOK, TableType, Of, Kind, pdsVars
  <2>5. QED
    BY <1>1, <1>7, <2>1, <2>2, <2>4
<1>12. CASE UpdateCursor
  <2>1. pos < Len(commits) /\ pos \in Nat /\ pos + 1 \in 1..Len(commits)
    BY <1>1, <1>12, OpAtHand DEF UpdateCursor, Worker, AtCommit
  <2>2. /\ pos' = pos + 1 /\ wCursor' = pos + 1 /\ handled' = handled \union {pos + 1}
        /\ cursorSeq' \in {cursorSeq, pos + 1} /\ wpc' = "recv"
        /\ UNCHANGED <<status, tableVars, skipped, failed, lost>>
    BY <1>12 DEF UpdateCursor
  <2>3. WorkerType' /\ HistoryType'
    BY <1>1, <1>2, <2>1, <2>2 DEF TypeOK, WorkerType, HistoryType, pdsVars
  <2>4. QED
    BY <1>2, <1>3, <1>4, <2>2, <2>3, Kept DEF AtCommit
<1>13. QED
  BY <1>5, <1>6, <1>8, <1>9, <1>10, <1>11, <1>12 DEF WorkerStep

\* A collection is left for the next one, or the crawl is over.
LEMMA CollectionLeft ==
  ASSUME TypeOK, NEW a \in Slot, LeaveCollection(a)
  PROVE  \/ /\ apc' = [apc EXCEPT ![a] = "list"] /\ MaxRkey + 1 \in 0..(MaxRkey + 1)
            /\ \E c \in Collection : StartCollection(a, c)
         \/ apc' = [apc EXCEPT ![a] = "complete"] /\ UNCHANGED <<col, token>>
<1>1. After(col[a]) # {} => First(After(col[a])) \in Collection
  BY Kinds, FirstOf
<1>2. MaxRkey + 1 \in 0..(MaxRkey + 1)
  BY ConstantsOK
<1>3. QED
  BY <1>1, <1>2 DEF LeaveCollection

\* A step of a request or its backfill that moves no further than to the next
\* collection keeps the types of its slot.
LEMMA SlotMoved ==
  ASSUME Inv, NEW a \in Slot, UNCHANGED <<account, pdsVars>>,
         NEW pc \in {"idle", "upsert", "list", "page", "complete", "ensure"},
         apc' = [apc EXCEPT ![a] = pc], held' = held, failures' \in Nat,
         oldStatus' = oldStatus \/ oldStatus' = [oldStatus EXCEPT ![a] = status]
           \/ oldStatus' = [oldStatus EXCEPT ![a] = "untracked"],
         page' \in [Slot -> SUBSET (1..created)],
         \/ UNCHANGED <<col, token>> /\ (pc \in {"list", "page"} => col[a] \in Collection)
         \/ \E c \in Collection : StartCollection(a, c)
         \/ /\ col' = [col EXCEPT ![a] = "none"] /\ token' = [token EXCEPT ![a] = 0]
            /\ pc \notin {"list", "page"},
         awaited' \in BOOLEAN, announces' \in Nat
  PROVE  SlotType' /\ Emitting'
<1>1. /\ TypeOK /\ Emitting /\ SlotType /\ MaxRkey \in Nat /\ created' = created
      /\ status \in {"untracked", "active", "error"}
  BY ConstantsOK DEF Inv, TypeOK, WorkerType, pdsVars
<1>2. /\ apc' \in [Slot -> {"idle", "upsert", "list", "page", "emit", "complete", "ensure"}]
      /\ oldStatus' \in [Slot -> {"untracked", "active", "error"}]
      /\ held' \in [Slot -> 0..created']
  BY <1>1 DEF SlotType
<1>3. /\ col' \in [Slot -> Collection \union {"none"}] /\ token' \in [Slot -> 0..(MaxRkey + 1)]
      /\ \A b \in Slot \ {a} : col'[b] = col[b] /\ apc'[b] = apc[b] /\ held'[b] = held[b]
      /\ apc'[a] = pc /\ (pc \in {"list", "page"} => col'[a] \in Collection)
  BY <1>1 DEF SlotType, StartCollection
<1>4. SlotType'
  BY <1>1, <1>2, <1>3 DEF SlotType
<1>5. Emitting'
  <2>1. \A r \in Rkey : IsFiniteSet(Emitters(r)')
    BY <1>1, <1>3, EmittersFinite
  <2>2. QED
    BY <1>1, <1>3, <2>1 DEF Emitting
<1>6. QED
  BY <1>4, <1>5

\* Nothing but the slot and the worker it starts changes.
LEMMA SlotKept ==
  ASSUME Inv, UNCHANGED <<account, pdsVars, startPc, bootCursor>>, SlotType', Emitting',
         status' \in {"untracked", "active", "error"}, cursorSeq' = cursorSeq,
         UNCHANGED workerVars \/ EnsureSubscribed(0), TableType', HistoryType'
  PROVE  Inv'
<1>1. /\ TypeOK /\ Worker /\ Len(commits) \in Nat
      /\ wCursor' \in 0..Len(commits) /\ pos' = pos
      /\ wpc' = wpc \/ wpc' = "dial"
  BY DEF Inv, TypeOK, WorkerType, PDSType, workerVars, EnsureSubscribed
<1>2. WorkerType'
  BY <1>1 DEF TypeOK, WorkerType, pdsVars
<1>3. AtCommit' => pos' < Len(commits)
  BY <1>1 DEF AtCommit, Worker
<1>4. wpc' \in {"fetch", "record"} => commits[pos' + 1].op = "create"
  BY <1>1 DEF Worker, Op
<1>5. QED
  BY <1>2, <1>3, <1>4, Kept

\* Tables and history whose variables did not change keep their types.
LEMMA TablesKept ==
  ASSUME Inv, UNCHANGED <<account, pdsVars, tableVars, lost>>
  PROVE  TableType'
<1>1. created' = created /\ account' = account /\ \A c : Of(c)' = Of(c)
  BY DEF pdsVars, Of, Kind
<1>2. QED
  BY <1>1 DEF Inv, TypeOK, TableType, tableVars

\* The history keeps its types under a step that only crawls, fails or loses sight
\* of commits that exist.
LEMMA HistoryKept ==
  ASSUME Inv, UNCHANGED <<account, pdsVars, handled, skipped>>,
         crawled' \subseteq 1..created, failed' \subseteq 1..created, ghosts' \subseteq 1..created
  PROVE  HistoryType'
BY DEF Inv, TypeOK, HistoryType, pdsVars

\* A request is answered and its backfill goes from page to page.
LEMMA SlotInv ==
  ASSUME Inv, NEW a \in Slot, SlotStep(a)
  PROVE  Inv'
<1> USE DEF rowVars, bootVars
<1>1. /\ TypeOK /\ Emitting /\ SlotType /\ created \in Nat /\ MaxRkey \in Nat
      /\ status \in {"untracked", "active", "error"} /\ repo \subseteq 1..created
      /\ crawled \subseteq 1..created /\ failed \subseteq 1..created /\ ghosts \subseteq 1..created
      /\ page[a] \subseteq 1..created /\ page \in [Slot -> SUBSET (1..created)]
      /\ announces \in Nat /\ failures \in Nat /\ awaited \in BOOLEAN
  <2>1. TypeOK /\ Emitting /\ PDSType /\ WorkerType /\ SlotType /\ HistoryType
    BY DEF Inv, TypeOK
  <2>2. /\ page[a] \subseteq 1..created /\ page \in [Slot -> SUBSET (1..created)]
        /\ announces \in Nat /\ failures \in Nat /\ awaited \in BOOLEAN
    BY <2>1 DEF SlotType
  <2>3. created \in Nat /\ MaxRkey \in Nat /\ repo \subseteq 1..created
    BY <2>1, ConstantsOK DEF PDSType
  <2>4. QED
    BY <2>1, <2>2, <2>3 DEF WorkerType, HistoryType
<1>2. CASE AnnounceRead(a) \/ AnnounceFails(a)
  <2>1. /\ UNCHANGED <<account, pdsVars, rowVars, tableVars, bootVars, workerVars, col, page, token,
                       held, awaited, history>>
        /\ \E pc \in {"upsert", "idle"} : apc' = [apc EXCEPT ![a] = pc]
        /\ oldStatus' \in {[oldStatus EXCEPT ![a] = status], [oldStatus EXCEPT ![a] = "untracked"]}
        /\ announces' \in Nat /\ failures' \in Nat
    BY <1>1, <1>2 DEF AnnounceRead, AnnounceFails, Failure
  <2>2. SlotType' /\ Emitting'
    BY <1>1, <2>1, SlotMoved
  <2>3. TableType' /\ HistoryType'
    BY <1>1, <2>1, TablesKept, HistoryKept DEF history
  <2>4. QED
    BY <1>1, <2>1, <2>2, <2>3, SlotKept
<1>3. CASE AnnounceUpsert(a)
  <2>1. /\ UNCHANGED <<account, pdsVars, cursorSeq, tableVars, bootVars, page, held, counters,
                       history>>
        /\ status' = "active" /\ oldStatus' = [oldStatus EXCEPT ![a] = "untracked"]
        /\ UNCHANGED workerVars \/ EnsureSubscribed(0)
        /\ awaited' \in BOOLEAN
    BY <1>1, <1>3 DEF AnnounceUpsert
  <2>2. First(Crawled) \in Collection
    BY <1>1, Kinds, FirstOf
  <2>3. \/ /\ apc' = [apc EXCEPT ![a] = "list"]
           /\ \E c \in Collection : StartCollection(a, c)
        \/ apc' = [apc EXCEPT ![a] = "idle"] /\ UNCHANGED <<col, token>>
    BY <1>3, <2>2 DEF AnnounceUpsert
  <2>4. SlotType' /\ Emitting'
    BY <1>1, <2>1, <2>3, SlotMoved DEF counters
  <2>5. TableType' /\ HistoryType'
    BY <1>1, <2>1, TablesKept, HistoryKept DEF history
  <2>6. QED
    BY <1>1, <2>1, <2>4, <2>5, SlotKept
<1>4. CASE ListRecords(a)
  <2>1. /\ UNCHANGED <<account, pdsVars, rowVars, tableVars, bootVars, workerVars, oldStatus,
                       held, awaited, announces, handled, skipped, ghosts, lost>>
        /\ failures' \in Nat /\ apc[a] = "list" /\ col[a] \in Collection
    BY <1>1, <1>4, FailureCounted DEF ListRecords, Emitting
  <2>2. Unlisted(a) \subseteq 1..created /\ Of(col[a]) \subseteq 1..created
        /\ NextPage(a) \in SUBSET (1..created)
    BY <1>1 DEF Unlisted, Of, NextPage
  <2>3. /\ crawled' \subseteq 1..created /\ failed' \subseteq 1..created
        /\ page' \in [Slot -> SUBSET (1..created)]
    BY <1>1, <1>4, <2>2 DEF ListRecords
  <2>4. \/ apc' = [apc EXCEPT ![a] = "page"] /\ UNCHANGED <<col, token>>
        \/ apc' = [apc EXCEPT ![a] = "complete"] /\ UNCHANGED <<col, token>>
        \/ apc' = [apc EXCEPT ![a] = "list"] /\ \E c \in Collection : StartCollection(a, c)
    BY <1>1, <1>4, CollectionLeft DEF ListRecords
  <2>5. SlotType' /\ Emitting'
    BY <1>1, <2>1, <2>3, <2>4, SlotMoved
  <2>6. TableType' /\ HistoryType'
    BY <1>1, <2>1, <2>3, TablesKept, HistoryKept
  <2>7. QED
    BY <1>1, <2>1, <2>5, <2>6, SlotKept
<1>5. CASE PageDone(a)
  <2>1. /\ UNCHANGED <<account, pdsVars, rowVars, tableVars, bootVars, workerVars, oldStatus,
                       page, held, awaited, counters, history>>
        /\ apc[a] = "page" /\ col[a] \in Collection
    BY <1>1, <1>5 DEF PageDone, Emitting
  <2>2. \/ apc' = [apc EXCEPT ![a] = "list"] /\ UNCHANGED <<col, token>>
        \/ apc' = [apc EXCEPT ![a] = "complete"] /\ UNCHANGED <<col, token>>
        \/ apc' = [apc EXCEPT ![a] = "list"] /\ \E c \in Collection : StartCollection(a, c)
    BY <1>1, <1>5, CollectionLeft DEF PageDone
  <2>3. SlotType' /\ Emitting'
    BY <1>1, <2>1, <2>2, SlotMoved DEF counters
  <2>4. TableType' /\ HistoryType'
    BY <1>1, <2>1, TablesKept, HistoryKept DEF history
  <2>5. QED
    BY <1>1, <2>1, <2>3, <2>4, SlotKept
<1>6. CASE BackfillComplete(a) \/ CutOver(a)
  <2>1. /\ UNCHANGED <<account, pdsVars, rowVars, tableVars, bootVars, oldStatus, page, held,
                       announces, history>>
        /\ failures' \in Nat /\ awaited' \in BOOLEAN
        /\ UNCHANGED workerVars \/ EnsureSubscribed(0)
    BY <1>1, <1>6, FailureCounted DEF BackfillComplete, CutOver, counters
  <2>2. \/ /\ apc' = [apc EXCEPT ![a] = "ensure"]
           /\ col' = [col EXCEPT ![a] = "none"] /\ token' = [token EXCEPT ![a] = 0]
        \/ apc' = [apc EXCEPT ![a] = "idle"] /\ UNCHANGED <<col, token>>
    BY <1>6 DEF BackfillComplete, CutOver
  <2>3. SlotType' /\ Emitting'
    BY <1>1, <2>1, <2>2, SlotMoved
  <2>4. TableType' /\ HistoryType'
    BY <1>1, <2>1, TablesKept, HistoryKept DEF history
  <2>5. QED
    BY <1>1, <2>1, <2>3, <2>4, SlotKept
<1>7. CASE BackfillRecord(a)
  <2>1. PICK r \in page[a] :
          /\ page' = [page EXCEPT ![a] = @ \ {r}]
          /\ token' = [token EXCEPT ![a] = r]
          /\ \/ /\ ProcessRecord(r)
                /\ IF observed' = observed
                   THEN UNCHANGED <<apc, held, ghosts>>
                   ELSE /\ apc' = [apc EXCEPT ![a] = "emit"]
                        /\ held' = [held EXCEPT ![a] = r]
                        /\ ghosts' = IF DeletionApplied(r) THEN ghosts \union {r} ELSE ghosts
                /\ NoFailure /\ UNCHANGED failed
             \/ /\ Failure
                /\ failed' = failed \union {r}
                /\ UNCHANGED <<observed, apc, held, ghosts>>
    BY <1>7 DEF BackfillRecord
  <2>2. /\ UNCHANGED <<account, pdsVars, rowVars, net, bootVars, workerVars, oldStatus, col, awaited,
                       announces, handled, skipped, crawled, lost>>
        /\ failures' \in Nat /\ apc[a] = "page" /\ col[a] \in Collection
    BY <1>1, <1>7, FailureCounted DEF BackfillRecord, Emitting
  <2>3. r \in 1..created /\ r \in 0..(MaxRkey + 1) /\ r \in 0..created
    BY <1>1, <2>1, ConstantsOK DEF TypeOK, PDSType
  <2>4. /\ \/ UNCHANGED <<apc, held>>
           \/ apc' = [apc EXCEPT ![a] = "emit"] /\ held' = [held EXCEPT ![a] = r]
        /\ ghosts' \subseteq 1..created /\ failed' \subseteq 1..created
    BY <1>1, <2>1, <2>3
  <2>5. SlotType'
    <3>1. /\ apc' \in [Slot -> {"idle", "upsert", "list", "page", "emit", "complete", "ensure"}]
          /\ held' \in [Slot -> 0..created] /\ token' \in [Slot -> 0..(MaxRkey + 1)]
          /\ page' \in [Slot -> SUBSET (1..created)]
      BY <1>1, <2>1, <2>3, <2>4 DEF SlotType
    <3>2. QED
      BY <1>1, <2>2, <3>1 DEF SlotType, pdsVars
  <2>6. Emitting'
    <3>1. /\ \A b \in Slot \ {a} : apc'[b] = apc[b] /\ held'[b] = held[b]
          /\ apc'[a] = "emit" => held'[a] = r
      BY <1>1, <2>2, <2>4 DEF SlotType
    <3>2. \A s \in Rkey : IsFiniteSet(Emitters(s)')
      BY <1>1, <3>1, EmittersFinite
    <3>3. QED
      BY <1>1, <2>2, <2>3, <3>1, <3>2 DEF Emitting, pdsVars
  <2>7. TableType'
    <3>1. observed' = observed \/ observed' = [observed EXCEPT ![Kind(r)] = @ \union {r}]
      BY <1>1, <2>1, <2>3, Processed
    <3>2. /\ observed' \in [Collection -> SUBSET (1..created)]
          /\ \A c \in Collection : observed'[c] \subseteq Of(c)
      BY <1>1, <2>2, <2>3, <3>1, RowChanged DEF pdsVars
    <3>3. \A c : Of(c)' = Of(c)
      BY <2>2 DEF Of, Kind, pdsVars
    <3>4. QED
      BY <1>1, <2>2, <3>2, <3>3 DEF TypeOK, TableType, pdsVars
  <2>8. HistoryType'
    BY <1>1, <2>2, <2>4, HistoryKept
  <2>9. QED
    BY <1>1, <2>2, <2>5, <2>6, <2>7, <2>8, SlotKept
<1>8. CASE BackfillEmit(a)
  <2>1. /\ UNCHANGED <<account, pdsVars, rowVars, observed, bootVars, workerVars, oldStatus, col, page,
                       token, awaited, announces, handled, skipped, crawled, failed, ghosts>>
        /\ apc[a] = "emit" /\ AppendOrLose(held[a], 1)
        /\ apc' = [apc EXCEPT ![a] = "page"] /\ held' = [held EXCEPT ![a] = 0]
    BY <1>8 DEF BackfillEmit
  <2>2. held[a] \in Rkey /\ col[a] \in Collection
    BY <1>1, <2>1, Kinds DEF Emitting
  <2>3. net' \in [Rkey -> Int] /\ lost' \in [Rkey -> Int] /\ failures' \in Nat
    BY <1>1, <2>1, <2>2, AppendedOrLost
  <2>4. SlotType'
    BY <1>1, <2>1, <2>3 DEF SlotType, pdsVars
  <2>5. Emitting'
    <3>1. /\ \A b \in Slot \ {a} : apc'[b] = apc[b] /\ held'[b] = held[b]
          /\ apc'[a] = "page"
      BY <1>1, <2>1 DEF SlotType
    <3>2. \A s \in Rkey : IsFiniteSet(Emitters(s)')
      BY <1>1, <3>1, EmittersFinite
    <3>3. QED
      BY <1>1, <2>1, <2>2, <3>1, <3>2 DEF Emitting, pdsVars
  <2>6. TableType'
    <3>1. \A c : Of(c)' = Of(c)
      BY <2>1 DEF Of, Kind, pdsVars
    <3>2. QED
      BY <1>1, <2>1, <2>3, <3>1 DEF TypeOK, TableType, pdsVars
  <2>7. HistoryType'
    BY <1>1, <2>1, HistoryKept
  <2>8. QED
    BY <1>1, <2>1, <2>4, <2>5, <2>6, <2>7, SlotKept
<1>9. QED
  BY <1>2, <1>3, <1>4, <1>5, <1>6, <1>7, <1>8 DEF SlotStep, BackfillStep

\* The invariant is inductive.
LEMMA NextInv ==
  ASSUME Inv, [Next]_vars
  PROVE  Inv'
<1>1. CASE UNCHANGED vars
  <2>1. UNCHANGED <<account, pdsVars, rowVars, tableVars, bootVars, workerVars, slotVars, awaited,
                    counters, history>>
    BY <1>1 DEF vars
  <2>2. WorkerType' /\ SlotType' /\ HistoryType'
    BY <2>1 DEF Inv, TypeOK, WorkerType, SlotType, HistoryType, pdsVars, rowVars, bootVars, workerVars,
                slotVars, counters, history
  <2>3. TableType'
    BY <2>1, TablesKept DEF history
  <2>4. Emitting' /\ Worker'
    <3>1. \A r : Emitters(r)' = Emitters(r)
      BY <2>1 DEF Emitters, slotVars
    <3>2. QED
      BY <2>1, <3>1 DEF Inv, Emitting, Worker, AtCommit, Op, slotVars, pdsVars, workerVars
  <2>5. QED
    BY <2>1, <2>2, <2>3, <2>4, Kept DEF Worker, Op, pdsVars
<1>2. QED
  BY <1>1, PDSInv, StartInv, WorkerInv, SlotInv, RestartInv DEF Next

\* The invariant holds in every reachable state.
LEMMA InvHolds == Spec => []Inv
BY InitInv, NextInv, PTL DEF Spec

(* Every variable keeps its type, for accounts of any number of records,       *)
(* announcements and failures: cursors stay within the stream, rows belong to  *)
(* records that have existed, each in the table of its collection.             *)
THEOREM TrackingTypes == Spec => []TypeOK
<1>1. Inv => TypeOK
  BY DEF Inv
<1>2. QED
  BY <1>1, InvHolds, PTL

-----------------------------------------------------------------------------
(* Cursors *)

\* Every step keeps what was processed or skipped, and only a worker that
\* finishes a commit moves the stored cursor, forward.
LEMMA NextCursors ==
  ASSUME Inv, Cursors, [Next]_vars
  PROVE  Cursors' /\ cursorSeq' >= cursorSeq
<1> USE DEF rowVars, bootVars, workerVars, history
<1>1. /\ cursorSeq \in Nat /\ wCursor \in Nat /\ bootCursor \in Nat /\ pos \in Nat
      /\ cursorSeq <= Len(commits) /\ wCursor <= Len(commits) /\ bootCursor <= Len(commits)
      /\ pos <= Len(commits) /\ Len(commits) \in Nat
  BY DEF Inv, TypeOK, PDSType, WorkerType
<1>2. ASSUME NEW n \in Nat, Covered(n), handled \subseteq handled', skipped \subseteq skipped'
      PROVE  Covered(n)'
  BY <1>2 DEF Covered
<1>3. Covered(0)
  BY DEF Covered
<1>4. CASE UNCHANGED <<rowVars, bootVars, workerVars, handled, skipped>>
  BY <1>1, <1>4 DEF Cursors, Covered, Streaming
<1>5. CASE /\ cursorSeq' = cursorSeq /\ UNCHANGED <<bootVars, handled, skipped>>
           /\ UNCHANGED workerVars \/ EnsureSubscribed(0)
  BY <1>1, <1>3, <1>5 DEF Cursors, Covered, Streaming, EnsureSubscribed
<1>6. CASE StartList
  BY <1>1, <1>3, <1>6 DEF StartList, Cursors, Covered, Streaming
<1>7. CASE StartEnsure
  <2>1. /\ startPc = "ensure" /\ startPc' = "done" /\ bootCursor' = 0 /\ cursorSeq' = cursorSeq
        /\ UNCHANGED <<handled, skipped, pos>>
    BY <1>7 DEF StartEnsure, EnsureSubscribed
  <2>2. \/ UNCHANGED <<wpc, wCursor>> /\ wpc # "none"
        \/ wpc = "none" /\ wpc' = "dial" /\ wCursor' = bootCursor
    BY <1>7 DEF StartEnsure, EnsureSubscribed
  <2>3. QED
    BY <1>1, <1>3, <2>1, <2>2 DEF Cursors, Covered, Streaming
<1>8. CASE DialPDS
  <2>1. /\ wpc = "dial" /\ wpc' = "recv" /\ UNCHANGED <<rowVars, bootVars, wCursor, handled>>
        /\ \/ wCursor > 0 /\ pos' = wCursor /\ skipped' = skipped
           \/ /\ ~ (wCursor > 0) /\ pos' = Len(commits)
              /\ skipped' = skipped \union (1..Len(commits) \ handled)
    BY <1>8 DEF DialPDS
  <2>2. Covered(cursorSeq)' /\ Covered(wCursor)' /\ Covered(bootCursor)'
    BY <1>1, <1>2, <2>1 DEF Cursors, Covered
  <2>3. Covered(pos)' /\ cursorSeq' <= pos'
    BY <1>1, <2>1 DEF Cursors, Covered
  <2>4. QED
    BY <1>1, <2>1, <2>2, <2>3 DEF Cursors
<1>9. CASE StreamFails
  BY <1>1, <1>3, <1>9 DEF StreamFails, Cursors, Covered, Streaming
<1>10. CASE ProcessOp \/ FetchRecord \/ RecordFetched \/ EmitEvent
  <2>1. UNCHANGED <<rowVars, bootVars, wCursor, pos, handled, skipped>>
    BY <1>10 DEF ProcessOp, FetchRecord, RecordFetched, EmitEvent
  <2>2. Streaming /\ wpc # "none" /\ wpc' # "none"
    <3>1. CASE ProcessOp
      BY <3>1, OpHandled DEF ProcessOp, Streaming
    <3>2. QED
      BY <1>10, <3>1 DEF FetchRecord, RecordFetched, EmitEvent, Streaming
  <2>3. QED
    BY <1>1, <2>1, <2>2 DEF Cursors, Covered
<1>11. CASE UpdateCursor
  <2>1. /\ wpc = "cursor" /\ wpc' = "recv" /\ pos' = pos + 1 /\ wCursor' = pos + 1
        /\ handled' = handled \union {pos + 1} /\ UNCHANGED <<bootVars, skipped>>
        /\ cursorSeq' = pos + 1 \/ cursorSeq' = cursorSeq
    BY <1>11 DEF UpdateCursor
  <2>2. Covered(pos) /\ cursorSeq <= pos
    BY <2>1 DEF Cursors, Streaming
  <2>3. \A i \in 1..(pos + 1) : i \in handled' \union skipped'
    BY <1>1, <2>1, <2>2 DEF Covered
  <2>4. Covered(cursorSeq)' /\ Covered(bootCursor)' /\ Covered(wCursor)' /\ Covered(pos)'
    <3>1. Covered(cursorSeq)'
      BY <1>1, <1>2, <2>1, <2>3 DEF Cursors, Covered
    <3>2. Covered(bootCursor)'
      BY <1>1, <2>1 DEF Cursors, Covered
    <3>3. QED
      BY <2>1, <2>3, <3>1, <3>2 DEF Covered
  <2>5. QED
    BY <1>1, <2>1, <2>2, <2>4 DEF Cursors
<1>12. CASE RelayRestart
  BY <1>1, <1>3, <1>12 DEF RelayRestart, Cursors, Covered, Streaming
<1>13. ASSUME NEW a \in Slot, SlotStep(a)
       PROVE  Cursors' /\ cursorSeq' >= cursorSeq
  <2>1. CASE AnnounceUpsert(a)
    BY <1>5, <2>1 DEF AnnounceUpsert
  <2>2. CASE BackfillStep(a) \/ AnnounceRead(a) \/ AnnounceFails(a)
    BY <1>5, <2>2
    DEF AnnounceRead, AnnounceFails, BackfillStep, ListRecords, BackfillRecord,
        BackfillEmit, PageDone, BackfillComplete, CutOver
  <2>3. QED
    BY <1>13, <2>1, <2>2 DEF SlotStep
<1>14. CASE CreateRecord \/ (\E r \in Rkey : DeleteRecord(r)) \/ UNCHANGED vars
  BY <1>4, <1>14 DEF CreateRecord, DeleteRecord, vars
<1>15. QED
  BY <1>6, <1>7, <1>8, <1>9, <1>10, <1>11, <1>12, <1>13, <1>14 DEF Next, StartStep, WorkerStep

\* The cursors hold in every reachable state.
LEMMA CursorsHold == Spec => []Cursors
<1>1. Init => Cursors
  BY DEF Init, Cursors, Covered, Streaming
<1>2. QED
  BY <1>1, InvHolds, NextCursors, PTL DEF Spec

(* The stored cursor passes no commit that was neither processed nor skipped   *)
(* by a stream opened without one, whoever started the worker and however      *)
(* often the stream broke or the relay restarted.                              *)
THEOREM CursorSafe == Spec => []CursorCovers
<1>1. Cursors => CursorCovers
  BY DEF Cursors, Covered, CursorCovers
<1>2. QED
  BY <1>1, CursorsHold, PTL

(* The stored cursor never goes back, although its update is unconditional:    *)
(* there is one worker at a time and none resumes below the cursor.            *)
THEOREM CursorMonotone == Spec => CursorNeverRegresses
<1>1. Inv /\ Cursors /\ [Next]_vars => [cursorSeq' >= cursorSeq]_vars
  BY NextCursors
<1>2. QED
  BY <1>1, InvHolds, CursorsHold, PTL DEF Spec, CursorNeverRegresses

-----------------------------------------------------------------------------
(* Events and rows *)

\* What the balance of a record is made of.
LEMMA BalanceParts ==
  ASSUME Inv, NEW r \in Rkey
  PROVE  /\ net[r] \in Int /\ lost[r] \in Int
         /\ IsFiniteSet(Emitters(r)) /\ Cardinality(Emitters(r)) \in Nat
         /\ Pending(r) \in Int
         /\ Pending(r) = (IF wpc = "emit" /\ Op.rkey = r THEN Weight(Op.op) ELSE 0)
                           + Cardinality(Emitters(r))
<1>1. IsFiniteSet(Emitters(r)) /\ Cardinality(Emitters(r)) \in Nat
  BY FS_CardinalityType DEF Inv, Emitting
<1>2. QED
  BY <1>1 DEF Inv, TypeOK, TableType, Pending, Emitters, Weight

\* A step that leaves rows, events and those who are to emit alone.
LEMMA BalanceKept ==
  ASSUME Inv, Balanced, UNCHANGED <<account, observed, net, lost>>,
         \A r \in Rkey : Emitters(r)' = Emitters(r),
         (wpc' = "emit") <=> (wpc = "emit"), wpc = "emit" => Op' = Op
  PROVE  Balanced'
<1>1. \A r \in Rkey : Pending(r)' = Pending(r)
  BY DEF Pending, Emitters
<1>2. QED
  BY <1>1 DEF Balanced, Balance, Observed, Kind

\* The worker's operation is the same one when the stream grows.
LEMMA OpKept ==
  ASSUME Inv, CreateRecord \/ (\E r \in Rkey : DeleteRecord(r)), AtCommit
  PROVE  Op' = Op
<1>1. pos \in Nat /\ pos + 1 \in 1..Len(commits) /\ created \in 0..MaxRkey /\ MaxRkey \in Nat
  BY OpAtHand, ConstantsOK DEF Inv, Worker, TypeOK, PDSType
<1>2. PICK op \in {"create", "delete"}, r \in Rkey : Commit(op, r) /\ pos' = pos
  BY <1>1 DEF CreateRecord, DeleteRecord, Rkey, workerVars
<1>3. QED
  BY <1>1, <1>2, Committed DEF Op, Inv

\* The worker removes a row or adds one, which it has to tell of, and tells.
LEMMA WorkerBalance ==
  ASSUME Inv, Balanced, WorkerStep
  PROVE  Balanced'
<1> USE DEF rowVars, tableVars, workerVars, slotVars, history, pdsVars
<1>1. /\ TypeOK /\ Worker /\ UNCHANGED <<account, created, commits, apc, held>>
      /\ \A r : Emitters(r)' = Emitters(r)
  BY DEF Inv, WorkerStep, DialPDS, StreamFails, ProcessOp, FetchRecord, RecordFetched, EmitEvent,
         UpdateCursor, Emitters
<1>2. CASE DialPDS \/ StreamFails \/ UpdateCursor \/ FetchRecord
  <2>1. UNCHANGED <<observed, net, lost>> /\ wpc # "emit" /\ wpc' # "emit"
    BY <1>2 DEF DialPDS, StreamFails, UpdateCursor, FetchRecord
  <2>2. QED
    BY <1>1, <2>1, BalanceKept
<1>3. ASSUME UNCHANGED <<pos, net, lost>>, AtCommit \/ ProcessOp, wpc # "emit",
             \/ observed' = observed /\ wpc' # "emit"
             \/ /\ ~ Observed(Op.rkey) /\ wpc' = "emit" /\ Op.op = "create"
                /\ observed' = [observed EXCEPT ![Kind(Op.rkey)] = @ \union {Op.rkey}]
             \/ /\ Observed(Op.rkey) /\ wpc' = "emit" /\ Op.op = "delete"
                /\ observed' = [observed EXCEPT ![Kind(Op.rkey)] = @ \ {Op.rkey}]
      PROVE  Balanced'
  <2>1. Op' = Op /\ Op.rkey \in 1..created
    BY <1>1, <1>3, OpAtHand DEF Worker, Op, ProcessOp
  <2>2. CASE observed' = observed /\ wpc' # "emit"
    BY <1>1, <1>3, <2>2, BalanceKept
  <2>3. ASSUME NEW r \in Rkey, wpc' = "emit"
        PROVE  /\ net'[r] = net[r] /\ lost'[r] = lost[r] /\ net[r] \in Int /\ lost[r] \in Int
               /\ Pending(r) \in Int
               /\ Pending(r)' = Pending(r) + (IF Op.rkey = r THEN Weight(Op.op) ELSE 0)
    <3>1. /\ Pending(r) = Cardinality(Emitters(r)) /\ Cardinality(Emitters(r)) \in Nat
          /\ net[r] \in Int /\ lost[r] \in Int
      BY <1>3, BalanceParts
    <3>2. Pending(r)' = (IF Op.rkey = r THEN Weight(Op.op) ELSE 0) + Cardinality(Emitters(r))
      BY <1>1, <2>1, <2>3 DEF Pending, Emitters
    <3>3. QED
      BY <1>3, <3>1, <3>2 DEF Weight
  <2>4. ASSUME NEW r \in Rkey, wpc' = "emit"
        PROVE  Balance(r)' = IF Observed(r)' THEN 1 ELSE 0
    <3>1. Balance(r) = IF Observed(r) THEN 1 ELSE 0
      BY DEF Balanced
    <3>2. Balance(r)' = Balance(r) + (IF Op.rkey = r THEN Weight(Op.op) ELSE 0)
      BY <2>3, <2>4 DEF Balance, Weight
    <3>3. CASE r # Op.rkey
      <4>1. Observed(r)' <=> Observed(r)
        BY <1>1, <1>3, <2>1, <2>4, <3>3, RowChanged
      <4>2. QED
        BY <3>1, <3>2, <3>3, <4>1
    <3>4. CASE r = Op.rkey /\ Op.op = "create"
      <4>1. ~ Observed(r) /\ Observed(r)'
        BY <1>1, <1>3, <2>1, <2>4, <3>4, RowChanged
      <4>2. QED
        BY <3>1, <3>2, <3>4, <4>1 DEF Weight
    <3>5. CASE r = Op.rkey /\ Op.op = "delete"
      <4>1. Observed(r) /\ ~ Observed(r)'
        BY <1>1, <1>3, <2>1, <2>4, <3>5, RowChanged
      <4>2. QED
        BY <3>1, <3>2, <3>5, <4>1 DEF Weight
    <3>6. QED
      BY <1>3, <2>4, <3>3, <3>4, <3>5
  <2>5. QED
    BY <1>3, <2>2, <2>4 DEF Balanced
<1>4. CASE ProcessOp
  <2>1. UNCHANGED <<pos, net, lost>> /\ wpc # "emit" /\ pos < Len(commits)
    BY <1>4 DEF ProcessOp
  <2>2. CASE Op.op = "delete" /\ observed' = [observed EXCEPT ![Kind(Op.rkey)] = @ \ {Op.rkey}]
             /\ wpc' = (IF Observed(Op.rkey) THEN "emit" ELSE "cursor")
    <3>1. CASE Observed(Op.rkey)
      BY <1>3, <1>4, <2>1, <2>2, <3>1
    <3>2. CASE ~ Observed(Op.rkey)
      <4>1. Kind(Op.rkey) \in Collection /\ observed \in [Collection -> SUBSET (1..created)]
        BY <1>1, <2>1, OpAtHand, Kinds DEF TypeOK, TableType
      <4>2. observed' = observed
        BY <2>2, <3>2, <4>1 DEF Observed
      <4>3. QED
        BY <1>3, <1>4, <2>1, <2>2, <3>2, <4>2
    <3>3. QED
      BY <3>1, <3>2
  <2>3. CASE observed' = observed /\ wpc' \in {"fetch", "cursor"}
    BY <1>3, <1>4, <2>1, <2>3
  <2>4. QED
    BY <1>4, <2>2, <2>3, OpHandled
<1>5. CASE RecordFetched
  <2>1. /\ UNCHANGED <<pos, net, lost>> /\ wpc = "record" /\ AtCommit /\ Op.op = "create"
        /\ Op.rkey \in 1..created
    BY <1>1, <1>5, OpAtHand DEF RecordFetched, AtCommit, Worker
  <2>2. \/ observed' = observed /\ wpc' = "cursor"
        \/ ProcessRecord(Op.rkey) /\ observed' # observed /\ wpc' = "emit"
    BY <1>5 DEF RecordFetched
  <2>3. QED
    BY <1>1, <1>3, <2>1, <2>2, Processed
<1>6. CASE EmitEvent
  <2>1. /\ wpc = "emit" /\ wpc' = "cursor" /\ AppendOrLose(Op.rkey, Weight(Op.op))
        /\ UNCHANGED observed
    BY <1>6 DEF EmitEvent
  <2>2. Op.rkey \in Rkey /\ Weight(Op.op) \in Int
    BY <1>1, <2>1, OpAtHand, Kinds DEF Worker, AtCommit, Weight
  <2>3. /\ net'[Op.rkey] + lost'[Op.rkey] = net[Op.rkey] + lost[Op.rkey] + Weight(Op.op)
        /\ \A s \in Rkey : s # Op.rkey => net'[s] + lost'[s] = net[s] + lost[s]
        /\ net' \in [Rkey -> Int] /\ lost' \in [Rkey -> Int]
    BY <1>1, <2>1, <2>2, AppendedOrLost
  <2>4. ASSUME NEW r \in Rkey
        PROVE  Balance(r)' = IF Observed(r)' THEN 1 ELSE 0
    <3>1. /\ Pending(r) = (IF Op.rkey = r THEN Weight(Op.op) ELSE 0) + Cardinality(Emitters(r))
          /\ Cardinality(Emitters(r)) \in Nat /\ net[r] \in Int /\ lost[r] \in Int
      BY <2>1, BalanceParts
    <3>2. Pending(r)' = Cardinality(Emitters(r))
      BY <1>1, <2>1, <3>1 DEF Pending, Emitters
    <3>3. Balance(r)' = Balance(r)
      <4>1. net'[r] \in Int /\ lost'[r] \in Int
        BY <2>3
      <4>2. net'[r] + lost'[r] = net[r] + lost[r] + (IF Op.rkey = r THEN Weight(Op.op) ELSE 0)
        BY <2>3, <3>1
      <4>3. QED
        BY <2>2, <3>1, <3>2, <4>1, <4>2 DEF Balance
    <3>4. QED
      BY <1>1, <2>1, <3>3 DEF Balanced, Observed, Kind
  <2>5. QED
    BY <2>4 DEF Balanced
<1>7. QED
  BY <1>2, <1>4, <1>5, <1>6 DEF WorkerStep

\* A backfill inserts a row, which it has to tell of, and tells.
LEMMA SlotBalance ==
  ASSUME Inv, Balanced, NEW a \in Slot, SlotStep(a)
  PROVE  Balanced'
<1> USE DEF tableVars, history, pdsVars
<1>1. /\ TypeOK /\ SlotType /\ Worker /\ Emitting
      /\ UNCHANGED <<account, created, commits, net>> \/ apc[a] = "emit"
  BY DEF Inv, TypeOK, SlotStep, AnnounceRead, AnnounceUpsert, AnnounceFails, BackfillStep,
         ListRecords, BackfillRecord, BackfillEmit, PageDone, BackfillComplete, CutOver
<1>2. \A b \in Slot \ {a} : apc'[b] = apc[b] /\ held'[b] = held[b]
  BY <1>1
  DEF SlotType, SlotStep, AnnounceRead, AnnounceUpsert, AnnounceFails, BackfillStep,
      ListRecords, BackfillRecord, BackfillEmit, PageDone, BackfillComplete, CutOver,
      LeaveCollection
<1>3. \A r : Emitters(r)' = IF apc'[a] = "emit" /\ held'[a] = r
                            THEN Emitters(r) \union {a} ELSE Emitters(r) \ {a}
  BY <1>2, EmittersOf
<1>4. \A r : a \in Emitters(r) <=> apc[a] = "emit" /\ held[a] = r
  BY DEF Emitters
<1>5. ((wpc' = "emit") <=> (wpc = "emit")) /\ (wpc = "emit" => Op' = Op)
  BY DEF SlotStep, AnnounceRead, AnnounceUpsert, AnnounceFails, BackfillStep,
         ListRecords, BackfillRecord, BackfillEmit, PageDone, BackfillComplete, CutOver,
         EnsureSubscribed, workerVars, Op
<1>6. CASE AnnounceRead(a) \/ AnnounceUpsert(a) \/ AnnounceFails(a) \/ ListRecords(a) \/ PageDone(a)
             \/ BackfillComplete(a) \/ CutOver(a)
  <2>1. UNCHANGED <<account, observed, net, lost>>
    BY <1>6 DEF AnnounceRead, AnnounceUpsert, AnnounceFails, ListRecords, PageDone,
                BackfillComplete, CutOver
  <2>2. apc[a] # "emit" /\ apc'[a] # "emit"
    <3>1. CASE ListRecords(a) \/ PageDone(a)
      <4>1. \/ apc' = [apc EXCEPT ![a] = "page"] \/ apc' = [apc EXCEPT ![a] = "list"]
            \/ apc' = [apc EXCEPT ![a] = "complete"]
        BY <3>1 DEF ListRecords, PageDone, LeaveCollection
      <4>2. QED
        BY <1>1, <3>1, <4>1 DEF ListRecords, PageDone, SlotType
    <3>2. QED
      BY <1>1, <1>6, <3>1
      DEF AnnounceRead, AnnounceUpsert, AnnounceFails, BackfillComplete, CutOver, SlotType
  <2>3. \A r \in Rkey : Emitters(r)' = Emitters(r)
    BY <1>3, <1>4, <2>2
  <2>4. QED
    BY <1>5, <2>1, <2>3, BalanceKept
<1>7. CASE BackfillRecord(a)
  <2>1. /\ apc[a] = "page" /\ UNCHANGED <<account, created, commits, net, lost>>
        /\ page[a] \subseteq 1..created
    BY <1>1, <1>7 DEF BackfillRecord, SlotType
  <2>2. PICK r \in page[a] :
          \/ observed' = observed /\ UNCHANGED <<apc, held>>
          \/ /\ ProcessRecord(r) /\ observed' # observed
             /\ apc' = [apc EXCEPT ![a] = "emit"] /\ held' = [held EXCEPT ![a] = r]
    BY <1>7 DEF BackfillRecord
  <2>3. CASE observed' = observed /\ UNCHANGED <<apc, held>>
    <3>1. \A s \in Rkey : Emitters(s)' = Emitters(s)
      BY <2>3 DEF Emitters
    <3>2. QED
      BY <1>5, <2>1, <2>3, <3>1, BalanceKept
  <2>4. CASE /\ ProcessRecord(r) /\ observed' # observed
             /\ apc' = [apc EXCEPT ![a] = "emit"] /\ held' = [held EXCEPT ![a] = r]
    <3>1. /\ r \in 1..created /\ ~ Observed(r)
          /\ observed' = [observed EXCEPT ![Kind(r)] = @ \union {r}]
      BY <1>1, <2>1, <2>4, Processed
    <3>2. apc'[a] = "emit" /\ held'[a] = r
      BY <1>1, <2>4 DEF SlotType
    <3>3. ASSUME NEW s \in Rkey
          PROVE  Balance(s)' = IF Observed(s)' THEN 1 ELSE 0
      <4>1. /\ IsFiniteSet(Emitters(s)) /\ Cardinality(Emitters(s)) \in Nat
            /\ net[s] \in Int /\ lost[s] \in Int /\ Pending(s) \in Int
        BY BalanceParts
      <4>2. Balance(s) = IF Observed(s) THEN 1 ELSE 0
        BY DEF Balanced
      <4>3. CASE s # r
        <5>1. Emitters(s)' = Emitters(s)
          BY <1>3, <1>4, <2>1, <3>2, <4>3
        <5>2. Pending(s)' = Pending(s)
          BY <1>5, <5>1 DEF Pending, Emitters
        <5>3. Observed(s)' <=> Observed(s)
          BY <1>1, <2>1, <3>1, <4>3, RowChanged
        <5>4. QED
          BY <2>1, <4>2, <5>2, <5>3 DEF Balance
      <4>4. CASE s = r
        <5>1. Emitters(s)' = Emitters(s) \union {a} /\ a \notin Emitters(s)
          BY <1>3, <1>4, <2>1, <3>2, <4>4
        <5>2. Cardinality(Emitters(s)') = Cardinality(Emitters(s)) + 1
          BY <4>1, <5>1, FS_AddElement
        <5>3. Pending(s)' = Pending(s) + 1
          <6>1. Pending(s) = (IF wpc = "emit" /\ Op.rkey = s THEN Weight(Op.op) ELSE 0)
                               + Cardinality(Emitters(s))
            BY BalanceParts
          <6>2. Pending(s)' = (IF wpc = "emit" /\ Op.rkey = s THEN Weight(Op.op) ELSE 0)
                                + (Cardinality(Emitters(s)) + 1)
            BY <1>5, <5>2 DEF Pending, Emitters
          <6>3. QED
            BY <4>1, <6>1, <6>2 DEF Weight
        <5>4. Observed(s)' /\ ~ Observed(s)
          BY <1>1, <2>1, <3>1, <4>4, RowChanged
        <5>5. QED
          BY <2>1, <4>1, <4>2, <5>3, <5>4 DEF Balance
      <4>5. QED
        BY <4>3, <4>4
    <3>4. QED
      BY <3>3 DEF Balanced
  <2>5. QED
    BY <2>2, <2>3, <2>4
<1>8. CASE BackfillEmit(a)
  <2>1. /\ apc[a] = "emit" /\ AppendOrLose(held[a], 1) /\ UNCHANGED <<account, observed>>
        /\ apc' = [apc EXCEPT ![a] = "page"]
    BY <1>8 DEF BackfillEmit
  <2>2. held[a] \in Rkey /\ apc'[a] = "page"
    BY <1>1, <2>1, Kinds DEF Emitting, SlotType
  <2>3. /\ net'[held[a]] + lost'[held[a]] = net[held[a]] + lost[held[a]] + 1
        /\ \A s \in Rkey : s # held[a] => net'[s] + lost'[s] = net[s] + lost[s]
        /\ net' \in [Rkey -> Int] /\ lost' \in [Rkey -> Int]
    BY <1>1, <2>1, <2>2, AppendedOrLost
  <2>4. ASSUME NEW s \in Rkey
        PROVE  Balance(s)' = Balance(s)
    <3>1. /\ IsFiniteSet(Emitters(s)) /\ Cardinality(Emitters(s)) \in Nat
          /\ net[s] \in Int /\ lost[s] \in Int /\ net'[s] \in Int /\ lost'[s] \in Int
          /\ Pending(s) = (IF wpc = "emit" /\ Op.rkey = s THEN Weight(Op.op) ELSE 0)
                            + Cardinality(Emitters(s))
      BY <2>3, BalanceParts
    <3>2. Emitters(s)' = Emitters(s) \ {a}
      BY <1>3, <2>2
    <3>3. Pending(s)' = (IF wpc = "emit" /\ Op.rkey = s THEN Weight(Op.op) ELSE 0)
                          + Cardinality(Emitters(s) \ {a})
      BY <1>5, <3>2 DEF Pending, Emitters
    <3>4. CASE s = held[a]
      <4>1. a \in Emitters(s)
        BY <1>4, <2>1, <3>4
      <4>2. Cardinality(Emitters(s) \ {a}) = Cardinality(Emitters(s)) - 1
        BY <3>1, <4>1, FS_RemoveElement
      <4>3. net'[s] + lost'[s] = net[s] + lost[s] + 1
        BY <2>3, <3>4
      <4>4. QED
        BY <3>1, <3>3, <4>2, <4>3 DEF Balance, Weight
    <3>5. CASE s # held[a]
      <4>1. Emitters(s) \ {a} = Emitters(s)
        BY <1>4, <3>5
      <4>2. net'[s] + lost'[s] = net[s] + lost[s]
        BY <2>3, <3>5
      <4>3. QED
        BY <3>1, <3>3, <4>1, <4>2 DEF Balance, Weight
    <3>6. QED
      BY <3>4, <3>5
  <2>5. QED
    BY <2>1, <2>4 DEF Balanced, Observed, Kind
<1>9. QED
  BY <1>6, <1>7, <1>8 DEF SlotStep, BackfillStep

\* Events and rows stay in balance.
LEMMA NextBalanced ==
  ASSUME Inv, Balanced, [Next]_vars
  PROVE  Balanced'
<1>1. CASE CreateRecord \/ \E r \in Rkey : DeleteRecord(r)
  <2>1. /\ UNCHANGED <<account, observed, net, lost, wpc>>
        /\ \A r : Emitters(r)' = Emitters(r)
    BY <1>1 DEF CreateRecord, DeleteRecord, tableVars, history, workerVars, slotVars, Emitters
  <2>2. wpc = "emit" => Op' = Op
    BY <1>1, OpKept DEF AtCommit
  <2>3. QED
    BY <2>1, <2>2, BalanceKept
<1>2. CASE StartStep
  <2>1. /\ UNCHANGED <<account, observed, net, lost, pos, commits>>
        /\ wpc' = wpc \/ (wpc = "none" /\ wpc' = "dial")
        /\ \A r : Emitters(r)' = Emitters(r)
    BY <1>2 DEF StartStep, StartList, StartEnsure, EnsureSubscribed, tableVars, history, workerVars,
                slotVars, pdsVars, Emitters
  <2>2. QED
    BY <2>1, BalanceKept DEF Op
<1>3. CASE RelayRestart
  <2>1. /\ UNCHANGED <<account, observed, net>> /\ wpc' = "none"
        /\ lost' = [r \in Rkey |-> lost[r] + Pending(r)]
        /\ apc' = [a \in Slot |-> "idle"]
    BY <1>3 DEF RelayRestart, tableVars
  <2>2. \A r : Emitters(r)' = {}
    BY <2>1 DEF Emitters
  <2>3. \A r \in Rkey : Pending(r)' = 0
    <3>1. \A r : Cardinality(Emitters(r)') = 0
      BY <2>2, FS_EmptySet
    <3>2. QED
      BY <2>1, <3>1 DEF Pending, Emitters
  <2>4. ASSUME NEW r \in Rkey PROVE Balance(r)' = Balance(r)
    <3>1. net[r] \in Int /\ lost[r] \in Int /\ Pending(r) \in Int
      BY BalanceParts
    <3>2. net'[r] = net[r] /\ lost'[r] = lost[r] + Pending(r)
      BY <2>1
    <3>3. QED
      BY <2>3, <3>1, <3>2 DEF Balance
  <2>5. QED
    BY <2>1, <2>4 DEF Balanced, Observed, Kind
<1>4. CASE UNCHANGED vars
  <2>1. /\ UNCHANGED <<account, observed, net, lost, wpc, pos, commits>>
        /\ \A r : Emitters(r)' = Emitters(r)
    BY <1>4 DEF vars, tableVars, history, workerVars, slotVars, pdsVars, Emitters
  <2>2. QED
    BY <2>1, BalanceKept DEF Op
<1>5. QED
  BY <1>1, <1>2, <1>3, <1>4, WorkerBalance, SlotBalance DEF Next

\* The records told of, if events and rows balance, are the rows, table by table.
LEMMA CountsAgree == Inv /\ Balanced => EventsBalanceRows
<1> SUFFICES ASSUME Inv, Balanced PROVE EventsBalanceRows
  OBVIOUS
<1> DEFINE told == {r \in Rkey : Balance(r) = 1}
<1>1. /\ TypeOK /\ 1..created \subseteq Rkey
      /\ \A c \in Collection : observed[c] \subseteq Of(c)
  BY Kinds DEF Inv, TypeOK, TableType
<1>2. \A r \in Rkey : r \in told <=> Observed(r)
  BY DEF Balanced
<1> HIDE DEF told
<1>3. ASSUME NEW c \in Collection PROVE told \intersect Of(c) = observed[c]
  <2>1. \A r \in Of(c) : r \in Rkey /\ Kind(r) = c
    BY <1>1 DEF Of
  <2>2. \A r \in Of(c) : r \in told <=> r \in observed[c]
    BY <1>2, <2>1 DEF Observed
  <2>3. QED
    BY <1>1, <2>2
<1>4. \A c : (told \intersect Of(c)) \ account.blank = {r \in told \intersect Of(c) : ~ Blank(r)}
  BY DEF Blank
<1>5. \A c \in Collection : (told \intersect Of(c)) \ account.blank = Names(c)
  BY <1>3, <1>4 DEF Names
<1>6. /\ "follow" \in Collection /\ "subscription" \in Collection /\ "share" \in Collection
      /\ "star" \in Collection
  BY FourCollections
<1>7. \A r \in Rkey : Balance(r) = IF Observed(r) THEN 1 ELSE 0
  BY DEF Balanced
<1>8. QED
  BY <1>3, <1>5, <1>6, <1>7
  DEF EventsBalanceRows, told, UserFollowerCount, UserFollowingCount, UserShareCount,
      UserSubscriptionCount, FeedSubscriberCount, ArticleShareCount, ArticleStarCount, ArticleCounts

(* Events and rows agree, of every record: whoever counts by the events, those *)
(* lost apart, counts what the endpoints answer, in every collection, however  *)
(* backfills, the worker, errors and restarts come together.                   *)
THEOREM EventsBalance == Spec => []EventsBalanceRows
<1>1. Init => Balanced
  <2> SUFFICES ASSUME Init PROVE Balanced
    OBVIOUS
  <2>1. \A r : Emitters(r) = {}
    BY DEF Init, Emitters
  <2>2. \A r \in Rkey : Pending(r) = 0
    <3>1. \A r : Cardinality(Emitters(r)) = 0
      BY <2>1, FS_EmptySet
    <3>2. wpc # "emit"
      BY DEF Init
    <3>3. QED
      BY <3>1, <3>2 DEF Pending, Emitters
  <2>3. \A r \in Rkey : net[r] = 0 /\ lost[r] = 0 /\ Kind(r) \in Collection
    BY InitInv, Kinds DEF Init, Inv
  <2>4. \A r \in Rkey : ~ Observed(r)
    BY <2>3 DEF Init, Observed
  <2>5. QED
    BY <2>2, <2>3, <2>4 DEF Balanced, Balance
<1>2. QED
  BY <1>1, InvHolds, NextBalanced, CountsAgree, PTL DEF Spec

-----------------------------------------------------------------------------
(* Rows and commits *)

\* A deletion that was processed is in the stream, and its record is gone.
LEMMA DeletionDone ==
  ASSUME Inv, NEW r, DeletionHandled(r)
  PROVE  r \notin repo
<1>1. PICK i \in handled : commits[i] = [op |-> "delete", rkey |-> r]
  BY DEF DeletionHandled
<1>2. i \in 1..Len(commits)
  BY DEF Inv, TypeOK, HistoryType
<1>3. QED
  BY <1>1, <1>2 DEF Inv, Repository

\* A step that leaves the rows, the commits processed and the failures alone,
\* and the worker where it is, or away from a commit.
LEMMA RowsKept ==
  ASSUME Inv, RowsFollowCommits, InHand, UNCHANGED <<account, observed, handled>>,
         commits' = commits, repo' \subseteq repo, failed \subseteq failed', ghosts \subseteq ghosts',
         \/ wpc' \notin {"record", "emit", "cursor"}
         \/ UNCHANGED <<wpc, pos>>
  PROVE  RowsFollowCommits' /\ InHand'
BY DEF RowsFollowCommits, InHand, Followed, Observed, Kind, Dropped, Blank, DeletionHandled, Op

\* The account adds a commit, which nobody has processed.
LEMMA PDSRows ==
  ASSUME Inv, RowsFollowCommits, InHand, CreateRecord \/ \E r \in Rkey : DeleteRecord(r)
  PROVE  RowsFollowCommits' /\ InHand'
<1>1. created \in 0..MaxRkey /\ MaxRkey \in Nat /\ TypeOK /\ handled \subseteq 1..Len(commits)
  BY ConstantsOK DEF Inv, TypeOK, PDSType, HistoryType
<1>2. PICK op \in {"create", "delete"}, r \in Rkey :
        /\ Commit(op, r)
        /\ (op = "create" /\ r = created + 1 /\ repo' = repo \union {r}) \/ repo' = repo \ {r}
        /\ UNCHANGED <<account, observed, handled, failed, ghosts, wpc, pos>>
  BY <1>1 DEF CreateRecord, DeleteRecord, Rkey, tableVars, history, workerVars
<1>3. \A i \in handled : commits'[i] = commits[i] /\ commits[i].rkey \in 1..created
  BY <1>1, <1>2, Committed DEF Inv, Repository
<1>4. \A s \in 1..created : s \in repo' => s \in repo
  BY <1>1, <1>2
<1>5. \A s : DeletionHandled(s)' <=> DeletionHandled(s)
  BY <1>2, <1>3 DEF DeletionHandled
<1>6. RowsFollowCommits'
  BY <1>2, <1>3, <1>4, <1>5 DEF RowsFollowCommits, Observed, Kind, Dropped, Blank
<1>7. AtCommit => Op' = Op /\ Op.rkey \in 1..created
  BY OpKept, OpAtHand DEF Inv, Worker
<1>8. InHand'
  BY <1>2, <1>4, <1>5, <1>7 DEF InHand, Followed, Observed, Kind, Dropped, Blank, AtCommit
<1>9. QED
  BY <1>6, <1>8

\* The worker does to a row what the operation says, and stores the cursor only
\* after that.
LEMMA WorkerRows ==
  ASSUME Inv, RowsFollowCommits, InHand, WorkerStep
  PROVE  RowsFollowCommits' /\ InHand'
<1> USE DEF tableVars, history, pdsVars
<1>1. /\ TypeOK /\ Worker /\ UNCHANGED <<account, created, repo, commits, ghosts>>
      /\ failed \subseteq failed'
  <2>1. ASSUME ProcessOp PROVE failed \subseteq failed'
    BY <2>1, OpHandled
  <2>2. QED
    BY <2>1 DEF Inv, WorkerStep, DialPDS, StreamFails, ProcessOp, FetchRecord, RecordFetched, EmitEvent,
                UpdateCursor
<1>2. CASE DialPDS \/ StreamFails
  BY <1>1, <1>2, RowsKept DEF DialPDS, StreamFails
<1>3. ASSUME AtCommit \/ ProcessOp, UNCHANGED <<handled, pos>>,
             \/ observed' = observed
             \/ observed' = [observed EXCEPT ![Kind(Op.rkey)] = @ \union {Op.rkey}]
                  /\ Op.op = "create" /\ ~ DeletionHandled(Op.rkey)
             \/ observed' = [observed EXCEPT ![Kind(Op.rkey)] = @ \ {Op.rkey}]
                  /\ Op.op = "delete"
      PROVE  RowsFollowCommits'
  <2>1. /\ Op.rkey \in 1..created /\ Op.op \in {"create", "delete"}
        /\ Op.op = "delete" => Op.rkey \notin repo
    BY <1>3, OpAtHand DEF Inv, Worker, ProcessOp
  <2>2. \A s \in Rkey : s # Op.rkey => (Observed(s)' <=> Observed(s))
    BY <1>1, <1>3, <2>1, RowChanged
  <2>3. \A s : DeletionHandled(s)' <=> DeletionHandled(s)
    BY <1>1, <1>3 DEF DeletionHandled
  <2>4. ASSUME NEW i \in handled, commits[i].op = "create", commits[i].rkey \in repo
        PROVE  Observed(commits[i].rkey)' \/ Dropped(commits[i].rkey) \/ commits[i].rkey \in failed'
    <3>1. i \in 1..Len(commits) /\ commits[i].rkey \in Rkey
      BY <1>1, CommitTyped DEF TypeOK, HistoryType
    <3>2. Observed(commits[i].rkey) \/ Dropped(commits[i].rkey) \/ commits[i].rkey \in failed
      BY <2>4 DEF RowsFollowCommits
    <3>3. Observed(commits[i].rkey) => Observed(commits[i].rkey)'
      BY <1>1, <1>3, <2>1, <2>2, <2>4, <3>1, RowChanged
    <3>4. QED
      BY <1>1, <3>2, <3>3
  <2>5. ASSUME NEW r \in Rkey, Observed(r)', DeletionHandled(r)
        PROVE  r \in ghosts \union failed
    <3>1. Observed(r)
      BY <1>1, <1>3, <2>1, <2>2, <2>5, RowChanged
    <3>2. QED
      BY <2>5, <3>1 DEF RowsFollowCommits
  <2>6. QED
    BY <1>1, <1>3, <2>3, <2>4, <2>5 DEF RowsFollowCommits, Dropped, Blank, Kind
<1>4. CASE ProcessOp
  <2>1. UNCHANGED <<handled, pos>> /\ Op.rkey \in 1..created /\ Op' = Op
        /\ (Op.op = "delete" => Op.rkey \notin repo)
    BY <1>1, <1>4, OpAtHand DEF ProcessOp, Op
  <2>2. RowsFollowCommits'
    BY <1>3, <1>4, <2>1, OpHandled
  <2>3. InHand'
    <3>1. CASE wpc' = "fetch"
      BY <3>1 DEF InHand
    <3>2. CASE /\ Op.op = "delete" /\ wpc' = (IF Observed(Op.rkey) THEN "emit" ELSE "cursor")
               /\ observed' = [observed EXCEPT ![Kind(Op.rkey)] = @ \ {Op.rkey}]
      <4>1. ~ Observed(Op.rkey)'
        BY <1>1, <2>1, <3>2, RowChanged
      <4>2. QED
        BY <2>1, <3>2, <4>1 DEF InHand, Followed
    <3>3. CASE Op.op = "delete" /\ wpc' = "cursor" /\ failed' = failed \union {Op.rkey}
      BY <2>1, <3>3 DEF InHand, Followed
    <3>4. QED
      BY <1>4, <3>1, <3>2, <3>3, OpHandled
  <2>4. QED
    BY <2>2, <2>3
<1>5. CASE FetchRecord
  <2>1. /\ UNCHANGED <<handled, pos, observed>> /\ AtCommit /\ Op.op = "create" /\ Op' = Op
        /\ \/ wpc' = "record" /\ Op.rkey \in repo
           \/ wpc' = "cursor" /\ Op.rkey \notin repo
           \/ wpc' = "cursor" /\ failed' = failed \union {Op.rkey}
    BY <1>1, <1>5 DEF FetchRecord, AtCommit, Worker, Op
  <2>2. RowsFollowCommits'
    BY <1>3, <2>1
  <2>3. wpc' = "record" => ~ DeletionHandled(Op.rkey)'
    BY <1>1, <2>1, DeletionDone DEF DeletionHandled
  <2>4. QED
    BY <1>1, <2>1, <2>2, <2>3 DEF InHand, Followed
<1>6. CASE RecordFetched
  <2>1. /\ UNCHANGED <<handled, pos>> /\ AtCommit /\ Op.op = "create" /\ Op' = Op
        /\ ~ DeletionHandled(Op.rkey) /\ Op.rkey \in 1..created
        /\ wpc' \in {"emit", "cursor"}
        /\ \/ ProcessRecord(Op.rkey)
           \/ observed' = observed /\ failed' = failed \union {Op.rkey}
    BY <1>1, <1>6, OpAtHand DEF RecordFetched, AtCommit, Worker, Op, InHand
  <2>2. \/ observed' = observed /\ failed' = failed \union {Op.rkey}
        \/ observed' = observed /\ (Observed(Op.rkey) \/ Dropped(Op.rkey))
        \/ observed' = [observed EXCEPT ![Kind(Op.rkey)] = @ \union {Op.rkey}]
    BY <1>1, <2>1, Processed
  <2>3. RowsFollowCommits'
    BY <1>3, <2>1, <2>2
  <2>4. Observed(Op.rkey)' \/ Dropped(Op.rkey) \/ Op.rkey \in failed'
    BY <1>1, <2>1, <2>2, RowChanged
  <2>5. Dropped(Op.rkey)' = Dropped(Op.rkey)
    BY <1>1, <2>1 DEF Dropped, Blank, Kind
  <2>6. QED
    BY <2>1, <2>3, <2>4, <2>5 DEF InHand, Followed
<1>7. CASE EmitEvent
  <2>1. /\ UNCHANGED <<handled, pos, observed, failed>> /\ AtCommit /\ wpc = "emit" /\ wpc' = "cursor"
        /\ Op' = Op
    BY <1>1, <1>7 DEF EmitEvent, AtCommit, Op
  <2>2. RowsFollowCommits'
    BY <1>3, <2>1
  <2>3. InHand'
    BY <1>1, <2>1 DEF InHand, Followed, Observed, Dropped, Blank, Kind
  <2>4. QED
    BY <2>2, <2>3
<1>8. CASE UpdateCursor
  <2>1. /\ wpc = "cursor" /\ wpc' = "recv" /\ handled' = handled \union {pos + 1}
        /\ UNCHANGED <<observed, failed>> /\ Followed(Op.op, Op.rkey)
    BY <1>8 DEF UpdateCursor, InHand
  <2>2. commits[pos + 1].op = Op.op /\ commits[pos + 1].rkey = Op.rkey
    BY DEF Op
  <2>3. \A r : DeletionHandled(r)' => DeletionHandled(r) \/ (Op.op = "delete" /\ Op.rkey = r)
    BY <1>1, <2>1, <2>2 DEF DeletionHandled
  <2>4. \A i \in handled' :
          commits[i].op = "create" /\ commits[i].rkey \in repo
            => Observed(commits[i].rkey) \/ Dropped(commits[i].rkey) \/ commits[i].rkey \in failed
    BY <2>1, <2>2 DEF RowsFollowCommits, Followed
  <2>5. \A r \in Rkey : Observed(r) /\ DeletionHandled(r)' => r \in ghosts \union failed
    BY <2>1, <2>3 DEF RowsFollowCommits, Followed
  <2>6. RowsFollowCommits'
    BY <1>1, <2>1, <2>4, <2>5 DEF RowsFollowCommits, Observed, Dropped, Blank, Kind
  <2>7. QED
    BY <2>1, <2>6 DEF InHand
<1>9. QED
  BY <1>2, <1>4, <1>5, <1>6, <1>7, <1>8 DEF WorkerStep

\* A backfill only inserts; what it inserts after the worker has removed it is a
\* ghost.
LEMMA SlotRows ==
  ASSUME Inv, RowsFollowCommits, InHand, NEW a \in Slot, SlotStep(a)
  PROVE  RowsFollowCommits' /\ InHand'
<1> USE DEF tableVars, history, pdsVars, workerVars
<1>1. /\ TypeOK /\ UNCHANGED <<account, created, repo, commits, handled>>
      /\ UNCHANGED <<wpc, pos>> \/ wpc' = "dial"
  BY DEF Inv, SlotStep, AnnounceRead, AnnounceUpsert, AnnounceFails, BackfillStep,
         ListRecords, BackfillRecord, BackfillEmit, PageDone, BackfillComplete, CutOver,
         EnsureSubscribed
<1>2. CASE ~ BackfillRecord(a)
  <2>1. observed' = observed /\ failed \subseteq failed' /\ ghosts' = ghosts
    BY <1>2
    DEF SlotStep, AnnounceRead, AnnounceUpsert, AnnounceFails, BackfillStep, ListRecords,
        BackfillEmit, PageDone, BackfillComplete, CutOver
  <2>2. QED
    BY <1>1, <2>1, RowsKept
<1>3. CASE BackfillRecord(a)
  <2>1. UNCHANGED <<wpc, pos>> /\ page[a] \subseteq 1..created
    BY <1>1, <1>3 DEF BackfillRecord, TypeOK, SlotType
  <2>2. PICK r \in page[a] :
          \/ /\ ProcessRecord(r) /\ failed' = failed
             /\ observed' = observed => ghosts' = ghosts
             /\ observed' # observed =>
                  ghosts' = IF DeletionApplied(r) THEN ghosts \union {r} ELSE ghosts
          \/ observed' = observed /\ failed \subseteq failed' /\ ghosts' = ghosts
    BY <1>3 DEF BackfillRecord
  <2>3. CASE observed' = observed
    BY <1>1, <2>1, <2>2, <2>3, RowsKept
  <2>4. CASE observed' # observed
    <3>1. /\ r \in 1..created /\ failed' = failed
          /\ observed' = [observed EXCEPT ![Kind(r)] = @ \union {r}]
          /\ ghosts' = IF DeletionApplied(r) THEN ghosts \union {r} ELSE ghosts
      BY <1>1, <2>1, <2>2, <2>4, Processed
    <3>2. \A s \in Rkey : (Observed(s) => Observed(s)') /\ (Observed(s)' => Observed(s) \/ s = r)
      BY <1>1, <3>1, RowChanged
    <3>3. \A s : DeletionHandled(s)' <=> DeletionHandled(s)
      BY <1>1 DEF DeletionHandled
    <3>4. ASSUME NEW i \in handled, commits[i].op = "create", commits[i].rkey \in repo
          PROVE  Observed(commits[i].rkey)' \/ Dropped(commits[i].rkey) \/ commits[i].rkey \in failed'
      <4>1. commits[i].rkey \in Rkey
        BY <1>1, CommitTyped DEF TypeOK, HistoryType
      <4>2. Observed(commits[i].rkey) \/ Dropped(commits[i].rkey) \/ commits[i].rkey \in failed
        BY <3>4 DEF RowsFollowCommits
      <4>3. QED
        BY <1>1, <3>1, <3>2, <4>1, <4>2
    <3>5. ASSUME NEW s \in Rkey, Observed(s)', DeletionHandled(s)
          PROVE  s \in ghosts' \union failed'
      BY <3>1, <3>2, <3>5 DEF RowsFollowCommits, DeletionApplied
    <3>6. RowsFollowCommits'
      BY <1>1, <3>3, <3>4, <3>5 DEF RowsFollowCommits, Dropped, Blank, Kind
    <3>7. Op' = Op /\ (AtCommit => Op.rkey \in Rkey)
      BY <1>1, <2>1, OpAtHand, Kinds DEF Op, Inv, Worker
    <3>8. ASSUME wpc \in {"emit", "cursor"}
          PROVE  Followed(Op.op, Op.rkey)'
      <4>1. Followed(Op.op, Op.rkey) /\ Op.rkey \in Rkey
        BY <3>7, <3>8 DEF InHand, AtCommit
      <4>2. Op.op = "create" /\ Op.rkey \in repo =>
              Observed(Op.rkey)' \/ Dropped(Op.rkey) \/ Op.rkey \in failed'
        BY <3>1, <3>2, <3>7, <4>1 DEF Followed
      <4>3. Op.op = "delete" /\ Observed(Op.rkey)' => Op.rkey \in ghosts' \union failed'
        <5>1. Op.op = "delete" => Op = [op |-> "delete", rkey |-> Op.rkey]
          <6>1. Op \in [op : {"create", "delete"}, rkey : Rkey]
            BY <1>1, <3>8, OpAtHand, ElementTyped
            DEF Op, TypeOK, PDSType, Inv, Worker, AtCommit
          <6>2. QED
            BY <6>1
        <5>2. Op.op = "delete" => DeletionApplied(Op.rkey)
          BY <3>8, <5>1 DEF DeletionApplied
        <5>3. QED
          BY <3>1, <3>2, <3>7, <4>1, <5>2 DEF Followed
      <4>4. Dropped(Op.rkey)' = Dropped(Op.rkey)
        BY <1>1, <3>7 DEF Dropped, Blank, Kind
      <4>5. QED
        BY <1>1, <3>7, <4>2, <4>3, <4>4 DEF Followed
    <3>9. InHand'
      BY <2>1, <3>3, <3>7, <3>8 DEF InHand
    <3>10. QED
      BY <3>6, <3>9
  <2>5. QED
    BY <2>3, <2>4
<1>4. QED
  BY <1>2, <1>3

\* Rows keep following the commits.
LEMMA NextRows ==
  ASSUME Inv, RowsFollowCommits, InHand, [Next]_vars
  PROVE  RowsFollowCommits' /\ InHand'
<1>1. CASE StartStep \/ RelayRestart \/ UNCHANGED vars
  <2>1. /\ UNCHANGED <<account, observed, handled, commits, repo, ghosts>>
        /\ failed \subseteq failed'
        /\ UNCHANGED <<wpc, pos>> \/ wpc' \in {"dial", "none"}
    BY <1>1 DEF StartStep, StartList, StartEnsure, EnsureSubscribed, RelayRestart, vars, tableVars,
                history, workerVars, pdsVars
  <2>2. QED
    BY <2>1, RowsKept
<1>2. QED
  BY <1>1, PDSRows, WorkerRows, SlotRows DEF Next

(* A create the worker is done with has left a row, unless the record is gone  *)
(* or dropped or an operation on it failed, and a row outlives the processed   *)
(* deletion of its record only as the ghost of a backfill or after a failure.  *)
THEOREM RowsFollow == Spec => []RowsFollowCommits
<1>1. Init => RowsFollowCommits /\ InHand
  <2> SUFFICES ASSUME Init PROVE RowsFollowCommits /\ InHand
    OBVIOUS
  <2>1. handled = {} /\ wpc = "none"
    BY DEF Init
  <2>2. QED
    BY <2>1 DEF RowsFollowCommits, InHand, DeletionHandled
<1>2. QED
  BY <1>1, InvHolds, NextRows, PTL DEF Spec
=============================================================================
