----------------------------- MODULE FeedsProofs -----------------------------
(* Proofs about feeds: FeedRefresh, its types, and that the stored validators  *)
(* of a feed never promise more than is stored; and Library, the folders and   *)
(* subscriptions of a user, and the files written from them and read into      *)
(* them.                                                                       *)
EXTENDS FeedRefresh, Library, FiniteSetTheorems, SequenceTheorems, TLAPS

\* A copy's tag, too, stands for a document whose articles are here; and what a
\* refresh has seen of a document is stored, still to do, or failed.
CopyCovers(c) == Has(c.feed, c.tag)
JobCovers(p) ==
  /\ p.pc # "idle" => CopyCovers(p)
  /\ p.pc = "insert" => Articles(p.seen) \subseteq stored[p.feed] \cup p.todo \cup p.failed
Covers ==
  /\ ValidatorCovers
  /\ \A i \in DOMAIN turn : CopyCovers(turn[i])
  /\ \A i \in DOMAIN queue : CopyCovers(queue[i])
  /\ \A j \in Slots : JobCovers(job[j])

Inv == TypeOK /\ Covers

\* What every step allows itself: rows, articles and the record of failed inserts
\* are never taken away, and the deployment stays.
Grow ==
  /\ deploy' = deploy /\ Known \subseteq Known'
  /\ \A f \in Feeds : stored[f] \subseteq stored'[f] /\ missed[f] \subseteq missed'[f]

-----------------------------------------------------------------------------
(* Sequences.                                                                  *)

Distinct(s) == \A i, k \in DOMAIN s : s[i] = s[k] => i = k
Elements(s) == {s[i] : i \in DOMAIN s}

\* RemoveAt takes one element out of a sequence without repetitions.
LEMMA RemoveAtProperties ==
  ASSUME NEW S, NEW s \in Seq(S), Distinct(s),
         NEW n \in DOMAIN s, NEW t, t = RemoveAt(s, n)
  PROVE  t \in Seq(S) /\ Distinct(t) /\ Elements(t) = Elements(s) \ {s[n]}
<1> DEFINE a == SubSeq(s, 1, n - 1)
           b == SubSeq(s, n + 1, Len(s))
<1>0. t = a \o b
  BY DEF RemoveAt
<1>1. Len(s) \in Nat /\ DOMAIN s = 1..Len(s) /\ n \in 1..Len(s) /\ \A i \in 1..Len(s) : s[i] \in S
  BY LenProperties, ElementOfSeq
<1>2. a \in Seq(S) /\ Len(a) = n - 1 /\ \A i \in 1..n - 1 : a[i] = s[i]
  <2>1. \A i \in 1..n - 1 : s[i] \in S
    BY <1>1
  <2>2. /\ a \in Seq(S) /\ Len(a) = IF 1 <= n - 1 THEN n - 1 - 1 + 1 ELSE 0
        /\ \A i \in 1..(n - 1 - 1 + 1) : a[i] = s[1 + i - 1]
    BY <1>1, <2>1, SubSeqProperties
  <2>3. QED
    BY <1>1, <2>2
<1>3. b \in Seq(S) /\ Len(b) = Len(s) - n /\ \A i \in 1..Len(s) - n : b[i] = s[n + i]
  <2>1. \A i \in n + 1..Len(s) : s[i] \in S
    BY <1>1
  <2>2. /\ b \in Seq(S) /\ Len(b) = IF n + 1 <= Len(s) THEN Len(s) - (n + 1) + 1 ELSE 0
        /\ \A i \in 1..(Len(s) - (n + 1) + 1) : b[i] = s[(n + 1) + i - 1]
    BY <1>1, <2>1, SubSeqProperties
  <2>3. Len(b) = Len(s) - n
    BY <1>1, <2>2
  <2>4. ASSUME NEW i \in 1..Len(s) - n PROVE b[i] = s[n + i]
    <3>1. i \in 1..(Len(s) - (n + 1) + 1) /\ (n + 1) + i - 1 = n + i
      BY <1>1
    <3>2. QED
      BY <2>2, <3>1
  <2>5. QED
    BY <2>2, <2>3, <2>4
<1> HIDE DEF a, b
<1>4. /\ t \in Seq(S) /\ Len(t) = Len(s) - 1 /\ DOMAIN t = 1..Len(s) - 1
      /\ \A i \in 1..Len(s) - 1 : t[i] = IF i < n THEN s[i] ELSE s[i + 1]
  <2>1. t \in Seq(S) /\ Len(t) = Len(a) + Len(b)
        /\ \A i \in 1 .. Len(a) + Len(b) : t[i] = IF i <= Len(a) THEN a[i] ELSE b[i - Len(a)]
    <3>1. a \in Seq(S) /\ b \in Seq(S)
      BY <1>2, <1>3
    <3>2. /\ a \o b \in Seq(S) /\ Len(a \o b) = Len(a) + Len(b)
          /\ \A i \in 1 .. Len(a) + Len(b) : (a \o b)[i] = IF i <= Len(a) THEN a[i] ELSE b[i - Len(a)]
      BY <3>1, ConcatProperties
    <3>3. QED
      BY <1>0, <3>2, Zenon
  <2>2. DOMAIN t = 1..Len(t)
    BY <2>1, LenProperties
  <2>3. ASSUME NEW i \in 1..Len(s) - 1, i >= n PROVE b[i - (n - 1)] = s[i + 1]
    <3>1. i - (n - 1) \in 1..Len(s) - n /\ n + (i - (n - 1)) = i + 1
      BY <1>1, <2>3
    <3>2. b[i - (n - 1)] = s[n + (i - (n - 1))]
      BY <1>3, <3>1
    <3>3. QED
      BY <3>1, <3>2
  <2>4. ASSUME NEW i \in 1..Len(s) - 1 PROVE t[i] = IF i < n THEN s[i] ELSE s[i + 1]
    <3>1. CASE i < n
      <4>1. i \in 1..n - 1 /\ i <= Len(a) /\ i \in 1..Len(a) + Len(b)
        BY <1>1, <1>2, <1>3, <3>1
      <4>2. QED
        BY <1>2, <2>1, <3>1, <4>1
    <3>2. CASE ~ (i < n)
      <4>1. ~ (i <= Len(a)) /\ i \in 1..Len(a) + Len(b) /\ i >= n /\ i - Len(a) = i - (n - 1)
        BY <1>1, <1>2, <1>3, <3>2
      <4>2. QED
        BY <2>1, <2>3, <3>2, <4>1
    <3>3. QED
      BY <3>1, <3>2
  <2>5. Len(t) = Len(s) - 1
    BY <1>1, <1>2, <1>3, <2>1
  <2>6. QED
    <3>1. t \in Seq(S)
      BY <2>1
    <3>2. DOMAIN t = 1..Len(s) - 1
      BY <2>2, <2>5
    <3>3. QED
      BY <3>1, <3>2, <2>4, <2>5
<1>5. Distinct(t)
  <2> DEFINE at(i) == IF i < n THEN i ELSE i + 1
  <2>1. \A i \in DOMAIN t : at(i) \in DOMAIN s /\ t[i] = s[at(i)]
    BY <1>1, <1>4
  <2>2. \A i, k \in DOMAIN t : at(i) = at(k) => i = k
    BY <1>1, <1>4
  <2> HIDE DEF at
  <2>3. QED
    BY <2>1, <2>2 DEF Distinct
<1>6. Elements(t) \subseteq Elements(s) \ {s[n]}
  BY <1>1, <1>4 DEF Distinct, Elements
<1>7. Elements(s) \ {s[n]} \subseteq Elements(t)
  <2>1. SUFFICES ASSUME NEW i \in DOMAIN s, i # n PROVE \E k \in DOMAIN t : t[k] = s[i]
    BY DEF Elements
  <2>2. CASE i < n
    BY <1>1, <1>4, <2>1, <2>2
  <2>3. CASE i > n
    <3>1. i - 1 \in DOMAIN t /\ t[i - 1] = s[i]
      BY <1>1, <1>4, <2>1, <2>3
    <3>2. QED
      BY <3>1
  <2>4. QED
    BY <1>1, <2>1, <2>2, <2>3
<1>8. QED
  BY <1>4, <1>5, <1>6, <1>7

\* A function on 1..n is a sequence of length n.
LEMMA SeqOfLength ==
  ASSUME NEW S, NEW n \in Nat, NEW s \in [1..n -> S]
  PROVE  s \in Seq(S) /\ Len(s) = n
<1>1. s \in Seq(S)
  BY SeqDef
<1>2. DOMAIN s = 1..n /\ Len(s) \in Nat /\ DOMAIN s = 1..Len(s)
  BY <1>1, LenProperties
<1>3. QED
  BY <1>1, <1>2

\* Append puts one more element at the end.
LEMMA AppendRange ==
  ASSUME NEW S, NEW s \in Seq(S), NEW e \in S, NEW t, t = Append(s, e)
  PROVE  /\ t \in Seq(S) /\ Len(t) = Len(s) + 1 /\ Len(s) \in Nat
         /\ \A i \in DOMAIN t : \/ i \in DOMAIN s /\ t[i] = s[i]
                                \/ i = Len(s) + 1 /\ t[i] = e
         /\ Elements(t) = Elements(s) \cup {e}
<1>1. /\ t \in Seq(S) /\ Len(t) = Len(s) + 1 /\ t[Len(s) + 1] = e
      /\ \A i \in 1..Len(s) : t[i] = s[i]
  BY AppendProperties
<1>2. Len(s) \in Nat /\ DOMAIN s = 1..Len(s) /\ DOMAIN t = 1..Len(s) + 1
  BY <1>1, LenProperties
<1>3. \A i \in DOMAIN t :
        (i \in DOMAIN s /\ t[i] = s[i]) \/ (i = Len(s) + 1 /\ t[i] = e)
  BY <1>1, <1>2
<1>4. Elements(t) \subseteq Elements(s) \cup {e}
  BY <1>3 DEF Elements
<1>5. Elements(s) \cup {e} \subseteq Elements(t)
  BY <1>1, <1>2 DEF Elements
<1>6. QED
  BY <1>1, <1>2, <1>3, <1>4, <1>5

\* The tail keeps the other elements.
LEMMA TailRange ==
  ASSUME NEW S, NEW s \in Seq(S), s # <<>>
  PROVE  /\ Head(s) \in S /\ Tail(s) \in Seq(S)
         /\ Len(Tail(s)) \in Nat /\ Len(Tail(s)) < Len(s)
         /\ \E k \in DOMAIN s : Head(s) = s[k]
         /\ \A i \in DOMAIN Tail(s) : \E k \in DOMAIN s : Tail(s)[i] = s[k]
<1>1. /\ Head(s) \in S /\ Tail(s) \in Seq(S) /\ Len(Tail(s)) = Len(s) - 1
      /\ \A i \in 1..Len(Tail(s)) : Tail(s)[i] = s[i + 1]
  BY HeadTailProperties
<1>2. Len(s) \in Nat \ {0} /\ DOMAIN s = 1..Len(s) /\ DOMAIN Tail(s) = 1..Len(Tail(s))
  BY <1>1, EmptySeq, LenProperties
<1>3. Head(s) = s[1]
  OBVIOUS
<1>4. \A i \in DOMAIN Tail(s) : i + 1 \in DOMAIN s
  BY <1>1, <1>2
<1>5. QED
  BY <1>1, <1>2, <1>3, <1>4

-----------------------------------------------------------------------------
(* The rows, the copies and the jobs, whatever the step.                       *)

\* The rows of a step that leaves them alone.
LEMMA RowsKept ==
  ASSUME TypeOK, UNCHANGED feeds
  PROVE  RowsType' /\ Known' = Known /\ etag' = etag
  BY DEF TypeOK, RowsType, feeds, Known, Due

\* GetOrCreateFeed keeps a row where it is and else makes a fresh one.
LEMMA RowMade ==
  ASSUME TypeOK, NEW f \in Feeds, GetOrCreateFeed(f)
  PROVE  RowsType' /\ Known' = Known \cup {f} /\ etag' = etag
<1>1. Due' = Due /\ resting' = resting /\ etag' = etag /\ due' = due
  BY DEF GetOrCreateFeed, Due
<1>2. fresh' = fresh \/ (f \notin Known /\ fresh' = fresh \cup {f})
  BY DEF GetOrCreateFeed
<1>3. Known' = Known \cup {f}
  BY <1>1 DEF GetOrCreateFeed, Known
<1>4. RowsType'
  BY <1>1, <1>2 DEF TypeOK, RowsType, Known
<1>5. QED
  BY <1>1, <1>3, <1>4

\* The feed whose time comes goes to the end of those that are due.
LEMMA RowDue ==
  ASSUME TypeOK, NEW f \in resting, resting' = resting \ {f}, due' = Append(due, f),
         UNCHANGED fresh
  PROVE  RowsType' /\ Known' = Known
<1>1. due \in Seq(Feeds) /\ f \in Feeds /\ f \notin Due /\ Due \subseteq Feeds
  BY LenProperties, ElementOfSeq DEF TypeOK, RowsType, Due
<1>2. /\ due' \in Seq(Feeds) /\ Len(due) \in Nat
      /\ \A i \in DOMAIN due' : (i \in DOMAIN due /\ due'[i] = due[i]) \/ (i = Len(due) + 1 /\ due'[i] = f)
      /\ Due' = Due \cup {f}
  BY <1>1, AppendRange DEF Due, Elements
<1>3. \A i \in DOMAIN due : due[i] # f
  BY <1>1 DEF Due
<1>4. \A i, k \in DOMAIN due' : due'[i] = due'[k] => i = k
  BY <1>2, <1>3 DEF TypeOK, RowsType
<1>5. QED
  BY <1>1, <1>2, <1>4 DEF TypeOK, RowsType, Known

\* A feed whose state is written rests, wherever its row was.
LEMMA RowRests ==
  ASSUME TypeOK, NEW f \in Known, ComputeNextCheck(f)
  PROVE  RowsType' /\ Known' = Known
<1>1. due \in Seq(Feeds) /\ Distinct(due) /\ Due = Elements(due) /\ Due \subseteq Feeds
  BY LenProperties, ElementOfSeq DEF TypeOK, RowsType, Due, Distinct, Elements
<1>2. f \in Feeds
  BY <1>1 DEF TypeOK, RowsType, Known
<1>3. due' \in Seq(Feeds) /\ Distinct(due') /\ Due' = Due \ {f}
  <2>1. CASE f \in Due
    <3> DEFINE n == CHOOSE i \in DOMAIN due : due[i] = f
    <3>1. n \in DOMAIN due /\ due[n] = f
      BY <2>1 DEF Due
    <3>2. due' = RemoveAt(due, n)
      BY <2>1 DEF ComputeNextCheck
    <3> HIDE DEF n
    <3>3. due' \in Seq(Feeds) /\ Distinct(due') /\ Elements(due') = Elements(due) \ {due[n]}
      BY <1>1, <3>1, <3>2, RemoveAtProperties
    <3>4. QED
      BY <1>1, <3>1, <3>3 DEF Due, Elements
  <2>2. CASE f \notin Due
    <3>1. due' = due
      BY <2>2 DEF ComputeNextCheck
    <3>2. QED
      BY <1>1, <2>2, <3>1 DEF Due
  <2>3. QED
    BY <2>1, <2>2
<1>4. fresh' = fresh \ {f} /\ resting' = resting \cup {f}
  BY DEF ComputeNextCheck
<1>5. RowsType'
  BY <1>2, <1>3, <1>4 DEF TypeOK, RowsType, Distinct
<1>6. Known' = Known
  BY <1>3, <1>4 DEF Known
<1>7. QED
  BY <1>5, <1>6

\* What a copy's tag stands for stays stored.
LEMMA HasKept ==
  ASSUME Grow, NEW f \in Feeds, NEW v, Has(f, v)
  PROVE  Has(f, v)'
  BY DEF Grow, Has

\* The stored validators of a step that leaves them alone.
LEMMA ValidatorsKept ==
  ASSUME Inv, Grow, UNCHANGED etag
  PROVE  ValidatorCovers'
<1>1. SUFFICES ASSUME NEW f \in Feeds PROVE Has(f, etag[f])'
  BY DEF ValidatorCovers
<1>2. stored[f] \subseteq stored'[f] /\ missed[f] \subseteq missed'[f] /\ etag'[f] = etag[f]
  BY DEF Grow
<1>3. Articles(etag[f]) \subseteq stored[f] \cup missed[f]
  BY DEF Inv, Covers, ValidatorCovers, Has
<1>4. QED
  BY <1>2, <1>3 DEF Has

\* The copies that wait in turn and queue.
Copies(s) == s \in Seq([feed : Known, tag : 0..MaxVersion])
CopiesCover(s) == \A i \in DOMAIN s : CopyCovers(s[i])

\* A sequence made of earlier copies is one of copies, and they cover what they
\* did.
LEMMA CopiesKept ==
  ASSUME Inv, Grow, NEW s, Copies(s), CopiesCover(s)
  PROVE  /\ s \in Seq([feed : Known', tag : 0..MaxVersion])
         /\ \A i \in DOMAIN s : Articles(s[i].tag) \subseteq stored'[s[i].feed] \cup missed'[s[i].feed]
<1>1. [feed : Known, tag : 0..MaxVersion] \subseteq [feed : Known', tag : 0..MaxVersion]
  BY DEF Grow
<1>2. s \in Seq([feed : Known', tag : 0..MaxVersion])
  BY <1>1, SeqMonotonic DEF Copies
<1>3. ASSUME NEW i \in DOMAIN s
      PROVE  Articles(s[i].tag) \subseteq stored'[s[i].feed] \cup missed'[s[i].feed]
  <2>1. s[i] \in [feed : Known, tag : 0..MaxVersion]
    BY LenProperties, ElementOfSeq DEF Copies
  <2>2. Known \subseteq Feeds
    BY LenProperties, ElementOfSeq DEF Inv, TypeOK, RowsType, Known, Due
  <2>3. s[i].feed \in Feeds
    BY <2>1, <2>2
  <2>4. stored[s[i].feed] \subseteq stored'[s[i].feed] /\ missed[s[i].feed] \subseteq missed'[s[i].feed]
    BY <2>3 DEF Grow
  <2>5. QED
    BY <2>4 DEF CopiesCover, CopyCovers, Has
<1>4. QED
  BY <1>2, <1>3

\* The copies of a step that leaves turn and queue alone.
LEMMA PoolKept ==
  ASSUME Inv, Grow, UNCHANGED pool
  PROVE  PoolType' /\ CopiesCover(turn)' /\ CopiesCover(queue)'
<1>1. Copies(turn) /\ CopiesCover(turn) /\ Copies(queue) /\ CopiesCover(queue)
  BY DEF Inv, TypeOK, PoolType, Covers, Copies, CopiesCover
<1>2. turn' = turn /\ queue' = queue /\ deploy' = deploy
  BY DEF pool, Grow
<1>3. /\ turn \in Seq([feed : Known', tag : 0..MaxVersion])
      /\ \A i \in DOMAIN turn :
           Articles(turn[i].tag) \subseteq stored'[turn[i].feed] \cup missed'[turn[i].feed]
  BY <1>1, CopiesKept
<1>4. /\ queue \in Seq([feed : Known', tag : 0..MaxVersion])
      /\ \A i \in DOMAIN queue :
           Articles(queue[i].tag) \subseteq stored'[queue[i].feed] \cup missed'[queue[i].feed]
  BY <1>1, CopiesKept
<1>5. PoolType'
  BY <1>2, <1>3, <1>4 DEF Inv, TypeOK, PoolType
<1>6. QED
  BY <1>2, <1>3, <1>4, <1>5 DEF CopiesCover, CopyCovers, Has

JobsCover == \A j \in Slots : JobCovers(job[j])

\* What is known of the job of a slot.
LEMMA JobFacts ==
  ASSUME Inv, NEW j \in Slots
  PROVE  /\ job \in [Slots -> Job] /\ job[j] \in Job /\ JobCovers(job[j])
         /\ Known \subseteq Feeds
         /\ job[j].pc # "idle" => job[j].feed \in Known /\ job[j].feed \in Feeds
<1>1. Known \subseteq Feeds
  BY LenProperties, ElementOfSeq DEF Inv, TypeOK, RowsType, Known, Due
<1>2. QED
  BY <1>1 DEF Inv, TypeOK, JobType, Covers

\* A job that a step leaves alone covers what it did.
LEMMA JobKept ==
  ASSUME Inv, Grow, NEW j \in Slots
  PROVE  /\ job[j].pc # "idle" =>
              /\ job[j].feed \in Known'
              /\ Articles(job[j].tag) \subseteq stored'[job[j].feed] \cup missed'[job[j].feed]
         /\ job[j].pc = "insert" =>
              Articles(job[j].seen) \subseteq stored'[job[j].feed] \cup job[j].todo \cup job[j].failed
<1>1. SUFFICES ASSUME job[j].pc # "idle"
      PROVE  /\ job[j].feed \in Known'
             /\ Articles(job[j].tag) \subseteq stored'[job[j].feed] \cup missed'[job[j].feed]
             /\ job[j].pc = "insert" =>
                  Articles(job[j].seen) \subseteq stored'[job[j].feed] \cup job[j].todo \cup job[j].failed
  OBVIOUS
<1>2. job[j].feed \in Known /\ job[j].feed \in Feeds /\ JobCovers(job[j])
  BY <1>1, JobFacts
<1>3. /\ stored[job[j].feed] \subseteq stored'[job[j].feed]
      /\ missed[job[j].feed] \subseteq missed'[job[j].feed] /\ Known \subseteq Known'
  BY <1>2 DEF Grow
<1>4. QED
  BY <1>1, <1>2, <1>3 DEF JobCovers, CopyCovers, Has

\* The jobs of a step that leaves them alone.
LEMMA JobsKept ==
  ASSUME Inv, Grow, UNCHANGED job
  PROVE  JobType' /\ JobsCover'
<1>1. SUFFICES ASSUME NEW j \in Slots
      PROVE  JobCovers(job[j])' /\ (job'[j].pc # "idle" => job'[j].feed \in Known')
  BY DEF JobType, JobsCover, Inv, TypeOK
<1>2. job'[j] = job[j]
  OBVIOUS
<1>3. QED
  BY <1>2, JobKept DEF JobCovers, CopyCovers, Has

\* The jobs of a step that changes one.
LEMMA JobUpdate ==
  ASSUME Inv, Grow, NEW j \in Slots, NEW p \in Job, job' = [job EXCEPT ![j] = p],
         p.pc # "idle" => /\ p.feed \in Known'
                          /\ Articles(p.tag) \subseteq stored'[p.feed] \cup missed'[p.feed],
         p.pc = "insert" => Articles(p.seen) \subseteq stored'[p.feed] \cup p.todo \cup p.failed
  PROVE  JobType' /\ JobsCover'
<1>1. job \in [Slots -> Job]
  BY JobFacts
<1>2. job' \in [Slots -> Job]
  BY <1>1
<1>3. ASSUME NEW i \in Slots
      PROVE  JobCovers(job[i])' /\ (job'[i].pc # "idle" => job'[i].feed \in Known')
  <2>1. CASE i = j
    <3>1. job'[i] = p
      BY <1>1, <2>1
    <3>2. QED
      BY <3>1 DEF JobCovers, CopyCovers, Has
  <2>2. CASE i # j
    <3>1. job'[i] = job[i]
      BY <1>1, <2>2
    <3>2. QED
      BY <3>1, JobKept DEF JobCovers, CopyCovers, Has
  <2>3. QED
    BY <2>1, <2>2
<1>4. QED
  BY <1>2, <1>3 DEF JobType, JobsCover

\* A slot that falls idle.
LEMMA JobIdle ==
  ASSUME Inv, Grow, NEW j \in Slots, job' = [job EXCEPT ![j] = Idle]
  PROVE  JobType' /\ JobsCover'
<1>1. Idle \in Job /\ Idle.pc = "idle"
  BY RefreshAssumption DEF Idle, Job
<1>2. QED
  BY <1>1, JobUpdate

\* A slot that moves on with the same copy, but not to the articles.
LEMMA JobGoes ==
  ASSUME Inv, Grow, NEW j \in Slots, job[j].pc # "idle",
         NEW pc \in {"unmodified", "refetch", "keep", "error", "ok", "failed"}, Goto(j, pc)
  PROVE  JobType' /\ JobsCover'
<1> DEFINE p == [job[j] EXCEPT !.pc = pc]
<1>1. job[j] \in Job /\ job \in [Slots -> Job]
  BY JobFacts
<1>2. p \in Job /\ p.pc = pc /\ p.feed = job[j].feed /\ p.tag = job[j].tag
  BY <1>1 DEF Job
<1>3. job' = [job EXCEPT ![j] = p]
  BY <1>1 DEF Goto
<1> HIDE DEF p
<1>4. p.pc # "idle" => /\ p.feed \in Known'
                       /\ Articles(p.tag) \subseteq stored'[p.feed] \cup missed'[p.feed]
  BY <1>2, JobKept
<1>5. p.pc # "insert"
  BY <1>2
<1>6. QED
  BY <1>2, <1>3, <1>4, <1>5, JobUpdate

\* A slot that starts on a copy.
LEMMA JobStarts ==
  ASSUME Inv, Grow, NEW j \in Slots, NEW copy, NEW rest, rest \subseteq Feeds,
         copy \in [feed : Known', tag : 0..MaxVersion], Known' \subseteq Feeds,
         Articles(copy.tag) \subseteq stored'[copy.feed] \cup missed'[copy.feed],
         job' = [job EXCEPT ![j] = Start(copy, rest)]
  PROVE  JobType' /\ JobsCover'
<1> DEFINE p == Start(copy, rest)
<1>1. Idle \in Job /\ Idle.pc = "idle"
  BY RefreshAssumption DEF Idle, Job
<1>2. copy.feed \in Known' /\ copy.feed \in Feeds /\ copy.tag \in 0..MaxVersion
  OBVIOUS
<1>3. p \in Job /\ p.pc = "fetch" /\ p.feed = copy.feed /\ p.tag = copy.tag
  BY <1>1, <1>2 DEF Start, Job
<1>4. job' = [job EXCEPT ![j] = p]
  OBVIOUS
<1> HIDE DEF p
<1>5. QED
  BY <1>2, <1>3, <1>4, JobUpdate

\* A slot that has a document to store.
LEMMA JobParsed ==
  ASSUME Inv, Grow, NEW j \in Slots, job[j].pc # "idle", Parsed(j)
  PROVE  JobType' /\ JobsCover'
<1> DEFINE v == version[job[j].feed]
           p == [job[j] EXCEPT !.pc = "insert", !.seen = v, !.todo = Articles(v)]
<1>1. job[j] \in Job /\ job \in [Slots -> Job] /\ job[j].feed \in Feeds
  BY JobFacts
<1>2. v \in 1..MaxVersion /\ v \in 0..MaxVersion
  BY <1>1, RefreshAssumption DEF Inv, TypeOK, FeedsType
<1>3. Articles(v) \subseteq 1..MaxVersion
  BY <1>2, RefreshAssumption DEF Articles
<1>4. job' = [job EXCEPT ![j] = p]
  BY <1>1 DEF Parsed
<1> HIDE DEF v
<1>5. /\ p \in Job /\ p.pc = "insert" /\ p.feed = job[j].feed /\ p.tag = job[j].tag
      /\ p.seen = v /\ p.todo = Articles(v)
  BY <1>1, <1>2, <1>3 DEF Job
<1> HIDE DEF p
<1>6. QED
  BY <1>4, <1>5, JobKept, JobUpdate

-----------------------------------------------------------------------------
(* The steps.                                                                  *)

\* What is left to show of a step, part by part.
LEMMA InvParts ==
  ASSUME deploy' \in Deployments, mishaps' \in 0..MaxMishaps, FeedsType', RowsType', PoolType',
         CopiesCover(turn)', CopiesCover(queue)', JobType', JobsCover', ValidatorCovers'
  PROVE  Inv'
  BY DEF Inv, TypeOK, Covers, CopiesCover, JobsCover

\* The history of mishaps counts to its bound.
LEMMA MishapCounts ==
  ASSUME TypeOK, Mishap \/ UNCHANGED mishaps
  PROVE  mishaps' \in 0..MaxMishaps
  BY RefreshAssumption DEF TypeOK, Mishap

\* A document is published.
LEMMA PublishInv ==
  ASSUME Inv, NEW f \in Feeds, Publish(f)
  PROVE  Inv'
<1>1. RowsType' /\ Known' = Known /\ etag' = etag
  BY RowsKept DEF Publish, Inv
<1>2. Grow
  BY <1>1 DEF Grow, Publish
<1>3. FeedsType'
  BY RefreshAssumption DEF Publish, feeds, Inv, TypeOK, FeedsType
<1>4. deploy' \in Deployments /\ mishaps' \in 0..MaxMishaps
  BY DEF Publish, Inv, TypeOK
<1>5. QED
  BY <1>1, <1>2, <1>3, <1>4, PoolKept, JobsKept, ValidatorsKept, InvParts DEF Publish

\* The time of a feed comes.
LEMMA ComeDueInv ==
  ASSUME Inv, NEW f, ComeDue(f)
  PROVE  Inv'
<1>1. RowsType' /\ Known' = Known
  BY RowDue DEF ComeDue, Inv
<1>2. Grow
  BY <1>1 DEF Grow, ComeDue
<1>3. FeedsType'
  BY DEF ComeDue, Inv, TypeOK, FeedsType
<1>4. deploy' \in Deployments /\ mishaps' \in 0..MaxMishaps
  BY DEF ComeDue, Inv, TypeOK
<1>5. QED
  BY <1>1, <1>2, <1>3, <1>4, PoolKept, JobsKept, ValidatorsKept, InvParts DEF ComeDue

\* The relay names a feed.
LEMMA HandleFeedSubEventInv ==
  ASSUME Inv, NEW f \in Feeds, HandleFeedSubEvent(f)
  PROVE  Inv'
<1>1. RowsType' /\ Known' = Known \cup {f} /\ etag' = etag
  BY RowMade DEF HandleFeedSubEvent, Inv
<1>2. Grow
  BY <1>1 DEF Grow, HandleFeedSubEvent
<1>3. FeedsType'
  BY <1>1 DEF HandleFeedSubEvent, Inv, TypeOK, FeedsType
<1>4. deploy' \in Deployments /\ mishaps' \in 0..MaxMishaps
  BY DEF HandleFeedSubEvent, Inv, TypeOK
<1>5. QED
  BY <1>1, <1>2, <1>3, <1>4, PoolKept, JobsKept, ValidatorsKept, InvParts DEF HandleFeedSubEvent

\* A share stores an article.
LEMMA EnsureSharedEntryInv ==
  ASSUME Inv, NEW f \in Feeds, NEW a \in 1..version[f], EnsureSharedEntry(f, a)
  PROVE  Inv'
<1>1. RowsType' /\ Known' = Known \cup {f} /\ etag' = etag
  BY RowMade DEF EnsureSharedEntry, Inv
<1>2. a \in 1..MaxVersion /\ stored \in [Feeds -> SUBSET (1..MaxVersion)]
  BY RefreshAssumption DEF Inv, TypeOK, FeedsType
<1>3. stored' = [stored EXCEPT ![f] = @ \cup {a}] /\ missed' = missed /\ version' = version
  BY DEF EnsureSharedEntry
<1>4. stored' \in [Feeds -> SUBSET (1..MaxVersion)] /\ \A g \in Feeds : stored[g] \subseteq stored'[g]
  BY <1>2, <1>3
<1>5. Grow
  BY <1>1, <1>3, <1>4 DEF Grow, EnsureSharedEntry
<1>6. FeedsType'
  BY <1>1, <1>3, <1>4 DEF Inv, TypeOK, FeedsType
<1>7. deploy' \in Deployments /\ mishaps' \in 0..MaxMishaps
  BY DEF EnsureSharedEntry, Inv, TypeOK
<1>8. QED
  BY <1>1, <1>5, <1>6, <1>7, PoolKept, JobsKept, ValidatorsKept, InvParts DEF EnsureSharedEntry

\* A copy of a row carries validators that hold.
LEMMA CopyFacts ==
  ASSUME Inv, NEW f \in Known
  PROVE  Copy(f) \in [feed : Known, tag : 0..MaxVersion] /\ CopyCovers(Copy(f))
<1>1. f \in Feeds
  BY LenProperties, ElementOfSeq DEF Inv, TypeOK, RowsType, Known, Due
<1>2. QED
  BY <1>1 DEF Inv, TypeOK, FeedsType, Covers, ValidatorCovers, Copy, CopyCovers

\* The batch of a tick names rows, no more of them than the batch allows.
LEMMA BatchFacts ==
  ASSUME Inv, NEW list \in ListFeedsDueForRefresh
  PROVE  list \in Seq(Known) /\ Len(list) \in Nat /\ Len(list) <= deploy.batch
<1>1. PICK s \in Orders(fresh) : list = Batch(due \o s)
  BY DEF ListFeedsDueForRefresh
<1>2. IsFiniteSet(fresh)
  BY RefreshAssumption, FS_Subset DEF Inv, TypeOK, RowsType
<1>3. Cardinality(fresh) \in Nat
  BY <1>2, FS_CardinalityType
<1>4. s \in [1..Cardinality(fresh) -> Known]
  BY <1>1 DEF Orders, Known
<1>5. s \in Seq(Known)
  BY <1>3, <1>4, SeqDef
<1>6. due \in Seq(Known)
  <2>1. due \in Seq(Feeds)
    BY DEF Inv, TypeOK, RowsType
  <2>2. Len(due) \in Nat /\ DOMAIN due = 1..Len(due) /\ due \in [1..Len(due) -> Feeds]
    BY <2>1, LenProperties
  <2>3. due \in [1..Len(due) -> Known]
    BY <2>2 DEF Known, Due
  <2>4. QED
    BY <2>2, <2>3, SeqDef
<1> DEFINE t == due \o s
           n == IF Len(t) < deploy.batch THEN Len(t) ELSE deploy.batch
<1>7. t \in Seq(Known)
  BY <1>5, <1>6, ConcatProperties
<1>8. Len(t) \in Nat /\ \A i \in 1..Len(t) : t[i] \in Known
  BY <1>7, LenProperties, ElementOfSeq
<1>9. deploy.batch \in Nat \ {0}
  BY RefreshAssumption DEF Inv, TypeOK
<1>10. list = SubSeq(t, 1, n)
  BY <1>1 DEF Batch
<1> HIDE DEF t
<1>11. n \in Nat /\ n <= deploy.batch /\ n <= Len(t)
  BY <1>8, <1>9
<1> HIDE DEF n
<1>12. \A i \in 1..n : t[i] \in Known
  BY <1>8, <1>11
<1>13. list \in Seq(Known) /\ Len(list) = IF 1 <= n THEN n - 1 + 1 ELSE 0
  BY <1>10, <1>11, <1>12, SubSeqProperties
<1>14. QED
  BY <1>9, <1>11, <1>13

\* A tick reads the rows of its batch.
LEMMA TickInv ==
  ASSUME Inv, Tick
  PROVE  Inv'
<1>1. RowsType' /\ Known' = Known /\ etag' = etag
  BY RowsKept DEF Tick, Inv
<1>2. Grow
  BY <1>1 DEF Grow, Tick
<1>3. PICK list \in ListFeedsDueForRefresh : turn' = [i \in DOMAIN list |-> Copy(list[i])]
  BY DEF Tick
<1>4. list \in Seq(Known) /\ Len(list) \in Nat /\ Len(list) <= deploy.batch
  BY <1>3, BatchFacts
<1>5. DOMAIN list = 1..Len(list) /\ \A i \in 1..Len(list) : list[i] \in Known
  BY <1>4, LenProperties, ElementOfSeq
<1>6. \A i \in 1..Len(list) :
        Copy(list[i]) \in [feed : Known, tag : 0..MaxVersion] /\ CopyCovers(Copy(list[i]))
  BY <1>5, CopyFacts
<1>7. turn' = [i \in 1..Len(list) |-> Copy(list[i])]
  BY <1>3, <1>5
<1>8. turn' \in [1..Len(list) -> [feed : Known, tag : 0..MaxVersion]]
  BY <1>6, <1>7
<1>9. Copies(turn') /\ Len(turn') = Len(list)
  BY <1>4, <1>8, SeqOfLength DEF Copies
<1>10. CopiesCover(turn')
  BY <1>6, <1>7 DEF CopiesCover
<1>11. Copies(queue) /\ CopiesCover(queue) /\ queue' = queue /\ deploy' = deploy
  BY DEF Inv, TypeOK, PoolType, Covers, Copies, CopiesCover, Tick
<1>12. PoolType'
  BY <1>1, <1>4, <1>9, <1>11 DEF Inv, TypeOK, PoolType, Copies
<1>13. CopiesCover(turn)' /\ CopiesCover(queue)'
  BY <1>10, <1>11 DEF CopiesCover, CopyCovers, Has, Tick
<1>14. FeedsType' /\ deploy' \in Deployments /\ mishaps' \in 0..MaxMishaps
  BY <1>1 DEF Tick, Inv, TypeOK, FeedsType
<1>15. QED
  BY <1>1, <1>2, <1>12, <1>13, <1>14, JobsKept, ValidatorsKept, InvParts DEF Tick

\* The scheduler hands a copy to the pool.
LEMMA SubmitInv ==
  ASSUME Inv, Submit
  PROVE  Inv'
<1>1. RowsType' /\ Known' = Known /\ etag' = etag
  BY RowsKept DEF Submit, Inv
<1>2. Grow
  BY <1>1 DEF Grow, Submit
<1> DEFINE C == [feed : Known, tag : 0..MaxVersion]
<1>3. /\ turn \in Seq(C) /\ queue \in Seq(C) /\ CopiesCover(turn) /\ CopiesCover(queue)
      /\ Len(turn) <= deploy.batch /\ Len(turn) \in Nat /\ deploy.batch \in Nat
  <2>1. deploy.batch \in Nat
    BY RefreshAssumption DEF Inv, TypeOK
  <2>2. turn \in Seq(C) /\ queue \in Seq(C)
    BY DEF Inv, TypeOK, PoolType
  <2>3. QED
    BY <2>1, <2>2, LenProperties DEF Inv, TypeOK, PoolType, Covers, CopiesCover
<1> HIDE DEF C
<1>4. turn # <<>> /\ turn' = Tail(turn) /\ queue' = Append(queue, Head(turn)) /\ Len(queue) < QueueBound
  BY DEF Submit
<1>5. /\ Head(turn) \in C /\ turn' \in Seq(C) /\ Len(turn') \in Nat /\ Len(turn') < Len(turn)
      /\ \E k \in DOMAIN turn : Head(turn) = turn[k]
      /\ \A i \in DOMAIN turn' : \E k \in DOMAIN turn : turn'[i] = turn[k]
  BY <1>3, <1>4, TailRange
<1>6. /\ queue' \in Seq(C) /\ Len(queue') = Len(queue) + 1 /\ Len(queue) \in Nat
      /\ \A i \in DOMAIN queue' : (i \in DOMAIN queue /\ queue'[i] = queue[i])
                                    \/ (i = Len(queue) + 1 /\ queue'[i] = Head(turn))
  BY <1>3, <1>4, <1>5, AppendRange
<1>7. CopiesCover(turn') /\ CopiesCover(queue')
  BY <1>3, <1>5, <1>6 DEF CopiesCover
<1>8. PoolType'
  <2>1. Len(turn') <= deploy.batch
    BY <1>3, <1>5
  <2>2. Len(queue') <= QueueBound
    BY <1>4, <1>6, RefreshAssumption
  <2>3. deploy' = deploy
    BY DEF Submit
  <2>4. QED
    BY <1>1, <1>5, <1>6, <2>1, <2>2, <2>3 DEF PoolType, C
<1>9. CopiesCover(turn)' /\ CopiesCover(queue)'
  BY <1>7 DEF CopiesCover, CopyCovers, Has, Submit
<1>10. FeedsType' /\ deploy' \in Deployments /\ mishaps' \in 0..MaxMishaps
  BY <1>1 DEF Submit, Inv, TypeOK, FeedsType
<1>11. QED
  BY <1>1, <1>2, <1>8, <1>9, <1>10, JobsKept, ValidatorsKept, InvParts DEF Submit

\* A worker takes a copy from the pool.
LEMMA WorkerInv ==
  ASSUME Inv, NEW w \in Slots, Worker(w)
  PROVE  Inv'
<1>1. RowsType' /\ Known' = Known /\ etag' = etag
  BY RowsKept DEF Worker, Inv
<1>2. Grow
  BY <1>1 DEF Grow, Worker
<1> DEFINE C == [feed : Known, tag : 0..MaxVersion]
<1>3. turn \in Seq(C) /\ queue \in Seq(C) /\ CopiesCover(turn) /\ CopiesCover(queue)
      /\ Len(queue) <= QueueBound /\ Len(queue) \in Nat
  <2>1. turn \in Seq(C) /\ queue \in Seq(C)
    BY DEF Inv, TypeOK, PoolType
  <2>2. QED
    BY <2>1, LenProperties DEF Inv, TypeOK, PoolType, Covers, CopiesCover
<1> HIDE DEF C
<1>4. queue # <<>> /\ queue' = Tail(queue) /\ turn' = turn /\ deploy' = deploy
  BY DEF Worker
<1>5. /\ Head(queue) \in C /\ queue' \in Seq(C) /\ Len(queue') \in Nat /\ Len(queue') < Len(queue)
      /\ \E k \in DOMAIN queue : Head(queue) = queue[k]
      /\ \A i \in DOMAIN queue' : \E k \in DOMAIN queue : queue'[i] = queue[k]
  BY <1>3, <1>4, TailRange
<1>6. CopiesCover(queue') /\ CopyCovers(Head(queue))
  BY <1>3, <1>5 DEF CopiesCover
<1>7. PoolType'
  <2>1. Len(queue') <= QueueBound
    BY <1>3, <1>5, RefreshAssumption
  <2>2. QED
    BY <1>1, <1>3, <1>4, <1>5, <2>1 DEF PoolType, C, Inv, TypeOK
<1>8. CopiesCover(turn)' /\ CopiesCover(queue)'
  BY <1>3, <1>4, <1>6 DEF CopiesCover, CopyCovers, Has, Worker
<1>9. JobType' /\ JobsCover'
  <2>1. job' = [job EXCEPT ![w] = Start(Head(queue), {})]
    BY DEF Worker
  <2>2. Head(queue) \in [feed : Known', tag : 0..MaxVersion] /\ Known' \subseteq Feeds
    BY <1>1, <1>5, JobFacts DEF C
  <2>3. Articles(Head(queue).tag) \subseteq stored'[Head(queue).feed] \cup missed'[Head(queue).feed]
    BY <1>6 DEF CopyCovers, Has, Worker
  <2> DEFINE copy == Head(queue)
             rest == {}
  <2>4. /\ copy \in [feed : Known', tag : 0..MaxVersion] /\ rest \subseteq Feeds
        /\ Articles(copy.tag) \subseteq stored'[copy.feed] \cup missed'[copy.feed]
        /\ job' = [job EXCEPT ![w] = Start(copy, rest)]
    BY <2>1, <2>2, <2>3
  <2> HIDE DEF copy, rest
  <2>5. QED
    BY <1>2, <2>2, <2>4, JobStarts
<1>10. FeedsType' /\ deploy' \in Deployments /\ mishaps' \in 0..MaxMishaps
  BY <1>1 DEF Worker, Inv, TypeOK, FeedsType
<1>11. QED
  BY <1>1, <1>2, <1>7, <1>8, <1>9, <1>10, ValidatorsKept, InvParts

\* A step that touches neither rows, articles nor copies, but one job.
LEMMA JobStepInv ==
  ASSUME Inv, UNCHANGED <<deploy, version, feeds, stored, pool, missed>>,
         Mishap \/ UNCHANGED mishaps, Grow => JobType' /\ JobsCover'
  PROVE  Inv'
<1>1. RowsType' /\ Known' = Known /\ etag' = etag
  BY RowsKept DEF Inv
<1>2. Grow
  BY <1>1 DEF Grow
<1>3. FeedsType' /\ deploy' \in Deployments /\ mishaps' \in 0..MaxMishaps
  BY <1>1, MishapCounts DEF Inv, TypeOK, FeedsType
<1>4. QED
  BY <1>1, <1>2, <1>3, PoolKept, ValidatorsKept, InvParts

\* A request processes a row that is there.
LEMMA RefreshFeedInv ==
  ASSUME Inv, NEW r \in Slots, NEW f, RefreshFeed(r, f)
  PROVE  Inv'
<1>1. Copy(f) \in [feed : Known, tag : 0..MaxVersion] /\ CopyCovers(Copy(f))
  BY CopyFacts DEF RefreshFeed
<1>2. Known' = Known /\ Known \subseteq Feeds
  BY RowsKept, JobFacts DEF RefreshFeed, Inv
<1> DEFINE copy == Copy(f)
           rest == {}
<1>3. rest \subseteq Feeds /\ job' = [job EXCEPT ![r] = Start(copy, rest)]
  BY DEF RefreshFeed
<1>4. /\ copy \in [feed : Known', tag : 0..MaxVersion]
      /\ Articles(copy.tag) \subseteq stored'[copy.feed] \cup missed'[copy.feed]
  BY <1>1, <1>2 DEF CopyCovers, Has, RefreshFeed
<1> HIDE DEF copy, rest
<1>5. Grow => JobType' /\ JobsCover'
  BY <1>2, <1>3, <1>4, JobStarts
<1>6. QED
  BY <1>5, JobStepInv DEF RefreshFeed

\* A subscription makes the row it needs and processes a copy of it.
LEMMA SubscribeToFeedInv ==
  ASSUME Inv, NEW r \in Slots, NEW f \in Feeds, NEW rest, rest \subseteq Feeds,
         SubscribeToFeed(r, f, rest)
  PROVE  Inv'
<1>1. RowsType' /\ Known' = Known \cup {f} /\ etag' = etag
  BY RowMade DEF SubscribeToFeed, Inv
<1>2. Grow
  BY <1>1 DEF Grow, SubscribeToFeed
<1>3. FeedsType' /\ deploy' \in Deployments /\ mishaps' \in 0..MaxMishaps
  BY <1>1 DEF SubscribeToFeed, Inv, TypeOK, FeedsType
<1>4. Known' \subseteq Feeds
  BY <1>1, JobFacts
<1> DEFINE copy == Copy(f)
<1>5. copy \in [feed : Known', tag : 0..MaxVersion] /\ copy.feed = f /\ copy.tag = etag[f]
  BY <1>1 DEF Copy, Inv, TypeOK, FeedsType
<1>6. Articles(etag[f]) \subseteq stored[f] \cup missed[f]
  BY DEF Inv, Covers, ValidatorCovers, Has
<1>7. stored' = stored /\ missed' = missed /\ job' = [job EXCEPT ![r] = Start(copy, rest)]
  BY DEF SubscribeToFeed
<1> HIDE DEF copy
<1>8. Articles(copy.tag) \subseteq stored'[copy.feed] \cup missed'[copy.feed]
  BY <1>5, <1>6, <1>7
<1>9. JobType' /\ JobsCover'
  BY <1>2, <1>4, <1>5, <1>7, <1>8, JobStarts
<1>10. QED
  BY <1>1, <1>2, <1>3, <1>9, PoolKept, ValidatorsKept, InvParts DEF SubscribeToFeed

-----------------------------------------------------------------------------
(* The processor.                                                              *)

\* The steps that only move on: fetched, counted, kept, failed.
LEMMA MovesOnInv ==
  ASSUME Inv, NEW j \in Slots,
         \/ Fetch(j) \/ CountEntriesByFeed(j) \/ Refetch(j)
         \/ FetchFails(j) \/ KeepAnyway(j) \/ SaveFails(j)
  PROVE  Inv'
<1>1. /\ UNCHANGED <<deploy, version, feeds, stored, pool, missed>>
      /\ Mishap \/ UNCHANGED mishaps
      /\ job[j].pc # "idle"
      /\ \/ Parsed(j)
         \/ \E pc \in {"unmodified", "refetch", "keep", "error", "ok", "failed"} : Goto(j, pc)
  <2>1. CASE Fetch(j)
    BY <2>1 DEF Fetch
  <2>2. CASE CountEntriesByFeed(j)
    BY <2>2 DEF CountEntriesByFeed
  <2>3. CASE Refetch(j)
    BY <2>3 DEF Refetch
  <2>4. CASE FetchFails(j)
    BY <2>4 DEF FetchFails
  <2>5. CASE KeepAnyway(j)
    BY <2>5 DEF KeepAnyway
  <2>6. CASE SaveFails(j)
    BY <2>6 DEF SaveFails
  <2>7. QED
    BY <2>1, <2>2, <2>3, <2>4, <2>5, <2>6
<1>2. Grow => JobType' /\ JobsCover'
  BY <1>1, JobParsed, JobGoes
<1>3. QED
  BY <1>1, <1>2, JobStepInv

\* The steps that end a job.
LEMMA EndsInv ==
  ASSUME Inv, NEW j \in Slots, Return(j) \/ Panic(j)
  PROVE  Inv'
<1>1. /\ UNCHANGED <<deploy, version, feeds, stored, pool, missed>>
      /\ Mishap \/ UNCHANGED mishaps
      /\ job' = [job EXCEPT ![j] = Idle]
  BY DEF Return, Panic
<1>2. Grow => JobType' /\ JobsCover'
  BY <1>1, JobIdle
<1>3. QED
  BY <1>1, <1>2, JobStepInv

\* An article is stored.
LEMMA CreateEntryInv ==
  ASSUME Inv, NEW j \in Slots, CreateEntry(j)
  PROVE  Inv'
<1> DEFINE f == job[j].feed
<1>1. PICK a \in job[j].todo :
        /\ stored' = [stored EXCEPT ![f] = @ \cup {a}]
        /\ job' = [job EXCEPT ![j].todo = @ \ {a}]
  BY DEF CreateEntry
<1>2. /\ job[j] \in Job /\ job \in [Slots -> Job] /\ job[j].pc = "insert"
      /\ f \in Feeds /\ f \in Known /\ JobCovers(job[j])
  BY JobFacts DEF CreateEntry
<1>3. a \in 1..MaxVersion /\ stored \in [Feeds -> SUBSET (1..MaxVersion)]
  BY <1>1, <1>2 DEF Job, Inv, TypeOK, FeedsType
<1>4. RowsType' /\ Known' = Known /\ etag' = etag
  BY RowsKept DEF CreateEntry, Inv
<1>5. /\ stored' \in [Feeds -> SUBSET (1..MaxVersion)]
      /\ \A g \in Feeds : stored[g] \subseteq stored'[g]
      /\ stored'[f] = stored[f] \cup {a}
  BY <1>1, <1>2, <1>3
<1>6. Grow
  BY <1>4, <1>5 DEF Grow, CreateEntry
<1> DEFINE p == [job[j] EXCEPT !.todo = @ \ {a}]
<1>7. /\ p \in Job /\ p.pc = "insert" /\ p.feed = f /\ p.tag = job[j].tag
      /\ p.seen = job[j].seen /\ p.todo = job[j].todo \ {a} /\ p.failed = job[j].failed
  BY <1>2 DEF Job
<1>8. job' = [job EXCEPT ![j] = p]
  BY <1>1, <1>2
<1> HIDE DEF p
<1>9. Articles(job[j].seen) \subseteq stored[f] \cup job[j].todo \cup job[j].failed
  BY <1>2 DEF JobCovers
<1>10. Articles(p.seen) \subseteq stored'[p.feed] \cup p.todo \cup p.failed
  BY <1>5, <1>7, <1>9
<1>11. p.feed \in Known' /\ Articles(p.tag) \subseteq stored'[p.feed] \cup missed'[p.feed]
  BY <1>2, <1>6, <1>7, JobKept
<1>12. JobType' /\ JobsCover'
  BY <1>6, <1>7, <1>8, <1>10, <1>11, JobUpdate
<1>13. FeedsType' /\ deploy' \in Deployments /\ mishaps' \in 0..MaxMishaps
  BY <1>4, <1>5 DEF CreateEntry, Inv, TypeOK, FeedsType
<1>14. QED
  BY <1>4, <1>6, <1>12, <1>13, PoolKept, ValidatorsKept, InvParts DEF CreateEntry

\* An insert fails and is noted.
LEMMA CreateEntryFailsInv ==
  ASSUME Inv, NEW j \in Slots, CreateEntryFails(j)
  PROVE  Inv'
<1>1. PICK a \in job[j].todo :
        job' = [job EXCEPT ![j].todo = @ \ {a}, ![j].failed = @ \cup {a}]
  BY DEF CreateEntryFails
<1>2. /\ job[j] \in Job /\ job \in [Slots -> Job] /\ job[j].pc = "insert"
      /\ job[j].feed \in Feeds /\ JobCovers(job[j])
  BY JobFacts DEF CreateEntryFails
<1> DEFINE p == [job[j] EXCEPT !.todo = @ \ {a}, !.failed = @ \cup {a}]
<1>3. /\ p \in Job /\ p.pc = "insert" /\ p.feed = job[j].feed /\ p.tag = job[j].tag
      /\ p.seen = job[j].seen /\ p.todo = job[j].todo \ {a} /\ p.failed = job[j].failed \cup {a}
  BY <1>1, <1>2 DEF Job
<1>4. job' = [job EXCEPT ![j] = p]
  BY <1>1, <1>2
<1> HIDE DEF p
<1>5. ASSUME Grow PROVE JobType' /\ JobsCover'
  <2>1. Articles(job[j].seen) \subseteq stored'[job[j].feed] \cup job[j].todo \cup job[j].failed
    BY <1>2, <1>5, JobKept
  <2>2. Articles(p.seen) \subseteq stored'[p.feed] \cup p.todo \cup p.failed
    BY <1>3, <2>1
  <2>3. p.feed \in Known' /\ Articles(p.tag) \subseteq stored'[p.feed] \cup missed'[p.feed]
    BY <1>2, <1>3, <1>5, JobKept
  <2>4. QED
    BY <1>3, <1>4, <1>5, <2>2, <2>3, JobUpdate
<1>6. QED
  BY <1>5, JobStepInv DEF CreateEntryFails

\* The row gets the validators of a document that is stored but for failed inserts,
\* or of none.
LEMMA SaveInv ==
  ASSUME Inv, NEW j \in Slots, SaveRefreshed(j) \/ SaveUnchanged(j)
  PROVE  Inv'
<1> DEFINE f == job[j].feed
<1>1. /\ job[j] \in Job /\ job \in [Slots -> Job] /\ job[j].pc # "idle"
      /\ f \in Feeds /\ f \in Known /\ JobCovers(job[j])
  BY JobFacts DEF SaveRefreshed, SaveUnchanged
<1>2. FeedsType
  BY DEF Inv, TypeOK
<1>3. PICK tag \in 0..MaxVersion :
        /\ UpdateFeedFetchState(f, tag)
        /\ missed' \in [Feeds -> SUBSET (1..MaxVersion)]
        /\ \A g \in Feeds : missed[g] \subseteq missed'[g]
        /\ Articles(tag) \subseteq stored[f] \cup missed'[f]
  <2>1. CASE SaveRefreshed(j)
    <3>1. /\ job[j].seen \in 0..MaxVersion /\ job[j].failed \subseteq 1..MaxVersion
          /\ Articles(job[j].seen) \subseteq stored[f] \cup job[j].failed
      BY <1>1, <2>1 DEF SaveRefreshed, JobCovers, Job
    <3>2. CASE f \in Tagged
      <4>1. missed' = [missed EXCEPT ![f] = @ \cup job[j].failed]
        BY <2>1, <3>2 DEF SaveRefreshed
      <4>2. /\ missed' \in [Feeds -> SUBSET (1..MaxVersion)] /\ missed'[f] = missed[f] \cup job[j].failed
            /\ \A g \in Feeds : missed[g] \subseteq missed'[g]
        BY <1>1, <1>2, <3>1, <4>1 DEF FeedsType
      <4>3. UpdateFeedFetchState(f, job[j].seen)
        BY <2>1, <3>2 DEF SaveRefreshed
      <4>4. QED
        BY <3>1, <4>2, <4>3
    <3>3. CASE f \notin Tagged
      <4>1. missed' = missed
        BY <1>2, <2>1, <3>3 DEF SaveRefreshed, FeedsType
      <4>2. UpdateFeedFetchState(f, 0)
        BY <2>1, <3>3 DEF SaveRefreshed
      <4>3. Articles(0) = {} /\ 0 \in 0..MaxVersion
        BY RefreshAssumption DEF Articles
      <4>4. QED
        BY <1>2, <4>1, <4>2, <4>3 DEF FeedsType
    <3>4. QED
      BY <3>2, <3>3
  <2>2. CASE SaveUnchanged(j)
    <3>1. UpdateFeedFetchState(f, job[j].tag) /\ missed' = missed
      BY <2>2 DEF SaveUnchanged
    <3>2. job[j].tag \in 0..MaxVersion /\ Articles(job[j].tag) \subseteq stored[f] \cup missed[f]
      BY <1>1 DEF Job, JobCovers, CopyCovers, Has
    <3>3. QED
      BY <1>2, <3>1, <3>2 DEF FeedsType
  <2>3. QED
    BY <2>1, <2>2
<1>4. RowsType' /\ Known' = Known
  BY <1>1, <1>3, RowRests DEF UpdateFeedFetchState, Inv
<1>5. /\ UNCHANGED <<deploy, version, stored, pool, mishaps>>
      /\ \E pc \in {"ok", "failed"} : Goto(j, pc)
  BY DEF SaveRefreshed, SaveUnchanged
<1>6. Grow
  BY <1>3, <1>4, <1>5 DEF Grow
<1>7. etag' = [etag EXCEPT ![f] = tag]
  BY <1>3 DEF UpdateFeedFetchState
<1>8. FeedsType'
  BY <1>1, <1>2, <1>3, <1>5, <1>7 DEF FeedsType
<1>9. ValidatorCovers'
  <2>1. SUFFICES ASSUME NEW g \in Feeds
        PROVE  Articles(etag'[g]) \subseteq stored'[g] \cup missed'[g]
    BY DEF ValidatorCovers, Has
  <2>2. CASE g = f
    BY <1>1, <1>2, <1>3, <1>5, <1>7, <2>2 DEF FeedsType
  <2>3. CASE g # f
    <3>1. etag'[g] = etag[g] /\ missed[g] \subseteq missed'[g] /\ stored'[g] = stored[g]
      BY <1>2, <1>3, <1>5, <1>7, <2>3 DEF FeedsType
    <3>2. Articles(etag[g]) \subseteq stored[g] \cup missed[g]
      BY DEF Inv, Covers, ValidatorCovers, Has
    <3>3. QED
      BY <3>1, <3>2
  <2>4. QED
    BY <2>2, <2>3
<1>10. JobType' /\ JobsCover'
  BY <1>1, <1>5, <1>6, JobGoes
<1>11. deploy' \in Deployments /\ mishaps' \in 0..MaxMishaps
  BY <1>5 DEF Inv, TypeOK
<1>12. QED
  BY <1>4, <1>5, <1>6, <1>8, <1>9, <1>10, <1>11, PoolKept, InvParts

\* A restart empties pool and slots and leaves the rows.
LEMMA RestartInv ==
  ASSUME Inv, Restart
  PROVE  Inv'
<1>1. RowsType' /\ Known' = Known /\ etag' = etag
  BY RowsKept DEF Restart, Inv
<1>2. Grow
  BY <1>1 DEF Grow, Restart
<1>3. turn' = <<>> /\ queue' = <<>> /\ deploy' = deploy
  BY DEF Restart
<1>4. PoolType'
  BY <1>3, RefreshAssumption DEF PoolType, Inv, TypeOK
<1>5. CopiesCover(turn)' /\ CopiesCover(queue)'
  BY <1>3 DEF CopiesCover
<1>6. Idle \in Job /\ Idle.pc = "idle"
  BY RefreshAssumption DEF Idle, Job
<1>7. JobType' /\ JobsCover'
  BY <1>6 DEF Restart, JobType, JobsCover, JobCovers
<1>8. FeedsType' /\ deploy' \in Deployments /\ mishaps' \in 0..MaxMishaps
  BY <1>1, MishapCounts DEF Restart, Inv, TypeOK, FeedsType
<1>9. QED
  BY <1>1, <1>2, <1>4, <1>5, <1>7, <1>8, ValidatorsKept, InvParts

-----------------------------------------------------------------------------

\* Initially no row, copy or refresh is there.
LEMMA InitInv == Init => Inv
<1> SUFFICES ASSUME Init PROVE Inv
  OBVIOUS
<1>1. Idle \in Job /\ Idle.pc = "idle"
  BY RefreshAssumption DEF Idle, Job
<1>2. FeedsType /\ RowsType
  BY RefreshAssumption DEF Init, FeedsType, RowsType, Due
<1>3. PoolType /\ CopiesCover(turn) /\ CopiesCover(queue)
  BY RefreshAssumption DEF Init, PoolType, CopiesCover
<1>4. JobType /\ JobsCover
  BY <1>1 DEF Init, JobType, JobsCover, JobCovers
<1>5. ValidatorCovers
  <2>1. Articles(0) = {}
    BY RefreshAssumption DEF Articles
  <2>2. QED
    BY <2>1 DEF Init, ValidatorCovers, Has
<1>6. deploy \in Deployments /\ mishaps \in 0..MaxMishaps
  BY RefreshAssumption DEF Init
<1>7. QED
  BY <1>2, <1>3, <1>4, <1>5, <1>6 DEF Inv, TypeOK, Covers, CopiesCover, JobsCover

\* The invariant is kept by every step.
LEMMA NextInv == Inv /\ [Next]_vars => Inv'
<1> SUFFICES ASSUME Inv, [Next]_vars PROVE Inv'
  OBVIOUS
<1>1. deploy \in [workers : SUBSET Workers, batch : Nat \ {0},
                  feeds : SUBSET Feeds, requests : SUBSET Requests]
  BY RefreshAssumption DEF Inv, TypeOK
<1>2. deploy.feeds \subseteq Feeds /\ deploy.workers \subseteq Slots /\ deploy.requests \subseteq Slots
  BY <1>1 DEF Slots
<1>3. CASE \E f \in deploy.feeds : Publish(f) \/ ComeDue(f) \/ HandleFeedSubEvent(f)
  BY <1>2, <1>3, PublishInv, ComeDueInv, HandleFeedSubEventInv
<1>4. CASE \E f \in deploy.feeds : \E a \in 1..version[f] : EnsureSharedEntry(f, a)
  BY <1>2, <1>4, EnsureSharedEntryInv
<1>5. CASE Tick \/ Submit
  BY <1>5, TickInv, SubmitInv
<1>6. CASE \E w \in deploy.workers : Worker(w)
  BY <1>2, <1>6, WorkerInv
<1>7. ASSUME NEW r \in deploy.requests, ImportOPML(r) \/ ImportNext(r)
      PROVE  Inv'
  <2>1. PICK f \in Feeds, rest \in SUBSET Feeds : SubscribeToFeed(r, f, rest)
    <3>1. CASE ImportOPML(r)
      <4>1. PICK list \in SUBSET deploy.feeds : \E f \in list : SubscribeToFeed(r, f, list \ {f})
        BY <3>1 DEF ImportOPML
      <4>2. QED
        BY <1>2, <4>1
    <3>2. CASE ImportNext(r)
      <4>1. PICK f \in job[r].rest : SubscribeToFeed(r, f, job[r].rest \ {f})
        BY <3>2 DEF ImportNext
      <4>2. job[r].rest \subseteq Feeds
        BY <1>2, <1>7, JobFacts DEF Job
      <4>3. QED
        BY <4>1, <4>2
    <3>3. QED
      BY <1>7, <3>1, <3>2
  <2>2. QED
    BY <1>2, <1>7, <2>1, SubscribeToFeedInv
<1>8. ASSUME NEW r \in deploy.requests, NEW f \in deploy.feeds, RefreshFeed(r, f) \/ CreateFeed(r, f)
      PROVE  Inv'
  <2>1. CASE RefreshFeed(r, f)
    BY <1>2, <2>1, RefreshFeedInv
  <2>2. CASE CreateFeed(r, f)
    <3>1. SubscribeToFeed(r, f, {}) /\ r \in Slots /\ f \in Feeds
      BY <1>2, <2>2 DEF CreateFeed
    <3>2. QED
      BY <3>1, SubscribeToFeedInv
  <2>3. QED
    BY <1>8, <2>1, <2>2
<1>9. ASSUME NEW j \in Slots, ProcessFeed(j) \/ Return(j) \/ Failure(j)
      PROVE  Inv'
  BY <1>9, MovesOnInv, EndsInv, CreateEntryInv, CreateEntryFailsInv, SaveInv
     DEF ProcessFeed, Failure
<1>10. CASE UNCHANGED vars
  <2>1. UNCHANGED <<deploy, version, feeds, stored, pool, missed>> /\ UNCHANGED mishaps
    BY <1>10 DEF vars, feeds, pool
  <2>2. Grow => JobType' /\ JobsCover'
    BY <1>10, JobsKept DEF vars
  <2>3. QED
    BY <2>1, <2>2, JobStepInv
<1>11. QED
  BY <1>3, <1>4, <1>5, <1>6, <1>7, <1>8, <1>9, <1>10, RestartInv DEF Next

\* FeedRefresh keeps its types: a feed's row is in one place, the queue holds what
\* Pool.jobs can hold, and a refresh works on a row that exists.
THEOREM RefreshTypes == Spec => []TypeOK
<1>1. Inv => TypeOK
  BY DEF Inv
<1>2. QED
  BY <1>1, InitInv, NextInv, PTL DEF Spec

\* The validators a feed row carries (feeds.etag_header) never stand for a document
\* with an article that is neither stored nor was logged as failed, whatever copies
\* of the row the pool and the requests process at once and in whatever order they
\* write it.
THEOREM ValidatorsCover == Spec => []ValidatorCovers
<1>1. Inv => ValidatorCovers
  BY DEF Inv, Covers
<1>2. QED
  BY <1>1, InitInv, NextInv, PTL DEF Spec

-----------------------------------------------------------------------------
(* The library of a user                                                       *)

Outline == (Title \cup {Root}) \X Feed

\* Names of feeds: none, or what Library stands for one by.
ShownName == {"", "url", "site", "mine"}

\* What an export lists: the folders of some feeds.
Listing == UNION {[fs -> Int] : fs \in SUBSET Feed}

\* What a call under way keeps.
CallType ==
  [op : {"none", "create", "update", "delete", "export", "import"},
   pc : {"idle", "discover", "lookup", "feed", "insert", "view", "again", "read", "write",
         "delete", "feeds", "folders", "next"},
   nr : Nat, feed : Feed \cup {"none"}, folder : Int, name : ShownName,
   given : SUBSET {"folder", "name"}, seen : [folder : Int, name : ShownName],
   todo : SUBSET Outline, place : Title \cup {Root}, known : [Title -> Nat],
   listed : Listing, stayed : SUBSET Feed]

\* The types of the folders, the feeds, the calls and their history.
LibraryTypes ==
  /\ folders \in [DOMAIN folders -> [title : Title, parent : Int]]
  /\ lastFolder \in Nat /\ DOMAIN folders \subseteq 1..lastFolder
  /\ others \subseteq 1..lastFolder /\ others \cap DOMAIN folders = {}
  /\ title \in [Feed -> ShownName]
  /\ subs \in [Feed -> [on : BOOLEAN, folder : Int, name : ShownName]]
  /\ file \in SUBSET Outline
  /\ call \in [Call -> CallType] /\ calls \in Nat
  /\ asked \in [Feed -> [folder : Int, name : ShownName]] /\ raced \subseteq Feed
  /\ origin \in [Feed -> [title : Title \cup {Root}, by : Nat]]
  /\ renamed \subseteq 1..lastFolder /\ omitted \subseteq Feed \X {"own", "others"}

\* The steps of a call are of its kind, and it has a feed where it needs one.
KindOf(c) ==
  /\ call[c].pc \in {"discover", "lookup", "feed", "insert", "view", "again"} =>
       call[c].op \in {"create", "import"} /\ call[c].feed \in Feed
  /\ call[c].pc \in {"read", "write"} => call[c].op = "update" /\ call[c].feed \in Feed
  /\ call[c].pc = "delete" => call[c].op = "delete" /\ call[c].feed \in Feed
  /\ call[c].pc = "feeds" => call[c].op = "export"
  /\ call[c].pc = "folders" => call[c].op \in {"export", "import"}
  /\ call[c].pc = "next" => call[c].op = "import"
  /\ call[c].op = "none" <=> call[c].pc = "idle"

\* A feed that an export has to list can be placed.
Placed(c) ==
  call[c].op = "export" /\ call[c].pc = "folders" =>
    \A f \in call[c].stayed :
      f \in DOMAIN call[c].listed /\ (call[c].listed[f] = 0 \/ Exists(call[c].listed[f]))

\* What an update was not given it writes back as it was read.
ReadAsGiven(c) ==
  call[c].pc = "write" =>
    /\ "folder" \notin call[c].given => call[c].folder = call[c].seen.folder
    /\ "name" \notin call[c].given => call[c].name = call[c].seen.name

\* The map of an import has folders of its titles, until they are renamed or deleted,
\* and the import puts a feed where the map says.
MapRight(c) ==
  \A t \in Title : LET id == call[c].known[t] IN
    id <= lastFolder /\ id \notin others /\ (Exists(id) => id \in renamed \/ folders[id].title = t)
PlaceRight(c) ==
  call[c].pc \in {"discover", "lookup", "feed", "insert"} =>
    IF call[c].place = Root THEN call[c].folder = 0
    ELSE call[c].folder # 0 /\ call[c].folder = call[c].known[call[c].place]
Mapped(c) == call[c].op = "import" => MapRight(c) /\ PlaceRight(c)

CallRight(c) == KindOf(c) /\ Placed(c) /\ ReadAsGiven(c) /\ Mapped(c)

\* The foreign key: no subscription is in a folder that does not exist.
InFolders == \A f \in Feed : subs[f].folder = 0 \/ (subs[f].on /\ Exists(subs[f].folder))

\* Nothing is asked of a feed without a subscription, and no import made it.
Bare(f) == asked[f].folder = 0 /\ asked[f].name = "" /\ origin[f].by = 0
OffBare == \A f \in Feed : subs[f].on \/ Bare(f)

\* What exports left out was in folders of other users.
Omissions == omitted \subseteq Feed \X {"others"}

\* Calls are numbered, and an import made no subscription before it began.
CallsNumbered ==
  /\ \A c \in Call : call[c].pc # "idle" => call[c].nr # 0 /\ call[c].nr <= calls
  /\ \A c, d \in Call : call[c].pc # "idle" /\ call[d].pc # "idle" /\ call[c].nr = call[d].nr => c = d
  /\ \A f \in Feed : origin[f].by <= calls

\* A feed an import subscribed to and nobody moved since.
Imported(f) == subs[f].on /\ origin[f].by # 0 /\ f \notin raced

\* It is in a folder of that title, the one the map of its import has.
InTitle(f) ==
  IF origin[f].title = Root THEN subs[f].folder = 0
  ELSE /\ subs[f].folder \in DOMAIN folders
       /\ subs[f].folder \in renamed \/ folders[subs[f].folder].title = origin[f].title
InMap(f, c) ==
  call[c].op = "import" /\ origin[f].by = call[c].nr =>
    /\ call[c].pc # "folders"
    /\ origin[f].title # Root => subs[f].folder = call[c].known[origin[f].title]
ImportedRight ==
  \A f \in Feed : Imported(f) =>
    /\ InTitle(f) /\ \A c \in Call : InMap(f, c)
    /\ \A g \in Feed : Imported(g) /\ origin[g] = origin[f] => subs[g].folder = subs[f].folder

LibraryInv ==
  /\ LibraryTypes /\ (\A c \in Call : CallRight(c)) /\ InFolders /\ OffBare /\ Omissions
  /\ RequestsKept /\ CallsNumbered /\ ImportedRight

-----------------------------------------------------------------------------
(* Calls                                                                       *)

\* The fields of a call.
LEMMA CallFields ==
  ASSUME call \in [Call -> CallType], NEW c \in Call
  PROVE  /\ call[c] \in CallType
         /\ call[c].op \in {"none", "create", "update", "delete", "export", "import"}
         /\ call[c].pc \in {"idle", "discover", "lookup", "feed", "insert", "view", "again",
                            "read", "write", "delete", "feeds", "folders", "next"}
         /\ call[c].nr \in Nat /\ call[c].folder \in Int /\ call[c].name \in ShownName
         /\ call[c].given \subseteq {"folder", "name"}
         /\ call[c].seen \in [folder : Int, name : ShownName]
         /\ call[c].todo \subseteq Outline /\ call[c].place \in Title \cup {Root}
         /\ call[c].known \in [Title -> Nat] /\ call[c].listed \in Listing
         /\ call[c].stayed \subseteq Feed
  BY DEF CallType

\* Folders of some feeds.
LEMMA Listings ==
  ASSUME NEW fs \in SUBSET Feed, NEW listed \in [fs -> Int]
  PROVE  listed \in Listing
  BY DEF Listing

\* No call under way.
LEMMA NoCallType == NoCall \in CallType
<1> DEFINE map == [t \in Title |-> 0]
           none == [f \in {} |-> 0]
<1>1. none \in Listing
  <2>1. {} \in SUBSET Feed /\ none \in [{} -> Int]
    OBVIOUS
  <2>2. \A listed \in [{} -> Int] : listed \in Listing
    BY <2>1, Listings, Zenon
  <2>3. QED
    BY <2>1, <2>2, Zenon
<1>2. map \in [Title -> Nat] /\ NotAsked \in [folder : Int, name : ShownName]
  BY DEF NotAsked, ShownName
<1> HIDE DEF map, none
<1>3. ASSUME NEW m \in [Title -> Nat], NEW l \in Listing, NEW n \in ShownName,
             NEW a \in [folder : Int, name : ShownName], NEW g \in SUBSET {"folder", "name"},
             NEW o \in SUBSET Outline, NEW s \in SUBSET Feed
      PROVE  [op |-> "none", pc |-> "idle", nr |-> 0, feed |-> "none", folder |-> 0,
              name |-> n, given |-> g, seen |-> a, todo |-> o, place |-> Root,
              known |-> m, listed |-> l, stayed |-> s] \in CallType
  BY DEF CallType
<1>4. "" \in ShownName /\ {} \in SUBSET Outline /\ {} \in SUBSET Feed /\ {} \in SUBSET {"folder", "name"}
  BY DEF ShownName
<1>5. [op |-> "none", pc |-> "idle", nr |-> 0, feed |-> "none", folder |-> 0,
       name |-> "", given |-> {}, seen |-> NotAsked, todo |-> {}, place |-> Root,
       known |-> map, listed |-> none, stayed |-> {}] \in CallType
  BY <1>1, <1>2, <1>3, <1>4, Zenon
<1>6. QED
  BY <1>5 DEF NoCall, map, none

\* What GoOn leaves of a call.
LEMMA GoesOnEffect ==
  ASSUME call \in [Call -> CallType], NEW c \in Call,
         NEW pc \in {"idle", "discover", "lookup", "feed", "insert", "view", "again",
                     "read", "write", "delete", "feeds", "folders", "next"},
         GoOn(c, pc)
  PROVE  /\ call' \in [Call -> CallType] /\ \A d \in Call \ {c} : call'[d] = call[d]
         /\ call'[c].pc = pc /\ call'[c].op = call[c].op /\ call'[c].nr = call[c].nr
         /\ call'[c].feed = call[c].feed /\ call'[c].folder = call[c].folder
         /\ call'[c].known = call[c].known /\ call'[c].place = call[c].place
<1>1. call[c] \in CallType
  BY CallFields
<1>2. [call[c] EXCEPT !.pc = pc] \in CallType
  BY <1>1 DEF CallType
<1>3. call' = [call EXCEPT ![c] = [call[c] EXCEPT !.pc = pc]]
  BY DEF GoOn
<1>4. call'[c] = [call[c] EXCEPT !.pc = pc]
  BY <1>3
<1>5. QED
  BY <1>1, <1>2, <1>3, <1>4 DEF CallType

\* What End leaves.
LEMMA EndEffect ==
  ASSUME call \in [Call -> CallType], NEW c \in Call, End(c)
  PROVE  /\ call' \in [Call -> CallType] /\ \A d \in Call \ {c} : call'[d] = call[d]
         /\ call'[c].pc = "idle" /\ call'[c].op = "none"
  BY NoCallType DEF End, NoCall

\* The folders grow: none is lost, and its title changes only if that is noted.
Growing ==
  /\ lastFolder' \in Nat /\ lastFolder <= lastFolder' /\ renamed \subseteq renamed'
  /\ DOMAIN folders \subseteq DOMAIN folders' /\ others \subseteq others'
  /\ \A id \in DOMAIN folders' \ DOMAIN folders : id > lastFolder
  /\ \A id \in others' \ others : id > lastFolder
  /\ \A id \in DOMAIN folders : id \in renamed' \/ folders'[id].title = folders[id].title

\* Folders that stay as they are grow.
LEMMA SameFolders ==
  ASSUME LibraryTypes, UNCHANGED <<folders, others, lastFolder, renamed>>
  PROVE  Growing
  BY DEF Growing, LibraryTypes

\* A call that another one does not touch stays right.
LEMMA CallKept ==
  ASSUME LibraryTypes, NEW c \in Call, CallRight(c), Growing,
         call'[c] = call[c]
  PROVE  CallRight(c)'
<1>1. KindOf(c)' /\ ReadAsGiven(c)'
  BY DEF CallRight, KindOf, ReadAsGiven
<1>2. Placed(c)'
  BY DEF CallRight, Placed, Growing, Exists
<1>3. ASSUME call[c].op = "import" PROVE MapRight(c)'
  <2> SUFFICES ASSUME NEW t \in Title, NEW id, id = call[c].known[t]
               PROVE  id <= lastFolder' /\ id \notin others' /\ (id \in DOMAIN folders' => id \in renamed' \/ folders'[id].title = t)
    BY DEF MapRight, Exists
  <2>1. id \in Nat /\ id <= lastFolder /\ id \notin others /\ lastFolder \in Nat
    BY <1>3, CallFields DEF CallRight, Mapped, MapRight, LibraryTypes
  <2>2. id \in DOMAIN folders => id \in renamed \/ folders[id].title = t
    BY <1>3 DEF CallRight, Mapped, MapRight, Exists
  <2>3. id \in DOMAIN folders' => id \in DOMAIN folders
    BY <2>1 DEF Growing
  <2>4. QED
    BY <2>1, <2>2, <2>3 DEF Growing, Exists
<1>4. PlaceRight(c)' <=> PlaceRight(c)
  BY DEF PlaceRight
<1>5. QED
  BY <1>1, <1>2, <1>3, <1>4 DEF CallRight, Mapped

\* A call that goes on, or begins or ends, while the rows stay as they are.
LEMMA CallSteps ==
  ASSUME LibraryInv, NEW c \in Call,
         UNCHANGED <<folders, others, lastFolder, subs, asked, raced, origin, renamed>>,
         title' \in [Feed -> ShownName], file' \in SUBSET Outline, Omissions',
         calls' \in Nat, calls <= calls',
         call' \in [Call -> CallType], \A d \in Call \ {c} : call'[d] = call[d],
         CallRight(c)',
         call'[c].pc # "idle" =>
           /\ call'[c].nr # 0 /\ call'[c].nr <= calls'
           /\ \A d \in Call \ {c} : call[d].pc # "idle" => call[d].nr # call'[c].nr,
         \A f \in Feed : Imported(f) => InMap(f, c)'
  PROVE  LibraryInv'
<1>1. LibraryTypes'
  BY DEF LibraryInv, LibraryTypes, Omissions
<1>2. \A d \in Call : CallRight(d)'
  <2>1. ASSUME NEW d \in Call \ {c} PROVE CallRight(d)'
    BY <2>1, CallKept, SameFolders DEF LibraryInv
  <2>2. QED
    BY <2>1
<1>3. InFolders' /\ OffBare' /\ Omissions' /\ RequestsKept'
  BY DEF LibraryInv, InFolders, OffBare, Bare, Omissions, RequestsKept, Exists
<1>4. CallsNumbered'
  <2>1. \A d \in Call : call[d].nr \in Nat
    BY CallFields DEF LibraryInv, LibraryTypes
  <2>2. \A f \in Feed : origin[f].by \in Nat
    BY DEF LibraryInv, LibraryTypes
  <2>3. calls \in Nat
    BY DEF LibraryInv, LibraryTypes
  <2>4. QED
    BY <2>1, <2>2, <2>3 DEF LibraryInv, CallsNumbered
<1>5. ImportedRight'
  <2>1. \A f \in Feed : (Imported(f)' <=> Imported(f)) /\ (InTitle(f)' <=> InTitle(f))
    BY DEF Imported, InTitle
  <2>2. \A f \in Feed, d \in Call \ {c} : InMap(f, d)' <=> InMap(f, d)
    BY DEF InMap
  <2>3. QED
    BY <2>1, <2>2 DEF LibraryInv, ImportedRight
<1>6. QED
  BY <1>1, <1>2, <1>3, <1>4, <1>5 DEF LibraryInv

\* The same for a call that goes on as what it is.
LEMMA CallGoesOn ==
  ASSUME LibraryInv, NEW c \in Call,
         UNCHANGED <<folders, others, lastFolder, subs, asked, raced, origin, renamed, omitted, calls>>,
         title' \in [Feed -> ShownName], file' \in SUBSET Outline,
         call' \in [Call -> CallType], \A d \in Call \ {c} : call'[d] = call[d],
         CallRight(c)', call[c].pc # "idle", call'[c].nr = call[c].nr,
         call'[c].op = call[c].op, call'[c].known = call[c].known,
         call'[c].pc = "folders" => call[c].op # "import"
  PROVE  LibraryInv'
<1>1. calls \in Nat /\ calls <= calls' /\ Omissions'
  BY DEF LibraryInv, LibraryTypes, Omissions
<1>2. /\ call'[c].nr # 0 /\ call'[c].nr <= calls'
      /\ \A d \in Call \ {c} : call[d].pc # "idle" => call[d].nr # call'[c].nr
  BY DEF LibraryInv, CallsNumbered
<1>3. \A f \in Feed : Imported(f) => InMap(f, c)'
  BY DEF LibraryInv, ImportedRight, InMap
<1>4. QED
  BY <1>1, <1>2, <1>3, CallSteps

\* And for one that ends.
LEMMA CallEnds ==
  ASSUME LibraryInv, NEW c \in Call, End(c),
         UNCHANGED <<folders, others, lastFolder, title, subs, asked, raced, origin, renamed, calls>>,
         file' \in SUBSET Outline, Omissions'
  PROVE  LibraryInv'
<1>1. /\ call' \in [Call -> CallType] /\ \A d \in Call \ {c} : call'[d] = call[d]
      /\ call'[c].pc = "idle" /\ call'[c].op = "none"
  BY EndEffect DEF LibraryInv, LibraryTypes
<1>2. CallRight(c)'
  BY <1>1 DEF CallRight, KindOf, Placed, ReadAsGiven, Mapped
<1>3. \A f \in Feed : InMap(f, c)'
  BY <1>1 DEF InMap
<1>4. calls \in Nat /\ title \in [Feed -> ShownName]
  BY DEF LibraryInv, LibraryTypes
<1>5. QED
  BY <1>1, <1>2, <1>3, <1>4, CallSteps

\* And for one that only goes to its next step, which is not the first of an
\* import nor one with something to keep.
LEMMA CallGoes ==
  ASSUME LibraryInv, NEW c \in Call,
         NEW pc \in {"feed", "insert", "view", "again", "next"}, GoOn(c, pc),
         UNCHANGED <<folders, others, lastFolder, subs, asked, raced, origin, renamed, omitted, calls, file>>,
         title' \in [Feed -> ShownName], call[c].pc # "idle",
         pc = "next" => call[c].op = "import",
         pc # "next" => call[c].op \in {"create", "import"} /\ call[c].feed \in Feed,
         pc \in {"feed", "insert"} => call[c].pc \in {"discover", "lookup", "feed", "insert"}
  PROVE  LibraryInv'
<1>1. /\ call' \in [Call -> CallType] /\ \A d \in Call \ {c} : call'[d] = call[d]
      /\ call'[c].pc = pc /\ call'[c].op = call[c].op /\ call'[c].nr = call[c].nr
      /\ call'[c].feed = call[c].feed /\ call'[c].folder = call[c].folder
      /\ call'[c].known = call[c].known /\ call'[c].place = call[c].place
  BY GoesOnEffect DEF LibraryInv, LibraryTypes
<1>2. KindOf(c)' /\ Placed(c)' /\ ReadAsGiven(c)'
  BY <1>1 DEF KindOf, Placed, ReadAsGiven
<1>3. call[c].op = "import" => MapRight(c)' /\ PlaceRight(c)'
  BY <1>1 DEF LibraryInv, CallRight, Mapped, MapRight, PlaceRight, Exists
<1>4. CallRight(c)'
  BY <1>1, <1>2, <1>3 DEF CallRight, Mapped
<1>5. file' \in SUBSET Outline
  BY DEF LibraryInv, LibraryTypes
<1>6. QED
  BY <1>1, <1>4, <1>5, CallGoesOn

-----------------------------------------------------------------------------
(* The steps of calls that change no folder and no subscription                *)

\* A request begins.
LEMMA Begins ==
  ASSUME LibraryInv, NEW c \in Call, NEW new \in CallType, Begin(c, new),
         \/ new.op = "create" /\ new.pc = "discover" /\ new.feed \in Feed
         \/ new.op = "update" /\ new.pc = "read" /\ new.feed \in Feed
         \/ new.op = "delete" /\ new.pc = "delete" /\ new.feed \in Feed
         \/ new.op = "export" /\ new.pc = "feeds"
         \/ new.op = "import" /\ new.pc = "folders" /\ new.known = [t \in Title |-> 0]
  PROVE  LibraryInv'
<1>1. calls \in Nat /\ calls' = calls + 1 /\ Omissions'
  BY DEF LibraryInv, LibraryTypes, Omissions, Begin, Requested, history
<1> DEFINE x == [new EXCEPT !.nr = calls + 1]
<1>2. /\ x \in CallType /\ x.op = new.op /\ x.pc = new.pc /\ x.feed = new.feed
      /\ x.known = new.known /\ x.nr = calls + 1
  BY <1>1 DEF CallType
<1>3. call' = [call EXCEPT ![c] = x] /\ call \in [Call -> CallType]
  BY DEF Begin, LibraryInv, LibraryTypes
<1> HIDE DEF x
<1>4. /\ call' \in [Call -> CallType] /\ \A d \in Call \ {c} : call'[d] = call[d]
      /\ call'[c] = x
  BY <1>2, <1>3
<1>5. MapRight(c)' \/ x.op # "import"
  <2> SUFFICES ASSUME x.op = "import", NEW t \in Title
               PROVE  call'[c].known[t] = 0 /\ 0 <= lastFolder' /\ 0 \notin others' /\ 0 \notin DOMAIN folders'
    BY DEF MapRight, Exists
  <2>1. x.known = [s \in Title |-> 0]
    BY <1>2
  <2>2. UNCHANGED <<folders, others, lastFolder>> /\ lastFolder \in Nat /\ DOMAIN folders \subseteq 1..lastFolder
       /\ others \subseteq 1..lastFolder
    BY DEF Begin, rows, LibraryInv, LibraryTypes
  <2>3. QED
    BY <1>4, <2>1, <2>2 DEF Exists
<1>6. CallRight(c)'
  BY <1>2, <1>4, <1>5 DEF CallRight, KindOf, Placed, ReadAsGiven, Mapped, PlaceRight
<1>7. \A f \in Feed : origin[f].by \in Nat /\ origin[f].by <= calls
  BY DEF LibraryInv, LibraryTypes, CallsNumbered
<1>8. \A f \in Feed : InMap(f, c)'
  BY <1>1, <1>2, <1>4, <1>7 DEF InMap, Begin, history
<1>9. \A d \in Call \ {c} : call[d].pc # "idle" => call[d].nr # calls + 1
  <2>1. \A d \in Call : call[d].nr \in Nat /\ (call[d].pc # "idle" => call[d].nr <= calls)
    BY CallFields DEF LibraryInv, LibraryTypes, CallsNumbered
  <2>2. QED
    BY <1>1, <2>1
<1>10. UNCHANGED <<folders, others, lastFolder, title, subs, asked, raced, origin, renamed, file>>
  BY DEF Begin, rows, history
<1>11. title \in [Feed -> ShownName] /\ file \in SUBSET Outline
  BY DEF LibraryInv, LibraryTypes
<1>12. QED
  BY <1>1, <1>2, <1>4, <1>6, <1>8, <1>9, <1>10, <1>11, CallSteps

\* Requests for a feed.
LEMMA AskSteps ==
  ASSUME LibraryInv, NEW c \in Call, NEW f \in Feed, NEW id \in Int, NEW name \in {"", "mine"},
         AskSubscribe(c, f, id) \/ AskUpdate(c, f, id, name) \/ AskUnsubscribe(c, f)
  PROVE  LibraryInv'
<1> DEFINE given == {x \in {"folder", "name"} : IF x = "folder" THEN id # 0 ELSE name # ""}
<1>0. given \subseteq {"folder", "name"} /\ name \in ShownName
  BY DEF ShownName
<1>1. NoCall \in CallType
  BY NoCallType
<1>2. CASE AskSubscribe(c, f, id)
  <2> DEFINE new == [NoCall EXCEPT !.op = "create", !.pc = "discover", !.feed = f, !.folder = id]
  <2>1. new \in CallType /\ new.op = "create" /\ new.pc = "discover" /\ new.feed = f
    BY <1>1 DEF CallType
  <2>2. Begin(c, new)
    BY <1>2 DEF AskSubscribe
  <2> HIDE DEF new
  <2>3. PICK x \in CallType : x = new
    BY <2>1
  <2>4. QED
    BY <2>1, <2>2, <2>3, Begins
<1>3. CASE AskUpdate(c, f, id, name)
  <2> DEFINE new == [NoCall EXCEPT !.op = "update", !.pc = "read", !.feed = f, !.folder = id,
                                   !.name = name, !.given = given]
  <2> HIDE DEF given
  <2>1. new \in CallType /\ new.op = "update" /\ new.pc = "read" /\ new.feed = f
    BY <1>0, <1>1 DEF CallType
  <2>2. Begin(c, new)
    BY <1>3 DEF AskUpdate, given
  <2> HIDE DEF new
  <2>3. PICK x \in CallType : x = new
    BY <2>1
  <2>4. QED
    BY <2>1, <2>2, <2>3, Begins
<1>4. CASE AskUnsubscribe(c, f)
  <2> DEFINE new == [NoCall EXCEPT !.op = "delete", !.pc = "delete", !.feed = f]
  <2>1. new \in CallType /\ new.op = "delete" /\ new.pc = "delete" /\ new.feed = f
    BY <1>1 DEF CallType
  <2>2. Begin(c, new)
    BY <1>4 DEF AskUnsubscribe
  <2> HIDE DEF new
  <2>3. PICK x \in CallType : x = new
    BY <2>1
  <2>4. QED
    BY <2>1, <2>2, <2>3, Begins
<1>5. QED
  BY <1>2, <1>3, <1>4

\* Requests for a file.
LEMMA AskOPML ==
  ASSUME LibraryInv, NEW c \in Call, AskExport(c) \/ AskImport(c)
  PROVE  LibraryInv'
<1>1. NoCall \in CallType /\ NoCall.known = [t \in Title |-> 0] /\ file \in SUBSET Outline
  BY NoCallType DEF NoCall, LibraryInv, LibraryTypes
<1>2. CASE AskExport(c)
  <2> DEFINE new == [NoCall EXCEPT !.op = "export", !.pc = "feeds"]
  <2>1. new \in CallType /\ new.op = "export" /\ new.pc = "feeds"
    BY <1>1 DEF CallType
  <2>2. Begin(c, new)
    BY <1>2 DEF AskExport
  <2> HIDE DEF new
  <2>3. PICK x \in CallType : x = new
    BY <2>1
  <2>4. QED
    BY <2>1, <2>2, <2>3, Begins
<1>3. CASE AskImport(c)
  <2> DEFINE new == [NoCall EXCEPT !.op = "import", !.pc = "folders", !.todo = file]
  <2>1. new \in CallType /\ new.op = "import" /\ new.pc = "folders" /\ new.known = [t \in Title |-> 0]
    BY <1>1 DEF CallType
  <2>2. Begin(c, new)
    BY <1>3 DEF AskImport
  <2> HIDE DEF new
  <2>3. PICK x \in CallType : x = new
    BY <2>1
  <2>4. QED
    BY <2>1, <2>2, <2>3, Begins
<1>4. QED
  BY <1>2, <1>3

\* An answer is the end of a call, or of one outline of an import.
LEMMA Answers ==
  ASSUME LibraryInv, NEW c \in Call, Answer(c), call[c].pc # "idle",
         UNCHANGED <<folders, others, lastFolder, title, subs, asked, raced, origin, renamed, omitted, calls, file>>
  PROVE  LibraryInv'
<1>1. title \in [Feed -> ShownName] /\ file \in SUBSET Outline /\ Omissions
  BY DEF LibraryInv, LibraryTypes, Omissions
<1>2. CASE call[c].op = "import"
  <2>1. GoOn(c, "next")
    BY <1>2 DEF Answer
  <2>2. QED
    BY <1>1, <1>2, <2>1, CallGoes
<1>3. CASE call[c].op # "import"
  <2>1. End(c)
    BY <1>3 DEF Answer
  <2>2. QED
    BY <1>1, <2>1, CallEnds DEF Omissions
<1>4. QED
  BY <1>2, <1>3

\* The steps of a subscription up to its insert, and after it.
LEMMA SubscribeSteps ==
  ASSUME LibraryInv, NEW c \in Call,
         Discover(c) \/ Lookup(c) \/ StoreFeed(c) \/ ReadBack(c)
  PROVE  LibraryInv'
<1>0. /\ call[c].pc \in {"discover", "lookup", "feed", "insert", "view", "again"} =>
           call[c].op \in {"create", "import"} /\ call[c].feed \in Feed
      /\ call \in [Call -> CallType] /\ call[c] \in CallType /\ call[c].name \in ShownName
      /\ title \in [Feed -> ShownName] /\ file \in SUBSET Outline /\ Omissions
  BY CallFields DEF LibraryInv, CallRight, KindOf, LibraryTypes, Omissions
<1>1. CASE Discover(c)
  <2>1. PICK t \in {"url", "site"} : call' = [call EXCEPT ![c].pc = "lookup", ![c].name = t]
    BY <1>1 DEF Discover
  <2>2. call[c].pc = "discover" /\ UNCHANGED <<rows, file, calls, history>>
    BY <1>1 DEF Discover
  <2>3. /\ call' \in [Call -> CallType] /\ \A d \in Call \ {c} : call'[d] = call[d]
        /\ call'[c].pc = "lookup" /\ call'[c].op = call[c].op /\ call'[c].nr = call[c].nr
        /\ call'[c].feed = call[c].feed /\ call'[c].folder = call[c].folder
        /\ call'[c].known = call[c].known /\ call'[c].place = call[c].place
    BY <1>0, <2>1 DEF CallType, ShownName
  <2>4. KindOf(c)' /\ Placed(c)' /\ ReadAsGiven(c)'
    BY <1>0, <2>2, <2>3 DEF KindOf, Placed, ReadAsGiven
  <2>5. call[c].op = "import" => MapRight(c)' /\ PlaceRight(c)'
    BY <2>2, <2>3 DEF LibraryInv, CallRight, Mapped, MapRight, PlaceRight, Exists, rows, history
  <2>6. CallRight(c)'
    BY <2>3, <2>4, <2>5 DEF CallRight, Mapped
  <2>7. QED
    BY <1>0, <2>2, <2>3, <2>6, CallGoesOn DEF rows, history
<1>2. CASE Lookup(c)
  <2>1. call[c].pc = "lookup" /\ UNCHANGED <<rows, file, calls, history>>
    BY <1>2 DEF Lookup
  <2>2. CASE Answer(c)
    BY <2>1, <2>2, Answers DEF rows, history
  <2>3. CASE GoOn(c, "feed")
    BY <1>0, <2>1, <2>3, CallGoes DEF rows, history
  <2>4. QED
    BY <1>2, <2>2, <2>3 DEF Lookup
<1>3. CASE StoreFeed(c)
  <2>1. /\ call[c].pc = "feed" /\ GoOn(c, "insert")
        /\ title' = [title EXCEPT ![call[c].feed] = call[c].name]
        /\ UNCHANGED <<folders, others, lastFolder, subs, file, calls, history>>
    BY <1>3 DEF StoreFeed
  <2>2. title' \in [Feed -> ShownName]
    BY <1>0, <2>1
  <2>3. QED
    BY <1>0, <2>1, <2>2, CallGoes DEF history
<1>4. CASE ReadBack(c)
  <2>1. call[c].pc \in {"view", "again"} /\ UNCHANGED <<rows, file, calls, history>>
    BY <1>4 DEF ReadBack
  <2>2. CASE Answer(c)
    BY <2>1, <2>2, Answers DEF rows, history
  <2>3. CASE GoOn(c, "again")
    BY <1>0, <2>1, <2>3, CallGoes DEF rows, history
  <2>4. CASE End(c)
    BY <1>0, <2>1, <2>4, CallEnds DEF rows, history, Omissions
  <2>5. QED
    BY <1>4, <2>2, <2>3, <2>4 DEF ReadBack
<1>5. QED
  BY <1>1, <1>2, <1>3, <1>4

\* The name the lists show.
LEMMA ShownType ==
  ASSUME LibraryTypes, NEW f \in Feed
  PROVE  /\ Shown(f) \in ShownName /\ Seen(f) \in [folder : Int, name : ShownName]
         /\ Seen(f).folder = subs[f].folder /\ Seen(f).name = Shown(f)
         /\ subs[f].folder \in Int
<1>1. Shown(f) \in ShownName /\ subs[f].folder \in Int
  BY DEF Shown, LibraryTypes
<1>2. QED
  BY <1>1 DEF Seen

\* An update reads.
LEMMA ReadsForUpdate ==
  ASSUME LibraryInv, NEW c \in Call, ReadForUpdate(c)
  PROVE  LibraryInv'
<1>0. /\ call[c].pc = "read" /\ call[c].op = "update" /\ call[c].feed \in Feed
      /\ UNCHANGED <<rows, file, calls, history>>
      /\ title \in [Feed -> ShownName] /\ file \in SUBSET Outline /\ Omissions
      /\ call \in [Call -> CallType] /\ LibraryTypes
  BY DEF ReadForUpdate, LibraryInv, CallRight, KindOf, LibraryTypes, Omissions
<1>1. PICK f \in Feed : f = call[c].feed
  BY <1>0
<1>2. CASE End(c)
  BY <1>0, <1>2, CallEnds DEF rows, history, Omissions
<1>3. CASE ~ End(c)
  <2>1. PICK s \in [folder : Int, name : ShownName], id \in Int, name \in ShownName :
          /\ s = Seen(f)
          /\ id = IF "folder" \in call[c].given THEN call[c].folder ELSE subs[f].folder
          /\ name = IF "name" \in call[c].given THEN call[c].name ELSE Shown(f)
    BY <1>0, ShownType, CallFields
  <2>2. call' = [call EXCEPT ![c].pc = "write", ![c].seen = s, ![c].folder = id, ![c].name = name]
    BY <1>0, <1>1, <1>3, <2>1 DEF ReadForUpdate
  <2>3. /\ call' \in [Call -> CallType] /\ \A d \in Call \ {c} : call'[d] = call[d]
        /\ call'[c].pc = "write" /\ call'[c].op = call[c].op /\ call'[c].nr = call[c].nr
        /\ call'[c].feed = call[c].feed /\ call'[c].given = call[c].given
        /\ call'[c].known = call[c].known /\ call'[c].seen = s
        /\ call'[c].folder = id /\ call'[c].name = name
    <3> DEFINE x == [call[c] EXCEPT !.pc = "write", !.seen = s, !.folder = id, !.name = name]
    <3>1. call[c] \in CallType
      BY <1>0
    <3>2. /\ x \in CallType /\ x.pc = "write" /\ x.op = call[c].op /\ x.nr = call[c].nr
          /\ x.feed = call[c].feed /\ x.given = call[c].given /\ x.known = call[c].known
          /\ x.seen = s /\ x.folder = id /\ x.name = name
      BY <3>1 DEF CallType
    <3>3. call' = [call EXCEPT ![c] = x]
      BY <1>0, <2>2
    <3> HIDE DEF x
    <3>4. QED
      BY <1>0, <3>2, <3>3
  <2>4. s.folder = subs[f].folder /\ s.name = Shown(f)
    BY <1>0, <2>1, ShownType
  <2>5. KindOf(c)' /\ Placed(c)' /\ ReadAsGiven(c)' /\ Mapped(c)'
    BY <1>0, <2>1, <2>3, <2>4 DEF KindOf, Placed, ReadAsGiven, Mapped
  <2>6. CallRight(c)'
    BY <2>5 DEF CallRight
  <2>7. QED
    BY <1>0, <2>3, <2>6, CallGoesOn DEF rows, history
<1>4. QED
  BY <1>2, <1>3

\* An export lists the feeds, and what it has listed it writes.
LEMMA ExportSteps ==
  ASSUME LibraryInv, NEW c \in Call, ListFeeds(c) \/ Export(c)
  PROVE  LibraryInv'
<1>0. /\ title \in [Feed -> ShownName] /\ file \in SUBSET Outline /\ Omissions
      /\ call \in [Call -> CallType] /\ LibraryTypes
  BY DEF LibraryInv, LibraryTypes, Omissions
<1>1. CASE ListFeeds(c)
  <2>1. /\ call[c].pc = "feeds" /\ call[c].op = "export" /\ UNCHANGED <<rows, file, calls, history>>
    BY <1>1 DEF ListFeeds, LibraryInv, CallRight, KindOf
  <2>2. PICK fs \in SUBSET Feed : fs = Subscribed
    BY DEF Subscribed
  <2>3. [f \in fs |-> subs[f].folder] \in [fs -> Int]
    BY DEF LibraryInv, LibraryTypes
  <2>4. PICK l \in Listing : l = [f \in fs |-> subs[f].folder]
    BY <2>3, Listings
  <2>5. call' = [call EXCEPT ![c].pc = "folders", ![c].stayed = fs, ![c].listed = l]
    BY <1>1, <2>2, <2>4 DEF ListFeeds
  <2>6. /\ call' \in [Call -> CallType] /\ \A d \in Call \ {c} : call'[d] = call[d]
        /\ call'[c].pc = "folders" /\ call'[c].op = call[c].op /\ call'[c].nr = call[c].nr
        /\ call'[c].known = call[c].known /\ call'[c].stayed = fs /\ call'[c].listed = l
    <3> DEFINE x == [call[c] EXCEPT !.pc = "folders", !.stayed = fs, !.listed = l]
    <3>1. call[c] \in CallType
      BY <1>0
    <3>2. /\ x \in CallType /\ x.pc = "folders" /\ x.op = call[c].op /\ x.nr = call[c].nr
          /\ x.known = call[c].known /\ x.stayed = fs /\ x.listed = l
      BY <3>1 DEF CallType
    <3>3. call' = [call EXCEPT ![c] = x]
      BY <1>0, <2>5
    <3> HIDE DEF x
    <3>4. QED
      BY <1>0, <3>2, <3>3
  <2>7. Placed(c)'
    BY <2>1, <2>4, <2>6 DEF Placed, LibraryInv, InFolders, Exists, rows
  <2>8. KindOf(c)' /\ ReadAsGiven(c)' /\ Mapped(c)'
    BY <2>1, <2>6 DEF KindOf, ReadAsGiven, Mapped
  <2>9. CallRight(c)'
    BY <2>7, <2>8 DEF CallRight
  <2>10. QED
    BY <1>0, <2>1, <2>6, <2>9, CallGoesOn DEF rows, history
<1>2. CASE Export(c)
  <2>1. /\ call[c].pc = "folders" /\ call[c].op = "export" /\ End(c)
        /\ file' = Outlines(call[c].listed)
        /\ omitted' = omitted \cup {<<f, Whose(call[c].listed[f])>> :
             f \in {g \in call[c].stayed : \A t \in Title \cup {Root} : <<t, g>> \notin file'}}
        /\ UNCHANGED <<rows, calls, asked, raced, origin, renamed>>
    BY <1>2 DEF Export
  <2>2. PICK fs \in SUBSET Feed : call[c].listed \in [fs -> Int]
    BY <1>0, CallFields DEF Listing
  <2>3. \A id \in DOMAIN folders : folders[id].title \in Title
    BY DEF LibraryInv, LibraryTypes
  <2>4. file' \in SUBSET Outline
    BY <2>1, <2>2, <2>3 DEF Outlines, Outline, Exists
  <2>5. ASSUME NEW f \in call[c].stayed
        PROVE  \/ \E t \in Title \cup {Root} : <<t, f>> \in file'
               \/ f \in Feed /\ Whose(call[c].listed[f]) = "others"
    <3>1. f \in DOMAIN call[c].listed /\ (call[c].listed[f] = 0 \/ Exists(call[c].listed[f]))
      BY <2>1 DEF LibraryInv, CallRight, Placed
    <3>2. CASE call[c].listed[f] = 0
      BY <2>1, <3>1, <3>2 DEF Outlines
    <3>3. CASE call[c].listed[f] \in others
      BY <1>0, <3>3, CallFields DEF Whose
    <3>4. CASE call[c].listed[f] \in DOMAIN folders
      <4>1. <<folders[call[c].listed[f]].title, f>> \in file'
        BY <2>1, <3>1, <3>4 DEF Outlines
      <4>2. QED
        BY <2>3, <3>4, <4>1
    <3>5. QED
      BY <3>1, <3>2, <3>3, <3>4 DEF Exists
  <2>6. Omissions'
    <3> SUFFICES ASSUME NEW x \in omitted' PROVE x \in Feed \X {"others"}
      BY DEF Omissions
    <3>1. CASE x \in omitted
      BY <1>0, <3>1 DEF Omissions
    <3>2. CASE x \notin omitted
      <4>1. PICK f \in call[c].stayed : /\ x = <<f, Whose(call[c].listed[f])>>
                                        /\ \A t \in Title \cup {Root} : <<t, f>> \notin file'
        BY <2>1, <3>2
      <4>2. f \in Feed /\ Whose(call[c].listed[f]) = "others"
        BY <2>5, <4>1
      <4>3. QED
        BY <4>1, <4>2
    <3>3. QED
      BY <3>1, <3>2
  <2>7. QED
    BY <2>1, <2>4, <2>6, CallEnds DEF rows
<1>3. QED
  BY <1>1, <1>2

\* An import reads the folders, or ends.
LEMMA ImportReads ==
  ASSUME LibraryInv, NEW c \in Call, ListFolders(c) \/ ImportDone(c)
  PROVE  LibraryInv'
<1>0. /\ title \in [Feed -> ShownName] /\ file \in SUBSET Outline /\ Omissions
      /\ call \in [Call -> CallType] /\ calls \in Nat /\ lastFolder \in Nat
      /\ DOMAIN folders \subseteq 1..lastFolder
      /\ others \subseteq 1..lastFolder /\ others \cap DOMAIN folders = {}
  BY DEF LibraryInv, LibraryTypes
<1>1. CASE ListFolders(c)
  <2>1. /\ call[c].pc = "folders" /\ call[c].op = "import" /\ UNCHANGED <<rows, file, calls, history>>
    BY <1>1 DEF ListFolders
  <2>2. PICK k \in [Title -> {0} \cup DOMAIN folders] :
          /\ \A t \in Title :
               LET ids == {id \in DOMAIN folders : folders[id].title = t}
               IN  IF ids = {} THEN k[t] = 0 ELSE k[t] \in ids
          /\ call' = [call EXCEPT ![c].pc = "next", ![c].known = k]
    BY <1>1 DEF ListFolders
  <2>3. \A t \in Title : /\ k[t] \in Nat /\ k[t] <= lastFolder
                         /\ k[t] # 0 => folders[k[t]].title = t
                         /\ k[t] \notin others
    BY <1>0, <2>2
  <2>4. k \in [Title -> Nat]
    BY <2>3
  <2>5. /\ call' \in [Call -> CallType] /\ \A d \in Call \ {c} : call'[d] = call[d]
        /\ call'[c].pc = "next" /\ call'[c].op = "import" /\ call'[c].nr = call[c].nr
        /\ call'[c].known = k
    <3> DEFINE x == [call[c] EXCEPT !.pc = "next", !.known = k]
    <3>1. call[c] \in CallType
      BY <1>0
    <3>2. /\ x \in CallType /\ x.pc = "next" /\ x.op = call[c].op /\ x.nr = call[c].nr
          /\ x.known = k
      BY <2>4, <3>1 DEF CallType
    <3>3. call' = [call EXCEPT ![c] = x]
      BY <1>0, <2>2
    <3> HIDE DEF x
    <3>4. QED
      BY <1>0, <2>1, <3>2, <3>3
  <2>6. MapRight(c)'
    <3>1. 0 \notin DOMAIN folders
      BY <1>0
    <3>2. QED
      BY <2>1, <2>3, <2>5, <3>1 DEF MapRight, Exists, rows, history
  <2>7. KindOf(c)' /\ Placed(c)' /\ ReadAsGiven(c)' /\ PlaceRight(c)'
    BY <2>5 DEF KindOf, Placed, ReadAsGiven, PlaceRight
  <2>8. CallRight(c)'
    BY <2>6, <2>7 DEF CallRight, Mapped
  <2>9. /\ call'[c].nr # 0 /\ call'[c].nr <= calls'
        /\ \A d \in Call \ {c} : call[d].pc # "idle" => call[d].nr # call'[c].nr
    BY <2>1, <2>5 DEF LibraryInv, CallsNumbered
  <2>10. \A f \in Feed : Imported(f) => InMap(f, c)'
    BY <2>1, <2>5 DEF LibraryInv, ImportedRight, InMap, history, rows
  <2>11. QED
    BY <1>0, <2>1, <2>5, <2>8, <2>9, <2>10, CallSteps DEF rows, history, Omissions
<1>2. CASE ImportDone(c)
  BY <1>0, <1>2, CallEnds DEF ImportDone, rows, history, Omissions
<1>3. QED
  BY <1>1, <1>2

-----------------------------------------------------------------------------
(* The steps that change subscriptions                                         *)

\* A subscription is made, unless there is one or its folder is gone.
LEMMA InsertsSubscription ==
  ASSUME LibraryInv, NEW c \in Call, CreateSubscription(c)
  PROVE  LibraryInv'
<1>0. /\ call[c].pc = "insert" /\ call[c].op \in {"create", "import"} /\ call[c].feed \in Feed
      /\ UNCHANGED <<folders, others, lastFolder, title, file, calls, raced, renamed, omitted>>
      /\ LibraryTypes /\ call[c] \in CallType
  BY DEF CreateSubscription, LibraryInv, CallRight, KindOf, LibraryTypes
<1>1. CASE UNCHANGED <<subs, asked, origin>> /\ Answer(c)
  BY <1>0, <1>1, Answers
<1>2. CASE UNCHANGED <<subs, asked, origin>> /\ GoOn(c, "view")
  BY <1>0, <1>2, CallGoes DEF LibraryTypes
<1>3. CASE /\ call[c].folder = 0 \/ Exists(call[c].folder)
           /\ ~ subs[call[c].feed].on /\ NewSubscription(c) /\ GoOn(c, "view")
  <2>1. PICK f \in Feed, id \in Int, place \in Title \cup {Root}, nr \in Nat, by \in Nat, at \in Title \cup {Root} :
          /\ f = call[c].feed /\ id = call[c].folder /\ place = call[c].place /\ nr = call[c].nr
          /\ by = (IF call[c].op = "import" THEN nr ELSE 0)
          /\ at = (IF call[c].op = "import" THEN place ELSE Root)
    BY <1>0 DEF CallType
  <2>2. /\ subs' = [subs EXCEPT ![f] = [on |-> TRUE, folder |-> id, name |-> ""]]
        /\ asked' = [asked EXCEPT ![f] = [folder |-> id, name |-> ""]]
        /\ origin' = [origin EXCEPT ![f] = [title |-> at, by |-> by]]
    BY <1>3, <2>1 DEF NewSubscription, NoOrigin
  <2>3. /\ call' \in [Call -> CallType] /\ \A d \in Call \ {c} : call'[d] = call[d]
        /\ call'[c].pc = "view" /\ call'[c].op = call[c].op /\ call'[c].nr = call[c].nr
        /\ call'[c].feed = call[c].feed /\ call'[c].known = call[c].known
    BY <1>0, <1>3, GoesOnEffect DEF LibraryTypes
  <2>4. /\ subs' \in [Feed -> [on : BOOLEAN, folder : Int, name : ShownName]]
        /\ asked' \in [Feed -> [folder : Int, name : ShownName]]
        /\ origin' \in [Feed -> [title : Title \cup {Root}, by : Nat]]
    <3>1. /\ [on |-> TRUE, folder |-> id, name |-> ""] \in [on : BOOLEAN, folder : Int, name : ShownName]
          /\ [folder |-> id, name |-> ""] \in [folder : Int, name : ShownName]
          /\ [title |-> at, by |-> by] \in [title : Title \cup {Root}, by : Nat]
      BY DEF ShownName
    <3>2. QED
      BY <1>0, <2>2, <3>1 DEF LibraryTypes
  <2>5. /\ subs'[f].on /\ subs'[f].folder = id /\ subs'[f].name = "" /\ asked'[f].folder = id /\ asked'[f].name = ""
        /\ origin'[f].title = at /\ origin'[f].by = by
        /\ \A g \in Feed \ {f} : subs'[g] = subs[g] /\ asked'[g] = asked[g] /\ origin'[g] = origin[g]
    BY <1>0, <2>2 DEF LibraryTypes
  <2>6. LibraryTypes'
    BY <1>0, <2>3, <2>4 DEF LibraryTypes
  <2>7. \A d \in Call : CallRight(d)'
    <3>1. ASSUME NEW d \in Call \ {c} PROVE CallRight(d)'
      BY <1>0, <2>3, <3>1, CallKept, SameFolders DEF LibraryInv
    <3>2. KindOf(c)' /\ Placed(c)' /\ ReadAsGiven(c)' /\ PlaceRight(c)'
      BY <1>0, <2>3 DEF KindOf, Placed, ReadAsGiven, PlaceRight
    <3>3. call[c].op = "import" => MapRight(c)'
      BY <1>0, <2>3 DEF LibraryInv, CallRight, Mapped, MapRight, Exists
    <3>4. QED
      BY <2>3, <3>1, <3>2, <3>3 DEF CallRight, Mapped
  <2>8. InFolders' /\ OffBare' /\ Omissions'
    BY <1>0, <1>3, <2>1, <2>5 DEF LibraryInv, InFolders, OffBare, Bare, Omissions, Exists
  <2>9. RequestsKept'
    BY <1>0, <2>5 DEF LibraryInv, RequestsKept
  <2>10. CallsNumbered'
    <3>1. nr # 0 /\ nr <= calls /\ calls \in Nat
      BY <1>0, <2>1 DEF LibraryInv, CallsNumbered, LibraryTypes
    <3>2. \A g \in Feed : origin'[g].by <= calls
      <4>1. by <= calls
        BY <2>1, <3>1
      <4>2. \A g \in Feed : origin[g].by <= calls
        BY DEF LibraryInv, CallsNumbered
      <4>3. QED
        BY <2>5, <4>1, <4>2
    <3>3. QED
      BY <1>0, <2>3, <3>2 DEF LibraryInv, CallsNumbered
  <2>11. ASSUME by # 0
         PROVE  /\ call[c].op = "import" /\ by = nr /\ at = place
                /\ IF place = Root THEN id = 0 ELSE id # 0 /\ id = call[c].known[place]
    BY <1>0, <2>1, <2>11 DEF LibraryInv, CallRight, Mapped, PlaceRight
  <2>12. ASSUME NEW g \in Feed, Imported(g)', g # f
         PROVE  Imported(g) /\ (InTitle(g)' <=> InTitle(g)) /\ \A d \in Call : InMap(g, d) => InMap(g, d)'
    <3>1. Imported(g) /\ (InTitle(g)' <=> InTitle(g))
      BY <1>0, <2>5, <2>12 DEF Imported, InTitle
    <3>2. ASSUME NEW d \in Call, InMap(g, d) PROVE InMap(g, d)'
      <4>1. call'[d].op = call[d].op /\ call'[d].nr = call[d].nr /\ call'[d].known = call[d].known
            /\ (call'[d].pc # "folders" \/ call'[d].pc = call[d].pc)
        BY <2>3
      <4>2. QED
        BY <2>3, <2>5, <2>12, <3>2, <4>1 DEF InMap
    <3>3. QED
      BY <3>1, <3>2
  <2>13. ASSUME Imported(f)' PROVE InTitle(f)' /\ \A d \in Call : InMap(f, d)'
    <3>1. by # 0
      BY <2>5, <2>13 DEF Imported
    <3>2. InTitle(f)'
      <4>1. CASE place = Root
        BY <2>5, <2>11, <3>1, <4>1 DEF InTitle
      <4>2. CASE place # Root
        <5>1. place \in Title /\ id # 0 /\ id = call[c].known[place] /\ Exists(id)
          BY <1>3, <2>1, <2>11, <3>1, <4>2
        <5>2. id \in DOMAIN folders /\ (id \in renamed \/ folders[id].title = place)
          BY <2>11, <3>1, <5>1 DEF Exists, LibraryInv, CallRight, Mapped, MapRight
        <5>3. QED
          BY <1>0, <2>5, <2>11, <3>1, <4>2, <5>1, <5>2 DEF InTitle
      <4>3. QED
        BY <4>1, <4>2
    <3>3. ASSUME NEW d \in Call PROVE InMap(f, d)'
      <4>1. CASE d = c
        BY <2>3, <2>5, <2>11, <3>1, <4>1 DEF InMap
      <4>2. CASE d # c
        <5>1. call'[d] = call[d] /\ (call[d].op = "import" => call[d].nr # nr)
          BY <1>0, <2>1, <2>3, <4>2 DEF LibraryInv, CallsNumbered, CallRight, KindOf
        <5>2. QED
          BY <2>5, <2>11, <3>1, <5>1 DEF InMap
      <4>3. QED
        BY <4>1, <4>2
    <3>4. QED
      BY <3>2, <3>3
  <2>14. ASSUME NEW g \in Feed, Imported(f)', Imported(g)', g # f, origin'[g] = origin'[f]
         PROVE  subs'[g].folder = subs'[f].folder
    <3>1. Imported(g) /\ by # 0 /\ origin[g].by = nr /\ origin[g].title = place
      BY <2>5, <2>11, <2>12, <2>14 DEF Imported
    <3>2. InTitle(g) /\ InMap(g, c)
      BY <3>1 DEF LibraryInv, ImportedRight
    <3>3. subs[g].folder = id
      BY <2>1, <2>11, <3>1, <3>2 DEF InTitle, InMap
    <3>4. QED
      BY <2>5, <2>14, <3>3
  <2>15. ImportedRight'
    <3> SUFFICES ASSUME NEW g \in Feed, Imported(g)'
                 PROVE  /\ InTitle(g)' /\ \A d \in Call : InMap(g, d)'
                        /\ \A h \in Feed : Imported(h)' /\ origin'[h] = origin'[g] =>
                             subs'[h].folder = subs'[g].folder
      BY DEF ImportedRight
    <3>1. InTitle(g)' /\ \A d \in Call : InMap(g, d)'
      <4>1. CASE g = f
        BY <2>13, <4>1
      <4>2. CASE g # f
        BY <2>12, <4>2 DEF LibraryInv, ImportedRight
      <4>3. QED
        BY <4>1, <4>2
    <3>2. ASSUME NEW h \in Feed, Imported(h)', origin'[h] = origin'[g]
          PROVE  subs'[h].folder = subs'[g].folder
      <4>1. CASE g = f
        BY <2>14, <3>2, <4>1
      <4>2. CASE h = f
        BY <2>14, <3>2, <4>2
      <4>3. CASE g # f /\ h # f
        <5>1. Imported(g) /\ Imported(h) /\ origin[h] = origin[g]
          BY <2>5, <2>12, <3>2, <4>3
        <5>2. subs[h].folder = subs[g].folder
          BY <5>1 DEF LibraryInv, ImportedRight
        <5>3. QED
          BY <2>5, <4>3, <5>2
      <4>4. QED
        BY <4>1, <4>2, <4>3
    <3>3. QED
      BY <3>1, <3>2
  <2>16. QED
    BY <2>6, <2>7, <2>8, <2>9, <2>10, <2>15 DEF LibraryInv
<1>4. QED
  BY <1>1, <1>2, <1>3 DEF CreateSubscription

\* An update writes what it was given, and back what it was not.
LEMMA WritesSubscription ==
  ASSUME LibraryInv, NEW c \in Call, UpdateSubscription(c)
  PROVE  LibraryInv'
<1>0. /\ call[c].pc = "write" /\ call[c].op = "update" /\ call[c].feed \in Feed
      /\ End(c) /\ UNCHANGED <<folders, others, lastFolder, title, file, calls, renamed, omitted>>
      /\ LibraryTypes /\ Omissions
  BY DEF UpdateSubscription, LibraryInv, CallRight, KindOf, LibraryTypes, Omissions
<1>1. PICK f \in Feed, id \in Int, name \in ShownName, given \in SUBSET {"folder", "name"} :
        f = call[c].feed /\ id = call[c].folder /\ name = call[c].name /\ given = call[c].given
  BY <1>0, CallFields DEF LibraryTypes
<1>2. CASE UNCHANGED <<subs, asked, raced, origin>>
  BY <1>0, <1>2, CallEnds DEF LibraryTypes, Omissions
<1>3. CASE subs[f].on /\ (id = 0 \/ Exists(id)) /\ ~ UNCHANGED <<subs, asked, raced, origin>>
  <2>1. PICK wasFolder \in Int, wasName \in ShownName :
          /\ wasFolder = (IF "folder" \in given THEN id ELSE asked[f].folder)
          /\ wasName = (IF "name" \in given THEN name ELSE asked[f].name)
    BY <1>0 DEF LibraryTypes
  <2>2. /\ subs' = [subs EXCEPT ![f].folder = id, ![f].name = name]
        /\ asked' = [asked EXCEPT ![f].folder = wasFolder, ![f].name = wasName]
        /\ raced' = IF WritesBack(c) THEN raced \cup {f} ELSE raced
        /\ origin' = IF "folder" \in given THEN [origin EXCEPT ![f] = NoOrigin] ELSE origin
    BY <1>1, <1>3, <2>1 DEF UpdateSubscription
  <2>3. /\ call' \in [Call -> CallType] /\ \A d \in Call \ {c} : call'[d] = call[d]
        /\ call'[c].pc = "idle" /\ call'[c].op = "none"
    BY <1>0, EndEffect DEF LibraryTypes
  <2>4. /\ subs' \in [Feed -> [on : BOOLEAN, folder : Int, name : ShownName]]
        /\ subs'[f].on /\ subs'[f].folder = id /\ subs'[f].name = name
        /\ \A g \in Feed \ {f} : subs'[g] = subs[g]
    BY <1>0, <1>3, <2>2 DEF LibraryTypes
  <2>5. /\ asked' \in [Feed -> [folder : Int, name : ShownName]]
        /\ asked'[f].folder = wasFolder /\ asked'[f].name = wasName
        /\ \A g \in Feed \ {f} : asked'[g] = asked[g]
    BY <1>0, <2>2 DEF LibraryTypes
  <2>6. /\ origin' \in [Feed -> [title : Title \cup {Root}, by : Nat]]
        /\ \A g \in Feed \ {f} : origin'[g] = origin[g]
        /\ "folder" \in given => origin'[f].by = 0
        /\ "folder" \notin given => origin' = origin
    <3>1. NoOrigin \in [title : Title \cup {Root}, by : Nat] /\ NoOrigin.by = 0
      BY DEF NoOrigin
    <3>2. QED
      BY <1>0, <2>2, <3>1 DEF LibraryTypes
  <2>7. raced \subseteq raced' /\ raced' \subseteq raced \cup {f} /\ raced' \subseteq Feed
    BY <1>0, <2>2 DEF LibraryTypes
  <2>8. ASSUME f \notin raced'
        PROVE  /\ f \notin raced
               /\ "folder" \notin given => id = subs[f].folder
               /\ "name" \notin given => name = Shown(f)
    <3>1. f \notin raced /\ ~ WritesBack(c)
      BY <2>2, <2>8
    <3>2. /\ "folder" \notin given => call[c].seen.folder = subs[f].folder
          /\ "name" \notin given => call[c].seen.name = Shown(f)
      BY <1>1, <3>1 DEF WritesBack
    <3>3. ReadAsGiven(c)
      BY DEF LibraryInv, CallRight
    <3>4. QED
      BY <1>0, <1>1, <3>1, <3>2, <3>3 DEF ReadAsGiven
  <2>9. LibraryTypes'
    BY <1>0, <2>3, <2>4, <2>5, <2>6, <2>7 DEF LibraryTypes
  <2>10. \A d \in Call : CallRight(d)'
    <3>1. ASSUME NEW d \in Call \ {c} PROVE CallRight(d)'
      BY <1>0, <2>3, <3>1, CallKept, SameFolders DEF LibraryInv
    <3>2. CallRight(c)'
      BY <2>3 DEF CallRight, KindOf, Placed, ReadAsGiven, Mapped
    <3>3. QED
      BY <3>1, <3>2
  <2>11. InFolders' /\ OffBare' /\ Omissions'
    BY <1>0, <1>3, <2>4, <2>5, <2>6 DEF LibraryInv, InFolders, OffBare, Bare, Omissions, Exists
  <2>12. RequestsKept'
    <3>1. ASSUME f \notin raced'
          PROVE  /\ subs'[f].folder = asked'[f].folder
                 /\ asked'[f].name # "" => subs'[f].name = asked'[f].name
      <4>1. /\ subs[f].folder = asked[f].folder
            /\ asked[f].name # "" => subs[f].name = asked[f].name
        BY <1>3, <2>8, <3>1 DEF LibraryInv, RequestsKept
      <4>2. asked[f].name # "" => Shown(f) = asked[f].name
        BY <4>1 DEF Shown
      <4>3. QED
        BY <2>1, <2>4, <2>5, <2>8, <3>1, <4>1, <4>2
    <3>2. QED
      BY <2>4, <2>5, <2>7, <3>1 DEF LibraryInv, RequestsKept
  <2>13. CallsNumbered'
    <3>1. calls \in Nat /\ \A g \in Feed : origin[g].by <= calls
      BY <1>0 DEF LibraryInv, CallsNumbered, LibraryTypes
    <3>2. \A g \in Feed : origin'[g].by <= calls
      BY <2>6, <3>1
    <3>3. QED
      BY <1>0, <2>3, <3>2 DEF LibraryInv, CallsNumbered
  <2>14. ASSUME NEW g \in Feed, Imported(g)'
         PROVE  Imported(g) /\ origin'[g] = origin[g] /\ subs'[g].folder = subs[g].folder
    <3>1. CASE g = f
      BY <1>3, <2>4, <2>6, <2>8, <2>14, <3>1 DEF Imported
    <3>2. CASE g # f
      BY <2>4, <2>6, <2>7, <2>14, <3>2 DEF Imported
    <3>3. QED
      BY <3>1, <3>2
  <2>15. ImportedRight'
    <3>1. \A g \in Feed : Imported(g)' => InTitle(g)'
      BY <1>0, <2>14 DEF LibraryInv, ImportedRight, InTitle
    <3>2. \A g \in Feed, d \in Call : Imported(g)' => InMap(g, d)'
      BY <2>3, <2>14 DEF LibraryInv, ImportedRight, InMap
    <3>3. \A g, h \in Feed : Imported(g)' /\ Imported(h)' /\ origin'[h] = origin'[g] =>
            subs'[h].folder = subs'[g].folder
      BY <2>14 DEF LibraryInv, ImportedRight
    <3>4. QED
      BY <3>1, <3>2, <3>3 DEF ImportedRight
  <2>16. QED
    BY <2>9, <2>10, <2>11, <2>12, <2>13, <2>15 DEF LibraryInv
<1>4. QED
  BY <1>1, <1>2, <1>3 DEF UpdateSubscription

\* What is taken from the feeds that a listing call has to show.
LEMMA Trimmed ==
  ASSUME call \in [Call -> CallType], NEW d \in Call, NEW s \in SUBSET Feed,
         call'[d] = [call[d] EXCEPT !.stayed = s]
  PROVE  /\ call'[d] \in CallType /\ call'[d].stayed = s
         /\ call'[d].pc = call[d].pc /\ call'[d].op = call[d].op /\ call'[d].nr = call[d].nr
         /\ call'[d].feed = call[d].feed /\ call'[d].folder = call[d].folder
         /\ call'[d].name = call[d].name /\ call'[d].given = call[d].given
         /\ call'[d].seen = call[d].seen /\ call'[d].place = call[d].place
         /\ call'[d].known = call[d].known /\ call'[d].listed = call[d].listed
<1>1. call[d] \in CallType
  BY CallFields
<1>2. QED
  BY <1>1 DEF CallType

\* A call that keeps all but some of the feeds it has to show.
KeepsCall(d) ==
  /\ call'[d] \in CallType /\ call'[d].stayed \subseteq call[d].stayed
  /\ call'[d].pc = call[d].pc /\ call'[d].op = call[d].op /\ call'[d].nr = call[d].nr
  /\ call'[d].feed = call[d].feed /\ call'[d].folder = call[d].folder
  /\ call'[d].name = call[d].name /\ call'[d].given = call[d].given
  /\ call'[d].seen = call[d].seen /\ call'[d].place = call[d].place
  /\ call'[d].known = call[d].known /\ call'[d].listed = call[d].listed

\* The row of a feed goes.
LEMMA DropsFeed ==
  ASSUME LibraryInv, NEW f \in Feed, Drop(f), calls' \in Nat, calls <= calls',
         call' \in [Call -> CallType],
         \A d \in Call : KeepsCall(d) \/ (call'[d].pc = "idle" /\ call'[d].op = "none")
  PROVE  LibraryInv'
<1>0. /\ UNCHANGED <<folders, others, lastFolder, title, file, renamed, omitted>>
      /\ LibraryTypes /\ Omissions /\ call \in [Call -> CallType] /\ calls \in Nat
  BY DEF Drop, LibraryInv, LibraryTypes
<1>2. /\ subs' = [subs EXCEPT ![f] = Off] /\ asked' = [asked EXCEPT ![f] = NotAsked]
      /\ origin' = [origin EXCEPT ![f] = NoOrigin] /\ raced' = raced \ {f}
  BY DEF Drop
<1>3. /\ Off \in [on : BOOLEAN, folder : Int, name : ShownName] /\ ~ Off.on /\ Off.folder = 0
      /\ NotAsked \in [folder : Int, name : ShownName] /\ NotAsked.folder = 0 /\ NotAsked.name = ""
      /\ NoOrigin \in [title : Title \cup {Root}, by : Nat] /\ NoOrigin.by = 0
  BY DEF Off, NotAsked, NoOrigin, ShownName
<1>4. /\ subs' \in [Feed -> [on : BOOLEAN, folder : Int, name : ShownName]]
      /\ asked' \in [Feed -> [folder : Int, name : ShownName]]
      /\ origin' \in [Feed -> [title : Title \cup {Root}, by : Nat]]
      /\ ~ subs'[f].on /\ subs'[f].folder = 0 /\ origin'[f].by = 0
      /\ asked'[f].folder = 0 /\ asked'[f].name = ""
      /\ \A g \in Feed \ {f} : subs'[g] = subs[g] /\ asked'[g] = asked[g] /\ origin'[g] = origin[g]
  BY <1>0, <1>2, <1>3 DEF LibraryTypes
<1>5. \A g \in Feed \ {f} : subs'[g].folder = subs[g].folder /\ origin'[g] = origin[g]
  BY <1>4
<1>6. origin'[f].by = 0
  BY <1>4
<1>7. LibraryTypes'
  BY <1>0, <1>2, <1>4 DEF LibraryTypes
<1>8. \A d \in Call : CallRight(d)'
  <2>1. ASSUME NEW d \in Call, KeepsCall(d) PROVE CallRight(d)'
    <3>1. CallRight(d)
      BY DEF LibraryInv
    <3>2. KindOf(d)' /\ ReadAsGiven(d)' /\ Placed(d)'
      BY <1>0, <2>1, <3>1 DEF KeepsCall, CallRight, KindOf, ReadAsGiven, Placed, Exists
    <3>3. Mapped(d)'
      BY <1>0, <2>1, <3>1 DEF KeepsCall, CallRight, Mapped, MapRight, PlaceRight, Exists
    <3>4. QED
      BY <3>2, <3>3 DEF CallRight
  <2>2. ASSUME NEW d \in Call, call'[d].pc = "idle", call'[d].op = "none" PROVE CallRight(d)'
    BY <2>2 DEF CallRight, KindOf, Placed, ReadAsGiven, Mapped
  <2>3. QED
    BY <2>1, <2>2
<1>9. InFolders' /\ OffBare' /\ Omissions' /\ RequestsKept'
  BY <1>0, <1>2, <1>4 DEF LibraryInv, InFolders, OffBare, Bare, Omissions, RequestsKept, Exists
<1>10. \A d \in Call : \/ /\ call'[d].pc = call[d].pc /\ call'[d].nr = call[d].nr
                          /\ call'[d].op = call[d].op /\ call'[d].known = call[d].known
                       \/ call'[d].pc = "idle" /\ call'[d].op = "none"
  BY DEF KeepsCall
<1>11. CallsNumbered'
  <2>1. \A g \in Feed : origin[g].by \in Nat /\ origin[g].by <= calls
    BY <1>0 DEF LibraryInv, CallsNumbered, LibraryTypes
  <2>2. ASSUME NEW g \in Feed PROVE origin'[g].by <= calls'
    <3>1. CASE g = f
      BY <1>6, <3>1
    <3>2. CASE g # f
      <4>1. origin'[g].by = origin[g].by
        BY <1>5, <3>2
      <4>2. QED
        BY <1>0, <2>1, <4>1
    <3>3. QED
      BY <3>1, <3>2
  <2>3. \A d \in Call : call[d].nr \in Nat
    BY <1>0, CallFields
  <2>4. QED
    BY <1>0, <1>10, <2>2, <2>3 DEF LibraryInv, CallsNumbered
<1>12. \A g \in Feed : Imported(g)' => Imported(g) /\ g # f
  BY <1>2, <1>4 DEF Imported
<1>13. ImportedRight'
  <2>1. \A g \in Feed : Imported(g)' => InTitle(g)'
    BY <1>0, <1>4, <1>12 DEF LibraryInv, ImportedRight, InTitle
  <2>2. ASSUME NEW g \in Feed, NEW d \in Call, Imported(g)' PROVE InMap(g, d)'
    <3>1. InMap(g, d) /\ subs'[g].folder = subs[g].folder /\ origin'[g] = origin[g]
      BY <1>5, <1>12, <2>2 DEF LibraryInv, ImportedRight
    <3>2. QED
      BY <1>10, <3>1 DEF InMap
  <2>3. \A g, h \in Feed : Imported(g)' /\ Imported(h)' /\ origin'[h] = origin'[g] =>
          subs'[h].folder = subs'[g].folder
    BY <1>5, <1>12 DEF LibraryInv, ImportedRight
  <2>4. QED
    BY <2>1, <2>2, <2>3 DEF ImportedRight
<1>14. QED
  BY <1>7, <1>8, <1>9, <1>11, <1>13 DEF LibraryInv

\* A call that only lists no longer that feed.
LEMMA Excused ==
  ASSUME call \in [Call -> CallType], NEW d \in Call, NEW f,
         call'[d] = [call[d] EXCEPT !.stayed = @ \ {f}]
  PROVE  KeepsCall(d)
<1>1. call[d].stayed \subseteq Feed
  BY CallFields
<1>2. PICK s \in SUBSET Feed : s = call[d].stayed \ {f}
  BY <1>1
<1>3. call'[d] = [call[d] EXCEPT !.stayed = s]
  BY <1>2
<1>4. QED
  BY <1>2, <1>3, Trimmed DEF KeepsCall

\* The user ends a subscription.
LEMMA DeletesSubscription ==
  ASSUME LibraryInv, NEW c \in Call, DeleteSubscription(c)
  PROVE  LibraryInv'
<1>0. /\ call[c].pc = "delete" /\ call[c].feed \in Feed
      /\ call \in [Call -> CallType] /\ calls \in Nat /\ calls' = calls
  BY DEF DeleteSubscription, LibraryInv, CallRight, KindOf, LibraryTypes
<1>1. PICK f \in Feed : f = call[c].feed
  BY <1>0
<1>2. Drop(f) /\ call' = [Excuse({f}) EXCEPT ![c] = NoCall]
  BY <1>1 DEF DeleteSubscription
<1>3. /\ \A d \in Call \ {c} : call'[d] = [call[d] EXCEPT !.stayed = @ \ {f}]
      /\ call'[c] = NoCall /\ NoCall \in CallType /\ NoCall.pc = "idle" /\ NoCall.op = "none"
      /\ DOMAIN call' = Call /\ call' = [d \in Call |-> call'[d]]
  BY <1>2, NoCallType DEF Excuse, NoCall
<1>4. \A d \in Call \ {c} : KeepsCall(d)
  BY <1>0, <1>3, Excused
<1>5. \A d \in Call \ {c} : call'[d] \in CallType
  BY <1>4 DEF KeepsCall
<1>6. call' \in [Call -> CallType]
  BY <1>3, <1>5
<1>7. \A d \in Call : KeepsCall(d) \/ (call'[d].pc = "idle" /\ call'[d].op = "none")
  BY <1>3, <1>4
<1>8. calls' \in Nat /\ calls <= calls'
  BY <1>0
<1>9. QED
  BY <1>2, <1>6, <1>7, <1>8, DropsFeed

\* A record of the user's is deleted.
LEMMA Unfeeds ==
  ASSUME LibraryInv, NEW f \in Feed, RelayUnfeed(f)
  PROVE  LibraryInv'
<1>1. /\ Drop(f) /\ call' = Excuse({f}) /\ calls' = calls + 1
      /\ call \in [Call -> CallType] /\ calls \in Nat
  BY DEF RelayUnfeed, Requested, LibraryInv, LibraryTypes
<1>2. /\ \A d \in Call : call'[d] = [call[d] EXCEPT !.stayed = @ \ {f}]
      /\ DOMAIN call' = Call /\ call' = [d \in Call |-> call'[d]]
  BY <1>1 DEF Excuse
<1>3. \A d \in Call : KeepsCall(d)
  BY <1>1, <1>2, Excused
<1>4. \A d \in Call : call'[d] \in CallType
  BY <1>3 DEF KeepsCall
<1>5. call' \in [Call -> CallType]
  BY <1>2, <1>4
<1>6. calls' \in Nat /\ calls <= calls'
  BY <1>1
<1>7. QED
  BY <1>1, <1>3, <1>5, <1>6, DropsFeed

-----------------------------------------------------------------------------
(* The steps that change folders                                               *)

\* A new folder is none of those before.
LEMMA NewFolder ==
  ASSUME LibraryTypes, NEW t \in Title, NEW parent \in Int, InsertFolder(t, parent),
         UNCHANGED <<others, renamed>>
  PROVE  /\ folders' \in [DOMAIN folders' -> [title : Title, parent : Int]]
         /\ lastFolder' = lastFolder + 1 /\ lastFolder' \in Nat
         /\ DOMAIN folders' \subseteq 1..lastFolder' /\ renamed' \subseteq 1..lastFolder'
         /\ lastFolder + 1 \in DOMAIN folders' /\ folders'[lastFolder + 1].title = t
         /\ lastFolder + 1 \notin DOMAIN folders
         /\ others' \subseteq 1..lastFolder' /\ others' \cap DOMAIN folders' = {}
         /\ \A id \in DOMAIN folders : folders'[id] = folders[id]
         /\ Growing
<1>0. lastFolder \in Nat /\ lastFolder' = lastFolder + 1 /\ DOMAIN folders \subseteq 1..lastFolder
  BY DEF InsertFolder, LibraryTypes
<1>n. PICK n \in Nat : n = lastFolder + 1
  BY <1>0
<1>m. PICK new \in [title : Title, parent : Int] : new = [title |-> t, parent |-> parent]
  OBVIOUS
<1>1. new = [title |-> t, parent |-> parent] /\ n = lastFolder + 1
  BY <1>n, <1>m
<1>2. folders' = [id \in DOMAIN folders \cup {n} |-> IF id = n THEN new ELSE folders[id]]
  BY <1>1 DEF InsertFolder
<1>3. n \notin DOMAIN folders /\ \A id \in DOMAIN folders : folders[id] \in [title : Title, parent : Int]
  BY <1>0, <1>1 DEF LibraryTypes
<1>4. /\ DOMAIN folders' = DOMAIN folders \cup {n} /\ folders'[n] = new
      /\ \A id \in DOMAIN folders : folders'[id] = folders[id]
  BY <1>2, <1>3
<1>5. folders' \in [DOMAIN folders' -> [title : Title, parent : Int]]
  BY <1>2, <1>3, <1>4
<1>6. DOMAIN folders' \subseteq 1..lastFolder' /\ renamed' \subseteq 1..lastFolder'
  BY <1>0, <1>1, <1>4 DEF LibraryTypes
<1>7. Growing
  BY <1>0, <1>1, <1>4 DEF Growing
<1>8. others' \subseteq 1..lastFolder' /\ others' \cap DOMAIN folders' = {}
  BY <1>0, <1>1, <1>4 DEF LibraryTypes
<1>9. QED
  BY <1>0, <1>1, <1>3, <1>4, <1>5, <1>6, <1>7, <1>8

\* What the growth of the folders leaves.
LEMMA FoldersGrow ==
  ASSUME LibraryInv, Growing, UNCHANGED <<subs, file, asked, raced, origin, omitted>>,
         title' \in [Feed -> ShownName],
         others' \subseteq 1..lastFolder', others' \cap DOMAIN folders' = {},
         folders' \in [DOMAIN folders' -> [title : Title, parent : Int]],
         DOMAIN folders' \subseteq 1..lastFolder', renamed' \subseteq 1..lastFolder',
         calls' \in Nat, calls <= calls', call' = call
  PROVE  LibraryInv'
<1>1. LibraryTypes'
  BY DEF LibraryInv, LibraryTypes, Growing
<1>2. \A d \in Call : CallRight(d)'
  BY CallKept DEF LibraryInv
<1>3. InFolders' /\ OffBare' /\ Omissions' /\ RequestsKept'
  BY DEF LibraryInv, InFolders, OffBare, Bare, Omissions, RequestsKept, Exists, Growing
<1>4. CallsNumbered'
  <2>1. calls \in Nat /\ \A d \in Call : call[d].nr \in Nat
    BY CallFields DEF LibraryInv, LibraryTypes
  <2>2. \A g \in Feed : origin[g].by \in Nat
    BY DEF LibraryInv, LibraryTypes
  <2>3. QED
    BY <2>1, <2>2 DEF LibraryInv, CallsNumbered
<1>5. ImportedRight'
  <2>1. ASSUME NEW f \in Feed, Imported(f), InTitle(f) PROVE InTitle(f)'
    <3>1. QED
      BY <2>1 DEF InTitle, Growing
  <2>2. \A f \in Feed : (Imported(f)' <=> Imported(f)) /\ \A d \in Call : InMap(f, d)' <=> InMap(f, d)
    BY DEF Imported, InMap
  <2>3. QED
    BY <2>1, <2>2 DEF LibraryInv, ImportedRight
<1>6. QED
  BY <1>1, <1>2, <1>3, <1>4, <1>5 DEF LibraryInv

\* A folder is created or updated.
LEMMA FolderSteps ==
  ASSUME LibraryInv, NEW t \in Title, NEW parent \in Int,
         CreateFolder(t, parent) \/ \E id : UpdateFolder(id, t, parent)
  PROVE  LibraryInv'
<1>0. /\ LibraryTypes /\ calls \in Nat /\ title \in [Feed -> ShownName]
      /\ others \subseteq 1..lastFolder /\ others \cap DOMAIN folders = {}
  BY DEF LibraryInv, LibraryTypes
<1>1. CASE CreateFolder(t, parent)
  BY <1>0, <1>1, NewFolder, FoldersGrow DEF CreateFolder, Requested, history
<1>2. CASE \E id : UpdateFolder(id, t, parent)
  <2>1. PICK id : UpdateFolder(id, t, parent)
    BY <1>2
  <2>2. PICK new \in [title : Title, parent : Int] : new = [title |-> t, parent |-> parent]
    OBVIOUS
  <2>3. /\ id \in DOMAIN folders /\ folders' = [folders EXCEPT ![id] = new] /\ calls' = calls + 1
        /\ renamed' = IF t = folders[id].title THEN renamed ELSE renamed \cup {id}
        /\ UNCHANGED <<others, lastFolder, title, subs, file, call, asked, raced, origin, omitted>>
    BY <2>1, <2>2 DEF UpdateFolder, Requested
  <2>4. /\ folders \in [DOMAIN folders -> [title : Title, parent : Int]]
        /\ lastFolder \in Nat /\ DOMAIN folders \subseteq 1..lastFolder /\ renamed \subseteq 1..lastFolder
    BY <1>0 DEF LibraryTypes
  <2>5. DOMAIN folders' = DOMAIN folders /\ folders'[id] = new
        /\ \A i \in DOMAIN folders \ {id} : folders'[i] = folders[i]
    BY <2>3, <2>4
  <2>6. folders' \in [DOMAIN folders' -> [title : Title, parent : Int]]
    BY <2>3, <2>4, <2>5
  <2>7. Growing
    BY <2>2, <2>3, <2>4, <2>5 DEF Growing
  <2>8. DOMAIN folders' \subseteq 1..lastFolder' /\ renamed' \subseteq 1..lastFolder'
    BY <2>3, <2>4, <2>5
  <2>9. QED
    BY <1>0, <2>3, <2>5, <2>6, <2>7, <2>8, FoldersGrow
<1>3. QED
  BY <1>1, <1>2

\* Another user's folder is created, or a feed's title is stored.
LEMMA OthersSteps ==
  ASSUME LibraryInv, OthersCreate \/ \E f \in Feed : RelayTitle(f)
  PROVE  LibraryInv'
<1>0. /\ LibraryTypes /\ calls \in Nat /\ title \in [Feed -> ShownName] /\ lastFolder \in Nat
      /\ folders \in [DOMAIN folders -> [title : Title, parent : Int]]
      /\ DOMAIN folders \subseteq 1..lastFolder /\ renamed \subseteq 1..lastFolder
      /\ others \subseteq 1..lastFolder /\ others \cap DOMAIN folders = {}
  BY DEF LibraryInv, LibraryTypes
<1>1. CASE OthersCreate
  <2>1. /\ lastFolder' = lastFolder + 1 /\ others' = others \cup {lastFolder + 1}
        /\ calls' = calls + 1 /\ UNCHANGED <<folders, title, subs, file, call>>
        /\ UNCHANGED <<asked, raced, origin, renamed, omitted>>
    BY <1>1 DEF OthersCreate, Requested, history
  <2>2. Growing
    BY <1>0, <2>1 DEF Growing
  <2>3. /\ others' \subseteq 1..lastFolder' /\ others' \cap DOMAIN folders' = {}
        /\ DOMAIN folders' \subseteq 1..lastFolder' /\ renamed' \subseteq 1..lastFolder'
    BY <1>0, <2>1
  <2>4. QED
    BY <1>0, <2>1, <2>2, <2>3, FoldersGrow
<1>2. CASE \E f \in Feed : RelayTitle(f)
  <2>1. PICK f \in Feed, t \in {"url", "site"} : title' = [title EXCEPT ![f] = t]
    BY <1>2 DEF RelayTitle
  <2>2. title' \in [Feed -> ShownName]
    BY <1>0, <2>1 DEF ShownName
  <2>3. calls' = calls + 1 /\ UNCHANGED <<folders, others, lastFolder, subs, file, call>>
        /\ UNCHANGED <<asked, raced, origin, renamed, omitted>>
    BY <1>2 DEF RelayTitle, Requested, history
  <2>4. Growing
    BY <1>0, <2>3, SameFolders
  <2>5. QED
    BY <1>0, <2>2, <2>3, <2>4, FoldersGrow
<1>3. QED
  BY <1>1, <1>2

\* A record of the user's makes the row of its feed, if there is none.
LEMMA MakesRow ==
  ASSUME LibraryInv, NEW f \in Feed, RelayFeed(f)
  PROVE  LibraryInv'
<1>0. /\ UNCHANGED <<folders, others, lastFolder, title, file, call>>
      /\ UNCHANGED <<asked, raced, origin, renamed, omitted>>
      /\ LibraryTypes /\ calls \in Nat /\ calls' = calls + 1
  BY DEF RelayFeed, Requested, history, LibraryInv, LibraryTypes
<1>1. PICK row \in [on : BOOLEAN, folder : Int, name : ShownName] :
        /\ row = IF subs[f].on THEN subs[f] ELSE [on |-> TRUE, folder |-> 0, name |-> ""]
        /\ subs' = [subs EXCEPT ![f] = row]
  <2>2. [on |-> TRUE, folder |-> 0, name |-> ""] \in [on : BOOLEAN, folder : Int, name : ShownName]
    BY DEF ShownName
  <2>3. subs[f] \in [on : BOOLEAN, folder : Int, name : ShownName] /\ f \in DOMAIN subs
    BY <1>0 DEF LibraryTypes
  <2>4. subs' = [subs EXCEPT ![f] = IF subs[f].on THEN subs[f]
                                    ELSE [on |-> TRUE, folder |-> 0, name |-> ""]]
    BY <2>3 DEF RelayFeed
  <2>5. QED
    BY <2>2, <2>3, <2>4
<1>2. /\ subs' \in [Feed -> [on : BOOLEAN, folder : Int, name : ShownName]] /\ subs'[f] = row
      /\ \A g \in Feed \ {f} : subs'[g] = subs[g]
  BY <1>0, <1>1 DEF LibraryTypes
<1>3. LibraryTypes'
  BY <1>0, <1>2 DEF LibraryTypes
<1>4. \A d \in Call : CallRight(d)'
  BY <1>0, CallKept, SameFolders DEF LibraryInv
<1>5. subs[f].on \/ Bare(f)
  BY DEF LibraryInv, OffBare
<1>6. InFolders' /\ OffBare' /\ Omissions' /\ RequestsKept'
  <2>1. InFolders'
    BY <1>0, <1>1, <1>2 DEF LibraryInv, InFolders, Exists
  <2>2. OffBare' /\ Omissions'
    BY <1>0, <1>1, <1>2 DEF LibraryInv, OffBare, Bare, Omissions
  <2>3. ASSUME NEW g \in Feed \ raced, subs'[g].on
        PROVE  subs'[g].folder = asked[g].folder /\ (asked[g].name # "" => subs'[g].name = asked[g].name)
    <3>1. CASE g = f /\ ~ subs[f].on
      BY <1>1, <1>2, <1>5, <3>1 DEF Bare
    <3>2. CASE g # f \/ subs[f].on
      <4>1. subs'[g] = subs[g]
        BY <1>1, <1>2, <3>2
      <4>2. QED
        BY <2>3, <4>1 DEF LibraryInv, RequestsKept
    <3>3. QED
      BY <3>1, <3>2
  <2>4. RequestsKept'
    BY <1>0, <2>3 DEF RequestsKept
  <2>5. QED
    BY <2>1, <2>2, <2>4
<1>7. CallsNumbered'
  <2>1. \A d \in Call : call[d].nr \in Nat
    BY CallFields DEF LibraryInv, LibraryTypes
  <2>2. \A g \in Feed : origin[g].by \in Nat
    BY <1>0 DEF LibraryTypes
  <2>3. QED
    BY <1>0, <2>1, <2>2 DEF LibraryInv, CallsNumbered
<1>8. \A g \in Feed : Imported(g)' => Imported(g) /\ subs'[g] = subs[g]
  BY <1>0, <1>1, <1>2, <1>5 DEF Imported, Bare
<1>9. ImportedRight'
  <2>1. \A g \in Feed : Imported(g)' => InTitle(g)'
    BY <1>0, <1>8 DEF LibraryInv, ImportedRight, InTitle
  <2>2. \A g \in Feed, d \in Call : Imported(g)' => InMap(g, d)'
    BY <1>0, <1>8 DEF LibraryInv, ImportedRight, InMap
  <2>3. \A g, h \in Feed : Imported(g)' /\ Imported(h)' /\ origin'[h] = origin'[g] =>
          subs'[h].folder = subs'[g].folder
    BY <1>0, <1>8 DEF LibraryInv, ImportedRight
  <2>4. QED
    BY <2>1, <2>2, <2>3 DEF ImportedRight
<1>10. QED
  BY <1>3, <1>4, <1>6, <1>7, <1>9 DEF LibraryInv

\* A folder is deleted, the user's or not, and the feeds in it move to the top.
LEMMA Unfiles ==
  ASSUME LibraryInv, NEW id, Exists(id), Unfile(id), others' = others \ {id},
         calls' \in Nat, calls <= calls'
  PROVE  LibraryInv'
<1>0. /\ UNCHANGED <<lastFolder, title, file, raced, renamed, omitted>>
      /\ LibraryTypes /\ Omissions /\ call \in [Call -> CallType]
      /\ lastFolder \in Nat /\ calls \in Nat
      /\ DOMAIN folders \subseteq 1..lastFolder /\ id \in Nat /\ id # 0
      /\ others \subseteq 1..lastFolder /\ others \cap DOMAIN folders = {}
  BY DEF Unfile, Exists, LibraryInv, LibraryTypes
<1>1. /\ DOMAIN folders' = DOMAIN folders \ {id}
      /\ folders' \in [DOMAIN folders' -> [title : Title, parent : Int]]
      /\ \A i \in DOMAIN folders' : folders'[i].title = folders[i].title
  <2>1. \A i \in DOMAIN folders \ {id} :
          LET new == [folders[i] EXCEPT !.parent = IF @ = id THEN 0 ELSE @]
          IN  new \in [title : Title, parent : Int] /\ new.title = folders[i].title
    <3> SUFFICES ASSUME NEW i \in DOMAIN folders
                 PROVE  LET new == [folders[i] EXCEPT !.parent = IF @ = id THEN 0 ELSE @]
                        IN  new \in [title : Title, parent : Int] /\ new.title = folders[i].title
      OBVIOUS
    <3>1. folders[i] \in [title : Title, parent : Int]
      BY <1>0 DEF LibraryTypes
    <3>2. QED
      BY <3>1
  <2>2. folders' = [i \in DOMAIN folders \ {id} |->
          [folders[i] EXCEPT !.parent = IF @ = id THEN 0 ELSE @]]
    BY DEF Unfile
  <2>3. QED
    BY <2>1, <2>2
<1>2. /\ subs' \in [Feed -> [on : BOOLEAN, folder : Int, name : ShownName]]
      /\ \A f \in Feed : /\ subs'[f].on = subs[f].on /\ subs'[f].name = subs[f].name
                         /\ subs'[f].folder = IF subs[f].on /\ subs[f].folder = id THEN 0
                                              ELSE subs[f].folder
  <2>1. \A f \in Feed : subs[f] \in [on : BOOLEAN, folder : Int, name : ShownName]
    BY <1>0 DEF LibraryTypes
  <2>2. subs' = [f \in Feed |-> IF subs[f].on /\ subs[f].folder = id
                                THEN [subs[f] EXCEPT !.folder = 0] ELSE subs[f]]
    BY DEF Unfile, Filed
  <2>3. ASSUME NEW f \in Feed
        PROVE  /\ subs'[f] \in [on : BOOLEAN, folder : Int, name : ShownName]
               /\ subs'[f].on = subs[f].on /\ subs'[f].name = subs[f].name
               /\ subs'[f].folder = IF subs[f].on /\ subs[f].folder = id THEN 0 ELSE subs[f].folder
    BY <2>1, <2>2
  <2>4. QED
    BY <2>2, <2>3
<1>3. /\ asked' \in [Feed -> [folder : Int, name : ShownName]]
      /\ \A f \in Feed : /\ asked'[f].name = asked[f].name
                         /\ asked'[f].folder = IF asked[f].folder = id THEN 0 ELSE asked[f].folder
  <2>1. \A f \in Feed : asked[f] \in [folder : Int, name : ShownName]
    BY <1>0 DEF LibraryTypes
  <2>2. asked' = [f \in Feed |-> IF asked[f].folder = id THEN [asked[f] EXCEPT !.folder = 0]
                                 ELSE asked[f]]
    BY DEF Unfile
  <2>3. ASSUME NEW f \in Feed
        PROVE  /\ asked'[f] \in [folder : Int, name : ShownName] /\ asked'[f].name = asked[f].name
               /\ asked'[f].folder = IF asked[f].folder = id THEN 0 ELSE asked[f].folder
    BY <2>1, <2>2
  <2>4. QED
    BY <2>2, <2>3
<1>4. /\ origin' \in [Feed -> [title : Title \cup {Root}, by : Nat]]
      /\ \A f \in Feed : /\ subs[f].on /\ subs[f].folder = id => origin'[f].by = 0
                         /\ ~ (subs[f].on /\ subs[f].folder = id) => origin'[f] = origin[f]
  <2>1. NoOrigin \in [title : Title \cup {Root}, by : Nat] /\ NoOrigin.by = 0
    BY DEF NoOrigin
  <2>2. QED
    BY <1>0, <2>1 DEF Unfile, Filed, LibraryTypes
<1> DEFINE Same(d) ==
      /\ call'[d] \in CallType /\ call'[d].stayed = call[d].stayed \ ListedIn(d, id)
      /\ call'[d].pc = call[d].pc /\ call'[d].op = call[d].op /\ call'[d].nr = call[d].nr
      /\ call'[d].feed = call[d].feed /\ call'[d].folder = call[d].folder
      /\ call'[d].name = call[d].name /\ call'[d].given = call[d].given
      /\ call'[d].seen = call[d].seen /\ call'[d].place = call[d].place
      /\ call'[d].known = call[d].known /\ call'[d].listed = call[d].listed
<1>5. \A d \in Call : Same(d)
  <2> SUFFICES ASSUME NEW d \in Call PROVE Same(d)
    OBVIOUS
  <2>1. call[d].stayed \subseteq Feed
    BY <1>0, CallFields
  <2>2. PICK s \in SUBSET Feed : s = call[d].stayed \ ListedIn(d, id)
    BY <2>1
  <2>3. call'[d] = [call[d] EXCEPT !.stayed = s]
    BY <2>2 DEF Unfile
  <2>4. QED
    BY <1>0, <2>2, <2>3, Trimmed
<1>6. call' \in [Call -> CallType]
  BY <1>5 DEF Unfile
<1>7. LibraryTypes'
  <2>1. others' \subseteq 1..lastFolder' /\ others' \cap DOMAIN folders' = {}
    BY <1>0, <1>1
  <2>2. QED
    BY <1>0, <1>1, <1>2, <1>3, <1>4, <1>6, <2>1 DEF LibraryTypes
<1>8. \A d \in Call : CallRight(d)'
  <2> SUFFICES ASSUME NEW d \in Call PROVE CallRight(d)'
    OBVIOUS
  <2>1. CallRight(d)
    BY DEF LibraryInv
  <2>2. KindOf(d)' /\ ReadAsGiven(d)' /\ PlaceRight(d)' = PlaceRight(d)
    BY <1>5, <2>1 DEF CallRight, KindOf, ReadAsGiven, PlaceRight
  <2>3. Placed(d)'
    BY <1>1, <1>5, <2>1 DEF CallRight, Placed, Exists, ListedIn
  <2>4. Mapped(d)'
    BY <1>0, <1>1, <1>5, <2>1, <2>2 DEF CallRight, Mapped, MapRight, Exists
  <2>5. QED
    BY <2>2, <2>3, <2>4 DEF CallRight
<1>9. InFolders' /\ OffBare' /\ Omissions' /\ RequestsKept'
  <2>1. InFolders'
    BY <1>1, <1>2 DEF LibraryInv, InFolders, Exists
  <2>2. Omissions' /\ RequestsKept'
    BY <1>0, <1>2, <1>3 DEF LibraryInv, Omissions, RequestsKept
  <2>3. OffBare'
    BY <1>0, <1>2, <1>3, <1>4 DEF LibraryInv, OffBare, Bare
  <2>4. QED
    BY <2>1, <2>2, <2>3
<1>10. CallsNumbered'
  <2>1. \A g \in Feed : origin[g].by \in Nat /\ origin[g].by <= calls
    BY <1>0 DEF LibraryInv, CallsNumbered, LibraryTypes
  <2>2. \A g \in Feed : origin'[g].by <= calls'
    BY <1>0, <1>4, <2>1
  <2>3. \A d \in Call : call[d].nr \in Nat
    BY <1>0, CallFields
  <2>4. QED
    BY <1>0, <1>5, <2>2, <2>3 DEF LibraryInv, CallsNumbered
<1>11. ASSUME NEW f \in Feed, Imported(f)'
       PROVE  Imported(f) /\ origin'[f] = origin[f] /\ subs'[f].folder = subs[f].folder
              /\ subs[f].folder # id
  BY <1>0, <1>1, <1>2, <1>4, <1>11 DEF Imported, LibraryInv, InFolders, Exists
<1>12. ImportedRight'
  <2>1. ASSUME NEW f \in Feed, Imported(f)' PROVE InTitle(f)'
    <3>1. InTitle(f)
      BY <1>11, <2>1 DEF LibraryInv, ImportedRight
    <3>2. QED
      BY <1>0, <1>1, <1>11, <2>1, <3>1 DEF InTitle
  <2>2. \A f \in Feed, d \in Call : Imported(f)' => InMap(f, d)'
    BY <1>5, <1>11 DEF LibraryInv, ImportedRight, InMap
  <2>3. \A g, h \in Feed : Imported(g)' /\ Imported(h)' /\ origin'[h] = origin'[g] =>
          subs'[h].folder = subs'[g].folder
    BY <1>11 DEF LibraryInv, ImportedRight
  <2>4. QED
    BY <2>1, <2>2, <2>3 DEF ImportedRight
<1>13. QED
  BY <1>7, <1>8, <1>9, <1>10, <1>12 DEF LibraryInv

\* The user deletes a folder, or another user does.
LEMMA DeletesFolder ==
  ASSUME LibraryInv, NEW id, DeleteFolder(id) \/ OthersDelete(id)
  PROVE  LibraryInv'
<1>0. calls \in Nat /\ others \cap DOMAIN folders = {}
  BY DEF LibraryInv, LibraryTypes
<1>1. CASE DeleteFolder(id)
  <2>1. /\ calls' = calls + 1 /\ id \in DOMAIN folders /\ Unfile(id) /\ others' = others
    BY <1>1 DEF DeleteFolder, Requested
  <2>2. others' = others \ {id} /\ Exists(id)
    BY <1>0, <2>1 DEF Exists
  <2>3. QED
    BY <1>0, <2>1, <2>2, Unfiles
<1>2. CASE OthersDelete(id)
  BY <1>0, <1>2, Unfiles DEF OthersDelete, Exists
<1>3. QED
  BY <1>1, <1>2

\* An import takes its next outline.
LEMMA TakesOutline ==
  ASSUME LibraryInv, NEW c \in Call, NextOutline(c)
  PROVE  LibraryInv'
<1>0. /\ call[c].pc = "next" /\ call[c].op = "import"
      /\ UNCHANGED <<others, title, subs, file, calls, history>>
      /\ LibraryTypes /\ call \in [Call -> CallType] /\ lastFolder \in Nat /\ calls \in Nat
      /\ title \in [Feed -> ShownName] /\ file \in SUBSET Outline /\ Omissions
  BY DEF NextOutline, LibraryInv, CallRight, KindOf, LibraryTypes, Omissions
<1>1. PICK o \in call[c].todo :
        \/ o[1] = Root /\ TakeOutline(c, o, 0, call[c].known) /\ UNCHANGED <<folders, lastFolder>>
        \/ /\ o[1] # Root /\ call[c].known[o[1]] # 0
           /\ TakeOutline(c, o, call[c].known[o[1]], call[c].known) /\ UNCHANGED <<folders, lastFolder>>
        \/ /\ o[1] # Root /\ call[c].known[o[1]] = 0 /\ InsertFolder(o[1], 0)
           /\ TakeOutline(c, o, lastFolder + 1, [call[c].known EXCEPT ![o[1]] = lastFolder + 1])
  BY DEF NextOutline
<1>2. o[1] \in Title \cup {Root} /\ o[2] \in Feed
  BY <1>0, <1>1, CallFields DEF Outline
<1>3. PICK known \in [Title -> Nat] : known = call[c].known
  BY <1>0, CallFields
<1>4. \A t \in Title : known[t] <= lastFolder /\ known[t] \notin others /\ (Exists(known[t]) => known[t] \in renamed \/ folders[known[t]].title = t)
  BY <1>0, <1>3 DEF LibraryInv, CallRight, Mapped, MapRight
<1>5. ASSUME NEW id \in Nat, NEW map \in [Title -> Nat], TakeOutline(c, o, id, map)
      PROVE  /\ call' \in [Call -> CallType] /\ \A d \in Call \ {c} : call'[d] = call[d]
             /\ call'[c].pc = "discover" /\ call'[c].op = "import" /\ call'[c].nr = call[c].nr
             /\ call'[c].feed = o[2] /\ call'[c].place = o[1] /\ call'[c].folder = id
             /\ call'[c].known = map
  <2>1. PICK todo \in SUBSET Outline, f \in Feed, place \in Title \cup {Root} :
          todo = call[c].todo \ {o} /\ f = o[2] /\ place = o[1]
    BY <1>0, <1>2, CallFields
  <2> DEFINE y == [call[c] EXCEPT !.pc = "discover", !.feed = f, !.place = place]
             x == [y EXCEPT !.todo = todo, !.folder = id, !.known = map]
  <2>2. /\ y \in CallType /\ y.pc = "discover" /\ y.op = call[c].op /\ y.nr = call[c].nr
        /\ y.feed = f /\ y.place = place
    <3>1. call[c] \in CallType
      BY <1>0
    <3>2. QED
      BY <3>1 DEF CallType
  <2> HIDE DEF y
  <2>3. /\ x \in CallType /\ x.pc = "discover" /\ x.op = call[c].op /\ x.nr = call[c].nr
        /\ x.feed = f /\ x.place = place /\ x.folder = id /\ x.known = map
    <3>1. PICK z \in CallType, i \in Int : z = y /\ i = id
      BY <2>2
    <3> DEFINE w == [z EXCEPT !.todo = todo, !.folder = i, !.known = map]
    <3>2. w \in CallType
      BY DEF CallType
    <3>3. w.pc = z.pc /\ w.op = z.op /\ w.nr = z.nr /\ w.feed = z.feed /\ w.place = z.place
      BY DEF CallType
    <3>4. w.folder = id /\ w.known = map
      BY <3>1 DEF CallType
    <3>5. x = w
      BY <3>1
    <3> HIDE DEF w, x
    <3>6. QED
      BY <2>2, <3>1, <3>2, <3>3, <3>4, <3>5
  <2>4. call' = [call EXCEPT ![c] = x]
    BY <1>0, <1>5, <2>1 DEF TakeOutline, y
  <2> HIDE DEF x
  <2>5. QED
    BY <1>0, <2>1, <2>3, <2>4
<1>6. /\ call[c].nr # 0 /\ call[c].nr <= calls
      /\ \A d \in Call \ {c} : call[d].pc # "idle" => call[d].nr # call[c].nr
  BY <1>0 DEF LibraryInv, CallsNumbered
<1>7. ASSUME NEW id \in Nat, TakeOutline(c, o, id, known), UNCHANGED <<folders, lastFolder>>,
             IF o[1] = Root THEN id = 0 ELSE id # 0 /\ id = known[o[1]]
      PROVE  LibraryInv'
  <2>1. /\ call' \in [Call -> CallType] /\ \A d \in Call \ {c} : call'[d] = call[d]
        /\ call'[c].pc = "discover" /\ call'[c].op = "import" /\ call'[c].nr = call[c].nr
        /\ call'[c].feed = o[2] /\ call'[c].place = o[1] /\ call'[c].folder = id
        /\ call'[c].known = known
    BY <1>5, <1>7
  <2>2. KindOf(c)' /\ Placed(c)' /\ ReadAsGiven(c)' /\ PlaceRight(c)'
    BY <1>2, <1>7, <2>1 DEF KindOf, Placed, ReadAsGiven, PlaceRight
  <2>3. MapRight(c)'
    BY <1>0, <1>4, <1>7, <2>1 DEF MapRight, Exists, history
  <2>4. CallRight(c)'
    BY <2>2, <2>3 DEF CallRight, Mapped
  <2>5. QED
    BY <1>0, <1>3, <1>7, <2>1, <2>4, CallGoesOn DEF history
<1>8. CASE o[1] = Root
  BY <1>0, <1>1, <1>3, <1>7, <1>8
<1>9. CASE o[1] # Root /\ known[o[1]] # 0
  <2>1. PICK id \in Nat : id = known[o[1]]
    BY <1>2, <1>9
  <2>2. QED
    BY <1>1, <1>3, <1>7, <1>9, <2>1
<1>10. CASE o[1] # Root /\ known[o[1]] = 0
  <2>a. PICK t \in Title, id \in Nat : t = o[1] /\ id = lastFolder + 1
    BY <1>0, <1>2, <1>10
  <2>b. PICK map \in [Title -> Nat] : map = [known EXCEPT ![t] = id]
    OBVIOUS
  <2>1. t = o[1] /\ id = lastFolder + 1 /\ map = [known EXCEPT ![t] = id]
    BY <2>a, <2>b
  <2>2. InsertFolder(t, 0) /\ TakeOutline(c, o, id, map)
    BY <1>1, <1>3, <1>10, <2>1
  <2>3. /\ folders' \in [DOMAIN folders' -> [title : Title, parent : Int]]
        /\ lastFolder' = id /\ DOMAIN folders' \subseteq 1..lastFolder' /\ renamed' \subseteq 1..lastFolder'
        /\ id \in DOMAIN folders' /\ folders'[id].title = t /\ id \notin DOMAIN folders
        /\ \A i \in DOMAIN folders : folders'[i] = folders[i]
        /\ others' \subseteq 1..lastFolder' /\ others' \cap DOMAIN folders' = {} /\ others' = others
        /\ Growing
    BY <1>0, <2>1, <2>2, NewFolder DEF history
  <2>4. /\ call' \in [Call -> CallType] /\ \A d \in Call \ {c} : call'[d] = call[d]
        /\ call'[c].pc = "discover" /\ call'[c].op = "import" /\ call'[c].nr = call[c].nr
        /\ call'[c].feed = o[2] /\ call'[c].place = t /\ call'[c].folder = id
        /\ call'[c].known = map
    BY <1>5, <2>1, <2>2
  <2>5. LibraryTypes'
    BY <1>0, <2>3, <2>4 DEF LibraryTypes, history, Growing
  <2>6. \A d \in Call : CallRight(d)'
    <3>1. ASSUME NEW d \in Call \ {c} PROVE CallRight(d)'
      BY <1>0, <2>3, <2>4, <3>1, CallKept DEF LibraryInv
    <3>2. KindOf(c)' /\ Placed(c)' /\ ReadAsGiven(c)'
      BY <1>2, <2>4 DEF KindOf, Placed, ReadAsGiven
    <3>3. PlaceRight(c)'
      <4>1. t # Root /\ id # 0 /\ map[t] = id
        BY <1>0, <1>10, <2>1
      <4>2. QED
        BY <2>4, <4>1 DEF PlaceRight
    <3>4. ASSUME NEW s \in Title
          PROVE  map[s] <= lastFolder' /\ map[s] \notin others'
                 /\ (map[s] \in DOMAIN folders' => map[s] \in renamed' \/ folders'[map[s]].title = s)
      <4>1. CASE s = t
        BY <2>1, <2>3, <4>1
      <4>2. CASE s # t
        <5>1. map[s] = known[s] /\ known[s] \in Nat /\ known[s] <= lastFolder
          BY <1>4, <2>1, <4>2
        <5>2. known[s] <= lastFolder' /\ (known[s] \in DOMAIN folders' => known[s] \in DOMAIN folders)
          BY <1>0, <2>3, <5>1 DEF Growing
        <5>3. QED
          BY <1>0, <1>4, <2>3, <5>1, <5>2 DEF Exists, history
      <4>3. QED
        BY <4>1, <4>2
    <3>5. MapRight(c)'
      BY <2>4, <3>4 DEF MapRight, Exists
    <3>6. QED
      BY <3>1, <3>2, <3>3, <3>5 DEF CallRight, Mapped
  <2>7. InFolders' /\ OffBare' /\ Omissions' /\ RequestsKept' /\ CallsNumbered'
    <3>1. InFolders' /\ OffBare' /\ Omissions' /\ RequestsKept'
      BY <1>0, <2>3 DEF LibraryInv, InFolders, OffBare, Bare, Omissions, RequestsKept, Exists, Growing, history
    <3>2. CallsNumbered'
      BY <1>0, <1>6, <2>4 DEF LibraryInv, CallsNumbered, history
    <3>3. QED
      BY <3>1, <3>2
  <2>8. ASSUME NEW f \in Feed, Imported(f)'
        PROVE  Imported(f) /\ InTitle(f)' /\ \A d \in Call : InMap(f, d)'
    <3>1. Imported(f) /\ InTitle(f) /\ \A d \in Call : InMap(f, d)
      BY <1>0, <2>8 DEF LibraryInv, ImportedRight, Imported, history
    <3>2. InTitle(f)'
      <4>1. QED
        BY <1>0, <2>3, <3>1 DEF InTitle, Growing, history
    <3>3. ASSUME NEW d \in Call \ {c} PROVE InMap(f, d)'
      BY <1>0, <2>4, <3>1, <3>3 DEF InMap, history
    <3>4. InMap(f, c)'
      <4>1. ASSUME origin[f].by = call[c].nr, origin[f].title # Root
            PROVE  subs[f].folder = map[origin[f].title]
        <5>1. subs[f].folder = known[origin[f].title] /\ subs[f].folder # 0
          BY <1>0, <1>3, <3>1, <4>1 DEF InMap, InTitle, LibraryTypes
        <5>2. origin[f].title # t
          BY <1>10, <2>1, <5>1
        <5>3. origin[f].title \in Title
          BY <1>0, <4>1 DEF LibraryTypes
        <5>4. QED
          BY <2>1, <5>1, <5>2, <5>3
      <4>2. QED
        BY <1>0, <2>4, <4>1 DEF InMap, history
    <3>5. QED
      BY <3>1, <3>2, <3>3, <3>4
  <2>9. ImportedRight'
    BY <1>0, <2>8 DEF LibraryInv, ImportedRight, history
  <2>10. QED
    BY <2>5, <2>6, <2>7, <2>9 DEF LibraryInv
<1>11. QED
  BY <1>8, <1>9, <1>10

-----------------------------------------------------------------------------
(* The invariant                                                               *)

\* It holds at first.
LEMMA LibraryInitInv == LibraryInit => LibraryInv
<1> SUFFICES ASSUME LibraryInit PROVE LibraryInv
  OBVIOUS
<1>1. LibraryTypes
  <2>1. folders \in [DOMAIN folders -> [title : Title, parent : Int]] /\ DOMAIN folders = {}
    BY DEF LibraryInit
  <2>2. lastFolder \in Nat /\ DOMAIN folders \subseteq 1..lastFolder /\ renamed \subseteq 1..lastFolder
       /\ others \subseteq 1..lastFolder /\ others \cap DOMAIN folders = {}
    BY <2>1 DEF LibraryInit
  <2>3. /\ Off \in [on : BOOLEAN, folder : Int, name : ShownName]
        /\ NotAsked \in [folder : Int, name : ShownName] /\ "" \in ShownName
        /\ NoOrigin \in [title : Title \cup {Root}, by : Nat]
    BY DEF Off, NotAsked, NoOrigin, ShownName
  <2>4. /\ title \in [Feed -> ShownName]
        /\ subs \in [Feed -> [on : BOOLEAN, folder : Int, name : ShownName]]
        /\ asked \in [Feed -> [folder : Int, name : ShownName]]
        /\ origin \in [Feed -> [title : Title \cup {Root}, by : Nat]]
    BY <2>3 DEF LibraryInit
  <2>5. call \in [Call -> CallType] /\ calls \in Nat
    BY NoCallType DEF LibraryInit
  <2>6. file \in SUBSET Outline
    BY LibraryAssumption DEF LibraryInit, Outline
  <2>7. raced \subseteq Feed /\ omitted \subseteq Feed \X {"own", "others"}
    BY DEF LibraryInit
  <2>8. QED
    BY <2>1, <2>2, <2>4, <2>5, <2>6, <2>7 DEF LibraryTypes
<1>2. \A c \in Call : call[c].pc = "idle" /\ call[c].op = "none"
  BY DEF LibraryInit, NoCall
<1>3. \A c \in Call : CallRight(c)
  BY <1>2 DEF CallRight, KindOf, Placed, ReadAsGiven, Mapped
<1>4. \A f \in Feed : /\ ~ subs[f].on /\ subs[f].folder = 0 /\ origin[f].by = 0
                      /\ asked[f].folder = 0 /\ asked[f].name = ""
  BY DEF LibraryInit, Off, NoOrigin, NotAsked
<1>5. InFolders /\ OffBare /\ Omissions /\ RequestsKept /\ ImportedRight
  BY <1>4 DEF InFolders, OffBare, Bare, Omissions, RequestsKept, ImportedRight, Imported, LibraryInit
<1>6. CallsNumbered
  <2>1. calls = 0
    BY DEF LibraryInit
  <2>2. \A f \in Feed : origin[f].by <= calls
    <3>1. \A f \in Feed : origin[f].by = 0
      BY <1>4
    <3>2. QED
      BY <2>1, <3>1
  <2>3. \A c \in Call : ~ (call[c].pc # "idle")
    BY <1>2
  <2>4. QED
    BY <2>2, <2>3, Zenon DEF CallsNumbered
<1>7. QED
  BY <1>1, <1>3, <1>5, <1>6 DEF LibraryInv

\* So does a step that changes nothing.
LEMMA LibraryStutter ==
  ASSUME LibraryInv, UNCHANGED libraryVars
  PROVE  LibraryInv'
<1>1. UNCHANGED <<folders, others, lastFolder, title, subs, file, call, calls, asked, raced, origin, renamed, omitted>>
  BY DEF libraryVars, rows, history
<1>2. LibraryTypes' /\ InFolders' /\ OffBare' /\ Omissions' /\ RequestsKept' /\ CallsNumbered'
  BY <1>1 DEF LibraryInv, LibraryTypes, InFolders, OffBare, Bare, Omissions, RequestsKept, CallsNumbered, Exists
<1>3. \A c \in Call : CallRight(c)'
  BY <1>1, CallKept, SameFolders DEF LibraryInv
<1>4. ImportedRight'
  BY <1>1 DEF LibraryInv, ImportedRight, Imported, InTitle, InMap
<1>5. QED
  BY <1>2, <1>3, <1>4 DEF LibraryInv

\* Every step keeps it.
LEMMA LibraryNextInv == LibraryInv /\ [LibraryNext]_libraryVars => LibraryInv'
<1> SUFFICES ASSUME LibraryInv, [LibraryNext]_libraryVars PROVE LibraryInv'
  OBVIOUS
<1>0. DOMAIN folders \subseteq Int /\ AnyFolder \subseteq Int
  BY DEF LibraryInv, LibraryTypes, AnyFolder
<1>1. CASE FoldersCreate \/ WebFolders
  <2>1. \E t \in Title, parent \in Int : CreateFolder(t, parent) \/ \E id : UpdateFolder(id, t, parent)
    BY <1>0, <1>1 DEF FoldersCreate, WebFolders
  <2>2. QED
    BY <2>1, FolderSteps
<1>2. CASE FoldersDelete
  BY <1>2, DeletesFolder DEF FoldersDelete
<1>3. CASE \E c \in Call : Command(c) \/ WebCall(c)
  <2>1. PICK c \in Call : Command(c) \/ WebCall(c)
    BY <1>3
  <2>2. CASE FeedsAdd(c) \/ FeedsDelete(c) \/ FeedsRename(c)
    <3>1. PICK f \in Feed :
            AskSubscribe(c, f, 0) \/ AskUnsubscribe(c, f) \/ AskUpdate(c, f, 0, "mine")
      BY <2>2 DEF FeedsAdd, FeedsDelete, FeedsRename
    <3>2. 0 \in Int /\ "mine" \in {"", "mine"}
      OBVIOUS
    <3>3. QED
      BY <3>1, <3>2, AskSteps
  <2>3. CASE FeedsMove(c)
    <3>1. PICK f \in Feed, id \in {TopLevel} \cup AnyFolder : AskUpdate(c, f, id, "")
      BY <2>3 DEF FeedsMove
    <3>2. id \in Int
      BY <1>0 DEF TopLevel
    <3>3. QED
      BY <3>1, <3>2, AskSteps
  <2>4. CASE \E f \in Feed, id \in AnyFolder : AskSubscribe(c, f, id) \/ AskUpdate(c, f, id, "mine")
    BY <1>0, <2>4, AskSteps
  <2>5. CASE AskExport(c) \/ AskImport(c)
    BY <2>5, AskOPML
  <2>6. QED
    BY <2>1, <2>2, <2>3, <2>4, <2>5 DEF Command, WebCall
<1>4. CASE \E c \in Call : CallStep(c)
  BY <1>4, SubscribeSteps, InsertsSubscription, ReadsForUpdate, WritesSubscription,
     DeletesSubscription, ExportSteps, ImportReads, TakesOutline DEF CallStep
<1>5. CASE UNCHANGED libraryVars
  BY <1>5, LibraryStutter
<1>6. CASE Elsewhere
  <2>1. CASE OthersCreate \/ \E f \in Feed : RelayTitle(f)
    BY <2>1, OthersSteps
  <2>2. CASE \E id \in others : OthersDelete(id)
    BY <2>2, DeletesFolder
  <2>3. CASE \E f \in Feed : RelayFeed(f) \/ RelayUnfeed(f)
    BY <2>3, MakesRow, Unfeeds
  <2>4. QED
    BY <1>6, <2>1, <2>2, <2>3 DEF Elsewhere
<1>7. QED
  BY <1>1, <1>2, <1>3, <1>4, <1>5, <1>6 DEF LibraryNext

\* It holds always.
LEMMA LibraryInvariant == LibrarySpec => []LibraryInv
<1>1. QED
  BY LibraryInitInv, LibraryNextInv, PTL DEF LibrarySpec

\* The types of the user's folders, subscriptions and file, and of the calls under
\* way: the rows that CreateFolder, CreateSubscription and the like may leave.
THEOREM LibraryTypesKept == LibrarySpec => []LibraryTypes
<1>1. LibraryInv => LibraryTypes
  BY DEF LibraryInv
<1>2. QED
  BY <1>1, LibraryInvariant, PTL

\* ExportComplete: export-opml reads the feeds, then the folders, and yet leaves out no
\* feed that was subscribed all along, in no folder or in one of the user's that
\* nobody deleted.  One that was filed in another user's folder it does leave out.
THEOREM ExportsComplete == LibrarySpec => []ExportComplete
<1>1. LibraryInv => ExportComplete
  BY DEF LibraryInv, Omissions, ExportComplete
<1>2. QED
  BY <1>1, LibraryInvariant, PTL

\* ImportFaithful: what import-opml subscribed to is in a folder with the title of its
\* outline, the same for all of that title, whatever is renamed, deleted or moved
\* while it runs and after, for feeds and folders nobody touched.
THEOREM ImportsFaithful == LibrarySpec => []ImportFaithful
<1>1. LibraryInv => ImportFaithful
  <2> SUFFICES ASSUME LibraryInv PROVE ImportFaithful
    OBVIOUS
  <2> DEFINE settled(x) == subs[x].on /\ origin[x].by # 0 /\ x \notin raced /\ subs[x].folder \notin renamed
  <2>1. \A x \in Feed : settled(x) => Imported(x)
    BY DEF Imported
  <2>2. ASSUME NEW f \in Feed, settled(f)
        PROVE  IF origin[f].title = Root THEN subs[f].folder = 0
               ELSE subs[f].folder # 0 /\ folders[subs[f].folder].title = origin[f].title
    BY <2>1, <2>2 DEF LibraryInv, ImportedRight, InTitle, LibraryTypes
  <2>3. ASSUME NEW f \in Feed, NEW g \in Feed, settled(f), settled(g), origin[f] = origin[g]
        PROVE  subs[f].folder = subs[g].folder
    BY <2>1, <2>3 DEF LibraryInv, ImportedRight
  <2>4. QED
    BY <2>2, <2>3 DEF ImportFaithful
<1>2. QED
  BY <1>1, LibraryInvariant, PTL

\* RequestsKept: update-feed reads what its request leaves out and writes it back; as
\* long as its row stays, a feed keeps the folder and the name last asked for unless
\* that raced or the folder was deleted, by its user or, where it was another
\* user's, by that one; events of the relay for a row that exists change neither.
THEOREM RequestsAreKept == LibrarySpec => []RequestsKept
<1>1. LibraryInv => RequestsKept
  BY DEF LibraryInv
<1>2. QED
  BY <1>1, LibraryInvariant, PTL

=============================================================================
