-------------------------- MODULE RelayEventsProofs --------------------------
(***************************************************************************)
(* No event falls between the log and the cursor of RelayEvents, for every *)
(* value of its constants: its types hold, NoGap is inductive, and with it *)
(* the safety properties and the refinement of EventDelivery follow.       *)
(***************************************************************************)
EXTENDS RelayEventsInv, TLAPS

-----------------------------------------------------------------------------
(* Sequences *)

\* Appending keeps every old element at its place and puts the new one last.
LEMMA AppendFacts ==
  ASSUME NEW S, NEW q \in Seq(S), NEW x \in S
  PROVE  /\ Append(q, x) \in Seq(S) /\ Len(q) \in Nat
         /\ Len(Append(q, x)) = Len(q) + 1
         /\ \A i \in 1..Len(q) : Append(q, x)[i] = q[i]
         /\ Append(q, x)[Len(q) + 1] = x
OBVIOUS

\* Taking the head moves every other element one place down.
LEMMA TailFacts ==
  ASSUME NEW S, NEW q \in Seq(S), q # <<>>
  PROVE  /\ Tail(q) \in Seq(S) /\ Len(q) \in Nat \ {0}
         /\ Len(Tail(q)) = Len(q) - 1
         /\ \A i \in 1..Len(Tail(q)) : Tail(q)[i] = q[i + 1]
         /\ Head(q) = q[1] /\ Head(q) \in S
OBVIOUS

\* A push on one of a family of queues keeps their elements within a set.
LEMMA PushType ==
  ASSUME NEW C, NEW S, NEW R, NEW f \in [C -> Seq(S)], NEW c \in C,
         NEW x \in S, x \in R,
         \A d \in C : \A i \in 1..Len(f[d]) : f[d][i] \in R,
         NEW g, g = [f EXCEPT ![c] = Append(@, x)]
  PROVE  /\ g \in [C -> Seq(S)]
         /\ \A d \in C : \A i \in 1..Len(g[d]) : g[d][i] \in R
<1> DEFINE q == f[c]
<1>1. q \in Seq(S) /\ g[c] = Append(q, x) /\ \A d \in C \ {c} : g[d] = f[d]
  OBVIOUS
<1>2. \A i \in 1..Len(q) : q[i] \in R
  OBVIOUS
<1>3. g \in [C -> Seq(S)]
  BY <1>1, AppendFacts
<1> HIDE DEF q
<1>4. \A i \in 1..Len(g[c]) : g[c][i] \in R
  <2>1. /\ Len(q) \in Nat /\ Len(Append(q, x)) = Len(q) + 1
        /\ \A i \in 1..Len(q) : Append(q, x)[i] = q[i]
        /\ Append(q, x)[Len(q) + 1] = x
    BY <1>1, AppendFacts
  <2>2. QED
    BY <1>1, <1>2, <2>1
<1>5. QED
  BY <1>1, <1>3, <1>4

\* So does taking the head of one of them, which was within the set itself.
LEMMA PopType ==
  ASSUME NEW C, NEW S, NEW R, NEW f \in [C -> Seq(S)], NEW c \in C, f[c] # <<>>,
         \A d \in C : \A i \in 1..Len(f[d]) : f[d][i] \in R,
         NEW g, g = [f EXCEPT ![c] = Tail(@)]
  PROVE  /\ g \in [C -> Seq(S)]
         /\ \A d \in C : \A i \in 1..Len(g[d]) : g[d][i] \in R
         /\ Head(f[c]) \in S /\ Head(f[c]) \in R
<1> DEFINE q == f[c]
<1>1. q \in Seq(S) /\ q # <<>> /\ g[c] = Tail(q) /\ \A d \in C \ {c} : g[d] = f[d]
  OBVIOUS
<1>2. \A i \in 1..Len(q) : q[i] \in R
  OBVIOUS
<1>3. g \in [C -> Seq(S)]
  BY <1>1, TailFacts
<1> HIDE DEF q
<1>4. /\ \A i \in 1..Len(g[c]) : g[c][i] \in R
      /\ Head(q) \in S /\ Head(q) \in R
  <2>1. /\ Len(q) \in Nat \ {0} /\ Len(Tail(q)) = Len(q) - 1
        /\ \A i \in 1..Len(Tail(q)) : Tail(q)[i] = q[i + 1]
        /\ Head(q) = q[1] /\ Head(q) \in S
    BY <1>1, TailFacts
  <2>2. QED
    BY <1>1, <1>2, <2>1
<1>5. QED
  BY <1>1, <1>3, <1>4 DEF q

-----------------------------------------------------------------------------
(* Types *)

\* What the type invariant says of the history needs the events in frames,
\* channels, batches and cursors to have been drawn.
InRange ==
  /\ \A e \in Emitter : Active(e) => emitSeq[e] \in Seqs
  /\ \A c \in Conn : \A i \in 1..Len(wire[c]) : wire[c][i] \in Seqs
  /\ \A c \in Conn : \A i \in 1..Len(ch[c]) : ch[c][i] \in Seqs
  /\ \A c \in Conn : batch[c] \subseteq Seqs
  /\ inflight \in {0} \union Seqs /\ relayCursor \in {0} \union Seqs

TypeInv == TypeOK /\ InRange

(* The initial states have their types. *)
LEMMA InitType == Init => TypeInv
BY ConstantsOK DEF Init, TypeInv, TypeOK, InRange, Seqs, Active, Settled

(* The steps of an emit keep the types. *)
LEMMA EmitType ==
  ASSUME TypeInv, NEW e \in Emitter, EmitStep(e)
  PROVE  TypeInv'
<1> USE DEF TypeInv, Active, serverVars, clientVars, history
<1>1. CASE DrawSeq(e)
  <2> USE <1>1 DEF DrawSeq
  <2>1. lastSeq' \in Nat /\ Seqs \subseteq Seqs' /\ lastSeq' \in Seqs'
    BY DEF TypeOK, Seqs
  <2>2. Settled' = Settled
    BY DEF Settled
  <2>3. TypeOK'
    BY <2>1, <2>2 DEF TypeOK
  <2>4. \A k \in Emitter : Active(k)' => emitSeq'[k] \in Seqs'
    BY <2>1 DEF TypeOK, InRange
  <2>5. /\ \A c \in Conn : \A i \in 1..Len(wire[c]) : wire[c][i] \in Seqs'
        /\ \A c \in Conn : \A i \in 1..Len(ch[c]) : ch[c][i] \in Seqs'
        /\ inflight \in {0} \union Seqs' /\ relayCursor \in {0} \union Seqs'
    BY <2>1 DEF InRange
  <2>6. InRange'
    BY <2>1, <2>4, <2>5 DEF InRange
  <2>7. QED
    BY <2>3, <2>6
<1>2. CASE AppendEvent(e)
  <2> USE <1>2 DEF AppendEvent, CommitRow
  <2>1. emitSeq[e] \in Seqs /\ Seqs' = Seqs
    BY DEF InRange, Seqs
  <2>2. Settled' \subseteq Seqs
    BY <2>1 DEF Settled, Seqs, TypeOK
  <2>3. TypeOK'
    BY <2>1, <2>2 DEF TypeOK
  <2>4. InRange'
    BY <2>1 DEF TypeOK, InRange
  <2>5. QED
    BY <2>3, <2>4
<1>3. CASE AppendEventFails(e)
  <2> USE <1>3 DEF AppendEventFails, CommitRow
  <2>1. emitSeq[e] \in Seqs /\ Seqs' = Seqs
    BY DEF InRange, Seqs
  <2>2. Settled' \subseteq Seqs /\ relayEvents' \subseteq Seqs
    <3>1. 1..(emitSeq[e] - 1) \subseteq Seqs
      BY <2>1 DEF Seqs, TypeOK
    <3>2. relayEvents' \subseteq relayEvents \union {emitSeq[e]}
      OBVIOUS
    <3>3. overtaken' \subseteq overtaken \union 1..(emitSeq[e] - 1)
      OBVIOUS
    <3>4. Settled' \subseteq Settled \union {emitSeq[e]} \union 1..(emitSeq[e] - 1)
      BY <3>3 DEF Settled
    <3>5. QED
      BY <2>1, <3>1, <3>2, <3>4 DEF TypeOK
  <2>3. TypeOK'
    BY <2>1, <2>2 DEF TypeOK
  <2>4. InRange'
    BY <2>1 DEF TypeOK, InRange
  <2>5. QED
    BY <2>3, <2>4
<1>4. CASE Broadcast(e)
  <2> USE <1>4 DEF Broadcast
  <2>1. emitSeq[e] \in Seqs /\ Seqs' = Seqs /\ emitSeq[e] \in Nat \ {0}
    BY DEF InRange, Seqs, TypeOK
  <2>2. /\ ch' \in [Conn -> Seq(Nat \ {0})]
        /\ \A c \in Conn : \A i \in 1..Len(ch'[c]) : ch'[c][i] \in Seqs
        /\ dropped' \subseteq dropped \union {emitSeq[e]}
    <3>1. CASE UNCHANGED ch
      BY <3>1, <2>1 DEF SendToSubscriber, TypeOK, InRange
    <3>2. CASE /\ subscriber # NoConn /\ UNCHANGED dropped
               /\ ch' = [ch EXCEPT ![subscriber] = Append(@, emitSeq[e])]
      <4>1. subscriber \in Conn /\ ch \in [Conn -> Seq(Nat \ {0})]
        BY <3>2 DEF TypeOK
      <4>2. QED
        BY <3>2, <4>1, <2>1, PushType DEF InRange
    <3>3. QED
      BY <3>1, <3>2 DEF SendToSubscriber
  <2>3. Settled' \subseteq Seqs
    BY <2>1, <2>2 DEF Settled, TypeOK
  <2>4. TypeOK'
    BY <2>1, <2>2, <2>3 DEF TypeOK
  <2>5. InRange'
    BY <2>1, <2>2 DEF TypeOK, InRange
  <2>6. QED
    BY <2>4, <2>5
<1>5. QED
  BY <1>1, <1>2, <1>3, <1>4 DEF EmitStep

(* The steps of a connection handler keep the types. *)
LEMMA HandlerType ==
  ASSUME TypeInv, NEW c \in Conn, HandlerStep(c)
  PROVE  TypeInv'
<1> USE DEF TypeInv, emitVars, clientVars, history, Active
<1>1. CASE Subscribe(c)
  BY <1>1 DEF Subscribe, TypeOK, InRange, Seqs, Settled
<1>2. CASE ListEventsSince(c)
  <2>1. PICK cut \in 0..lastSeq :
          /\ batch' = [batch EXCEPT ![c] = {s \in RowsAfter(replayCursor[c]) : s <= cut}]
          /\ more' \in [Conn -> BOOLEAN]
    BY <1>2 DEF ListEventsSince, TypeOK
  <2>2. RowsAfter(replayCursor[c]) \subseteq Seqs /\ Seqs' = Seqs /\ Seqs \subseteq Nat \ {0}
    <3>1. RowsAfter(replayCursor[c]) \subseteq relayEvents
      BY DEF RowsAfter
    <3>2. relayEvents \subseteq Seqs /\ Seqs \subseteq Nat \ {0}
      BY DEF TypeOK, Seqs
    <3>3. Seqs' = Seqs
      BY <1>2 DEF ListEventsSince, Seqs
    <3>4. QED
      BY <3>1, <3>2, <3>3
  <2>3. /\ batch' \in [Conn -> SUBSET (Nat \ {0})]
        /\ \A d \in Conn : batch'[d] \subseteq Seqs
    BY <2>1, <2>2 DEF TypeOK, InRange
  <2>4. TypeOK'
    BY <1>2, <2>1, <2>2, <2>3 DEF ListEventsSince, TypeOK, Settled
  <2>5. InRange'
    BY <1>2, <2>2, <2>3 DEF ListEventsSince, InRange
  <2>6. QED
    BY <2>4, <2>5
<1>3. CASE ReplaySend(c)
  <2>1. PICK s \in batch[c] :
          /\ wire' = [wire EXCEPT ![c] = Append(@, s)]
          /\ batch' = [batch EXCEPT ![c] = @ \ {s}]
          /\ replayCursor' = [replayCursor EXCEPT ![c] = s]
    BY <1>3 DEF ReplaySend
  <2>2. s \in Seqs /\ s \in Nat \ {0} /\ Seqs' = Seqs
    BY <1>3 DEF ReplaySend, TypeOK, InRange, Seqs
  <2>3. /\ wire' \in [Conn -> Seq(Nat \ {0})]
        /\ \A d \in Conn : \A i \in 1..Len(wire'[d]) : wire'[d][i] \in Seqs
    <3>1. /\ wire \in [Conn -> Seq(Nat \ {0})]
          /\ \A d \in Conn : \A i \in 1..Len(wire[d]) : wire[d][i] \in Seqs
      BY DEF TypeOK, InRange
    <3>2. QED
      BY <3>1, <2>1, <2>2, PushType
  <2>4. TypeOK'
    BY <1>3, <2>1, <2>2, <2>3 DEF ReplaySend, TypeOK, Settled
  <2>5. InRange'
    <3>1. \A d \in Conn : batch'[d] \subseteq Seqs
      BY <2>1 DEF TypeOK, InRange
    <3>2. UNCHANGED <<emitSeq, emitPc, ch, inflight, relayCursor>>
      BY <1>3 DEF ReplaySend
    <3>3. QED
      BY <2>2, <2>3, <3>1, <3>2 DEF InRange
  <2>6. QED
    BY <2>4, <2>5
<1>4. CASE ReplayBatchDone(c)
  BY <1>4 DEF ReplayBatchDone, TypeOK, InRange, Seqs, Settled
<1>5. CASE LiveSend(c)
  <2> DEFINE s == Head(ch[c])
  <2>1. /\ ch' \in [Conn -> Seq(Nat \ {0})]
        /\ \A d \in Conn : \A i \in 1..Len(ch'[d]) : ch'[d][i] \in Seqs
        /\ s \in Nat \ {0} /\ s \in Seqs /\ Seqs' = Seqs
    <3>1. /\ ch \in [Conn -> Seq(Nat \ {0})]
          /\ \A d \in Conn : \A i \in 1..Len(ch[d]) : ch[d][i] \in Seqs
      BY DEF TypeOK, InRange
    <3>2. /\ ch[c] # <<>> /\ ch' = [ch EXCEPT ![c] = Tail(@)]
          /\ Seqs' = Seqs
      BY <1>5 DEF LiveSend, Seqs
    <3> HIDE DEF TypeInv
    <3>3. QED
      BY <3>1, <3>2, PopType
  <2>2. /\ wire' = [wire EXCEPT ![c] = Append(@, s)]
        /\ hCursor' = [hCursor EXCEPT ![c] = s]
    BY <1>5 DEF LiveSend
  <2> HIDE DEF s
  <2>3. /\ wire' \in [Conn -> Seq(Nat \ {0})]
        /\ \A d \in Conn : \A i \in 1..Len(wire'[d]) : wire'[d][i] \in Seqs
    <3>1. /\ wire \in [Conn -> Seq(Nat \ {0})]
          /\ \A d \in Conn : \A i \in 1..Len(wire[d]) : wire[d][i] \in Seqs
      BY DEF TypeOK, InRange
    <3>2. QED
      BY <3>1, <2>1, <2>2, PushType
  <2>4. TypeOK'
    <3>1. hCursor' \in [Conn -> Nat]
      BY <2>1, <2>2 DEF TypeOK
    <3>2. UNCHANGED <<emitVars, subscriber, hpc, replayCursor, batch, more,
                      clientVars, breaks, history>>
      BY <1>5 DEF LiveSend
    <3>3. QED
      BY <2>1, <2>3, <3>1, <3>2 DEF TypeOK, Settled
  <2>5. InRange'
    BY <1>5, <2>1, <2>3 DEF LiveSend, InRange
  <2>6. QED
    BY <2>4, <2>5
<1>6. CASE LiveSkip(c)
  <2>1. /\ ch' \in [Conn -> Seq(Nat \ {0})]
        /\ \A d \in Conn : \A i \in 1..Len(ch'[d]) : ch'[d][i] \in Seqs
        /\ Seqs' = Seqs
    <3>1. /\ ch \in [Conn -> Seq(Nat \ {0})]
          /\ \A d \in Conn : \A i \in 1..Len(ch[d]) : ch[d][i] \in Seqs
      BY DEF TypeOK, InRange
    <3>2. /\ ch[c] # <<>> /\ ch' = [ch EXCEPT ![c] = Tail(@)]
          /\ Seqs' = Seqs
      BY <1>6 DEF LiveSkip, Seqs
    <3> HIDE DEF TypeInv
    <3>3. QED
      BY <3>1, <3>2, PopType
  <2>2. TypeOK'
    BY <1>6, <2>1 DEF LiveSkip, TypeOK, Settled
  <2>3. InRange'
    BY <1>6, <2>1 DEF LiveSkip, InRange
  <2>4. QED
    BY <2>2, <2>3
<1>7. CASE HandlerReturns(c)
  <2>1. /\ subscriber' \in Conn \union {NoConn}
        /\ hpc' \in [Conn -> {"closed", "accepted", "list", "replay", "live"}]
    BY <1>7 DEF HandlerReturns, Unsubscribe, TypeOK
  <2>2. /\ ch' \in [Conn -> Seq(Nat \ {0})]
        /\ \A d \in Conn : \A i \in 1..Len(ch'[d]) : ch'[d][i] \in Seqs
    BY <1>7 DEF HandlerReturns, TypeOK, InRange
  <2>3. /\ batch' \in [Conn -> SUBSET (Nat \ {0})]
        /\ \A d \in Conn : batch'[d] \subseteq Seqs
    BY <1>7 DEF HandlerReturns, TypeOK, InRange
  <2>4. UNCHANGED <<emitVars, hCursor, replayCursor, more, wire, clientVars, breaks,
                    history>>
    BY <1>7 DEF HandlerReturns
  <2>5. Seqs' = Seqs /\ Settled' = Settled
    BY <2>4 DEF Seqs, Settled
  <2>6. TypeOK'
    BY <2>1, <2>2, <2>3, <2>4, <2>5 DEF TypeOK
  <2>7. InRange'
    BY <2>2, <2>3, <2>4, <2>5 DEF InRange
  <2>8. QED
    BY <2>6, <2>7
<1>8. QED
  BY <1>1, <1>2, <1>3, <1>4, <1>5, <1>6, <1>7
     DEF HandlerStep, SendFails, ReplayQueryFails

(* The steps of the consumer keep the types. *)
LEMMA ConsumerType ==
  ASSUME TypeInv, NEW c \in Conn, ConsumerStep(c)
  PROVE  TypeInv'
<1> USE DEF TypeInv, emitVars, serverVars, history, Active
<1>1. CASE Dial(c)
  <2>1. PICK cursor \in {relayCursor} \union {0} :
          /\ hCursor' = [hCursor EXCEPT ![c] = cursor]
          /\ replayCursor' = [replayCursor EXCEPT ![c] = cursor]
    BY <1>1 DEF Dial
  <2>2. QED
    BY <1>1, <2>1 DEF Dial, TypeOK, InRange, Seqs, Settled
<1>2. CASE ProcessEvent(c)
  <2> DEFINE s == Head(wire[c])
  <2>1. /\ wire' \in [Conn -> Seq(Nat \ {0})]
        /\ \A d \in Conn : \A i \in 1..Len(wire'[d]) : wire'[d][i] \in Seqs
        /\ s \in Nat \ {0} /\ s \in Seqs /\ Seqs' = Seqs
    <3>1. /\ wire \in [Conn -> Seq(Nat \ {0})]
          /\ \A d \in Conn : \A i \in 1..Len(wire[d]) : wire[d][i] \in Seqs
      BY DEF TypeOK, InRange
    <3>2. /\ wire[c] # <<>> /\ wire' = [wire EXCEPT ![c] = Tail(@)]
          /\ Seqs' = Seqs
      BY <1>2 DEF ProcessEvent, Seqs
    <3> HIDE DEF TypeInv
    <3>3. QED
      BY <3>1, <3>2, PopType
  <2>2. inflight' = s /\ Settled' \subseteq Settled \union {s}
    BY <1>2 DEF ProcessEvent, Settled
  <2> HIDE DEF s
  <2>3. TypeOK'
    BY <1>2, <2>1, <2>2 DEF ProcessEvent, TypeOK
  <2>4. InRange'
    BY <1>2, <2>1, <2>2 DEF ProcessEvent, InRange
  <2>5. QED
    BY <2>3, <2>4
<1>3. CASE ReceiveEOF(c)
  BY <1>3 DEF ReceiveEOF, TypeOK, InRange, Seqs, Settled
<1>4. QED
  BY <1>1, <1>2, <1>3 DEF ConsumerStep

(* The periodic cursor write, the purge, breaks and restarts keep the types. *)
LEMMA OtherType ==
  ASSUME TypeInv, UpdateRelayCursor \/ PurgeOldEvents \/ LoseConnection \/ RelayRestart
  PROVE  TypeInv'
<1> USE DEF TypeInv, emitVars, serverVars, clientVars, history, Active
<1>1. CASE UpdateRelayCursor
  BY <1>1 DEF UpdateRelayCursor, TypeOK, InRange, Seqs, Settled
<1>2. CASE PurgeOldEvents
  BY <1>2 DEF PurgeOldEvents, TypeOK, InRange, Seqs, Settled
<1>3. CASE LoseConnection
  BY <1>3 DEF LoseConnection, TypeOK, InRange, Seqs, Settled
<1>4. CASE RelayRestart
  BY <1>4 DEF RelayRestart, TypeOK, InRange, Seqs, Settled
<1>5. QED
  BY <1>1, <1>2, <1>3, <1>4

(* Every step, or stutter, keeps the types. *)
LEMMA NextType == TypeInv /\ [Next]_vars => TypeInv'
<1> SUFFICES ASSUME TypeInv, [Next]_vars PROVE TypeInv'
  OBVIOUS
<1>1. CASE UNCHANGED vars
  BY <1>1 DEF vars, emitVars, serverVars, clientVars, history, TypeInv, TypeOK,
              InRange, Seqs, Active, Settled
<1>2. QED
  BY <1>1, EmitType, HandlerType, ConsumerType, OtherType DEF Next

\* Every variable keeps its type, and every event number in flight was drawn.
THEOREM TypeCorrect == Spec => []TypeOK
<1>1. TypeInv => TypeOK
  BY DEF TypeInv
<1>2. QED
  BY <1>1, InitType, NextType, PTL DEF Spec

-----------------------------------------------------------------------------
(* Queues without gaps *)

(* An empty channel or connection holds no gap. *)
LEMMA GapFreeEmpty == ASSUME NEW D PROVE GapFree(<<>>, D)
BY DEF GapFree

(* What is excused stays excused: a larger set keeps a stream gap-free. *)
LEMMA GapFreeMono ==
  ASSUME NEW q, NEW D, NEW E, D \subseteq E, GapFree(q, D)
  PROVE  GapFree(q, E)
BY DEF GapFree

(* Before the head of a gap-free stream lie only excused numbers and its origin. *)
LEMMA GapFreeHead ==
  ASSUME NEW q \in Seq(Nat \ {0}), q # <<>>, NEW D, GapFree(q, D)
  PROVE  \A t \in 1..(Head(q) - 1) : t \in D
<1>1. Len(q) \in Nat \ {0} /\ Head(q) = q[1]
  BY TailFacts
<1>2. 1 \in 1..Len(q) /\ 1..(1 - 1) = {}
  BY <1>1
<1>3. QED
  BY <1>1, <1>2 DEF GapFree

(* Appending a frame keeps a stream gap-free if all it jumps over is excused. *)
LEMMA GapFreePush ==
  ASSUME NEW q \in Seq(Nat \ {0}), NEW s \in Nat \ {0}, NEW D, GapFree(q, D),
         \A t \in 1..(s - 1) : t \in D \/ InSeq(q, t)
  PROVE  GapFree(Append(q, s), D)
<1> DEFINE p == Append(q, s)
           n == Len(q)
<1>1. /\ n \in Nat /\ Len(p) = n + 1 /\ p[n + 1] = s
      /\ \A i \in 1..n : p[i] = q[i]
  BY AppendFacts
<1>2. \A t \in 1..(s - 1) : t \in D \/ \E j \in 1..n : q[j] = t
  BY DEF InSeq
<1>3. \A i \in 1..n : \A t \in 1..(q[i] - 1) : t \in D \/ \E j \in 1..(i - 1) : q[j] = t
  BY DEF GapFree
<1> HIDE DEF p, n
<1>4. SUFFICES ASSUME NEW i \in 1..(n + 1), NEW t \in 1..(p[i] - 1), t \notin D
               PROVE  \E j \in 1..(i - 1) : p[j] = t
  BY <1>1 DEF GapFree, p
<1>5. CASE i = n + 1
  BY <1>1, <1>2, <1>4, <1>5
<1>6. CASE i \in 1..n
  <2>1. PICK j \in 1..(i - 1) : q[j] = t
    BY <1>1, <1>3, <1>4, <1>6
  <2>2. QED
    BY <1>1, <1>6, <2>1
<1>7. QED
  BY <1>1, <1>5, <1>6

(* Removing the head keeps a stream gap-free, now counted from that head. *)
LEMMA GapFreePop ==
  ASSUME NEW q \in Seq(Nat \ {0}), q # <<>>, NEW D, GapFree(q, D),
         NEW E, D \subseteq E, Head(q) \in E
  PROVE  GapFree(Tail(q), E)
<1> DEFINE p == Tail(q)
           n == Len(q)
<1>1. /\ n \in Nat \ {0} /\ Len(p) = n - 1 /\ Head(q) = q[1]
      /\ \A i \in 1..(n - 1) : p[i] = q[i + 1]
  BY TailFacts
<1>2. \A i \in 1..n : \A t \in 1..(q[i] - 1) : t \in D \/ \E j \in 1..(i - 1) : q[j] = t
  BY DEF GapFree
<1> HIDE DEF p, n
<1>3. SUFFICES ASSUME NEW i \in 1..(n - 1), NEW t \in 1..(p[i] - 1), t \notin E
               PROVE  \E j \in 1..(i - 1) : p[j] = t
  BY <1>1 DEF GapFree, p
<1>4. i + 1 \in 1..n /\ p[i] = q[i + 1]
  BY <1>1
<1>5. PICK j \in 1..i : q[j] = t
  BY <1>2, <1>3, <1>4
<1>6. j # 1
  BY <1>1, <1>3, <1>5
<1>7. j - 1 \in 1..(i - 1) /\ p[j - 1] = q[j]
  BY <1>1, <1>5, <1>6
<1>8. QED
  BY <1>5, <1>7

(* An appended sequence holds what it held and the appended frame. *)
LEMMA InSeqPush ==
  ASSUME NEW q \in Seq(Nat \ {0}), NEW s \in Nat \ {0}, NEW t, InSeq(q, t) \/ t = s
  PROVE  InSeq(Append(q, s), t)
<1>1. /\ Len(q) \in Nat /\ Len(Append(q, s)) = Len(q) + 1
      /\ Append(q, s)[Len(q) + 1] = s
      /\ \A i \in 1..Len(q) : Append(q, s)[i] = q[i]
  BY AppendFacts
<1>2. QED
  BY <1>1 DEF InSeq

(* Taking the head leaves every other frame in the sequence. *)
LEMMA InSeqPop ==
  ASSUME NEW q \in Seq(Nat \ {0}), q # <<>>, NEW t, InSeq(q, t), t # Head(q)
  PROVE  InSeq(Tail(q), t)
<1>1. /\ Len(q) \in Nat \ {0} /\ Len(Tail(q)) = Len(q) - 1 /\ Head(q) = q[1]
      /\ \A i \in 1..Len(Tail(q)) : Tail(q)[i] = q[i + 1]
  BY TailFacts
<1>2. PICK i \in 1..Len(q) : q[i] = t
  BY DEF InSeq
<1>3. i - 1 \in 1..Len(Tail(q)) /\ Tail(q)[i - 1] = t
  BY <1>1, <1>2
<1>4. QED
  BY <1>3 DEF InSeq

-----------------------------------------------------------------------------
(* Registration, idle handlers, and the log *)

\* An event once accounted for stays so.
LEMMA SettledGrows == ASSUME Next PROVE Settled \subseteq Settled'
<1> USE DEF Settled, history, clientVars, serverVars, emitVars
<1>1. ASSUME NEW e \in Emitter, EmitStep(e) PROVE Settled \subseteq Settled'
  BY <1>1 DEF EmitStep, DrawSeq, AppendEvent, AppendEventFails, Broadcast,
              CommitRow, SendToSubscriber
<1>2. ASSUME NEW c \in Conn, HandlerStep(c) PROVE Settled \subseteq Settled'
  BY <1>2 DEF HandlerStep, Subscribe, ListEventsSince, ReplaySend, ReplayBatchDone,
              LiveSend, LiveSkip, SendFails, ReplayQueryFails, HandlerReturns
<1>3. ASSUME NEW c \in Conn, ConsumerStep(c) PROVE Settled \subseteq Settled'
  BY <1>3 DEF ConsumerStep, Dial, ProcessEvent, ReceiveEOF
<1>4. CASE UpdateRelayCursor \/ PurgeOldEvents \/ LoseConnection \/ RelayRestart
  BY <1>4 DEF UpdateRelayCursor, PurgeOldEvents, LoseConnection, RelayRestart
<1>5. QED
  BY <1>1, <1>2, <1>3, <1>4 DEF Next

(* Every step keeps the relation of handlers, connections and the registry. *)
LEMMA OwnershipStep == ASSUME TypeInv, Ownership, Next PROVE Ownership'
<1> USE ConstantsOK DEF Ownership, Open, serverVars, clientVars, TypeInv, TypeOK
<1>1. ASSUME NEW e \in Emitter, EmitStep(e) PROVE Ownership'
  BY <1>1 DEF EmitStep, DrawSeq, AppendEvent, AppendEventFails, Broadcast
<1>2. ASSUME NEW c \in Conn, HandlerStep(c) PROVE Ownership'
  <2>1. CASE Subscribe(c)
    BY <2>1 DEF Subscribe
  <2>2. CASE HandlerReturns(c) /\ (hpc[c] = "list" \/ socket # c)
    BY <2>2 DEF HandlerReturns, Unsubscribe
  <2>3. CASE ListEventsSince(c)
    BY <2>3 DEF ListEventsSince
  <2>4. CASE ReplaySend(c)
    BY <2>4 DEF ReplaySend
  <2>5. CASE ReplayBatchDone(c)
    BY <2>5 DEF ReplayBatchDone
  <2>6. CASE LiveSend(c) \/ LiveSkip(c)
    BY <2>6 DEF LiveSend, LiveSkip
  <2>7. QED
    BY <1>2, <2>1, <2>2, <2>3, <2>4, <2>5, <2>6
       DEF HandlerStep, SendFails, ReplayQueryFails
<1>3. ASSUME NEW c \in Conn, ConsumerStep(c) PROVE Ownership'
  <2>1. CASE Dial(c)
    BY <2>1 DEF Dial
  <2>2. CASE ProcessEvent(c) \/ ReceiveEOF(c)
    BY <2>2 DEF ProcessEvent, ReceiveEOF
  <2>3. QED
    BY <1>3, <2>1, <2>2 DEF ConsumerStep
<1>4. CASE UpdateRelayCursor \/ PurgeOldEvents \/ LoseConnection \/ RelayRestart
  BY <1>4 DEF UpdateRelayCursor, PurgeOldEvents, LoseConnection, RelayRestart
<1>5. QED
  BY <1>1, <1>2, <1>3, <1>4 DEF Next

(* Every step keeps the idle handlers without a batch or queued frames. *)
LEMMA QuietStep == ASSUME TypeInv, Ownership, Quiet, Next PROVE Quiet'
<1> USE ConstantsOK DEF Quiet, serverVars, clientVars, TypeInv, TypeOK
<1>1. ASSUME NEW e \in Emitter, EmitStep(e) PROVE Quiet'
  <2>1. CASE Broadcast(e)
    BY <1>1, <2>1 DEF Broadcast, SendToSubscriber, Ownership, Open
  <2>2. QED
    BY <1>1, <2>1 DEF EmitStep, DrawSeq, AppendEvent, AppendEventFails
<1>2. ASSUME NEW c \in Conn, HandlerStep(c) PROVE Quiet'
  <2>1. CASE Subscribe(c) \/ ReplayBatchDone(c)
    BY <2>1 DEF Subscribe, ReplayBatchDone
  <2>2. CASE LiveSend(c) \/ LiveSkip(c)
    <3>1. /\ hpc[c] = "live" /\ \A d \in Conn \ {c} : ch'[d] = ch[d]
          /\ hpc' = hpc /\ batch' = batch /\ replayCursor' = replayCursor
          /\ \A d \in Conn \ {c} : hCursor'[d] = hCursor[d]
      BY <2>2 DEF LiveSend, LiveSkip
    <3>2. QED
      BY <3>1
  <2>3. CASE HandlerReturns(c)
    BY <2>3 DEF HandlerReturns
  <2>4. CASE ListEventsSince(c)
    BY <2>4 DEF ListEventsSince
  <2>5. CASE ReplaySend(c)
    BY <2>5 DEF ReplaySend
  <2>6. QED
    BY <1>2, <2>1, <2>2, <2>3, <2>4, <2>5 DEF HandlerStep, SendFails, ReplayQueryFails
<1>3. ASSUME NEW c \in Conn, ConsumerStep(c) PROVE Quiet'
  <2>1. CASE Dial(c)
    BY <2>1 DEF Dial
  <2>2. CASE ProcessEvent(c) \/ ReceiveEOF(c)
    BY <2>2 DEF ProcessEvent, ReceiveEOF
  <2>3. QED
    BY <1>3, <2>1, <2>2 DEF ConsumerStep
<1>4. CASE UpdateRelayCursor \/ PurgeOldEvents \/ LoseConnection \/ RelayRestart
  BY <1>4 DEF UpdateRelayCursor, PurgeOldEvents, LoseConnection, RelayRestart
<1>5. QED
  BY <1>1, <1>2, <1>3, <1>4 DEF Next

\* Steps that leave the log and its emits alone.
LEMMA LogFrame ==
  ASSUME LogInv, UNCHANGED emitVars, overtaken \subseteq overtaken', Settled \subseteq Settled'
  PROVE  LogInv'
BY DEF LogInv, emitVars, Active, Seqs, Accounted, HeldByEmit

(* The steps of an emit keep the invariant of the log. *)
LEMMA EmitLog ==
  ASSUME TypeInv, LogInv, NEW e \in Emitter, EmitStep(e), Settled \subseteq Settled'
  PROVE  LogInv'
<1> USE DEF TypeInv, Active
<1>1. CASE DrawSeq(e)
  <2> USE <1>1 DEF DrawSeq
  <2>1. Seqs' = Seqs \union {lastSeq + 1} /\ lastSeq + 1 \notin Seqs /\ relayEvents \subseteq Seqs
    BY DEF TypeOK, Seqs
  <2>2. /\ emitSeq'[e] = lastSeq + 1 /\ emitPc'[e] = "insert"
        /\ \A o \in Emitter \ {e} : emitSeq'[o] = emitSeq[o] /\ emitPc'[o] = emitPc[o]
    BY DEF TypeOK
  <2>3. \A o, k \in Emitter : Active(o)' /\ Active(k)' /\ emitSeq'[o] = emitSeq'[k] => o = k
    BY <2>1, <2>2 DEF LogInv, InRange
  <2>4. \A o \in Emitter : emitPc'[o] = "send" => emitSeq'[o] \in relayEvents'
    BY <2>2 DEF LogInv
  <2>5. \A s \in relayEvents', o \in Emitter :
          Active(o)' /\ emitSeq'[o] < s => emitSeq'[o] \in overtaken'
    <3>1. lastSeq \in Nat /\ relayEvents \subseteq 1..lastSeq
      BY DEF TypeOK, Seqs
    <3>2. \A s \in relayEvents : ~(lastSeq + 1 < s)
      BY ONLY <3>1
    <3>3. overtaken' = overtaken /\ relayEvents' = relayEvents
      BY DEF history
    <3>4. QED
      BY <2>2, <3>2, <3>3 DEF LogInv
  <2>6. \A s \in Seqs' : s \in relayEvents' \/ Accounted(s)' \/ HeldByEmit(s)'
    <3>1. \A s : s = lastSeq + 1 \/ HeldByEmit(s) => HeldByEmit(s)'
      BY <2>2 DEF HeldByEmit
    <3>2. QED
      BY <2>1, <3>1 DEF LogInv, Accounted, history
  <2>7. QED
    BY <2>3, <2>4, <2>5, <2>6 DEF LogInv
<1>2. CASE AppendEvent(e)
  <2> USE <1>2 DEF AppendEvent, CommitRow
  <2>1. /\ emitPc'[e] = "send" /\ Active(e) /\ Active(e)' /\ emitSeq' = emitSeq
        /\ \A o \in Emitter \ {e} : emitPc'[o] = emitPc[o]
    BY DEF TypeOK
  <2>2. \A s \in relayEvents', o \in Emitter :
          Active(o)' /\ emitSeq'[o] < s => emitSeq'[o] \in overtaken'
    <3>1. \A o \in Emitter : Active(o) /\ emitSeq[o] < emitSeq[e] => emitSeq[o] \in overtaken'
      BY DEF InRange, Seqs, TypeOK
    <3>2. QED
      BY <2>1, <3>1 DEF LogInv
  <2>3. \A s \in Seqs' : s \in relayEvents' \/ Accounted(s)' \/ HeldByEmit(s)'
    BY <2>1 DEF LogInv, Accounted, HeldByEmit, Seqs
  <2>4. QED
    BY <2>1, <2>2, <2>3 DEF LogInv
<1>3. CASE AppendEventFails(e)
  <2> USE <1>3 DEF AppendEventFails, CommitRow
  <2>1. /\ ~Active(e)' /\ emitSeq' = emitSeq /\ emitSeq[e] \in Settled'
        /\ relayEvents \subseteq relayEvents' /\ overtaken \subseteq overtaken'
        /\ \A o \in Emitter \ {e} : emitPc'[o] = emitPc[o]
    BY DEF TypeOK, Settled
  <2>2. \A s \in Seqs' : s \in relayEvents' \/ Accounted(s)' \/ HeldByEmit(s)'
    BY <2>1 DEF LogInv, Accounted, HeldByEmit, Seqs
  <2>3. \A s \in relayEvents', o \in Emitter :
          Active(o)' /\ emitSeq'[o] < s => emitSeq'[o] \in overtaken'
    <3>1. CASE UNCHANGED <<relayEvents, overtaken>>
      BY <2>1, <3>1 DEF LogInv
    <3>2. CASE CommitRow(e)
      <4>1. \A o \in Emitter : Active(o) /\ emitSeq[o] < emitSeq[e] => emitSeq[o] \in overtaken'
        BY <3>2 DEF InRange, Seqs, TypeOK
      <4>2. QED
        BY <2>1, <3>2, <4>1 DEF LogInv
    <3>3. QED
      BY <3>1, <3>2
  <2>4. QED
    BY <2>1, <2>2, <2>3 DEF LogInv
<1>4. CASE Broadcast(e)
  <2> USE <1>4 DEF Broadcast
  <2>1. /\ ~Active(e)' /\ emitSeq' = emitSeq /\ emitSeq[e] \in relayEvents
        /\ \A o \in Emitter \ {e} : emitPc'[o] = emitPc[o]
    BY DEF TypeOK, LogInv
  <2>2. \A s \in Seqs' : s \in relayEvents' \/ Accounted(s)' \/ HeldByEmit(s)'
    BY <2>1 DEF LogInv, Accounted, HeldByEmit, Seqs
  <2>3. QED
    BY <2>1, <2>2 DEF LogInv
<1>5. QED
  BY <1>1, <1>2, <1>3, <1>4 DEF EmitStep

(* Every step keeps the invariant of the log. *)
LEMMA LogStep ==
  ASSUME TypeInv, LogInv, Next, Settled \subseteq Settled'
  PROVE  LogInv'
<1> USE DEF TypeInv
<1>1. CASE PurgeOldEvents
  <2> USE <1>1 DEF PurgeOldEvents
  <2>1. PICK cut \in relayEvents :
          /\ \A e \in Emitter : Active(e) => emitSeq[e] > cut
          /\ relayEvents' = {s \in relayEvents : s > cut}
          /\ purged' = purged \union {s \in relayEvents : s <= cut}
    OBVIOUS
  <2>2. \A s \in relayEvents : s \in Nat /\ cut \in Nat
    BY DEF TypeOK, Seqs
  <2>3. \A e \in Emitter : emitPc[e] = "send" => emitSeq[e] \in relayEvents'
    BY <2>1, <2>2 DEF LogInv, Active
  <2>4. \A s \in relayEvents : s \in relayEvents' \/ s \in Settled'
    BY <2>1, <2>2 DEF Settled
  <2>5. QED
    BY <2>1, <2>3, <2>4 DEF LogInv, Active, Seqs, Accounted, HeldByEmit
<1>2. CASE RelayRestart
  <2> USE <1>2 DEF RelayRestart
  <2>1. \A e \in Emitter : ~Active(e)'
    BY DEF Active
  <2>2. \A s \in Seqs : HeldByEmit(s) => s \in Settled' \/ s \in relayEvents
    BY DEF HeldByEmit, Active, TypeOK, LogInv, Settled, Seqs
  <2>3. QED
    BY <2>1, <2>2 DEF LogInv, Active, Seqs, Accounted
<1>3. ASSUME NEW c \in Conn, HandlerStep(c) PROVE LogInv'
  <2>1. UNCHANGED <<emitVars, overtaken>>
    BY <1>3 DEF HandlerStep, Subscribe, ListEventsSince, ReplaySend, ReplayBatchDone,
                LiveSend, LiveSkip, SendFails, ReplayQueryFails, HandlerReturns, history
  <2>2. QED
    BY <2>1, LogFrame
<1>4. ASSUME NEW c \in Conn, ConsumerStep(c) PROVE LogInv'
  <2>1. UNCHANGED <<emitVars, overtaken>>
    BY <1>4 DEF ConsumerStep, Dial, ProcessEvent, ReceiveEOF, history
  <2>2. QED
    BY <2>1, LogFrame
<1>5. CASE UpdateRelayCursor \/ LoseConnection
  BY <1>5, LogFrame DEF UpdateRelayCursor, LoseConnection, history
<1>6. QED
  BY <1>1, <1>2, <1>3, <1>4, <1>5, EmitLog DEF Next

(* Every step leaves the cursor, in memory and stored, above settled numbers only. *)
LEMMA CursorStep ==
  ASSUME TypeInv, CursorInv, \A c \in Conn : socket = c => Stream(c), Next,
         Settled \subseteq Settled'
  PROVE  CursorInv'
<1> USE DEF CursorInv, TypeInv, emitVars, serverVars, clientVars
<1>1. ASSUME NEW c \in Conn, ProcessEvent(c) PROVE CursorInv'
  <2> USE <1>1 DEF ProcessEvent
  <2>1. wire[c] \in Seq(Nat \ {0}) /\ wire[c] # <<>> /\ GapFree(wire[c], Settled)
    BY DEF TypeOK, Stream
  <2>2. \A t \in 1..(Head(wire[c]) - 1) : t \in Settled
    BY <2>1, GapFreeHead
  <2>3. Head(wire[c]) \in Settled' /\ Head(wire[c]) \in Nat \ {0}
    BY <2>1, TailFacts DEF Settled
  <2>4. \A t \in 1..Head(wire[c]) : t \in Settled'
    BY <2>2, <2>3
  <2>5. QED
    BY <2>4
<1>2. ASSUME NEW e \in Emitter, EmitStep(e) PROVE CursorInv'
  BY <1>2 DEF EmitStep, DrawSeq, AppendEvent, AppendEventFails, Broadcast
<1>3. ASSUME NEW c \in Conn, HandlerStep(c) PROVE CursorInv'
  BY <1>3 DEF HandlerStep, Subscribe, ListEventsSince, ReplaySend, ReplayBatchDone,
              LiveSend, LiveSkip, SendFails, ReplayQueryFails, HandlerReturns
<1>4. ASSUME NEW c \in Conn, Dial(c) \/ ReceiveEOF(c) PROVE CursorInv'
  BY <1>4 DEF Dial, ReceiveEOF
<1>5. CASE UpdateRelayCursor \/ PurgeOldEvents \/ LoseConnection \/ RelayRestart
  BY <1>5 DEF UpdateRelayCursor, PurgeOldEvents, LoseConnection, RelayRestart
<1>6. QED
  BY <1>1, <1>2, <1>3, <1>4, <1>5 DEF Next, ConsumerStep

-----------------------------------------------------------------------------
(* The stream of the connection the instance reads *)

\* Types of the parts of a stream.
LEMMA StreamTypes ==
  ASSUME TypeInv, NEW c \in Conn
  PROVE  /\ wire[c] \in Seq(Nat \ {0}) /\ ch[c] \in Seq(Nat \ {0})
         /\ batch[c] \subseteq Seqs /\ relayEvents \subseteq Seqs
         /\ replayCursor[c] \in Nat /\ hCursor[c] \in Nat
         /\ Seqs \subseteq Nat \ {0} /\ Settled \subseteq Seqs
         /\ \A s \in Seqs : 1..s \subseteq Seqs
BY DEF TypeInv, TypeOK, InRange, Seqs

\* Steps that leave the stream alone: others may account for events, append or
\* purge rows, and take other registrations.
LEMMA StreamFrame ==
  ASSUME TypeInv, NEW c \in Conn, Stream(c), Settled \subseteq Settled',
         wire'[c] = wire[c], ch'[c] = ch[c], hpc'[c] = hpc[c],
         hCursor'[c] = hCursor[c], replayCursor'[c] = replayCursor[c],
         batch'[c] = batch[c], more'[c] = more[c], Seqs \subseteq Seqs',
         \A s \in relayEvents : s \in relayEvents' \/ s \in Settled',
         subscriber' = c =>
           /\ subscriber = c
           /\ \A s \in Seqs : HeldByEmit(s) => HeldByEmit(s)' \/ s \in Settled'
           /\ \A s \in Seqs' \ Seqs : HeldByEmit(s)'
  PROVE  Stream(c)'
<1>1. \A s : Sent(c, s) => Sent(c, s)'
  BY DEF Sent, Accounted
<1>2. \A s : Upcoming(c, s) => Upcoming(c, s)' \/ s \in Settled'
  BY DEF Upcoming
<1>3. Reach(c) \subseteq Reach(c)'
  BY <1>1, <1>2 DEF Reach, Sent, Accounted
<1>4. GapFree(wire'[c], Settled') /\ GapFree(ch'[c], Reach(c)')
  BY <1>3, GapFreeMono DEF Stream
<1>5. subscriber' = c =>
        \A s \in Seqs' : s \in Reach(c)' \/ InSeq(ch'[c], s) \/ HeldByEmit(s)'
  <2>1. SUFFICES ASSUME subscriber' = c, NEW s \in Seqs'
                 PROVE  s \in Reach(c)' \/ InSeq(ch'[c], s) \/ HeldByEmit(s)'
    OBVIOUS
  <2>2. CASE s \notin Seqs
    BY <2>1, <2>2
  <2>3. CASE s \in Seqs
    <3>1. s \in Reach(c) \/ InSeq(ch[c], s) \/ HeldByEmit(s)
      BY <2>1, <2>3 DEF Stream
    <3>2. s \in Settled' => s \in Reach(c)'
      BY DEF Reach, Sent, Accounted
    <3>3. QED
      BY <1>3, <2>1, <2>3, <3>1, <3>2
  <2>4. QED
    BY <2>2, <2>3
<1>6. QED
  BY <1>1, <1>4, <1>5 DEF Stream

\* A handler that has returned leaves only its frames.
LEMMA StreamStopped ==
  ASSUME NEW c \in Conn, Stream(c), Settled \subseteq Settled',
         wire'[c] = wire[c], ch'[c] = <<>>, hpc'[c] = "closed", batch'[c] = {},
         subscriber' # c
  PROVE  Stream(c)'
<1>1. GapFree(wire'[c], Settled') /\ GapFree(ch'[c], Reach(c)')
  BY GapFreeMono, GapFreeEmpty DEF Stream
<1>2. QED
  BY <1>1 DEF Stream

\* The frames of a new connection start behind the stored cursor.
LEMMA DialStream ==
  ASSUME TypeInv, Ownership, Quiet, CursorInv, NEW c \in Conn, Dial(c)
  PROVE  Stream(c)'
<1> USE DEF Dial
<1>1. PICK cursor \in {0, relayCursor} :
        hCursor'[c] = cursor /\ replayCursor'[c] = cursor
  BY DEF TypeInv, TypeOK
<1>2. \A s \in 1..cursor : s \in Settled
  BY <1>1 DEF CursorInv
<1>3. /\ wire'[c] = <<>> /\ ch'[c] = <<>> /\ batch'[c] = {} /\ subscriber' # c
      /\ Settled' = Settled
  BY ConstantsOK DEF TypeInv, TypeOK, Quiet, Ownership, Open, Settled, history
<1>4. GapFree(wire'[c], Settled') /\ GapFree(ch'[c], Reach(c)')
  BY <1>3, GapFreeEmpty
<1>5. QED
  BY <1>1, <1>2, <1>3, <1>4 DEF Stream, Sent, Accounted

\* Registration comes before the replay's first read of the log: what is not
\* behind the cursor is a row the replay will read, or still with an emit.
LEMMA SubscribeStream ==
  ASSUME TypeInv, Quiet, LogInv, NEW c \in Conn, socket = c, Stream(c), Subscribe(c),
         Settled \subseteq Settled'
  PROVE  Stream(c)'
<1> USE DEF Subscribe
<1>1. /\ ch'[c] = <<>> /\ batch'[c] = {} /\ wire'[c] = wire[c]
      /\ hCursor'[c] = hCursor[c] /\ replayCursor'[c] = hCursor[c]
      /\ hpc'[c] = (IF hCursor[c] > 0 THEN "list" ELSE "live")
      /\ Seqs' = Seqs /\ relayEvents' = relayEvents
  BY DEF Quiet, TypeInv, TypeOK, emitVars, Seqs
<1>2. \A s : Sent(c, s) => Sent(c, s)'
  BY <1>1 DEF Sent, Accounted
<1>3. \A s \in 1..hCursor[c] : Sent(c, s)'
  BY <1>2 DEF Stream
<1>4. \A s : HeldByEmit(s) => HeldByEmit(s)'
  BY DEF HeldByEmit, emitVars, Active
<1>5. \A s \in Seqs : s \in Reach(c)' \/ HeldByEmit(s)'
  <2>1. SUFFICES ASSUME NEW s \in Seqs, ~ HeldByEmit(s)
                 PROVE  s \in Reach(c)'
    BY <1>4
  <2>2. s \in relayEvents \/ s \in Settled'
    BY <2>1 DEF LogInv, Accounted
  <2>3. s \in Settled' => s \in Reach(c)'
    BY <1>1 DEF Reach, Sent, Accounted
  <2>4. CASE s \in relayEvents /\ hCursor[c] > 0
    <3>1. CASE s \in 1..hCursor[c]
      BY <1>1, <1>3, <3>1 DEF Reach
    <3>2. CASE s > hCursor[c]
      BY <1>1, <2>4, <3>2 DEF Reach, Upcoming
    <3>3. QED
      BY <3>1, <3>2, StreamTypes
  <2>5. CASE s \in relayEvents /\ ~(hCursor[c] > 0)
    <3>1. hCursor[c] = 0 /\ ~BeingSent(s)
      BY <2>1, <2>5, StreamTypes DEF BeingSent, HeldByEmit, Active
    <3>2. s \in Settled'
      BY <2>5, <3>1 DEF Settled
    <3>3. QED
      BY <2>3, <3>2
  <2>6. QED
    BY <2>2, <2>3, <2>4, <2>5
<1>6. GapFree(wire'[c], Settled') /\ GapFree(ch'[c], Reach(c)')
  BY <1>1, GapFreeMono, GapFreeEmpty DEF Stream
<1>7. QED
  BY <1>1, <1>3, <1>5, <1>6 DEF Stream

\* A batch is the lowest rows after the cursor; a lower seq without a row is
\* accounted for, or its emit has been overtaken.
LEMMA ListStream ==
  ASSUME TypeInv, Quiet, LogInv, NEW c \in Conn, Stream(c), ListEventsSince(c)
  PROVE  Stream(c)'
<1> DEFINE all == RowsAfter(replayCursor[c])
<1>1. PICK cut \in 0..lastSeq :
        /\ IsFirstRows({s \in all : s <= cut}, all, BatchSize)
        /\ batch' = [batch EXCEPT ![c] = {s \in all : s <= cut}]
        /\ more' = [more EXCEPT ![c] = (Cardinality({s \in all : s <= cut}) = BatchSize)]
  BY DEF ListEventsSince
<1> DEFINE rows == {s \in all : s <= cut}
<1>2. /\ hpc[c] = "list" /\ hpc'[c] = "replay" /\ batch[c] = {} /\ batch'[c] = rows
      /\ rows # all => more'[c]
      /\ wire'[c] = wire[c] /\ ch'[c] = ch[c] /\ subscriber' = subscriber
      /\ hCursor'[c] = hCursor[c] /\ replayCursor'[c] = replayCursor[c]
      /\ Seqs' = Seqs /\ relayEvents' = relayEvents /\ Settled' = Settled
  BY <1>1 DEF ListEventsSince, TypeInv, TypeOK, Quiet, IsFirstRows, emitVars,
              history, Seqs, Settled
<1>3. all = {s \in relayEvents : s > replayCursor[c]}
  BY DEF RowsAfter
<1> HIDE DEF all
<1>4. \A s : Sent(c, s) <=> Sent(c, s)'
  BY <1>2 DEF Sent, Accounted
<1>5. \A s : HeldByEmit(s) => HeldByEmit(s)'
  BY DEF ListEventsSince, HeldByEmit, emitVars, Active
<1>6. Reach(c) \subseteq Reach(c)'
  <2>1. ASSUME NEW s \in Seqs, Upcoming(c, s), s \notin rows PROVE Upcoming(c, s)'
    BY <1>2, <1>3, <2>1 DEF Upcoming
  <2>2. QED
    BY <1>2, <1>4, <2>1 DEF Reach
<1>7. \A s \in batch'[c] : \A t \in 1..(s - 1) : Sent(c, t)' \/ t \in batch'[c]
  <2>1. SUFFICES ASSUME NEW s \in rows, NEW t \in 1..(s - 1), t \notin rows
                 PROVE  Sent(c, t)
    BY <1>2, <1>4
  <2>2. s \in relayEvents /\ s \in Seqs /\ t \in Seqs /\ t < s /\ s <= cut /\ cut \in Nat
    BY <1>3, <2>1, StreamTypes DEF Seqs
  <2>3. CASE t \in 1..replayCursor[c]
    BY <1>2, <2>3 DEF Stream
  <2>4. CASE t \notin 1..replayCursor[c]
    <3>1. t > replayCursor[c] /\ t <= cut
      BY <2>2, <2>4, StreamTypes
    <3>2. t \notin relayEvents
      BY <1>3, <2>1, <3>1
    <3>3. Accounted(t) \/ HeldByEmit(t)
      BY <2>2, <3>2 DEF LogInv
    <3>4. HeldByEmit(t) => t \in overtaken
      BY <2>2 DEF HeldByEmit, LogInv
    <3>5. QED
      BY <3>3, <3>4 DEF Sent, Accounted, Settled
  <2>5. QED
    BY <2>3, <2>4
<1>8. GapFree(wire'[c], Settled') /\ GapFree(ch'[c], Reach(c)')
  BY <1>2, <1>6, GapFreeMono DEF Stream
<1>9. QED
  BY <1>2, <1>4, <1>5, <1>6, <1>7, <1>8 DEF Stream

\* The lowest row of a batch joins the frames.
LEMMA ReplaySendStream ==
  ASSUME TypeInv, NEW c \in Conn, Stream(c), ReplaySend(c)
  PROVE  Stream(c)'
<1>1. PICK s \in batch[c] :
        /\ \A t \in batch[c] : s <= t
        /\ wire' = [wire EXCEPT ![c] = Append(@, s)]
        /\ batch' = [batch EXCEPT ![c] = @ \ {s}]
        /\ replayCursor' = [replayCursor EXCEPT ![c] = s]
  BY DEF ReplaySend
<1>2. /\ s \in Seqs /\ s \in Nat \ {0} /\ 1..s \subseteq Seqs
      /\ wire[c] \in Seq(Nat \ {0}) /\ batch[c] \subseteq Nat
  BY <1>1, StreamTypes
<1>3. /\ wire'[c] = Append(wire[c], s) /\ batch'[c] = batch[c] \ {s}
      /\ replayCursor'[c] = s /\ ch'[c] = ch[c] /\ hCursor'[c] = hCursor[c]
      /\ hpc[c] = "replay" /\ hpc'[c] = "replay" /\ more'[c] = more[c]
      /\ subscriber' = subscriber /\ Seqs' = Seqs /\ relayEvents' = relayEvents
      /\ Settled' = Settled
  BY <1>1 DEF ReplaySend, TypeInv, TypeOK, emitVars, history, Seqs, Settled
<1>4. \A t \in 1..(s - 1) : Sent(c, t)
  BY <1>1, <1>2 DEF Stream
<1>5. \A t : Sent(c, t) \/ t = s => Sent(c, t)'
  BY <1>2, <1>3, InSeqPush DEF Sent, Accounted
<1>6. \A t \in 1..s : Sent(c, t)'
  BY <1>2, <1>4, <1>5
<1>7. Reach(c) \subseteq Reach(c)'
  <2>1. ASSUME NEW t \in Seqs, Upcoming(c, t) PROVE Upcoming(c, t)' \/ Sent(c, t)'
    <3>1. t \in Nat \ {0}
      BY StreamTypes
    <3>2. CASE t \in 1..s
      BY <1>6, <3>2
    <3>3. CASE t > s
      BY <1>3, <2>1, <3>3 DEF Upcoming
    <3>4. QED
      BY <1>2, <3>1, <3>2, <3>3
  <2>2. QED
    BY <1>3, <1>5, <2>1 DEF Reach
<1>8. \A t : HeldByEmit(t) => HeldByEmit(t)'
  BY DEF ReplaySend, HeldByEmit, emitVars, Active
<1>9. GapFree(wire'[c], Settled')
  BY <1>2, <1>3, <1>4, GapFreePush DEF Stream, Sent, Accounted
<1>10. GapFree(ch'[c], Reach(c)')
  BY <1>3, <1>7, GapFreeMono DEF Stream
<1>11. \A k \in batch'[c] : \A t \in 1..(k - 1) : Sent(c, t)' \/ t \in batch'[c]
  BY <1>3, <1>5 DEF Stream
<1>12. QED
  BY <1>3, <1>5, <1>6, <1>7, <1>8, <1>9, <1>10, <1>11 DEF Stream

\* The replay ends only when nothing is left for it to read.
LEMMA BatchDoneStream ==
  ASSUME TypeInv, NEW c \in Conn, Stream(c), ReplayBatchDone(c)
  PROVE  Stream(c)'
<1>1. /\ hpc[c] = "replay" /\ hpc'[c] = (IF more[c] THEN "list" ELSE "live")
      /\ wire' = wire /\ batch' = batch /\ ch' = ch /\ replayCursor' = replayCursor
      /\ hCursor' = hCursor /\ subscriber' = subscriber /\ Seqs' = Seqs
      /\ relayEvents' = relayEvents /\ Settled' = Settled
  BY DEF ReplayBatchDone, TypeInv, TypeOK, emitVars, history, Seqs, Settled
<1>2. \A s : Sent(c, s) <=> Sent(c, s)'
  BY <1>1 DEF Sent, Accounted
<1>3. \A s : HeldByEmit(s) => HeldByEmit(s)'
  BY DEF ReplayBatchDone, HeldByEmit, emitVars, Active
<1>4. Reach(c) \subseteq Reach(c)'
  BY <1>1, <1>2 DEF Reach, Upcoming
<1>5. GapFree(ch'[c], Reach(c)')
  BY <1>1, <1>4, GapFreeMono DEF Stream
<1>6. QED
  BY <1>1, <1>2, <1>3, <1>4, <1>5 DEF Stream

\* In the live phase the channel has no gap but for what the instance was sent.
LEMMA LivePhase ==
  ASSUME TypeInv, Quiet, NEW c \in Conn, Stream(c), hpc[c] = "live", ch[c] # <<>>
  PROVE  /\ \A s : s \in Reach(c) => Sent(c, s)
         /\ \A s \in 1..(Head(ch[c]) - 1) : Sent(c, s)
         /\ Head(ch[c]) \in Seqs
<1>1. \A s : s \in Reach(c) => Sent(c, s)
  BY DEF Quiet, Reach, Upcoming
<1>2. \A s \in 1..(Head(ch[c]) - 1) : s \in Reach(c)
  BY StreamTypes, GapFreeHead DEF Stream
<1>3. Head(ch[c]) \in Seqs
  <2>1. ch[c] \in Seq(Nat \ {0}) /\ \A i \in 1..Len(ch[c]) : ch[c][i] \in Seqs
    BY DEF TypeInv, TypeOK, InRange
  <2>2. Len(ch[c]) \in Nat \ {0} /\ Head(ch[c]) = ch[c][1]
    BY <2>1, TailFacts
  <2>3. QED
    BY <2>1, <2>2
<1>4. QED
  BY <1>1, <1>2, <1>3

(* A live send appends to the connection the next unexcused frame. *)
LEMMA LiveSendStream ==
  ASSUME TypeInv, Quiet, NEW c \in Conn, Stream(c), LiveSend(c)
  PROVE  Stream(c)'
<1> DEFINE s == Head(ch[c])
<1>1. /\ wire'[c] = Append(wire[c], s) /\ ch'[c] = Tail(ch[c]) /\ hCursor'[c] = s
      /\ hpc[c] = "live" /\ hpc'[c] = "live" /\ ch[c] # <<>>
      /\ batch' = batch /\ replayCursor' = replayCursor /\ more' = more
      /\ subscriber' = subscriber /\ Seqs' = Seqs /\ relayEvents' = relayEvents
      /\ Settled' = Settled
  BY DEF LiveSend, TypeInv, TypeOK, emitVars, history, Seqs, Settled
<1>2. /\ s \in Seqs /\ s \in Nat \ {0} /\ 1..s \subseteq Seqs
      /\ wire[c] \in Seq(Nat \ {0}) /\ ch[c] \in Seq(Nat \ {0})
  BY <1>1, LivePhase, StreamTypes
<1>3. \A t : t \in Reach(c) => Sent(c, t)
  BY <1>1, LivePhase
<1>4. \A t \in 1..(s - 1) : Sent(c, t)
  BY <1>1, LivePhase
<1>5. \A t \in Seqs : InSeq(ch[c], t) => t = s \/ InSeq(ch'[c], t)
  BY <1>1, <1>2, InSeqPop
<1> HIDE DEF s
<1>6. \A t : Sent(c, t) \/ t = s => Sent(c, t)'
  BY <1>1, <1>2, InSeqPush DEF Sent, Accounted
<1>7. \A t \in 1..s : Sent(c, t)'
  BY <1>2, <1>4, <1>6
<1>8. Reach(c) \subseteq Reach(c)' /\ s \in Reach(c)'
  BY <1>1, <1>2, <1>3, <1>6 DEF Reach
<1>9. GapFree(wire'[c], Settled')
  BY <1>1, <1>2, <1>4, GapFreePush DEF Stream, Sent, Accounted
<1>10. GapFree(ch'[c], Reach(c)')
  BY <1>1, <1>2, <1>8, GapFreePop DEF Stream, s
<1>11. \A t : HeldByEmit(t) => HeldByEmit(t)'
  BY DEF LiveSend, HeldByEmit, emitVars, Active
<1>12. \A k \in batch'[c] : \A t \in 1..(k - 1) : Sent(c, t)' \/ t \in batch'[c]
  BY <1>1, <1>6 DEF Stream
<1>13. \A t \in 1..replayCursor'[c] : Sent(c, t)'
  BY <1>1, <1>6 DEF Stream
<1>14. subscriber' = c =>
         \A t \in Seqs' : t \in Reach(c)' \/ InSeq(ch'[c], t) \/ HeldByEmit(t)'
  BY <1>1, <1>5, <1>8, <1>11 DEF Stream
<1>15. QED
  BY <1>1, <1>7, <1>9, <1>10, <1>12, <1>13, <1>14 DEF Stream

\* A skipped event is behind the handler's cursor: the instance was sent it.
LEMMA SkippedWasSent ==
  ASSUME TypeInv, Quiet, NEW c \in Conn, Stream(c), LiveSkip(c)
  PROVE  Sent(c, Head(ch[c]))
<1>1. hpc[c] = "live" /\ ch[c] # <<>> /\ Head(ch[c]) <= hCursor[c]
  BY DEF LiveSkip
<1>2. Head(ch[c]) \in Nat \ {0} /\ hCursor[c] \in Nat
  BY <1>1, LivePhase, StreamTypes
<1>3. Head(ch[c]) \in 1..hCursor[c]
  BY <1>1, <1>2
<1>4. QED
  BY <1>1, <1>3 DEF Stream

(* A live event at or below the lower bound is dropped without a gap. *)
LEMMA LiveSkipStream ==
  ASSUME TypeInv, Quiet, NEW c \in Conn, Stream(c), LiveSkip(c)
  PROVE  Stream(c)'
<1> DEFINE s == Head(ch[c])
<1>1. /\ wire' = wire /\ ch'[c] = Tail(ch[c]) /\ hCursor' = hCursor
      /\ hpc[c] = "live" /\ hpc' = hpc /\ ch[c] # <<>>
      /\ batch' = batch /\ replayCursor' = replayCursor /\ more' = more
      /\ subscriber' = subscriber /\ Seqs' = Seqs /\ relayEvents' = relayEvents
      /\ Settled' = Settled
  BY DEF LiveSkip, TypeInv, TypeOK, emitVars, history, Seqs, Settled
<1>2. s \in Seqs /\ ch[c] \in Seq(Nat \ {0})
  BY <1>1, LivePhase, StreamTypes
<1>3. \A t \in Seqs : InSeq(ch[c], t) => t = s \/ InSeq(ch'[c], t)
  BY <1>1, <1>2, InSeqPop
<1>4. \A t : Sent(c, t) <=> Sent(c, t)'
  BY <1>1 DEF Sent, Accounted
<1>5. Reach(c) \subseteq Reach(c)' /\ s \in Reach(c)'
  BY <1>1, <1>2, <1>4, SkippedWasSent DEF Reach, Upcoming
<1>6. GapFree(ch'[c], Reach(c)')
  BY <1>1, <1>2, <1>5, GapFreePop DEF Stream
<1>7. \A t : HeldByEmit(t) => HeldByEmit(t)'
  BY DEF LiveSkip, HeldByEmit, emitVars, Active
<1> HIDE DEF s
<1>8. QED
  BY <1>1, <1>3, <1>4, <1>5, <1>6, <1>7 DEF Stream

\* A frame leaves the socket and is accounted for.
LEMMA ProcessStream ==
  ASSUME TypeInv, NEW c \in Conn, Stream(c), ProcessEvent(c), Settled \subseteq Settled'
  PROVE  Stream(c)'
<1> DEFINE s == Head(wire[c])
<1>1. /\ wire'[c] = Tail(wire[c]) /\ wire[c] # <<>> /\ ch' = ch /\ hCursor' = hCursor
      /\ hpc' = hpc /\ batch' = batch /\ replayCursor' = replayCursor /\ more' = more
      /\ subscriber' = subscriber /\ Seqs' = Seqs /\ relayEvents' = relayEvents
      /\ s \in Settled' /\ wire[c] \in Seq(Nat \ {0})
  BY DEF ProcessEvent, TypeInv, TypeOK, emitVars, serverVars, Seqs, Settled
<1>2. \A t : InSeq(wire[c], t) => t = s \/ InSeq(wire'[c], t)
  BY <1>1, InSeqPop
<1>3. GapFree(wire'[c], Settled')
  BY <1>1, GapFreePop DEF Stream
<1> HIDE DEF s
<1>4. \A t : Sent(c, t) => Sent(c, t)'
  BY <1>1, <1>2 DEF Sent, Accounted
<1>5. Reach(c) \subseteq Reach(c)'
  BY <1>1, <1>4 DEF Reach, Upcoming
<1>6. GapFree(ch'[c], Reach(c)')
  BY <1>1, <1>5, GapFreeMono DEF Stream
<1>7. \A t : HeldByEmit(t) => HeldByEmit(t)'
  BY DEF ProcessEvent, HeldByEmit, emitVars, Active
<1>8. QED
  BY <1>1, <1>3, <1>4, <1>5, <1>6, <1>7 DEF Stream

\* An emit's broadcast joins the channel, is dropped and accounted for, or finds
\* no channel of this connection.  What is below it and still with an emit has
\* been overtaken.
LEMMA BroadcastStream ==
  ASSUME TypeInv, LogInv, NEW c \in Conn, socket = c, Stream(c),
         NEW e \in Emitter, Broadcast(e), Settled \subseteq Settled'
  PROVE  Stream(c)'
<1> DEFINE s == emitSeq[e]
<1>1. /\ wire' = wire /\ hCursor' = hCursor /\ hpc' = hpc /\ batch' = batch
      /\ replayCursor' = replayCursor /\ more' = more /\ subscriber' = subscriber
      /\ Seqs' = Seqs /\ relayEvents' = relayEvents
      /\ emitPc[e] = "send" /\ s \in relayEvents
  BY DEF Broadcast, LogInv, Seqs
<1>2. \A t : HeldByEmit(t) => HeldByEmit(t)' \/ t = s
  BY DEF Broadcast, HeldByEmit, Active
<1>3. /\ s \in Seqs /\ s \in Nat \ {0} /\ 1..s \subseteq Seqs
      /\ ch[c] \in Seq(Nat \ {0})
  BY <1>1, StreamTypes
<1>4. CASE ch'[c] = ch[c] /\ (subscriber = c => s \in Settled')
  BY <1>1, <1>2, <1>4, StreamFrame
<1>5. CASE subscriber = c /\ ch'[c] = Append(ch[c], s)
  <2>1. \A t \in 1..(s - 1) : HeldByEmit(t) => Sent(c, t)
    BY <1>1, <1>3 DEF HeldByEmit, LogInv, Sent, Accounted, Settled
  <2>2. \A t \in 1..(s - 1) : t \in Reach(c) \/ InSeq(ch[c], t)
    <3>1. SUFFICES ASSUME NEW t \in 1..(s - 1)
                   PROVE  t \in Reach(c) \/ InSeq(ch[c], t)
      OBVIOUS
    <3>2. t \in Seqs
      BY <1>3
    <3>3. Sent(c, t) => t \in Reach(c)
      BY <3>2 DEF Reach
    <3>4. QED
      BY <1>5, <2>1, <3>2, <3>3 DEF Stream
  <2> HIDE DEF s
  <2>3. GapFree(ch'[c], Reach(c))
    BY <1>3, <1>5, <2>2, GapFreePush DEF Stream
  <2>4. \A t : Sent(c, t) => Sent(c, t)'
    BY <1>1 DEF Sent, Accounted
  <2>5. Reach(c) \subseteq Reach(c)'
    BY <1>1, <2>4 DEF Reach, Upcoming
  <2>6. \A t : InSeq(ch[c], t) \/ t = s => InSeq(ch'[c], t)
    BY <1>3, <1>5, InSeqPush
  <2>7. GapFree(ch'[c], Reach(c)') /\ GapFree(wire'[c], Settled')
    BY <1>1, <2>3, <2>5, GapFreeMono DEF Stream
  <2>8. QED
    BY <1>1, <1>2, <2>4, <2>5, <2>6, <2>7 DEF Stream
<1>6. QED
  <2>1. SendToSubscriber(s)
    BY DEF Broadcast
  <2>2. CASE subscriber = NoConn /\ UNCHANGED ch
    BY <2>2, <1>4, ConstantsOK
  <2>3. CASE subscriber # NoConn /\ ch' = [ch EXCEPT ![subscriber] = Append(@, s)]
    BY <2>3, <1>4, <1>5 DEF TypeInv, TypeOK
  <2>4. CASE UNCHANGED ch /\ dropped' = dropped \union {s}
    BY <2>4, <1>4 DEF Settled
  <2>5. QED
    BY <2>1, <2>2, <2>3, <2>4 DEF SendToSubscriber

\* The other steps of an emit.
LEMMA EmitStream ==
  ASSUME TypeInv, LogInv, NEW c \in Conn, socket = c, Stream(c),
         NEW e \in Emitter, EmitStep(e), Settled \subseteq Settled'
  PROVE  Stream(c)'
<1> USE DEF serverVars
<1>1. CASE DrawSeq(e)
  <2>1. /\ Seqs \subseteq Seqs' /\ Seqs' \ Seqs \subseteq {lastSeq + 1}
        /\ relayEvents' = relayEvents
        /\ \A s : s = lastSeq + 1 \/ HeldByEmit(s) => HeldByEmit(s)'
    BY <1>1 DEF DrawSeq, Seqs, TypeInv, TypeOK, HeldByEmit, Active
  <2>2. UNCHANGED <<serverVars, wire>>
    BY <1>1 DEF DrawSeq
  <2>3. QED
    BY <2>1, <2>2, StreamFrame
<1>2. CASE AppendEvent(e)
  <2>1. /\ Seqs' = Seqs /\ relayEvents \subseteq relayEvents'
        /\ \A s : HeldByEmit(s) => HeldByEmit(s)'
    BY <1>2 DEF AppendEvent, CommitRow, Seqs, TypeInv, TypeOK, HeldByEmit, Active
  <2>2. UNCHANGED <<serverVars, wire>>
    BY <1>2 DEF AppendEvent
  <2>3. QED
    BY <2>1, <2>2, StreamFrame
<1>3. CASE AppendEventFails(e)
  <2>1. /\ Seqs' = Seqs /\ relayEvents \subseteq relayEvents'
        /\ \A s : HeldByEmit(s) => HeldByEmit(s)' \/ s \in Settled'
    BY <1>3 DEF AppendEventFails, CommitRow, Seqs, TypeInv, TypeOK, HeldByEmit, Active, Settled
  <2>2. UNCHANGED <<serverVars, wire>>
    BY <1>3 DEF AppendEventFails
  <2>3. QED
    BY <2>1, <2>2, StreamFrame
<1>4. QED
  BY <1>1, <1>2, <1>3, BroadcastStream DEF EmitStep

\* A step of another connection's handler leaves this stream alone.
LEMMA OtherHandlerStream ==
  ASSUME TypeInv, NEW c \in Conn, Stream(c), NEW d \in Conn, d # c, HandlerStep(d),
         Settled \subseteq Settled'
  PROVE  Stream(c)'
<1>1. /\ wire'[c] = wire[c] /\ ch'[c] = ch[c] /\ hpc'[c] = hpc[c]
      /\ hCursor'[c] = hCursor[c] /\ replayCursor'[c] = replayCursor[c]
      /\ batch'[c] = batch[c] /\ more'[c] = more[c] /\ UNCHANGED emitVars
      /\ subscriber' = c => subscriber = c
  <2> USE DEF TypeInv, TypeOK
  <2>1. CASE Subscribe(d)
    BY <2>1 DEF Subscribe
  <2>2. CASE ListEventsSince(d)
    BY <2>2 DEF ListEventsSince
  <2>3. CASE ReplaySend(d) \/ ReplayBatchDone(d)
    BY <2>3 DEF ReplaySend, ReplayBatchDone
  <2>4. CASE LiveSend(d) \/ LiveSkip(d)
    BY <2>4 DEF LiveSend, LiveSkip
  <2>5. CASE HandlerReturns(d)
    BY <2>5, ConstantsOK DEF HandlerReturns, Unsubscribe
  <2>6. QED
    BY <2>1, <2>2, <2>3, <2>4, <2>5 DEF HandlerStep, SendFails, ReplayQueryFails
<1>2. /\ Seqs' = Seqs /\ relayEvents' = relayEvents
      /\ \A s : HeldByEmit(s) => HeldByEmit(s)'
  BY <1>1 DEF emitVars, Seqs, HeldByEmit, Active
<1>3. QED
  BY <1>1, <1>2, StreamFrame

(* Every step of a connection handler keeps its streams gap-free. *)
LEMMA HandlerStream ==
  ASSUME TypeInv, Ownership, Quiet, LogInv, NEW c \in Conn, socket = c, Stream(c),
         HandlerStep(c), Settled \subseteq Settled'
  PROVE  Stream(c)'
<1>1. CASE HandlerReturns(c)
  <2>1. /\ wire'[c] = wire[c] /\ ch'[c] = <<>> /\ hpc'[c] = "closed"
        /\ batch'[c] = {} /\ subscriber' # c
    BY <1>1, ConstantsOK DEF HandlerReturns, Unsubscribe, TypeInv, TypeOK
  <2>2. QED
    BY <2>1, StreamStopped
<1>2. QED
  BY <1>1, SubscribeStream, ListStream, ReplaySendStream, BatchDoneStream,
     LiveSendStream, LiveSkipStream DEF HandlerStep, SendFails, ReplayQueryFails

\* Steps of the consumer's cursor, the purge, the network and a relay restart.
LEMMA OtherStream ==
  ASSUME TypeInv, NEW c \in Conn, Stream(c), Settled \subseteq Settled',
         UpdateRelayCursor \/ PurgeOldEvents \/ LoseConnection \/ RelayRestart
  PROVE  Stream(c)'
<1>1. CASE RelayRestart
  <2>1. /\ wire'[c] = wire[c] /\ ch'[c] = <<>> /\ hpc'[c] = "closed"
        /\ batch'[c] = {} /\ subscriber' # c
    BY <1>1, ConstantsOK DEF RelayRestart
  <2>2. QED
    BY <2>1, StreamStopped
<1>2. CASE UpdateRelayCursor \/ PurgeOldEvents \/ LoseConnection
  <2>1. UNCHANGED <<serverVars, wire, lastSeq, emitPc, emitSeq>>
    BY <1>2 DEF UpdateRelayCursor, PurgeOldEvents, LoseConnection, emitVars
  <2>2. Seqs' = Seqs /\ \A s : HeldByEmit(s) => HeldByEmit(s)'
    BY <2>1 DEF Seqs, HeldByEmit, Active
  <2>3. \A s \in relayEvents : s \in relayEvents' \/ s \in Settled'
    <3>1. CASE PurgeOldEvents
      BY <3>1 DEF PurgeOldEvents, Settled, TypeInv, TypeOK, Seqs
    <3>2. CASE UpdateRelayCursor \/ LoseConnection
      BY <3>2 DEF UpdateRelayCursor, LoseConnection, emitVars
    <3>3. QED
      BY <1>2, <3>1, <3>2
  <2>4. QED
    BY <2>1, <2>2, <2>3, StreamFrame DEF serverVars
<1>3. QED
  BY <1>1, <1>2

\* Whichever connection the instance reads after a step, its stream has no gap.
LEMMA StreamStep ==
  ASSUME TypeInv, NoGap, Next, Settled \subseteq Settled', NEW c \in Conn, socket' = c
  PROVE  Stream(c)'
<1> USE DEF NoGap
<1>1. ASSUME NEW e \in Emitter, EmitStep(e) PROVE Stream(c)'
  <2>1. socket = c
    BY <1>1 DEF EmitStep, DrawSeq, AppendEvent, AppendEventFails, Broadcast, clientVars
  <2>2. QED
    BY <1>1, <2>1, EmitStream
<1>2. ASSUME NEW d \in Conn, HandlerStep(d) PROVE Stream(c)'
  <2>1. socket = c
    BY <1>2 DEF HandlerStep, Subscribe, ListEventsSince, ReplaySend, ReplayBatchDone,
                LiveSend, LiveSkip, SendFails, ReplayQueryFails, HandlerReturns, clientVars
  <2>2. QED
    BY <1>2, <2>1, HandlerStream, OtherHandlerStream
<1>3. ASSUME NEW d \in Conn, ConsumerStep(d) PROVE Stream(c)'
  <2>1. CASE Dial(d)
    BY <2>1, DialStream DEF Dial
  <2>2. CASE ProcessEvent(d)
    BY <2>2, ProcessStream DEF ProcessEvent
  <2>3. CASE ReceiveEOF(d)
    BY <2>3, ConstantsOK DEF ReceiveEOF
  <2>4. QED
    BY <1>3, <2>1, <2>2, <2>3 DEF ConsumerStep
<1>4. CASE UpdateRelayCursor \/ PurgeOldEvents \/ LoseConnection \/ RelayRestart
  <2>1. socket = c
    BY <1>4, ConstantsOK DEF UpdateRelayCursor, PurgeOldEvents, LoseConnection,
                             RelayRestart, clientVars
  <2>2. QED
    BY <1>4, <2>1, OtherStream
<1>5. QED
  BY <1>1, <1>2, <1>3, <1>4 DEF Next

-----------------------------------------------------------------------------
(* The invariant and what follows from it *)

DeliveryInv == TypeInv /\ NoGap

(* The initial states satisfy the inductive invariant. *)
LEMMA InitDelivery == Init => DeliveryInv
<1> SUFFICES ASSUME Init PROVE NoGap
  BY InitType DEF DeliveryInv
<1>1. Ownership /\ Quiet
  BY ConstantsOK DEF Init, Ownership, Quiet, Open
<1>2. LogInv /\ CursorInv
  BY DEF Init, LogInv, CursorInv, Active, Seqs
<1>3. \A c \in Conn : socket # c
  BY ConstantsOK DEF Init
<1>4. QED
  BY <1>1, <1>2, <1>3 DEF NoGap

(* Every step, or stutter, keeps the inductive invariant. *)
LEMMA NextDelivery == DeliveryInv /\ [Next]_vars => DeliveryInv'
<1> SUFFICES ASSUME DeliveryInv, [Next]_vars PROVE DeliveryInv'
  OBVIOUS
<1>1. TypeInv /\ NoGap /\ TypeInv'
  BY NextType DEF DeliveryInv
<1>2. CASE Next
  <2>1. Settled \subseteq Settled'
    BY <1>2, SettledGrows
  <2>2. Ownership' /\ Quiet'
    BY <1>1, <1>2, OwnershipStep, QuietStep DEF NoGap
  <2>3. LogInv' /\ CursorInv'
    BY <1>1, <1>2, <2>1, LogStep, CursorStep DEF NoGap
  <2>4. \A c \in Conn : socket' = c => Stream(c)'
    BY <1>1, <1>2, <2>1, StreamStep
  <2>5. QED
    BY <1>1, <2>2, <2>3, <2>4 DEF DeliveryInv, NoGap
<1>3. CASE UNCHANGED vars
  <2>1. UNCHANGED <<emitVars, serverVars, wire, clientVars, overtaken, Settled, Seqs>>
    BY <1>3 DEF vars, emitVars, serverVars, clientVars, history, Settled, Seqs
  <2>2. Ownership' /\ Quiet'
    BY <1>1, <2>1 DEF NoGap, Ownership, Quiet, Open, serverVars, clientVars
  <2>3. LogInv' /\ CursorInv'
    BY <1>1, <2>1, LogFrame DEF NoGap, CursorInv, clientVars
  <2>4. ASSUME NEW c \in Conn, socket' = c PROVE Stream(c)'
    <3>1. Stream(c) /\ \A s : HeldByEmit(s) => HeldByEmit(s)'
      BY <1>1, <2>1, <2>4 DEF NoGap, HeldByEmit, Active, emitVars, clientVars
    <3>2. QED
      BY <1>1, <2>1, <3>1, StreamFrame DEF serverVars, emitVars
  <2>5. QED
    BY <1>1, <2>2, <2>3, <2>4 DEF DeliveryInv, NoGap
<1>4. QED
  BY <1>2, <1>3

(* The inductive invariant of the delivery protocol: the relay's handlers and the
   consumer of relay_consumer.go leave no unexcused gap in any reachable state. *)
THEOREM DeliveryInvariant == Spec => []DeliveryInv
BY InitDelivery, NextDelivery, PTL DEF Spec

\* The stored cursor never passes an event that is not accounted for.
THEOREM CursorSafe == Spec => []CursorAccounted
<1>1. DeliveryInv => CursorAccounted
  BY DEF DeliveryInv, NoGap, CursorInv, CursorAccounted, Accounted
<1>2. QED
  BY <1>1, DeliveryInvariant, PTL

\* The teardown of an older connection never unregisters the one being read.
THEOREM RegistrationSafe == Spec => []LiveConnectionRegistered
<1>1. DeliveryInv => LiveConnectionRegistered
  BY DEF DeliveryInv, NoGap, Ownership, Open, LiveConnectionRegistered
<1>2. QED
  BY <1>1, DeliveryInvariant, PTL

\* From registration on, every event drawn is accounted for or on its way.
THEOREM ReplayComplete == Spec => []NothingMissedDuringReplay
<1>1. DeliveryInv => NothingMissedDuringReplay
  BY DEF DeliveryInv, NoGap, Stream, Reach, NothingMissedDuringReplay
<1>2. QED
  BY <1>1, DeliveryInvariant, PTL

\* The live loop's comparison of seqs skips nothing the instance still needs.
THEOREM SkipsSafe == Spec => SkipsOnlyAccounted
<1>1. DeliveryInv /\ [Next]_vars =>
        [\A c \in Conn : LiveSkip(c) /\ socket = c => Sent(c, Head(ch[c]))]_vars
  BY SkippedWasSent DEF DeliveryInv, NoGap
<1>2. QED
  BY <1>1, DeliveryInvariant, PTL DEF Spec, SkipsOnlyAccounted

\* The protocol implements EventDelivery, its position being the stored cursor.
THEOREM Refinement == Spec => ImplementsDelivery
<1>1. Init => Delivery!Init
  BY DEF Init, Delivery!Init, Settled
<1>2. DeliveryInv /\ DeliveryInv' /\ [Next]_vars =>
        [Delivery!Next]_<<lastSeq, Settled, relayCursor>>
  <2>1. SUFFICES ASSUME DeliveryInv, DeliveryInv', Next
                 PROVE  [Delivery!Next]_<<lastSeq, Settled, relayCursor>>
    BY DEF vars, emitVars, clientVars, history, Settled
  <2>2. Settled \subseteq Settled' /\ Settled' \subseteq Seqs'
    BY <2>1, SettledGrows DEF DeliveryInv, TypeInv, TypeOK
  <2>3. CASE UNCHANGED <<lastSeq, relayCursor>>
    <3>1. Settled' \in SUBSET (1..lastSeq) /\ Settled' = Settled \union Settled'
      BY <2>2, <2>3 DEF Seqs
    <3>2. QED
      BY <2>3, <3>1 DEF Delivery!Next, Delivery!Settle
  <2>4. ASSUME NEW e \in Emitter, DrawSeq(e) PROVE Delivery!Publish
    BY <2>4 DEF DrawSeq, Delivery!Publish, history, clientVars, Settled
  <2>5. ASSUME UpdateRelayCursor, relayCursor' # relayCursor PROVE Delivery!Move
    <3>1. /\ relayCursor' = inflight /\ inflight \in 1..lastSeq /\ lastSeq' = lastSeq
          /\ Settled' = Settled
      BY <2>1, <2>5 DEF UpdateRelayCursor, emitVars, history, Settled, DeliveryInv,
                        TypeInv, TypeOK, InRange, Seqs
    <3>2. 1..inflight \subseteq Settled /\ inflight \in 0..lastSeq
      BY <2>1, <3>1 DEF DeliveryInv, NoGap, CursorInv, TypeInv, TypeOK
    <3>3. QED
      BY <3>1, <3>2 DEF Delivery!Move
  <2>6. ASSUME NEW e \in Emitter, EmitStep(e), ~DrawSeq(e)
        PROVE  UNCHANGED <<lastSeq, relayCursor>>
    BY <2>6 DEF EmitStep, AppendEvent, AppendEventFails, Broadcast, clientVars
  <2>7. ASSUME NEW c \in Conn, HandlerStep(c) PROVE UNCHANGED <<lastSeq, relayCursor>>
    BY <2>7 DEF HandlerStep, Subscribe, ListEventsSince, ReplaySend, ReplayBatchDone,
                LiveSend, LiveSkip, SendFails, ReplayQueryFails, HandlerReturns,
                emitVars, clientVars
  <2>8. ASSUME NEW c \in Conn, ConsumerStep(c) PROVE UNCHANGED <<lastSeq, relayCursor>>
    BY <2>8 DEF ConsumerStep, Dial, ProcessEvent, ReceiveEOF, emitVars
  <2>9. CASE UpdateRelayCursor \/ PurgeOldEvents \/ LoseConnection \/ RelayRestart
    <3>1. lastSeq' = lastSeq
      BY <2>9 DEF UpdateRelayCursor, PurgeOldEvents, LoseConnection, RelayRestart, emitVars
    <3>2. ~UpdateRelayCursor => relayCursor' = relayCursor
      BY <2>9 DEF PurgeOldEvents, LoseConnection, RelayRestart, clientVars
    <3>3. QED
      BY <2>3, <2>5, <3>1, <3>2 DEF Delivery!Next
  <2>10. QED
    BY <2>1, <2>3, <2>4, <2>6, <2>7, <2>8, <2>9 DEF Next, Delivery!Next
<1>3. QED
  BY <1>1, <1>2, DeliveryInvariant, PTL DEF Spec, ImplementsDelivery, Delivery!Spec

=============================================================================
