----------------------------- MODULE RelayEvents -----------------------------
(***************************************************************************)
(* The relay's outbound event log and its delivery to one Sunred instance. *)
(*                                                                         *)
(*   emit          (fanout.go)         goroutines append a row to          *)
(*                                     relay_events, then broadcast it     *)
(*   subscribeEvents (server.go)       one handler per WebSocket: register *)
(*                                     a channel, replay, stream live      *)
(*   RelayConsumer (relay_consumer.go) the instance: dial with the stored  *)
(*                                     cursor, process, store the cursor   *)
(*                                                                         *)
(* An event is its seq.  The relay keeps one channel per instance URL and  *)
(* instances share nothing but the log, so one instance is modelled; its   *)
(* successive connections overlap, because the relay notices a dead socket *)
(* only when a send on it fails.                                           *)
(***************************************************************************)
EXTENDS Integers, Sequences, FiniteSets

CONSTANTS
  Emitter,    \* goroutines that call emit (workers, backfills, refreshes)
  Conn,       \* slots for subscribeEvents connections
  NoConn,     \* no connection
  ChanCap,    \* capacity of a subscriber channel (256 in the code)
  BatchSize,  \* rows read by one replay query (200 in the code)
  WireCap,    \* bound: frames in flight on one socket
  MaxSeq,     \* bound: events ever emitted
  MaxBreaks,  \* bound: lost connections and relay restarts
  Faults,     \* do the databases and the event handlers return errors?
  Purging     \* does the hourly purge reach events of this run?

ASSUME ConstantsOK ==
  /\ NoConn \notin Conn
  /\ ChanCap \in Nat \ {0} /\ BatchSize \in Nat \ {0} /\ WireCap \in Nat \ {0}
  /\ MaxSeq \in Nat /\ MaxBreaks \in Nat
  /\ Faults \in BOOLEAN /\ Purging \in BOOLEAN

VARIABLES
  lastSeq,      \* the BIGSERIAL behind relay_events.seq
  relayEvents,  \* committed rows
  emitPc,       \* emit: "idle", "insert" (seq drawn, row not committed), "send"
  emitSeq,      \* the seq an active emit holds
  subscriber,   \* Fanout.subscribers[instanceURL]
  ch,           \* the channel each handler received from Subscribe
  hpc,          \* handler: "closed", "accepted", "list", "replay", "live"
  hCursor,      \* handleSubscribeEvents' cursor
  replayCursor, \* replaySince's own copy of it
  batch,        \* rows of the current replay query not sent yet
  more,         \* that query returned BatchSize rows
  wire,         \* frames sent and not received
  socket,       \* the connection RelayConsumer holds
  inflight,     \* event processed whose cursor is not stored yet, or 0
  relayCursor,  \* atproto_relay_cursor.cursor_seq
  breaks        \* lost connections and restarts so far

\* History: what became of each event.
VARIABLES
  processed,    \* its handler succeeded on the instance
  failed,       \* its handler returned an error, which is logged only
  dropped,      \* the subscriber channel was full
  overtaken,    \* a later event was committed before its emit had finished
  missed,       \* broadcast before a connection that does not replay registered
  purged,       \* purged from the log
  burned        \* its emit gave up before the broadcast

emitVars   == <<lastSeq, relayEvents, emitPc, emitSeq>>
serverVars == <<subscriber, ch, hpc, hCursor, replayCursor, batch, more>>
clientVars == <<socket, inflight, relayCursor>>
history    == <<processed, failed, dropped, overtaken, missed, purged, burned>>
vars       == <<emitVars, serverVars, wire, clientVars, breaks, history>>

Init ==
  /\ lastSeq = 0 /\ relayEvents = {}
  /\ emitPc = [e \in Emitter |-> "idle"] /\ emitSeq = [e \in Emitter |-> 0]
  /\ subscriber = NoConn
  /\ ch = [c \in Conn |-> <<>>]
  /\ hpc = [c \in Conn |-> "closed"]
  /\ hCursor = [c \in Conn |-> 0] /\ replayCursor = [c \in Conn |-> 0]
  /\ batch = [c \in Conn |-> {}] /\ more = [c \in Conn |-> FALSE]
  /\ wire = [c \in Conn |-> <<>>]
  /\ socket = NoConn /\ inflight = 0 /\ relayCursor = 0
  /\ breaks = 0
  /\ processed = {} /\ failed = {} /\ dropped = {} /\ overtaken = {}
  /\ missed = {} /\ purged = {} /\ burned = {}

-----------------------------------------------------------------------------
(* emit *)

Active(e) == emitPc[e] # "idle"

\* The INSERT draws its seq before its row becomes visible.
DrawSeq(e) ==
  /\ ~Active(e) /\ lastSeq < MaxSeq
  /\ lastSeq' = lastSeq + 1
  /\ emitPc' = [emitPc EXCEPT ![e] = "insert"]
  /\ emitSeq' = [emitSeq EXCEPT ![e] = lastSeq + 1]
  /\ UNCHANGED <<relayEvents, serverVars, wire, clientVars, breaks, history>>

\* The row of emit e becomes visible, ahead of the emits of lower seqs.
CommitRow(e) ==
  /\ relayEvents' = relayEvents \union {emitSeq[e]}
  /\ overtaken' = overtaken \union
       {s \in 1..(emitSeq[e] - 1) : \E o \in Emitter : Active(o) /\ emitSeq[o] = s}

AppendEvent(e) ==
  /\ emitPc[e] = "insert"
  /\ CommitRow(e)
  /\ emitPc' = [emitPc EXCEPT ![e] = "send"]
  /\ UNCHANGED <<lastSeq, emitSeq, serverVars, wire, clientVars, breaks,
                 processed, failed, dropped, missed, purged, burned>>

\* AppendEvent returns an error: emit gives up.  The seq stays unused, or the row
\* is there after all, when only the answer was lost.
AppendEventFails(e) ==
  /\ Faults /\ emitPc[e] = "insert"
  /\ CommitRow(e) \/ UNCHANGED <<relayEvents, overtaken>>
  /\ emitPc' = [emitPc EXCEPT ![e] = "idle"]
  /\ burned' = burned \union {emitSeq[e]}
  /\ UNCHANGED <<lastSeq, emitSeq, serverVars, wire, clientVars,
                 breaks, processed, failed, dropped, missed, purged>>

\* The send in emit's select: never blocks, drops when the channel is full.
SendToSubscriber(seq) ==
  \/ /\ subscriber = NoConn
     /\ UNCHANGED <<ch, dropped>>
  \/ /\ subscriber # NoConn /\ Len(ch[subscriber]) < ChanCap
     /\ ch' = [ch EXCEPT ![subscriber] = Append(@, seq)]
     /\ UNCHANGED dropped
  \/ /\ subscriber # NoConn /\ Len(ch[subscriber]) >= ChanCap
     /\ dropped' = dropped \union {seq}
     /\ UNCHANGED ch

Broadcast(e) ==
  /\ emitPc[e] = "send"
  /\ SendToSubscriber(emitSeq[e])
  /\ emitPc' = [emitPc EXCEPT ![e] = "idle"]
  /\ UNCHANGED <<lastSeq, relayEvents, emitSeq, subscriber, hpc, hCursor,
                 replayCursor, batch, more, wire, clientVars, breaks,
                 processed, failed, overtaken, missed, purged, burned>>

\* PurgeOldEvents deletes the oldest rows; retention far exceeds one emit.
PurgeOldEvents ==
  /\ Purging
  /\ \E cut \in relayEvents :
       /\ \A e \in Emitter : Active(e) => emitSeq[e] > cut
       /\ relayEvents' = {s \in relayEvents : s > cut}
       /\ purged' = purged \union {s \in relayEvents : s <= cut}
  /\ UNCHANGED <<lastSeq, emitPc, emitSeq, serverVars, wire, clientVars, breaks,
                 processed, failed, dropped, overtaken, missed, burned>>

-----------------------------------------------------------------------------
(* handleSubscribeEvents and replaySince *)

\* Is some emit about to broadcast s?
BeingSent(s) == \E e \in Emitter : emitPc[e] = "send" /\ emitSeq[e] = s

Subscribe(c) ==
  /\ hpc[c] = "accepted"
  /\ subscriber' = c
  /\ hpc' = [hpc EXCEPT ![c] = IF hCursor[c] > 0 THEN "list" ELSE "live"]
  /\ missed' = IF hCursor[c] = 0 /\ socket = c
               THEN missed \union {s \in relayEvents : ~BeingSent(s)}
               ELSE missed
  /\ UNCHANGED <<emitVars, ch, hCursor, replayCursor, batch, more, wire,
                 clientVars, breaks, processed, failed, dropped, overtaken,
                 purged, burned>>

\* Mutation of RowsAfter: off by one at the cursor.
RowsAfterNext(cursor) == {s \in relayEvents : s > cursor + 1}

RowsAfter(cursor) == {s \in relayEvents : s > cursor}

\* ORDER BY seq LIMIT n: the lowest rows, n of them or all there are.
IsFirstRows(rows, all, n) ==
  /\ rows \subseteq all
  /\ \A s \in rows, t \in all : t < s => t \in rows
  /\ Cardinality(rows) <= n
  /\ rows = all \/ Cardinality(rows) = n

ListEventsSince(c) ==
  /\ hpc[c] = "list"
  /\ \E cut \in 0..lastSeq :
       LET all  == RowsAfter(replayCursor[c])
           rows == {s \in all : s <= cut}
       IN  /\ IsFirstRows(rows, all, BatchSize)
           /\ batch' = [batch EXCEPT ![c] = rows]
           /\ more' = [more EXCEPT ![c] = (Cardinality(rows) = BatchSize)]
  /\ hpc' = [hpc EXCEPT ![c] = "replay"]
  /\ UNCHANGED <<emitVars, subscriber, ch, hCursor, replayCursor, wire,
                 clientVars, breaks, history>>

CanSend(c) == Len(wire[c]) < WireCap

ReplaySend(c) ==
  /\ hpc[c] = "replay" /\ CanSend(c)
  /\ \E s \in batch[c] :
       /\ \A t \in batch[c] : s <= t
       /\ wire' = [wire EXCEPT ![c] = Append(@, s)]
       /\ batch' = [batch EXCEPT ![c] = @ \ {s}]
       /\ replayCursor' = [replayCursor EXCEPT ![c] = s]
  /\ UNCHANGED <<emitVars, subscriber, ch, hpc, hCursor, more, clientVars,
                 breaks, history>>

\* Mutation of ReplayBatchDone: only one batch is replayed.
ReplayOneBatch(c) ==
  /\ hpc[c] = "replay" /\ batch[c] = {}
  /\ hpc' = [hpc EXCEPT ![c] = "live"]
  /\ UNCHANGED <<emitVars, subscriber, ch, hCursor, replayCursor, batch, more,
                 wire, clientVars, breaks, history>>

\* Mutation of ReplayBatchDone: the live loop starts at the newest seq.
ReplayThenJump(c) ==
  /\ hpc[c] = "replay" /\ batch[c] = {}
  /\ hpc' = [hpc EXCEPT ![c] = IF more[c] THEN "list" ELSE "live"]
  /\ hCursor' = [hCursor EXCEPT ![c] = IF more[c] THEN @ ELSE lastSeq]
  /\ UNCHANGED <<emitVars, subscriber, ch, replayCursor, batch, more,
                 wire, clientVars, breaks, history>>

\* A short batch ends the replay; a full one asks for the next.
ReplayBatchDone(c) ==
  /\ hpc[c] = "replay" /\ batch[c] = {}
  /\ hpc' = [hpc EXCEPT ![c] = IF more[c] THEN "list" ELSE "live"]
  /\ UNCHANGED <<emitVars, subscriber, ch, hCursor, replayCursor, batch, more,
                 wire, clientVars, breaks, history>>

LiveSend(c) ==
  /\ hpc[c] = "live" /\ ch[c] # <<>> /\ CanSend(c)
  /\ Head(ch[c]) > hCursor[c]
  /\ wire' = [wire EXCEPT ![c] = Append(@, Head(ch[c]))]
  /\ hCursor' = [hCursor EXCEPT ![c] = Head(ch[c])]
  /\ ch' = [ch EXCEPT ![c] = Tail(@)]
  /\ UNCHANGED <<emitVars, subscriber, hpc, replayCursor, batch, more,
                 clientVars, breaks, history>>

LiveSkip(c) ==
  /\ hpc[c] = "live" /\ ch[c] # <<>>
  /\ Head(ch[c]) <= hCursor[c]
  /\ ch' = [ch EXCEPT ![c] = Tail(@)]
  /\ UNCHANGED <<emitVars, subscriber, hpc, hCursor, replayCursor, batch, more,
                 wire, clientVars, breaks, history>>

\* Mutation of Unsubscribe: the entry is deleted whatever it holds.
UnsubscribeAny(c) == subscriber' = NoConn

\* Unsubscribe: only the channel still registered is removed.
Unsubscribe(c) ==
  subscriber' = IF subscriber = c THEN NoConn ELSE subscriber

\* The handler returns: its deferred Unsubscribe runs, its channel is garbage.
HandlerReturns(c) ==
  /\ hpc' = [hpc EXCEPT ![c] = "closed"]
  /\ Unsubscribe(c)
  /\ ch' = [ch EXCEPT ![c] = <<>>]
  /\ batch' = [batch EXCEPT ![c] = {}]
  /\ UNCHANGED <<emitVars, hCursor, replayCursor, more, wire, clientVars,
                 breaks, history>>

\* A send or a keepalive ping on a dead socket fails.
SendFails(c) ==
  /\ hpc[c] \in {"replay", "live"} /\ socket # c
  /\ HandlerReturns(c)

ReplayQueryFails(c) ==
  /\ Faults /\ hpc[c] = "list"
  /\ HandlerReturns(c)

-----------------------------------------------------------------------------
(* RelayConsumer *)

\* connect: the cursor is read, and is 0 when the read fails; with 0 no cursor
\* is sent and the relay replays nothing.  The consumer waits five seconds
\* after a lost connection, so the relay has run the first statements of every
\* handler it accepted before.
Dial(c) ==
  /\ socket = NoConn /\ hpc[c] = "closed"
  /\ \A d \in Conn : hpc[d] # "accepted"
  /\ socket' = c
  /\ hpc' = [hpc EXCEPT ![c] = "accepted"]
  /\ \E cursor \in {relayCursor} \union (IF Faults THEN {0} ELSE {}) :
       /\ hCursor' = [hCursor EXCEPT ![c] = cursor]
       /\ replayCursor' = [replayCursor EXCEPT ![c] = cursor]
  /\ wire' = [wire EXCEPT ![c] = <<>>]
  /\ UNCHANGED <<emitVars, subscriber, ch, batch, more, inflight, relayCursor,
                 breaks, history>>

\* Receive a frame and run its handler; an error is only logged.
ProcessEvent(c) ==
  /\ socket = c /\ inflight = 0 /\ wire[c] # <<>>
  /\ inflight' = Head(wire[c])
  /\ wire' = [wire EXCEPT ![c] = Tail(@)]
  /\ \/ /\ processed' = processed \union {Head(wire[c])}
        /\ UNCHANGED failed
     \/ /\ Faults
        /\ failed' = failed \union {Head(wire[c])}
        /\ UNCHANGED processed
  /\ UNCHANGED <<emitVars, serverVars, socket, relayCursor, breaks,
                 dropped, overtaken, missed, purged, burned>>

UpdateRelayCursor ==
  /\ inflight # 0
  /\ inflight' = 0
  /\ \/ relayCursor' = inflight
     \/ Faults /\ UNCHANGED relayCursor
  /\ UNCHANGED <<emitVars, serverVars, wire, socket, breaks, history>>

\* The relay closed the connection and every frame has been read.
ReceiveEOF(c) ==
  /\ socket = c /\ hpc[c] = "closed" /\ wire[c] = <<>> /\ inflight = 0
  /\ socket' = NoConn
  /\ UNCHANGED <<emitVars, serverVars, wire, inflight, relayCursor, breaks,
                 history>>

\* The network fails, or the instance stops, perhaps between processing an
\* event and storing its cursor.  Frames not read are lost with the socket.
LoseConnection ==
  /\ socket # NoConn /\ breaks < MaxBreaks
  /\ socket' = NoConn /\ inflight' = 0
  /\ breaks' = breaks + 1
  /\ UNCHANGED <<emitVars, serverVars, wire, relayCursor, history>>

\* The relay process stops and starts: only its database survives.
RelayRestart ==
  /\ breaks < MaxBreaks
  /\ breaks' = breaks + 1
  /\ burned' = burned \union
       {s \in 1..lastSeq : \E e \in Emitter : emitPc[e] = "insert" /\ emitSeq[e] = s}
  /\ emitPc' = [e \in Emitter |-> "idle"]
  /\ subscriber' = NoConn
  /\ hpc' = [c \in Conn |-> "closed"]
  /\ ch' = [c \in Conn |-> <<>>]
  /\ batch' = [c \in Conn |-> {}]
  /\ UNCHANGED <<lastSeq, relayEvents, emitSeq, hCursor, replayCursor, more,
                 wire, clientVars, processed, failed, dropped, overtaken,
                 missed, purged>>

-----------------------------------------------------------------------------

EmitStep(e) == DrawSeq(e) \/ AppendEvent(e) \/ AppendEventFails(e) \/ Broadcast(e)

HandlerStep(c) ==
  \/ Subscribe(c) \/ ListEventsSince(c) \/ ReplaySend(c) \/ ReplayBatchDone(c)
  \/ LiveSend(c) \/ LiveSkip(c) \/ SendFails(c) \/ ReplayQueryFails(c)

ConsumerStep(c) == Dial(c) \/ ProcessEvent(c) \/ ReceiveEOF(c)

Next ==
  \/ \E e \in Emitter : EmitStep(e)
  \/ \E c \in Conn : HandlerStep(c) \/ ConsumerStep(c)
  \/ UpdateRelayCursor
  \/ PurgeOldEvents
  \/ LoseConnection
  \/ RelayRestart

Spec == Init /\ [][Next]_vars

\* Goroutines keep running: an emit finishes, a handler with something to do
\* does it (the 30 s ping finds a dead socket), the consumer reads and redials.
\* Nothing obliges a further event, an error, a purge or a lost connection.
Fairness ==
  /\ \A e \in Emitter : WF_vars(AppendEvent(e) \/ AppendEventFails(e) \/ Broadcast(e))
  /\ \A c \in Conn : WF_vars(HandlerStep(c))
  /\ WF_vars(UpdateRelayCursor \/ \E c \in Conn : ConsumerStep(c))

FairSpec == Spec /\ Fairness

-----------------------------------------------------------------------------
(* Properties *)

Seqs == 1..lastSeq

\* The events processed, or excused from it by one of the six fates.
Settled ==
  processed \union failed \union dropped \union overtaken
    \union missed \union purged \union burned

Accounted(s) == s \in Settled

\* Type invariant.
TypeOK ==
  /\ lastSeq \in Nat /\ relayEvents \subseteq Seqs
  /\ emitPc \in [Emitter -> {"idle", "insert", "send"}]
  /\ emitSeq \in [Emitter -> Nat]
  /\ subscriber \in Conn \union {NoConn} /\ socket \in Conn \union {NoConn}
  /\ ch \in [Conn -> Seq(Nat \ {0})] /\ wire \in [Conn -> Seq(Nat \ {0})]
  /\ hpc \in [Conn -> {"closed", "accepted", "list", "replay", "live"}]
  /\ hCursor \in [Conn -> Nat] /\ replayCursor \in [Conn -> Nat]
  /\ batch \in [Conn -> SUBSET (Nat \ {0})] /\ more \in [Conn -> BOOLEAN]
  /\ inflight \in Nat /\ relayCursor \in Nat /\ breaks \in Nat
  /\ Settled \subseteq Seqs

\* The stored cursor never passes an event silently: each event at or below it
\* was processed or has met a fate named above, whatever the interleaving of
\* emitters, replays, overlapping connections, restarts and lost frames.
CursorAccounted == \A s \in 1..relayCursor : Accounted(s)

\* The connection the instance reads is the registered one from Subscribe until
\* its handler returns: the teardown of an older connection never unregisters it.
LiveConnectionRegistered ==
  \A c \in Conn :
    socket = c /\ hpc[c] \in {"list", "replay", "live"} => subscriber = c

InSeq(q, s) == \E i \in 1..Len(q) : q[i] = s

\* s has reached the instance's side of connection c, or never will.
Sent(c, s) == Accounted(s) \/ InSeq(wire[c], s)

\* The replay of connection c still has to read row s.
Upcoming(c, s) ==
  /\ hpc[c] = "list" \/ (hpc[c] = "replay" /\ more[c])
  /\ s \in relayEvents /\ s > replayCursor[c]

HeldByEmit(s) == \E e \in Emitter : Active(e) /\ emitSeq[e] = s

\* "Register for live events first so nothing is missed during replay": every
\* seq drawn so far is accounted for or on its way, in a frame, in the batch,
\* in a row the replay will read, in the channel, or in an emit not yet done.
NothingMissedDuringReplay ==
  \A c \in Conn : socket = c /\ subscriber = c =>
    \A s \in Seqs :
      \/ Sent(c, s) \/ s \in batch[c] \/ Upcoming(c, s)
      \/ InSeq(ch[c], s) \/ HeldByEmit(s)

\* The live loop discards an event only when the instance already has it, will
\* read it from a frame under way, or is excused from it.
SkipsOnlyAccounted ==
  [][\A c \in Conn : LiveSkip(c) /\ socket = c => Sent(c, Head(ch[c]))]_vars

\* Every event is in the end processed or excused, across lost connections and
\* restarts of either side.
EveryEventSettles == \A s \in 1..MaxSeq : s <= lastSeq ~> Accounted(s)

\* The promise: EventDelivery, its position being the stored cursor.
Delivery == INSTANCE EventDelivery WITH
  published <- lastSeq,
  settled   <- Settled,
  position  <- relayCursor

\* The protocol implements its promise.
ImplementsDelivery == Delivery!Spec

\* s still has somewhere to come from without a further replay.
OnItsWay(s) ==
  \/ HeldByEmit(s)
  \/ \E c \in Conn : InSeq(ch[c], s) \/ InSeq(wire[c], s) \/ s \in batch[c]

\* The documented intent the code misses: the consumer "can resume after a
\* restart without losing events".  Once the cursor has passed an event that
\* is not on its way, no replay will bring it.  Events broadcast before the
\* first registration of an instance without a cursor are not counted.
NoEventLost ==
  \A s \in 1..relayCursor :
    s \in relayEvents => s \in processed \union missed \/ OnItsWay(s)

=============================================================================
