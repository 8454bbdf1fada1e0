---------------------------- MODULE RelayEventsInv ----------------------------
(***************************************************************************)
(* The inductive invariant behind the safety properties of RelayEvents.    *)
(* It follows an event from the emit that draws its seq to the instance,   *)
(* and says at each stage where every lower seq is.                        *)
(***************************************************************************)
EXTENDS RelayEvents

Open(c) == hpc[c] \in {"list", "replay", "live"}

\* Who holds the registration of the instance.
Ownership ==
  \A c \in Conn :
    /\ socket = c /\ Open(c) => subscriber = c
    /\ subscriber = c => Open(c)
    /\ hpc[c] = "accepted" => socket \in {c, NoConn}

\* What a handler holds in the phases that do not use it.
Quiet ==
  \A c \in Conn :
    /\ hpc[c] \in {"closed", "accepted"} => ch[c] = <<>>
    /\ hpc[c] # "replay" => batch[c] = {}
    /\ hpc[c] = "accepted" => replayCursor[c] = hCursor[c]

\* The log: every seq drawn has a row, a fate or an emit; an emit with a later
\* row before its own send has been overtaken.
LogInv ==
  /\ \A e, o \in Emitter : Active(e) /\ Active(o) /\ emitSeq[e] = emitSeq[o] => e = o
  /\ \A e \in Emitter : emitPc[e] = "send" => emitSeq[e] \in relayEvents
  /\ \A s \in relayEvents, e \in Emitter :
       Active(e) /\ emitSeq[e] < s => emitSeq[e] \in overtaken
  /\ \A s \in Seqs : s \in relayEvents \/ Accounted(s) \/ HeldByEmit(s)

\* The stored cursor, and the one about to be stored.
CursorInv ==
  /\ \A s \in 1..relayCursor : s \in Settled
  /\ \A s \in 1..inflight : s \in Settled

\* Every number below an element of q is in D or earlier in q.
GapFree(q, D) ==
  \A i \in 1..Len(q) : \A t \in 1..(q[i] - 1) :
    t \in D \/ \E j \in 1..(i - 1) : q[j] = t

\* What the instance has on connection c or the replay will bring.
Reach(c) == {s \in Seqs : Sent(c, s) \/ s \in batch[c] \/ Upcoming(c, s)}

\* The connection the instance reads has no gap in its frames, behind its two
\* cursors, in its batch, in its channel, or before the registration.
Stream(c) ==
  /\ GapFree(wire[c], Settled)
  /\ hpc[c] # "closed" => \A s \in 1..replayCursor[c] : Sent(c, s)
  /\ hpc[c] # "closed" => \A s \in 1..hCursor[c] : Sent(c, s)
  /\ \A s \in batch[c] : \A t \in 1..(s - 1) : Sent(c, t) \/ t \in batch[c]
  /\ GapFree(ch[c], Reach(c))
  /\ subscriber = c =>
       \A s \in Seqs : s \in Reach(c) \/ InSeq(ch[c], s) \/ HeldByEmit(s)

\* The inductive invariant, the types apart: no event falls between the log,
\* the replay, the channel, the frames and the cursor.
NoGap ==
  /\ Ownership /\ Quiet /\ LogInv /\ CursorInv
  /\ \A c \in Conn : socket = c => Stream(c)

=============================================================================
