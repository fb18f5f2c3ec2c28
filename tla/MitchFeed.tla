---- MODULE MitchFeed ----
(***************************************************************************)
(* The MITCH sequencer between the exchange and a handler that rebuilds    *)
(* books: two multicast lines carry the same packets, lose any of them     *)
(* independently and keep their order; gaps are refilled over the Replay   *)
(* channel or by a snapshot; the exchange may fail over to its backup      *)
(* site, whose sequence starts again at 1.                                 *)
(*                                                                         *)
(* The sequencer is the code's (MitchSequencer).  The exchange, its lines  *)
(* and its recovery servers are external, and so is the handler, which     *)
(* src/ only shows in use: it applies what observe says to apply, holds    *)
(* the packets that arrive over a gap, refills, drains them and calls      *)
(* resync (mitch/mod.rs, the tier table of sequencer.rs, and               *)
(* tests/mitch_recovery.rs).                                               *)
(***************************************************************************)
EXTENDS MitchSequencer, Sequences

CONSTANTS
  MaxSeq,              \* bound: messages an exchange site publishes
  MaxEpoch,            \* bound: failovers
  MaxInFlight          \* bound: packets in flight on a line

ASSUME MaxSeqAssumption == MaxSeq \in Nat /\ MaxSeq + 1 < SeqMod
ASSUME MaxEpochAssumption == MaxEpoch \in Nat
ASSUME MaxInFlightAssumption == MaxInFlight \in Nat

VARIABLES
  epoch,       \* exchange: failovers so far
  published,   \* exchange: sequence of the next message of this epoch
  lines,       \* packets in flight on each line, oldest first
  book,        \* handler: messages the books reflect
  held,        \* handler: messages received over a gap and kept for later
  pending,     \* handler: range asked of the Replay channel, or None
  snapFrom,    \* handler: None, or where the feed was when the outstanding
               \* snapshot was requested: it reflects all before that, or more
  lineEpoch,   \* history: epoch of the last messages each line delivered
  streamEpoch  \* history: epoch whose numbers `expected` counts in

exchangeVars == <<epoch, published>>
handlerVars == <<book, held, pending, snapFrom>>
vars == <<seqVars, exchangeVars, lines, handlerVars, lineEpoch, streamEpoch>>

Message == 1 .. MaxSeq
Position == 1 .. MaxSeq + 1
Epoch == 0 .. MaxEpoch
Packet == [epoch : Epoch, seq : Position, count : 0 .. MaxCount]

FeedTypeOK ==
  /\ TypeOK
  /\ expected \in Position \union {None}
  /\ epoch \in Epoch
  /\ published \in Position
  /\ lines \in [Line -> Seq(Packet)]
  /\ book \subseteq Message
  /\ held \subseteq Message
  /\ pending \in [from : Position, to : Message] \union {None}
  /\ snapFrom \in Position \union {None}
  /\ lineEpoch \in [Line -> Epoch]
  /\ streamEpoch \in Epoch

Init ==
  /\ SeqInit
  /\ epoch = 0
  /\ published = 1
  /\ lines = [l \in Line |-> <<>>]
  /\ book = {}
  /\ held = {}
  /\ pending = None
  /\ snapFrom = None
  /\ lineEpoch = [l \in Line |-> 0]
  /\ streamEpoch = 0

\* The books may be published: joined, and no snapshot is awaited.
Live == expected # None /\ snapFrom = None

Messages(pk) == pk.seq .. pk.seq + pk.count - 1

\* next is the first sequence from m on that is not in S: where to resume.
FirstMissing(S, m, next) ==
  /\ next \in m .. MaxSeq + 1
  /\ next \notin S
  /\ m .. next - 1 \subseteq S

----
(* The exchange. *)

\* A packet of n messages is sent on both lines and survives on some.
Publish(n, surviving) ==
  /\ published + n <= MaxSeq + 1
  /\ \A l \in surviving : Len(lines[l]) < MaxInFlight
  /\ lines' = [l \in Line |->
                IF l \in surviving
                THEN Append(lines[l], [epoch |-> epoch, seq |-> published, count |-> n])
                ELSE lines[l]]
  /\ published' = published + n
  /\ UNCHANGED <<seqVars, epoch, handlerVars, lineEpoch, streamEpoch>>

Failover ==
  /\ epoch < MaxEpoch
  /\ epoch' = epoch + 1
  /\ published' = 1
  /\ UNCHANGED <<seqVars, lines, handlerVars, lineEpoch, streamEpoch>>

----
(* A line delivers its oldest packet.  One action for each answer of       *)
(* observe, with what the handler does about it.                           *)

Receive(l) ==
  /\ lines[l] # <<>>
  /\ lines' = [lines EXCEPT ![l] = Tail(@)]
  /\ UNCHANGED exchangeVars

DeliverHeartbeat(l) ==
  LET pk == Head(lines[l]) IN
  /\ Receive(l)
  /\ Heartbeat(pk.seq, pk.count, l)
  /\ UNCHANGED <<handlerVars, lineEpoch, streamEpoch>>

\* Everything is rebuilt from a snapshot of the new stream.
DeliverRestart(l) ==
  LET pk == Head(lines[l]) IN
  /\ Receive(l)
  /\ ExchangeRestart(pk.seq, pk.count, l)
  /\ held' = Messages(pk)
  /\ pending' = None
  /\ snapFrom' = published
  /\ lineEpoch' = [lineEpoch EXCEPT ![l] = pk.epoch]
  /\ streamEpoch' = pk.epoch
  /\ UNCHANGED book

\* Joining the session: there is no book yet, so ask for a snapshot.
DeliverFirst(l) ==
  LET pk == Head(lines[l]) IN
  /\ Receive(l)
  /\ FirstPacket(pk.seq, pk.count, l)
  /\ held' = Messages(pk)
  /\ snapFrom' = published
  /\ lineEpoch' = [lineEpoch EXCEPT ![l] = pk.epoch]
  /\ streamEpoch' = pk.epoch
  /\ UNCHANGED <<book, pending>>

\* Applied to the books, or held while a snapshot is outstanding.
DeliverInOrder(l) ==
  LET pk == Head(lines[l]) IN
  /\ Receive(l)
  /\ InOrder(pk.seq, pk.count, l)
  /\ book' = IF Live THEN book \union Messages(pk) ELSE book
  /\ held' = IF Live THEN held ELSE held \union Messages(pk)
  /\ lineEpoch' = [lineEpoch EXCEPT ![l] = pk.epoch]
  /\ streamEpoch' = pk.epoch
  /\ UNCHANGED <<pending, snapFrom>>

DeliverDuplicate(l) ==
  LET pk == Head(lines[l]) IN
  /\ Receive(l)
  /\ Duplicate(pk.seq, pk.count, l)
  /\ lineEpoch' = [lineEpoch EXCEPT ![l] = pk.epoch]
  /\ UNCHANGED <<handlerVars, streamEpoch>>

\* The packet is held and the missing range asked for, along with what is
\* still missing below an earlier held packet.
DeliverReplayGap(l) ==
  LET pk == Head(lines[l])
      asked == ReplayRange(pk.seq) IN
  /\ Receive(l)
  /\ RequestReplay(pk.seq, pk.count, l)
  /\ pending' = IF pending # None /\ pending.to > asked.to
                THEN [from |-> asked.from, to |-> pending.to]
                ELSE asked
  /\ held' = held \union Messages(pk)
  /\ lineEpoch' = [lineEpoch EXCEPT ![l] = pk.epoch]
  /\ UNCHANGED <<book, snapFrom, streamEpoch>>

\* Buffer live until the snapshot comes.
DeliverSnapshotGap(l) ==
  LET pk == Head(lines[l]) IN
  /\ Receive(l)
  /\ RequestSnapshot(pk.seq, pk.count, l)
  /\ held' = held \union Messages(pk)
  /\ snapFrom' = published
  /\ lineEpoch' = [lineEpoch EXCEPT ![l] = pk.epoch]
  /\ streamEpoch' = pk.epoch
  /\ UNCHANGED <<book, pending>>

Deliver(l) ==
  \/ DeliverHeartbeat(l)
  \/ DeliverRestart(l)
  \/ DeliverFirst(l)
  \/ DeliverInOrder(l)
  \/ DeliverDuplicate(l)
  \/ DeliverReplayGap(l)
  \/ DeliverSnapshotGap(l)

----
(* Recovery. *)

\* The Replay channel still holds all that was asked for.
Servable == published - pending.from <= ReplayWindow /\ pending.to < published

\* The replayed messages fill the gap; what was held after them is drained.
ReplayDone(next) ==
  LET have == held \union (pending.from .. pending.to) IN
  /\ pending # None
  /\ Servable
  /\ FirstMissing(have, expected, next)
  /\ Resync(next)
  /\ book' = IF Live THEN book \union (expected .. next - 1) ELSE book
  /\ held' = IF Live THEN {m \in held : m > next} ELSE have
  /\ pending' = None
  /\ UNCHANGED <<exchangeVars, lines, snapFrom, lineEpoch, streamEpoch>>

\* The window has rolled past the gap: only a snapshot can fill it.
ReplayRefused ==
  /\ pending # None
  /\ ~Servable
  /\ pending' = None
  /\ snapFrom' = published
  /\ UNCHANGED <<seqVars, exchangeVars, lines, book, held, lineEpoch, streamEpoch>>

\* The snapshot reflects every message before p, which may be any since it was
\* asked for, inside a packet or between two; drain what was held after it.
SnapshotDone(p, next) ==
  /\ snapFrom # None
  /\ snapFrom <= p /\ p <= published
  /\ FirstMissing((1 .. p - 1) \union held, 1, next)
  /\ Resync(next)
  /\ book' = 1 .. next - 1
  /\ held' = {m \in held : m > next}
  /\ snapFrom' = None
  /\ streamEpoch' = epoch
  /\ UNCHANGED <<exchangeVars, lines, pending, lineEpoch>>

----
(* A book the handler distrusts is withheld, until it has been rebuilt.    *)

WithholdBook(i) ==
  /\ Quarantine(i)
  /\ UNCHANGED <<exchangeVars, lines, handlerVars, lineEpoch, streamEpoch>>

PublishBook(i) ==
  /\ Live
  /\ Release(i)
  /\ UNCHANGED <<exchangeVars, lines, handlerVars, lineEpoch, streamEpoch>>

Next ==
  \/ \E n \in 0 .. MaxCount, surviving \in SUBSET Line : Publish(n, surviving)
  \/ Failover
  \/ \E l \in Line : Deliver(l)
  \/ \E next \in Position : ReplayDone(next)
  \/ ReplayRefused
  \/ \E p, next \in Position : SnapshotDone(p, next)
  \/ \E i \in Instrument : WithholdBook(i) \/ PublishBook(i)

Spec == Init /\ [][Next]_vars

\* The socket reader keeps reading both lines, and the recovery channels
\* answer.  Nothing obliges the exchange to publish.
Fairness ==
  /\ \A l \in Line : WF_vars(Deliver(l))
  /\ WF_vars(\E next \in Position : ReplayDone(next))
  /\ WF_vars(ReplayRefused)
  /\ WF_vars(\E p, next \in Position : SnapshotDone(p, next))

FairSpec == Spec /\ Fairness

----
(* Properties. *)

\* The line l delivers a packet and observe counts it under counter c.
Classified(l, c) ==
  /\ lines[l] # <<>>
  /\ lines'[l] = Tail(lines[l])
  /\ stats'[c] > stats[c]

\* The separating invariant of the sequencer: a packet is read as an exchange
\* restart only if the line that carried it had already delivered packets of
\* an earlier stream.  Neither loss, a slow twin, a replay nor a snapshot
\* makes the handler rebuild every book for nothing.
RestartOnlyAfterFailover ==
  [][\A l \in Line : Classified(l, "restarts")
                       => lineEpoch[l] < Head(lines[l]).epoch]_vars

\* A quarantined instrument leaves quarantine in two ways only, whatever the
\* packets and the recoveries do: the handler releases it while the books are
\* live, or a restart clears the quarantine, and then all books are withheld
\* until a snapshot has rebuilt them ("the old book is gone; quarantine is
\* moot").
QuarantineHolds ==
  [][\A i \in quarantined :
       \/ i \in quarantined'
       \/ PublishBook(i)
       \/ (~Live' /\ \E l \in Line : Classified(l, "restarts"))]_vars

\* A book that is published without a snapshot outstanding reflects exactly
\* the messages before the expected one: none is skipped, and none is applied
\* ahead of a message that is still missing.  (Without failovers.)
BookHasNoHole == Live => book = 1 .. expected - 1

\* The handler keeps the promise of BookPromise: live books are a prefix of
\* the stream, and no recovery brings back older ones.  (Without failovers.)
Promise == INSTANCE BookPromise WITH available <- 1 .. published - 1, live <- Live
KeepsPromise == Promise!Spec

\* What the books, the handler or the snapshot to come make up for.
Seen(m) == m \in book \union held \/ (snapFrom # None /\ m < snapFrom)

\* The position passes no message that is lost: each before it is in the books
\* or, while a snapshot is awaited, held or part of that snapshot, so that what
\* observe discards behind the position is not missed.  (Without failovers.)
PassedIsNotLost == expected # None => \A m \in 1 .. expected - 1 : Seen(m)

\* Neither a packet nor an answer that comes late moves the position back, so
\* that no message is handed to the books again.  (Without failovers.)
PositionOnlyAdvances == [][expected # None => expected' >= expected]_vars

\* While the books are live, a packet of a stream newer than the one they
\* follow is not discarded as a duplicate ("treat a restart as a duplicate and
\* the feed goes silent").
RestartNotReadAsDuplicate ==
  [][\A l \in Line : Live /\ Classified(l, "duplicates")
                       => Head(lines[l]).epoch <= streamEpoch]_vars

\* One failover is read as one restart, although both lines restart ("exactly
\* one restart, not two").
OneRestartPerFailover == stats.restarts <= epoch

\* Together: a failover is read as one restart, neither as none nor as two.
FailoverIsOneRestart == RestartNotReadAsDuplicate /\ []OneRestartPerFailover

\* Whatever a line has delivered reaches the book, through the other line,
\* a replay or a snapshot.
Received(m) == m \in held \/ m \in book
ReceivedIsApplied == \A m \in Message : Received(m) ~> (Live /\ m \in book)
====
