---- MODULE MoldFeed ----
(***************************************************************************)
(* The MoldUDP64 sequencer between the exchange and a handler that         *)
(* rebuilds books.  Two lines carry the same packets, lose any of them     *)
(* independently and keep their order; gaps are refilled over a unicast    *)
(* UDP request that may go unanswered, or by a snapshot; the exchange      *)
(* closes its session and opens another, numbered from 1 again.            *)
(*                                                                         *)
(* The sequencer is the code's (MoldSequencer).  The exchange, its lines,  *)
(* its servers and the handler are external: src/ shows the handler in use *)
(* (moldudp64/mod.rs, the comments of Action and of observe).              *)
(***************************************************************************)
EXTENDS MoldSequencer, Sequences

CONSTANTS
  MaxSession,          \* bound: sessions the exchange opens after the first
  Line,                \* the multicast groups
  MaxInFlight,         \* bound: packets in flight on a line
  MaxFailures,         \* bound: recovery requests that go unanswered
  MidPacketSnapshots   \* whether a snapshot may end inside a packet

ASSUME SessionsAreNumbered == MaxSession \in Nat /\ Session = 0 .. MaxSession
ASSUME MaxInFlightAssumption == MaxInFlight \in Nat
ASSUME MaxFailuresAssumption == MaxFailures \in Nat
ASSUME MidPacketAssumption == MidPacketSnapshots \in BOOLEAN
ASSUME PositionsAssumption == MaxPosition >= 1 /\ None \notin 1 .. MaxPosition

VARIABLES
  current,    \* exchange: the session it runs
  published,  \* exchange: sequence of the next message of that session
  lines,      \* packets in flight on each line, oldest first
  book,       \* handler: messages the books reflect, each with its session
  held,       \* handler: messages received but not applied yet
  pending,    \* handler: range asked of the rerequest server, or None
  snapFrom,   \* handler: None, or where the feed was when the outstanding
              \* snapshot was requested: it reflects all before that, or more
  failures    \* bound: retransmissions that went unanswered

exchangeVars == <<current, published>>
handlerVars == <<book, held, pending, snapFrom>>
vars == <<seqVars, exchangeVars, lines, handlerVars, failures>>

Position == 1 .. MaxPosition
Message == Session \X (1 .. MaxPosition - 1)

FeedTypeOK ==
  /\ MoldTypeOK
  /\ current \in Session
  /\ published \in Position
  /\ lines \in [Line -> Seq(Header)]
  /\ book \subseteq Message
  /\ held \subseteq Message
  /\ pending \in [from : Position, to : Position] \union {None}
  /\ snapFrom \in Position \union {None}
  /\ failures \in 0 .. MaxFailures

Init ==
  /\ SeqInit
  /\ current = 0
  /\ published = 1
  /\ lines = [l \in Line |-> <<>>]
  /\ book = {}
  /\ held = {}
  /\ pending = None
  /\ snapFrom = None
  /\ failures = 0

\* The books may be published: joined, and no snapshot is awaited.
Live == session # None /\ snapFrom = None

\* The messages from sequence m to sequence n of session s.
Run(s, m, n) == {s} \X (m .. n)

Messages(h) == Run(h.session, h.seq, h.seq + h.count - 1)

\* next is the first sequence from m on whose message is not in S.
FirstMissing(S, m, next) ==
  /\ next \in m .. MaxPosition
  /\ <<session, next>> \notin S
  /\ Run(session, m, next - 1) \subseteq S

Before(next) == Run(session, 1, next - 1)

After(next) == {m \in held : m[2] > next}

----
(* The exchange. *)

Send(h, surviving) ==
  /\ \A l \in surviving : Len(lines[l]) < MaxInFlight
  /\ lines' = [l \in Line |-> IF l \in surviving THEN Append(lines[l], h) ELSE lines[l]]
  /\ UNCHANGED <<seqVars, handlerVars, failures>>

\* A packet of n messages, or with none a heartbeat.
Publish(n, surviving) ==
  /\ published + n <= MaxPosition
  /\ Send([session |-> current, seq |-> published, count |-> n], surviving)
  /\ published' = published + n
  /\ UNCHANGED current

\* Nobody may see the end of the session, as when the exchange fails over.
NewSession(surviving) ==
  /\ current + 1 \in Session
  /\ Send([session |-> current, seq |-> published, count |-> EndOfSession], surviving)
  /\ current' = current + 1
  /\ published' = 1

----
(* A line delivers its oldest packet.  One action for each answer of       *)
(* observe, with what the handler does about it.                           *)

Receive(l) ==
  /\ lines[l] # <<>>
  /\ lines' = [lines EXCEPT ![l] = Tail(@)]
  /\ UNCHANGED <<exchangeVars, failures>>

\* The books belong to the old session: discard them and rebuild.
DeliverSessionChanged(l) ==
  /\ Receive(l)
  /\ SessionChanged(Head(lines[l]))
  /\ book' = {}
  /\ held' = {}
  /\ pending' = None
  /\ snapFrom' = published

\* The first packet of all synchronises; there is no book without a snapshot.
Join == snapFrom' = IF session = None THEN published ELSE snapFrom

DeliverIdle(l) ==
  /\ Receive(l)
  /\ Ended(Head(lines[l])) \/ Heartbeat(Head(lines[l]))
  /\ Join
  /\ UNCHANGED <<book, held, pending>>

DeliverDuplicate(l) ==
  /\ Receive(l)
  /\ Duplicate(Head(lines[l]))
  /\ UNCHANGED handlerVars

\* The packet is held, and the gap asked for along with earlier ones.
DeliverRetransmitGap(l) ==
  LET h == Head(lines[l])
      asked == RetransmitRange(h) IN
  /\ Receive(l)
  /\ RequestRetransmit(h)
  /\ held' = held \union Messages(h)
  /\ pending' = IF pending # None /\ pending.to > asked.to
                THEN [from |-> asked.from, to |-> pending.to]
                ELSE asked
  /\ UNCHANGED <<book, snapFrom>>

DeliverSnapshotGap(l) ==
  /\ Receive(l)
  /\ RequestSnapshot(Head(lines[l]))
  /\ held' = held \union Messages(Head(lines[l]))
  /\ snapFrom' = published
  /\ UNCHANGED <<book, pending>>

\* Applied to the books, or held while a snapshot is outstanding.
DeliverApply(l) ==
  LET h == Head(lines[l])
      live == Live IN
  /\ Receive(l)
  /\ Apply(h)
  /\ book' = IF live THEN book \union Messages(h) ELSE book
  /\ held' = IF live THEN held ELSE held \union Messages(h)
  /\ Join
  /\ UNCHANGED pending

Deliver(l) ==
  \/ DeliverSessionChanged(l)
  \/ DeliverIdle(l)
  \/ DeliverDuplicate(l)
  \/ DeliverRetransmitGap(l)
  \/ DeliverSnapshotGap(l)
  \/ DeliverApply(l)

----
(* Recovery. *)

\* The answer fills its range, and what was held after it is drained.  It may
\* come after the other line has already delivered those messages.
RetransmitDone(next) ==
  LET have == held \union Run(session, pending.from, pending.to) IN
  /\ pending # None
  /\ FirstMissing(have, pending.from, next)
  /\ RecoveredTo(next)
  /\ book' = IF Live THEN book \union Run(session, pending.from, next - 1) ELSE book
  /\ held' = IF Live THEN After(next) ELSE have
  /\ pending' = None
  /\ UNCHANGED <<exchangeVars, lines, snapFrom, failures>>

\* The request or its answer is lost; the next packet shows the gap again.
RetransmitLost ==
  /\ pending # None
  /\ failures < MaxFailures
  /\ failures' = failures + 1
  /\ pending' = None
  /\ UNCHANGED <<seqVars, exchangeVars, lines, book, held, snapFrom>>

\* The snapshot of the running session reflects every message before p; drain
\* what was held after it.
SnapshotDone(p, next) ==
  /\ snapFrom # None
  /\ session = current
  /\ snapFrom <= p /\ p <= published
  /\ MidPacketSnapshots \/ p \in {snapFrom, published}
  /\ FirstMissing(Before(p) \union held, 1, next)
  /\ RecoveredTo(next)
  /\ book' = Before(next)
  /\ held' = After(next)
  /\ snapFrom' = None
  /\ UNCHANGED <<exchangeVars, lines, pending, failures>>

Next ==
  \/ \E n \in 0 .. MaxCount, surviving \in SUBSET Line : Publish(n, surviving)
  \/ \E surviving \in SUBSET Line : NewSession(surviving)
  \/ \E l \in Line : Deliver(l)
  \/ \E next \in Position : RetransmitDone(next)
  \/ RetransmitLost
  \/ \E p, next \in Position : SnapshotDone(p, next)

Spec == Init /\ [][Next]_vars

----
(* Properties. *)

\* Books that may be published reflect exactly the messages of the session
\* being followed that come before the expected one: none skipped, none
\* ahead of a missing one, none of another session, although sessions reuse
\* the same sequence numbers and answers come late.
BookHasNoHole == Live => book = Run(session, 1, expected - 1)

\* Until the exchange opens its second session, the handler keeps the promise
\* of BookPromise.
Promise == INSTANCE BookPromise
  WITH available <- 1 .. published - 1, book <- {m[2] : m \in book}, live <- Live
KeepsPromise == Promise!Init /\ [][current' = 0 => Promise!Next]_(Promise!vars)

\* The line l delivers a packet and observe counts it under counter c.
Classified(l, c) ==
  /\ lines[l] # <<>>
  /\ lines'[l] = Tail(lines[l])
  /\ stats'[c] > stats[c]

\* What is discarded as a duplicate in the running session is not lost: each
\* of its messages is in the book, held, or part of the snapshot to come.
\* Unlike MITCH, this holds for snapshots that end inside a packet too,
\* because a packet that overlaps the expected position is applied.
DiscardedIsNotLost ==
  [][\A l \in Line : Classified(l, "duplicates") /\ Head(lines[l]).session = current
       => Messages(Head(lines[l])) \subseteq
            book \union held \union (IF snapFrom = None THEN {} ELSE Before(snapFrom))]_vars

\* A session change means that the exchange opened a session ("constant for
\* the trading day.  It changing is how a restart is signalled").
OneChangePerSession == stats.session_changes <= current
====
