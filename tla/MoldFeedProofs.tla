---- MODULE MoldFeedProofs ----
(***************************************************************************)
(* Theorems about MoldUDP64, for every value of the constants.  First the  *)
(* sequencer on its own, then the feed, for any number of sessions,        *)
(* packets in flight and lost answers: the books are whole, session after  *)
(* session.                                                                *)
(***************************************************************************)
EXTENDS MoldFeed, TLAPS

(* The sequencer. *)

USE MaxRetransmitAssumption, MaxCountAssumption, SentinelAssumption,
    MaxPositionAssumption, NoSessionAssumption

\* A step of the sequencer is an answer of observe or a recovery.
LEMMA SequencerSteps ==
  ASSUME [SeqNext]_seqVars
  PROVE  \/ \E h \in Header : Observe(h)
         \/ \E seq \in 1 .. MaxPosition : RecoveredTo(seq)
         \/ UNCHANGED seqVars
BY DEF SeqNext

\* Counting keeps every counter a number and none below what it was.
LEMMA TallyCounts ==
  ASSUME stats \in [Counter -> Nat], NEW counters, Tally(counters)
  PROVE  /\ stats' \in [Counter -> Nat]
         /\ \A c \in Counter : stats'[c] = IF c \in counters THEN stats[c] + 1 ELSE stats[c]
BY DEF Tally

\* A header carries a position in range, and its end is in the range of
\* expected positions.
LEMMA HeaderBounds ==
  ASSUME NEW h \in Header
  PROVE  /\ h.session \in Session
         /\ h.seq \in 1 .. MaxPosition
         /\ NextExpected(h) \in 1 .. MaxPosition + MaxCount
<1>1. h.seq \in 1 .. MaxPosition /\ h.session \in Session
  BY DEF Header
<1>2. CASE CarriesBlocks(h)
  <2>1. h.count \in 0 .. MaxCount
    BY <1>2 DEF Header, CarriesBlocks
  <2> QED BY <1>1, <1>2, <2>1 DEF NextExpected
<1>3. CASE ~CarriesBlocks(h)
  BY <1>1, <1>3 DEF NextExpected
<1> QED BY <1>1, <1>2, <1>3

\* The answers of observe keep the type.
LEMMA ObserveType ==
  ASSUME MoldTypeOK, NEW h \in Header, Observe(h)
  PROVE  MoldTypeOK'
<1> USE DEF MoldTypeOK
<1>1. h.session \in Session /\ h.seq \in 1 .. MaxPosition
      /\ NextExpected(h) \in 1 .. MaxPosition + MaxCount
  BY HeaderBounds
<1>2. Base(h) \in 0 .. MaxPosition + MaxCount
  BY <1>1 DEF Base
<1>3. CASE SessionChanged(h)
  BY <1>1, <1>3, TallyCounts DEF SessionChanged
<1>4. CASE Ended(h) \/ Heartbeat(h)
  BY <1>1, <1>2, <1>4 DEF Ended, Heartbeat, InSession
<1>5. CASE Duplicate(h)
  BY <1>1, <1>2, <1>5, TallyCounts DEF Duplicate, InSession
<1>6. CASE RequestRetransmit(h)
  BY <1>1, <1>2, <1>6, TallyCounts DEF RequestRetransmit, InSession
<1>7. CASE RequestSnapshot(h)
  BY <1>1, <1>2, <1>7, TallyCounts DEF RequestSnapshot, InSession
<1>8. CASE Apply(h)
  BY <1>1, <1>2, <1>8, TallyCounts DEF Apply, InSession
<1> QED BY <1>3, <1>4, <1>5, <1>6, <1>7, <1>8 DEF Observe

\* A recovery keeps the type.
LEMMA RecoveryType ==
  ASSUME MoldTypeOK, NEW seq \in 1 .. MaxPosition, RecoveredTo(seq)
  PROVE  MoldTypeOK'
BY DEF MoldTypeOK, RecoveredTo

\* Type correctness: whatever packets and recoveries the sequencer is handed,
\* its position stays within one packet of the last position in use.
THEOREM MoldTypeCorrect == SeqSpec => []MoldTypeOK
<1>1. SeqInit => MoldTypeOK
  BY DEF SeqInit, MoldTypeOK
<1>2. MoldTypeOK /\ [SeqNext]_seqVars => MoldTypeOK'
  <2> SUFFICES ASSUME MoldTypeOK, [SeqNext]_seqVars PROVE MoldTypeOK'
    OBVIOUS
  <2>1. CASE \E h \in Header : Observe(h)
    BY <2>1, ObserveType
  <2>2. CASE \E seq \in 1 .. MaxPosition : RecoveredTo(seq)
    BY <2>2, RecoveryType
  <2>3. CASE UNCHANGED seqVars
    BY <2>3 DEF MoldTypeOK, seqVars
  <2> QED BY <2>1, <2>2, <2>3, SequencerSteps
<1> QED BY <1>1, <1>2, PTL DEF SeqSpec

\* The answers of observe ask for one recovery per gap.
LEMMA ObserveEscalates ==
  ASSUME MoldTypeOK, GapsEscalateOnce, NEW h \in Header, Observe(h)
  PROVE  GapsEscalateOnce'
<1> USE DEF MoldTypeOK, GapsEscalateOnce
<1>1. "gaps" \in Counter /\ "retransmit_requests" \in Counter /\ "snapshot_requests" \in Counter
  BY DEF Counter
<1>2. CASE Ended(h) \/ Heartbeat(h)
  BY <1>2 DEF Ended, Heartbeat
<1>3. CASE SessionChanged(h)
  BY <1>1, <1>3, TallyCounts DEF SessionChanged
<1>4. CASE Duplicate(h)
  BY <1>1, <1>4, TallyCounts DEF Duplicate
<1>5. CASE RequestRetransmit(h)
  BY <1>1, <1>5, TallyCounts DEF RequestRetransmit
<1>6. CASE RequestSnapshot(h)
  BY <1>1, <1>6, TallyCounts DEF RequestSnapshot
<1>7. CASE Apply(h)
  BY <1>1, <1>7, TallyCounts DEF Apply
<1> QED BY <1>2, <1>3, <1>4, <1>5, <1>6, <1>7 DEF Observe

\* Every gap the sequencer counts asks for exactly one recovery: the counters
\* agree after any packets whatever.
THEOREM MoldGapsEscalate == SeqSpec => []GapsEscalateOnce
<1>1. SeqInit => GapsEscalateOnce
  BY DEF SeqInit, GapsEscalateOnce, Counter
<1>2. MoldTypeOK /\ GapsEscalateOnce /\ [SeqNext]_seqVars => GapsEscalateOnce'
  <2> SUFFICES ASSUME MoldTypeOK, GapsEscalateOnce, [SeqNext]_seqVars
               PROVE  GapsEscalateOnce'
    OBVIOUS
  <2>1. CASE \E h \in Header : Observe(h)
    BY <2>1, ObserveEscalates
  <2>2. CASE (\E seq \in 1 .. MaxPosition : RecoveredTo(seq)) \/ UNCHANGED seqVars
    BY <2>2 DEF RecoveredTo, seqVars, GapsEscalateOnce
  <2> QED BY <2>1, <2>2, SequencerSteps
<1> QED BY <1>1, <1>2, MoldTypeCorrect, PTL DEF SeqSpec

\* No answer of observe within a session moves the position back.
LEMMA ObserveAdvances ==
  ASSUME MoldTypeOK, NEW h \in Header, Observe(h), session # None, session' = session
  PROVE  expected' >= expected
<1> USE DEF MoldTypeOK
<1>1. NextExpected(h) \in 1 .. MaxPosition + MaxCount /\ Base(h) = expected
  BY HeaderBounds DEF Base
<1>2. ~SessionChanged(h)
  BY DEF SessionChanged
<1>3. CASE expected' = Base(h)
  BY <1>1, <1>3
<1>4. CASE Apply(h)
  BY <1>1, <1>4 DEF Apply
<1> QED BY <1>2, <1>3, <1>4
        DEF Observe, Ended, Heartbeat, Duplicate, RequestRetransmit, RequestSnapshot

\* The sequencer never gives up a position within a session: neither the
\* lines nor a recovery that answers late make it judge a message missing, or
\* apply it, twice.
THEOREM MoldNeverRewinds == SeqSpec => PositionOnlyAdvances
<1>1. MoldTypeOK /\ [SeqNext]_seqVars
        => [session # None /\ session' = session => expected' >= expected]_seqVars
  <2> SUFFICES ASSUME MoldTypeOK, [SeqNext]_seqVars, session # None, session' = session
               PROVE  expected' >= expected \/ UNCHANGED seqVars
    OBVIOUS
  <2>1. CASE \E h \in Header : Observe(h)
    BY <2>1, ObserveAdvances
  <2>2. CASE \E seq \in 1 .. MaxPosition : RecoveredTo(seq)
    BY <2>2 DEF RecoveredTo, MoldTypeOK
  <2> QED BY <2>1, <2>2, SequencerSteps
<1> QED BY <1>1, MoldTypeCorrect, PTL DEF SeqSpec, PositionOnlyAdvances

----
(* The feed. *)

USE SessionsAreNumbered, PositionsAssumption

\* A header of a session that was opened, within the numbers published in it.
Published(h) ==
  /\ h.session <= current
  /\ NextExpected(h) <= MaxPosition
  /\ h.session = current => NextExpected(h) <= published

LinesPublished == \A l \in Line : \A i \in 1 .. Len(lines[l]) : Published(lines[l][i])

\* The session followed was opened; before there is one there is nothing to
\* recover and nothing is held.
Joined ==
  /\ session = None => pending = None /\ held = {}
  /\ session # None => session <= current /\ expected >= 1
  /\ expected <= MaxPosition
  /\ pending # None => pending.to < MaxPosition

\* What is held is of the session followed.
HeldIsOfSession == \A m \in held : m[1] = session

\* Nothing known of the running session is ahead of the exchange.
NotAhead ==
  session = current =>
    /\ expected <= published
    /\ \A m \in held : m[2] < published
    /\ pending # None => pending.to < published

\* A retransmission answers from the position or from before it.
AsksFromBehind == pending # None => pending.from <= expected

\* What was passed since the snapshot was asked for is held.
SnapshotWillJoin ==
  snapFrom # None /\ session = current =>
    \A n \in snapFrom .. expected - 1 : <<session, n>> \in held

FeedInv ==
  /\ FeedTypeOK
  /\ LinesPublished
  /\ Joined
  /\ HeldIsOfSession
  /\ NotAhead
  /\ AsksFromBehind
  /\ BookHasNoHole
  /\ SnapshotWillJoin

\* Numbers in use: none is None.
LEMMA Numbers ==
  /\ \A s \in Session : s \in Nat /\ s # None
  /\ \A n \in Position : n \in Nat /\ n >= 1 /\ n <= MaxPosition /\ n # None
BY DEF Position

\* What is known of a header that was published.
LEMMA HeaderFacts ==
  ASSUME NEW h \in Header, NextExpected(h) <= MaxPosition
  PROVE  /\ h.session \in Session /\ h.seq \in Position
         /\ NextExpected(h) \in Position /\ h.seq <= NextExpected(h)
         /\ CarriesBlocks(h) => /\ h.count \in Nat /\ NextExpected(h) = h.seq + h.count
                                /\ Messages(h) = Run(h.session, h.seq, NextExpected(h) - 1)
                                /\ Messages(h) \subseteq Message
<1>1. h.session \in Session /\ h.seq \in 1 .. MaxPosition
  BY DEF Header
<1>2. CASE CarriesBlocks(h)
  <2>1. h.count \in Nat /\ NextExpected(h) = h.seq + h.count
    BY <1>2, MaxCountAssumption DEF Header, CarriesBlocks, NextExpected
  <2>2. Messages(h) = Run(h.session, h.seq, NextExpected(h) - 1)
    BY <1>1, <2>1 DEF Messages, Run
  <2>3. h.seq .. NextExpected(h) - 1 \subseteq 1 .. MaxPosition - 1
    BY <1>1, <2>1
  <2> QED
    BY <1>1, <2>1, <2>2, <2>3 DEF Run, Message, Position
<1>3. CASE ~CarriesBlocks(h)
  BY <1>1, <1>3 DEF NextExpected, Position
<1> QED
  BY <1>2, <1>3

\* What a line delivers was published, and the rest of the line too.
LEMMA DeliveredIsPublished ==
  ASSUME FeedInv, NEW l \in Line, Receive(l)
  PROVE  /\ Head(lines[l]) \in Header /\ Published(Head(lines[l]))
         /\ lines' \in [Line -> Seq(Header)]
         /\ LinesPublished'
         /\ current' = current /\ published' = published /\ failures' = failures
<1>1. lines \in [Line -> Seq(Header)] /\ lines[l] # <<>>
  BY DEF FeedInv, FeedTypeOK, Receive
<1>2. Head(lines[l]) = lines[l][1] /\ 1 \in 1 .. Len(lines[l]) /\ Head(lines[l]) \in Header
  BY <1>1
<1>3. Published(Head(lines[l]))
  BY <1>2 DEF FeedInv, LinesPublished
<1>4. lines' = [lines EXCEPT ![l] = Tail(lines[l])]
  BY DEF Receive
<1>5. /\ Tail(lines[l]) \in Seq(Header)
      /\ Len(Tail(lines[l])) = Len(lines[l]) - 1
      /\ \A i \in 1 .. Len(lines[l]) - 1 : Tail(lines[l])[i] = lines[l][i + 1]
  BY <1>1
<1>6. lines' \in [Line -> Seq(Header)]
  BY <1>1, <1>4, <1>5
<1>7. current' = current /\ published' = published /\ failures' = failures
  BY DEF Receive, exchangeVars
<1>8. ASSUME NEW k \in Line, NEW i \in 1 .. Len(lines'[k])
      PROVE  Published(lines'[k][i])
  <2>1. CASE k = l
    <3>1. lines'[k] = Tail(lines[l])
      BY <1>1, <1>4, <2>1
    <3>2. i + 1 \in 1 .. Len(lines[l]) /\ lines'[k][i] = lines[l][i + 1]
      BY <1>1, <1>5, <3>1
    <3> QED
      BY <3>2 DEF FeedInv, LinesPublished
  <2>2. CASE k # l
    BY <1>1, <1>4, <2>2 DEF FeedInv, LinesPublished
  <2> QED
    BY <2>1, <2>2
<1>9. LinesPublished'
  BY <1>7, <1>8 DEF LinesPublished, Published
<1> QED
  BY <1>2, <1>3, <1>6, <1>7, <1>9

\* The answers of observe keep the sequencer's types and its counts apart.
LEMMA SequencerKept ==
  ASSUME FeedInv, NEW l \in Line, Deliver(l)
  PROVE  MoldTypeOK'
<1>1. Receive(l)
  BY DEF Deliver, DeliverSessionChanged, DeliverIdle, DeliverDuplicate, DeliverRetransmitGap,
         DeliverSnapshotGap, DeliverApply
<1>2. Head(lines[l]) \in Header
  BY <1>1, DeliveredIsPublished
<1>3. Observe(Head(lines[l]))
  BY DEF Deliver, DeliverSessionChanged, DeliverIdle, DeliverDuplicate, DeliverRetransmitGap,
         DeliverSnapshotGap, DeliverApply, Observe
<1> QED
  BY <1>2, <1>3, ObserveType DEF FeedInv, FeedTypeOK

\* The part of the invariant a delivery can disturb.
HandlerInv ==
  /\ book \subseteq Message /\ held \subseteq Message
  /\ pending \in [from : Position, to : Position] \union {None}
  /\ snapFrom \in Position \union {None}
  /\ Joined
  /\ HeldIsOfSession
  /\ NotAhead
  /\ AsksFromBehind
  /\ BookHasNoHole
  /\ SnapshotWillJoin

\* The books of the old session are discarded.
LEMMA ChangeKeeps ==
  ASSUME FeedInv, NEW l \in Line, DeliverSessionChanged(l)
  PROVE  HandlerInv'
<1> DEFINE h == Head(lines[l])
<1>1. /\ h \in Header /\ Published(h) /\ published \in Position /\ current \in Session
      /\ current' = current /\ published' = published
  BY DeliveredIsPublished DEF DeliverSessionChanged, FeedInv, FeedTypeOK
<1>2. h.seq \in Position /\ h.session \in Session /\ h.seq <= NextExpected(h) /\ NextExpected(h) \in Position
  BY <1>1, HeaderFacts DEF Published
<1>3. /\ session' = h.session /\ expected' = h.seq /\ book' = {} /\ held' = {}
      /\ pending' = None /\ snapFrom' = published
  BY DEF DeliverSessionChanged, SessionChanged
<1> HIDE DEF h
<1>4. published # None /\ h.session # None
  BY <1>1, <1>2, Numbers
<1>5. Joined'
  BY <1>1, <1>2, <1>3, <1>4, Numbers DEF Joined, Published
<1>6. NotAhead'
  BY <1>1, <1>2, <1>3, Numbers DEF NotAhead, Published
<1>7. SnapshotWillJoin'
  BY <1>1, <1>2, <1>3, Numbers DEF SnapshotWillJoin, Published
<1> QED
  BY <1>1, <1>3, <1>4, <1>5, <1>6, <1>7
     DEF HandlerInv, HeldIsOfSession, AsksFromBehind, BookHasNoHole, Live

\* Heartbeats and the end of a session move nothing, but the first joins.
LEMMA IdleKeeps ==
  ASSUME FeedInv, NEW l \in Line, DeliverIdle(l)
  PROVE  HandlerInv'
<1> DEFINE h == Head(lines[l])
<1>1. /\ h \in Header /\ Published(h) /\ published \in Position /\ current \in Session
      /\ current' = current /\ published' = published
  BY DeliveredIsPublished DEF DeliverIdle, FeedInv, FeedTypeOK
<1>2. h.seq \in Position /\ h.session \in Session /\ h.seq <= NextExpected(h) /\ NextExpected(h) \in Position
  BY <1>1, HeaderFacts DEF Published
<1>3. /\ session \in {None, h.session} /\ session' = h.session /\ expected' = Base(h)
      /\ snapFrom' = IF session = None THEN published ELSE snapFrom
      /\ UNCHANGED <<book, held, pending>>
  BY DEF DeliverIdle, Ended, Heartbeat, InSession, Join
<1> HIDE DEF h
<1>4. published # None /\ h.session # None
  BY <1>1, <1>2, Numbers
<1>5. CASE session = None
  <2>1. expected' = h.seq /\ snapFrom' = published /\ held' = {} /\ pending' = None
    BY <1>3, <1>5 DEF Base, FeedInv, Joined
  <2>2. Joined' /\ NotAhead' /\ SnapshotWillJoin'
    BY <1>1, <1>2, <1>3, <1>4, <2>1, Numbers DEF Joined, NotAhead, SnapshotWillJoin, Published
  <2> QED
    BY <1>1, <1>3, <1>4, <2>1, <2>2
       DEF FeedInv, FeedTypeOK, HandlerInv, HeldIsOfSession, AsksFromBehind, BookHasNoHole, Live
<1>6. CASE session # None
  <2>1. UNCHANGED <<session, expected, book, held, pending, snapFrom, current, published>>
    BY <1>1, <1>3, <1>6 DEF Base
  <2> QED
    BY <2>1 DEF FeedInv, FeedTypeOK, HandlerInv, Joined, HeldIsOfSession, NotAhead,
         AsksFromBehind, BookHasNoHole, SnapshotWillJoin, Live
<1> QED
  BY <1>5, <1>6

\* A duplicate was judged in a session, and changes nothing.
LEMMA DuplicateKeeps ==
  ASSUME FeedInv, NEW l \in Line, DeliverDuplicate(l)
  PROVE  /\ session # None /\ session = Head(lines[l]).session
         /\ NextExpected(Head(lines[l])) <= expected
         /\ HandlerInv'
<1> DEFINE h == Head(lines[l])
<1>1. /\ h \in Header /\ Published(h)
      /\ current' = current /\ published' = published
  BY DeliveredIsPublished DEF DeliverDuplicate
<1>2. CarriesBlocks(h) /\ NextExpected(h) <= Base(h) /\ session \in {None, h.session}
  BY DEF DeliverDuplicate, Duplicate, InSession
<1>3. h.seq \in Nat /\ h.count \in Nat /\ h.count # 0 /\ NextExpected(h) = h.seq + h.count
  BY <1>1, <1>2, HeaderFacts, Numbers DEF Published, CarriesBlocks
<1>4. session # None
  <2> SUFFICES ASSUME session = None PROVE FALSE
    OBVIOUS
  <2>1. Base(h) = h.seq
    BY DEF Base
  <2> HIDE DEF h
  <2> QED
    BY <1>2, <1>3, <2>1
<1>5. UNCHANGED <<session, expected, book, held, pending, snapFrom, current, published>>
  BY <1>1, <1>4 DEF DeliverDuplicate, Duplicate, InSession, Base, handlerVars
<1>6. HandlerInv'
  BY <1>5 DEF FeedInv, FeedTypeOK, HandlerInv, Joined, HeldIsOfSession, NotAhead,
       AsksFromBehind, BookHasNoHole, SnapshotWillJoin, Live
<1> QED
  BY <1>2, <1>4, <1>6 DEF Base

\* A gap holds its packet, and asks from the position.
LEMMA GapKeeps ==
  ASSUME FeedInv, NEW l \in Line, DeliverRetransmitGap(l) \/ DeliverSnapshotGap(l)
  PROVE  HandlerInv'
<1> DEFINE h == Head(lines[l])
<1>1. /\ h \in Header /\ Published(h) /\ published \in Position /\ current \in Session
      /\ current' = current /\ published' = published
  BY DeliveredIsPublished DEF DeliverRetransmitGap, DeliverSnapshotGap, FeedInv, FeedTypeOK
<1>2. /\ CarriesBlocks(h) /\ h.seq > Base(h) /\ session \in {None, h.session}
      /\ session' = h.session /\ expected' = Base(h) /\ held' = held \union Messages(h)
      /\ book' = book
  BY DEF DeliverRetransmitGap, DeliverSnapshotGap, RequestRetransmit, RequestSnapshot, InSession
<1>3. /\ h.seq \in Position /\ h.session \in Session /\ NextExpected(h) \in Position
      /\ h.count \in Nat /\ h.count # 0 /\ NextExpected(h) = h.seq + h.count
      /\ Messages(h) = Run(h.session, h.seq, NextExpected(h) - 1)
      /\ Messages(h) \subseteq Message
  BY <1>1, <1>2, HeaderFacts DEF Published, CarriesBlocks
<1>4. session # None
  <2> SUFFICES ASSUME session = None PROVE FALSE
    OBVIOUS
  <2>1. Base(h) = h.seq
    BY DEF Base
  <2> HIDE DEF h
  <2> QED
    BY <1>2, <1>3, <2>1, Numbers
<1>5. /\ session = h.session /\ session' = session /\ expected' = expected
      /\ Base(h) = expected /\ h.seq > expected
  BY <1>2, <1>4 DEF Base
<1>6. CASE DeliverRetransmitGap(l)
  <2> DEFINE asked == RetransmitRange(h)
  <2>1. asked = [from |-> expected, to |-> h.seq - 1]
    BY <1>5 DEF RetransmitRange
  <2>2. /\ pending' = IF pending # None /\ pending.to > asked.to
                      THEN [from |-> asked.from, to |-> pending.to] ELSE asked
        /\ snapFrom' = snapFrom
    BY <1>6 DEF DeliverRetransmitGap
  <2> HIDE DEF h, asked
  <2>3. expected \in Position /\ h.seq - 1 \in Position
    <3>1. expected \in Int /\ expected >= 1
      BY <1>4 DEF FeedInv, FeedTypeOK, MoldTypeOK, Joined
    <3>2. h.seq \in Nat /\ h.seq <= MaxPosition /\ h.seq > expected
      BY <1>3, <1>5, Numbers
    <3> QED
      BY <3>1, <3>2 DEF Position
  <2>4. pending # None => pending.to \in Position
    BY DEF FeedInv, FeedTypeOK
  <2>5. /\ pending' \in [from : Position, to : Position]
        /\ pending'.from = expected
        /\ \/ pending'.to = h.seq - 1
           \/ pending # None /\ pending'.to = pending.to
    BY <2>1, <2>2, <2>3, <2>4
  <2>6. Joined'
    <3>1. h.seq - 1 < MaxPosition
      BY <1>3, Numbers
    <3>2. pending'.to < MaxPosition
      BY <2>5, <3>1 DEF FeedInv, Joined
    <3> QED
      BY <1>1, <1>4, <1>5, <3>2 DEF FeedInv, Joined
  <2>7. HeldIsOfSession'
    BY <1>2, <1>3, <1>5 DEF FeedInv, HeldIsOfSession, Run
  <2>8. NotAhead'
    <3> SUFFICES ASSUME session = current
                 PROVE  /\ expected <= published
                        /\ \A m \in held' : m[2] < published
                        /\ pending'.to < published
      BY <1>1, <1>5 DEF NotAhead
    <3>1. NextExpected(h) <= published
      BY <1>1, <1>5 DEF Published
    <3>2. \A m \in Messages(h) : m[2] < published
      BY <1>1, <1>3, <3>1, Numbers DEF Run
    <3>3. h.seq - 1 < published
      BY <1>1, <1>3, <3>1, Numbers
    <3> QED
      BY <1>2, <2>5, <3>2, <3>3 DEF FeedInv, NotAhead
  <2>9. SnapshotWillJoin'
    BY <1>1, <1>2, <1>5, <2>2 DEF FeedInv, SnapshotWillJoin
  <2>10. BookHasNoHole' /\ snapFrom' \in Position \union {None} /\ AsksFromBehind'
    <3>1. expected \in Int
      BY <2>3, Numbers
    <3> QED
      BY <1>2, <1>5, <2>2, <2>5, <3>1
         DEF FeedInv, FeedTypeOK, BookHasNoHole, Live, AsksFromBehind
  <2> QED
    BY <1>2, <1>3, <2>5, <2>6, <2>7, <2>8, <2>9, <2>10 DEF FeedInv, FeedTypeOK, HandlerInv
<1>7. CASE DeliverSnapshotGap(l)
  <2>1. snapFrom' = published /\ pending' = pending
    BY <1>7 DEF DeliverSnapshotGap
  <2> HIDE DEF h
  <2>2. published # None /\ expected \in Int
    BY <1>1, Numbers DEF FeedInv, FeedTypeOK, MoldTypeOK
  <2>3. Joined' /\ AsksFromBehind'
    BY <1>1, <1>4, <1>5, <2>1 DEF FeedInv, Joined, AsksFromBehind
  <2>4. HeldIsOfSession'
    BY <1>2, <1>3, <1>5 DEF FeedInv, HeldIsOfSession, Run
  <2>5. NotAhead'
    <3> SUFFICES ASSUME session = current
                 PROVE  \A m \in Messages(h) : m[2] < published
      BY <1>1, <1>2, <1>5, <2>1 DEF NotAhead, FeedInv
    <3>1. NextExpected(h) <= published
      BY <1>1, <1>5 DEF Published
    <3> QED
      BY <1>1, <1>3, <3>1, Numbers DEF Run
  <2>6. SnapshotWillJoin'
    <3> SUFFICES ASSUME session = current
                 PROVE  \A n \in published .. expected - 1 : <<session, n>> \in held'
      BY <1>1, <1>5, <2>1 DEF SnapshotWillJoin
    <3>1. expected <= published
      BY DEF FeedInv, NotAhead
    <3> QED
      BY <1>1, <2>2, <3>1, Numbers
  <2> QED
    BY <1>1, <1>2, <1>3, <2>1, <2>2, <2>3, <2>4, <2>5, <2>6
       DEF FeedInv, FeedTypeOK, HandlerInv, BookHasNoHole, Live
<1> QED
  BY <1>6, <1>7

\* What is in order extends the books, or is held for the snapshot.
LEMMA ApplyKeeps ==
  ASSUME FeedInv, NEW l \in Line, DeliverApply(l)
  PROVE  HandlerInv'
<1> DEFINE h == Head(lines[l])
<1>1. /\ h \in Header /\ Published(h) /\ published \in Position /\ current \in Session
      /\ current' = current /\ published' = published
  BY DeliveredIsPublished DEF DeliverApply, FeedInv, FeedTypeOK
<1>2. /\ CarriesBlocks(h) /\ NextExpected(h) > Base(h) /\ h.seq <= Base(h)
      /\ session \in {None, h.session} /\ session' = h.session
      /\ expected' = NextExpected(h)
      /\ book' = IF Live THEN book \union Messages(h) ELSE book
      /\ held' = IF Live THEN held ELSE held \union Messages(h)
      /\ snapFrom' = IF session = None THEN published ELSE snapFrom
      /\ pending' = pending
  BY DEF DeliverApply, Apply, InSession, Join
<1>3. /\ h.seq \in Position /\ h.session \in Session /\ NextExpected(h) \in Position
      /\ h.session # None /\ published # None
      /\ Messages(h) = Run(h.session, h.seq, NextExpected(h) - 1)
      /\ Messages(h) \subseteq Message
  BY <1>1, <1>2, HeaderFacts, Numbers DEF Published
<1>4. session # None => session = h.session /\ Base(h) = expected
  BY <1>2 DEF Base
<1> HIDE DEF h
<1>5. expected \in Nat /\ NextExpected(h) \in Nat /\ h.seq \in Nat /\ published \in Nat
  BY <1>1, <1>3, Numbers DEF FeedInv, FeedTypeOK, MoldTypeOK
<1>6. Joined'
  <2>1. h.session <= current /\ NextExpected(h) >= 1 /\ NextExpected(h) <= MaxPosition
    BY <1>1, <1>3, Numbers DEF Published
  <2>2. pending' # None => pending'.to < MaxPosition
    BY <1>2 DEF FeedInv, Joined
  <2> QED
    BY <1>1, <1>2, <1>3, <2>1, <2>2 DEF Joined
<1>7. HeldIsOfSession'
  BY <1>2, <1>3, <1>4 DEF FeedInv, HeldIsOfSession, Joined, Live, Run
<1>8. NotAhead'
  <2> SUFFICES ASSUME h.session = current
               PROVE  /\ NextExpected(h) <= published
                      /\ \A m \in held' : m[2] < published
                      /\ pending # None => pending.to < published
    BY <1>1, <1>2 DEF NotAhead
  <2>1. NextExpected(h) <= published
    BY <1>1 DEF Published
  <2>2. \A m \in Messages(h) : m[2] < published
    BY <1>3, <1>5, <2>1 DEF Run
  <2>3. (\A m \in held : m[2] < published) /\ (pending # None => pending.to < published)
    BY <1>4 DEF FeedInv, NotAhead, Joined
  <2> QED
    BY <1>2, <2>1, <2>2, <2>3
<1>9. AsksFromBehind'
  <2> SUFFICES ASSUME pending # None PROVE pending.from <= NextExpected(h)
    BY <1>2 DEF AsksFromBehind
  <2>1. session # None /\ pending.from <= expected /\ pending.from \in Nat
    BY Numbers DEF FeedInv, FeedTypeOK, Joined, AsksFromBehind
  <2> QED
    BY <1>2, <1>4, <1>5, <2>1
<1>10. BookHasNoHole'
  <2> SUFFICES ASSUME Live' PROVE book' = Run(h.session, 1, NextExpected(h) - 1)
    BY <1>2 DEF BookHasNoHole
  <2>1. Live /\ session = h.session
    BY <1>2, <1>3, <1>4 DEF Live
  <2>2. book = Run(h.session, 1, expected - 1)
    BY <2>1 DEF FeedInv, BookHasNoHole
  <2>3. h.seq >= 1 /\ h.seq <= expected /\ NextExpected(h) > expected
    BY <1>2, <1>3, <1>4, <2>1, Numbers DEF Live
  <2>4. (1 .. expected - 1) \union (h.seq .. NextExpected(h) - 1) = 1 .. NextExpected(h) - 1
    BY <1>5, <2>3
  <2> QED
    BY <1>2, <1>3, <2>1, <2>2, <2>4 DEF Run
<1>11. SnapshotWillJoin'
  <2> SUFFICES ASSUME snapFrom' # None, h.session = current, NEW n \in snapFrom' .. NextExpected(h) - 1
               PROVE  <<h.session, n>> \in held'
    BY <1>1, <1>2 DEF SnapshotWillJoin
  <2>1. CASE session = None
    <3>1. NextExpected(h) <= published /\ snapFrom' = published
      BY <1>1, <1>2, <2>1 DEF Published
    <3> QED
      BY <1>5, <3>1
  <2>2. CASE session # None
    <3>1. ~Live /\ snapFrom' = snapFrom /\ session = h.session
      BY <1>2, <1>4, <2>2 DEF Live
    <3>2. n \in snapFrom .. expected - 1 => <<session, n>> \in held
      BY <3>1 DEF FeedInv, SnapshotWillJoin
    <3>3. snapFrom \in Nat
      BY <3>1, Numbers DEF FeedInv, FeedTypeOK
    <3>4. n \in snapFrom .. expected - 1 \/ n \in h.seq .. NextExpected(h) - 1
      BY <1>2, <1>4, <1>5, <2>2, <3>1, <3>3
    <3> QED
      BY <1>2, <1>3, <3>1, <3>2, <3>4 DEF Run
  <2> QED
    BY <2>1, <2>2
<1> QED
  BY <1>1, <1>2, <1>3, <1>6, <1>7, <1>8, <1>9, <1>10, <1>11 DEF FeedInv, FeedTypeOK, HandlerInv

\* Whatever is delivered, the invariant is kept.
LEMMA DeliveryKeeps ==
  ASSUME FeedInv, NEW l \in Line, Deliver(l)
  PROVE  FeedInv'
<1>1. Receive(l)
  BY DEF Deliver, DeliverSessionChanged, DeliverIdle, DeliverDuplicate, DeliverRetransmitGap,
         DeliverSnapshotGap, DeliverApply
<1>2. HandlerInv'
  BY ChangeKeeps, IdleKeeps, DuplicateKeeps, GapKeeps, ApplyKeeps DEF Deliver
<1>3. MoldTypeOK'
  BY SequencerKept
<1>4. /\ lines' \in [Line -> Seq(Header)] /\ LinesPublished'
      /\ current' = current /\ published' = published /\ failures' = failures
  BY <1>1, DeliveredIsPublished
<1> QED
  BY <1>2, <1>3, <1>4 DEF FeedInv, FeedTypeOK, HandlerInv

\* A position the handler recovers to moves the sequencer there or leaves it.
LEMMA RecoveryMoves ==
  ASSUME FeedInv, NEW next \in Position, RecoveredTo(next)
  PROVE  /\ MoldTypeOK' /\ session' = session
         /\ expected' = IF expected >= next THEN expected ELSE next
         /\ expected \in Nat /\ next \in Nat /\ next <= MaxPosition
<1>1. MoldTypeOK'
  BY RecoveryType DEF FeedInv, FeedTypeOK, Position
<1>2. next \in Nat /\ next <= MaxPosition
  BY Numbers
<1>3. session' = session /\ expected' = IF expected >= next THEN expected ELSE next
  BY DEF RecoveredTo
<1>4. expected \in Nat
  BY DEF FeedInv, FeedTypeOK, MoldTypeOK
<1> QED
  BY <1>1, <1>2, <1>3, <1>4

\* An answer fills its range, also when the lines were faster.
LEMMA RetransmitKeeps ==
  ASSUME FeedInv, NEW next \in Position, RetransmitDone(next)
  PROVE  FeedInv'
<1> DEFINE have == held \union Run(session, pending.from, pending.to)
<1>1. /\ MoldTypeOK' /\ session' = session
      /\ expected' = IF expected >= next THEN expected ELSE next
      /\ expected \in Nat /\ next \in Nat /\ next <= MaxPosition
  BY RecoveryMoves DEF RetransmitDone
<1>2. /\ pending # None /\ pending' = None
      /\ next \in pending.from .. MaxPosition
      /\ Run(session, pending.from, next - 1) \subseteq have
      /\ book' = IF Live THEN book \union Run(session, pending.from, next - 1) ELSE book
      /\ held' = IF Live THEN After(next) ELSE have
      /\ UNCHANGED <<current, published, lines, snapFrom, failures>>
  BY DEF RetransmitDone, FirstMissing, exchangeVars
<1>3. /\ session # None /\ session \in Session
      /\ pending.from \in Position /\ pending.to \in Position /\ pending.from <= expected
  BY <1>2 DEF FeedInv, FeedTypeOK, MoldTypeOK, Joined, AsksFromBehind
<1>4. pending.from \in Nat /\ pending.from >= 1 /\ pending.to \in Nat
  BY <1>3, Numbers
<1> HIDE DEF have
<1>5. ASSUME NEW m \in have
      PROVE  /\ m[1] = session
             /\ session = current => m[2] < published
  <2>1. CASE m \in held
    BY <2>1 DEF FeedInv, HeldIsOfSession, NotAhead
  <2>2. CASE m \in Run(session, pending.from, pending.to)
    <3>1. m[1] = session /\ m[2] \in pending.from .. pending.to
      BY <2>2 DEF Run
    <3>2. session = current => pending.to < published
      BY <1>2 DEF FeedInv, NotAhead
    <3>3. published \in Nat
      BY Numbers DEF FeedInv, FeedTypeOK
    <3> QED
      BY <1>4, <3>1, <3>2, <3>3
  <2> QED
    BY <2>1, <2>2 DEF have
<1>6. held' \subseteq have
  BY <1>2 DEF After, have
<1>7. HeldIsOfSession'
  BY <1>1, <1>5, <1>6 DEF HeldIsOfSession
<1>8. Joined'
  BY <1>1, <1>2, <1>3 DEF FeedInv, Joined
<1>9. NotAhead'
  <2> SUFFICES ASSUME session = current
               PROVE  expected' <= published /\ \A m \in held' : m[2] < published
    BY <1>1, <1>2 DEF NotAhead
  <2>1. expected <= published /\ published \in Nat
    BY Numbers DEF FeedInv, FeedTypeOK, NotAhead
  <2>2. CASE expected >= next
    BY <1>1, <1>5, <1>6, <2>1, <2>2
  <2>3. CASE expected < next
    <3>1. next - 1 \in pending.from .. next - 1
      BY <1>1, <1>3, <1>4, <2>3
    <3>2. <<session, next - 1>> \in have
      BY <1>2, <3>1 DEF Run
    <3>3. next - 1 < published
      BY <1>5, <3>2
    <3> QED
      BY <1>1, <1>5, <1>6, <2>1, <3>3
  <2> QED
    BY <1>1, <2>2, <2>3
<1>10. BookHasNoHole'
  <2> SUFFICES ASSUME Live PROVE book' = Run(session, 1, expected' - 1)
    BY <1>1, <1>2 DEF BookHasNoHole, Live
  <2>1. book = Run(session, 1, expected - 1)
    BY DEF FeedInv, BookHasNoHole
  <2>2. (1 .. expected - 1) \union (pending.from .. next - 1) = 1 .. expected' - 1
    BY <1>1, <1>2, <1>3, <1>4
  <2> QED
    BY <1>2, <2>1, <2>2 DEF Run
<1>11. SnapshotWillJoin'
  <2> SUFFICES ASSUME snapFrom # None, session = current, NEW n \in snapFrom .. expected' - 1
               PROVE  <<session, n>> \in held'
    BY <1>1, <1>2 DEF SnapshotWillJoin
  <2>1. held' = have
    BY <1>2 DEF Live
  <2>2. snapFrom \in Nat
    BY Numbers DEF FeedInv, FeedTypeOK
  <2>3. n \in snapFrom .. expected - 1 => <<session, n>> \in held
    BY DEF FeedInv, SnapshotWillJoin
  <2>4. n \in snapFrom .. expected - 1 \/ n \in pending.from .. next - 1
    BY <1>1, <1>3, <1>4, <2>2
  <2>5. n \in pending.from .. next - 1 => <<session, n>> \in have
    BY <1>2 DEF Run
  <2> QED
    BY <2>1, <2>3, <2>4, <2>5 DEF have
<1>12. book' \subseteq Message /\ held' \subseteq Message
  <2>1. pending.from .. next - 1 \subseteq 1 .. MaxPosition - 1
    BY <1>1, <1>4
  <2>2. Run(session, pending.from, next - 1) \subseteq Message
    BY <1>3, <2>1 DEF Run, Message
  <2>3. have \subseteq Message
    <3>1. pending.to < MaxPosition
      BY <1>2 DEF FeedInv, Joined
    <3> QED
      BY <1>3, <1>4, <3>1 DEF have, Run, Message, FeedInv, FeedTypeOK
  <2> QED
    BY <1>2, <1>6, <2>2, <2>3 DEF FeedInv, FeedTypeOK
<1> QED
  BY <1>1, <1>2, <1>7, <1>8, <1>9, <1>10, <1>11, <1>12
     DEF FeedInv, FeedTypeOK, LinesPublished, Published, AsksFromBehind

\* A snapshot and what was held after it join without a hole: the position
\* never is past what they cover.
LEMMA SnapshotKeeps ==
  ASSUME FeedInv, NEW p \in Position, NEW next \in Position, SnapshotDone(p, next)
  PROVE  FeedInv'
<1>1. /\ MoldTypeOK' /\ session' = session
      /\ expected' = IF expected >= next THEN expected ELSE next
      /\ expected \in Nat /\ next \in Nat /\ next <= MaxPosition
  BY RecoveryMoves DEF SnapshotDone
<1>2. /\ snapFrom # None /\ snapFrom' = None /\ session = current
      /\ snapFrom <= p /\ p <= published /\ next >= 1
      /\ <<session, next>> \notin Before(p) \union held
      /\ Run(session, 1, next - 1) \subseteq Before(p) \union held
      /\ book' = Before(next) /\ held' = After(next)
      /\ UNCHANGED <<current, published, lines, pending, failures>>
  BY Numbers DEF SnapshotDone, FirstMissing, exchangeVars
<1>3. /\ session # None /\ session \in Session /\ p \in Nat /\ p >= 1
      /\ snapFrom \in Nat /\ published \in Nat /\ published <= MaxPosition
  BY <1>2, Numbers DEF FeedInv, FeedTypeOK
<1>4. next >= p
  <2> SUFFICES ASSUME next < p PROVE FALSE
    BY <1>1, <1>3
  <2>1. next \in 1 .. p - 1
    BY <1>1, <1>2, <1>3
  <2> QED
    BY <1>2, <2>1 DEF Before, Run
<1>5. next >= expected
  <2> SUFFICES ASSUME next < expected PROVE FALSE
    BY <1>1
  <2>1. next \in snapFrom .. expected - 1
    BY <1>1, <1>2, <1>3, <1>4
  <2> QED
    BY <1>2, <2>1 DEF FeedInv, SnapshotWillJoin
<1>6. expected' = next
  BY <1>1, <1>5
<1>7. next <= published
  <2> SUFFICES ASSUME next > published PROVE FALSE
    BY <1>1, <1>3
  <2>1. next - 1 \in 1 .. next - 1
    BY <1>1, <1>3, Numbers DEF FeedInv, FeedTypeOK
  <2>2. <<session, next - 1>> \in Before(p) \union held
    BY <1>2, <2>1 DEF Run
  <2>3. next - 1 < published
    BY <1>1, <1>2, <1>3, <2>2 DEF Before, Run, FeedInv, NotAhead
  <2> QED
    BY <1>1, <1>3, <2>3
<1>8. held' \subseteq held
  BY <1>2 DEF After
<1>9. Before(next) \subseteq Message
  <2>1. 1 .. next - 1 \subseteq 1 .. MaxPosition - 1
    BY <1>1
  <2> QED
    BY <1>3, <2>1 DEF Before, Run, Message
<1>10. Joined' /\ AsksFromBehind'
  <2>1. pending # None => pending.from \in Nat /\ pending.from <= next
    BY <1>1, <1>5, Numbers DEF FeedInv, FeedTypeOK, AsksFromBehind
  <2> QED
    BY <1>1, <1>2, <1>3, <1>6, <2>1 DEF FeedInv, Joined, AsksFromBehind
<1>11. NotAhead' /\ HeldIsOfSession'
  BY <1>1, <1>2, <1>6, <1>7, <1>8 DEF FeedInv, NotAhead, HeldIsOfSession
<1>12. BookHasNoHole' /\ SnapshotWillJoin'
  BY <1>1, <1>2, <1>6 DEF BookHasNoHole, SnapshotWillJoin, Before, Run
<1> QED
  BY <1>1, <1>2, <1>8, <1>9, <1>10, <1>11, <1>12
     DEF FeedInv, FeedTypeOK, LinesPublished, Published

\* What was published stays so, as the exchange goes on.
LEMMA StaysPublished ==
  ASSUME FeedInv, NEW h \in Header, Published(h), current' \in {current, current + 1},
         current' = current => published' >= published, published' \in Position
  PROVE  Published(h)'
<1>1. h.session \in Nat /\ current \in Nat /\ published \in Nat /\ published' \in Nat
  BY Numbers DEF Header, FeedInv, FeedTypeOK
<1>2. NextExpected(h) \in Nat
  BY HeaderFacts, Numbers DEF Published
<1> QED
  BY <1>1, <1>2 DEF Published

\* The lines carry what was published, and what is sent now.
LEMMA SendKeeps ==
  ASSUME FeedInv, NEW h \in Header, NEW surviving \in SUBSET Line, Send(h, surviving),
         current' \in {current, current + 1}, published' \in Position,
         current' = current => published' >= published, Published(h)'
  PROVE  lines' \in [Line -> Seq(Header)] /\ LinesPublished'
<1>1. lines' = [l \in Line |-> IF l \in surviving THEN Append(lines[l], h) ELSE lines[l]]
  BY DEF Send
<1>2. ASSUME NEW l \in Line
      PROVE  /\ lines'[l] \in Seq(Header)
             /\ \A i \in 1 .. Len(lines'[l]) :
                  \E g \in Header : g = lines'[l][i] /\ Published(g)'
  <2>1. lines[l] \in Seq(Header)
    BY DEF FeedInv, FeedTypeOK
  <2>2. ASSUME NEW i \in 1 .. Len(lines[l])
        PROVE  lines[l][i] \in Header /\ Published(lines[l][i])
    BY <2>1 DEF FeedInv, LinesPublished
  <2>3. ASSUME NEW g \in Header, Published(g)
        PROVE  Published(g)'
    BY <2>3, StaysPublished
  <2>4. CASE l \in surviving
    <3>1. /\ lines'[l] \in Seq(Header)
          /\ Len(lines'[l]) = Len(lines[l]) + 1
          /\ \A i \in 1 .. Len(lines[l]) : lines'[l][i] = lines[l][i]
          /\ lines'[l][Len(lines[l]) + 1] = h
      BY <1>1, <2>1, <2>4
    <3>2. ASSUME NEW i \in 1 .. Len(lines'[l])
          PROVE  \E g \in Header : g = lines'[l][i] /\ Published(g)'
      <4>1. CASE i \in 1 .. Len(lines[l])
        BY <2>2, <2>3, <3>1, <4>1
      <4>2. CASE i = Len(lines[l]) + 1
        BY <3>1, <4>2
      <4> QED
        BY <2>1, <3>1, <4>1, <4>2
    <3> QED
      BY <3>1, <3>2
  <2>5. CASE l \notin surviving
    <3>1. lines'[l] = lines[l]
      BY <1>1, <2>5
    <3>2. ASSUME NEW i \in 1 .. Len(lines[l])
          PROVE  \E g \in Header : g = lines'[l][i] /\ Published(g)'
      BY <2>2, <2>3, <3>1
    <3> QED
      BY <2>1, <3>1, <3>2
  <2> QED
    BY <2>4, <2>5
<1>3. lines' \in [Line -> Seq(Header)]
  BY <1>1, <1>2
<1>4. ASSUME NEW l \in Line, NEW i \in 1 .. Len(lines'[l])
      PROVE  Published(lines[l][i])'
  <2>1. PICK g \in Header : g = lines'[l][i] /\ Published(g)'
    BY <1>2
  <2> QED
    BY <2>1 DEF Published, NextExpected, CarriesBlocks
<1> QED
  BY <1>3, <1>4 DEF LinesPublished

\* The exchange publishes a packet.
LEMMA PublishKeeps ==
  ASSUME FeedInv, NEW n \in 0 .. MaxCount, NEW surviving \in SUBSET Line, Publish(n, surviving)
  PROVE  FeedInv'
<1> DEFINE h == [session |-> current, seq |-> published, count |-> n]
<1>1. /\ published + n <= MaxPosition /\ published' = published + n /\ current' = current
      /\ Send(h, surviving)
      /\ UNCHANGED <<session, expected, stats, book, held, pending, snapFrom, failures>>
  BY DEF Publish, Send, seqVars, handlerVars
<1>2. /\ published \in Nat /\ published >= 1 /\ n \in Nat /\ current \in Session /\ current \in Nat
      /\ n # EndOfSession
  BY Numbers, SentinelAssumption, MaxCountAssumption DEF FeedInv, FeedTypeOK
<1>3. h \in Header /\ NextExpected(h) = published + n
  BY <1>1, <1>2 DEF Header, NextExpected, CarriesBlocks
<1>4. published' \in Position /\ published' >= published
  BY <1>1, <1>2 DEF Position
<1>5. PICK g \in Header : g = h
  BY <1>3
<1>6. Published(g)'
  <2>1. g.session = current /\ NextExpected(g) = published + n
    BY <1>3, <1>5
  <2> HIDE DEF h
  <2> QED
    BY <1>1, <1>2, <2>1 DEF Published
<1> HIDE DEF h
<1>7. lines' \in [Line -> Seq(Header)] /\ LinesPublished'
  BY <1>1, <1>4, <1>5, <1>6, SendKeeps
<1>8. NotAhead'
  <2>1. (\A m \in held : m \in Message /\ m[2] \in Nat) /\ (pending # None => pending.to \in Nat)
    BY Numbers DEF FeedInv, FeedTypeOK, Message
  <2>2. expected \in Nat
    BY Numbers DEF FeedInv, FeedTypeOK, MoldTypeOK
  <2> QED
    BY <1>1, <1>2, <2>1, <2>2 DEF FeedInv, NotAhead
<1> QED
  BY <1>1, <1>4, <1>7, <1>8
     DEF FeedInv, FeedTypeOK, MoldTypeOK, Joined, HeldIsOfSession, AsksFromBehind, BookHasNoHole,
         Live, SnapshotWillJoin

\* The exchange closes its session and opens the next.
LEMMA NewSessionKeeps ==
  ASSUME FeedInv, NEW surviving \in SUBSET Line, NewSession(surviving)
  PROVE  FeedInv'
<1> DEFINE h == [session |-> current, seq |-> published, count |-> EndOfSession]
<1>1. /\ current' = current + 1 /\ published' = 1 /\ current + 1 \in Session
      /\ Send(h, surviving)
      /\ UNCHANGED <<session, expected, stats, book, held, pending, snapFrom, failures>>
  BY DEF NewSession, Send, seqVars, handlerVars
<1>2. /\ published \in 1 .. MaxPosition /\ current \in Nat /\ current \in Session
      /\ published' \in Position
  BY <1>1, Numbers DEF FeedInv, FeedTypeOK, Position
<1>3. h \in Header /\ NextExpected(h) = published /\ h.session = current
  BY <1>2 DEF Header, NextExpected, CarriesBlocks
<1>5. PICK g \in Header : g = h
  BY <1>3
<1> HIDE DEF h
<1>6. Published(g)'
  <2>1. g.session = current /\ NextExpected(g) = published
    BY <1>3, <1>5
  <2> QED
    BY <1>1, <1>2, <2>1 DEF Published
<1>7. lines' \in [Line -> Seq(Header)] /\ LinesPublished'
  BY <1>1, <1>2, <1>5, <1>6, SendKeeps
<1>8. session # current'
  BY <1>1, <1>2, Numbers DEF FeedInv, Joined
<1>9. session # None => session <= current'
  BY <1>1, <1>2, Numbers DEF FeedInv, FeedTypeOK, MoldTypeOK, Joined
<1> QED
  BY <1>1, <1>2, <1>7, <1>8, <1>9
     DEF FeedInv, FeedTypeOK, MoldTypeOK, Joined, HeldIsOfSession, NotAhead, AsksFromBehind,
         BookHasNoHole, Live, SnapshotWillJoin

\* Every step of the feed keeps the invariant.
LEMMA FeedStep == FeedInv /\ [Next]_vars => FeedInv'
<1> SUFFICES ASSUME FeedInv, [Next]_vars PROVE FeedInv'
  OBVIOUS
<1>1. CASE UNCHANGED vars
  BY <1>1 DEF vars, seqVars, exchangeVars, handlerVars, FeedInv, FeedTypeOK, MoldTypeOK,
       LinesPublished, Published, Joined, HeldIsOfSession, NotAhead, AsksFromBehind,
       BookHasNoHole, Live, SnapshotWillJoin
<1>2. CASE RetransmitLost
  BY <1>2, MaxFailuresAssumption
     DEF RetransmitLost, seqVars, exchangeVars, FeedInv, FeedTypeOK, MoldTypeOK,
         LinesPublished, Published, Joined, HeldIsOfSession, NotAhead, AsksFromBehind,
         BookHasNoHole, Live, SnapshotWillJoin
<1> QED
  BY <1>1, <1>2, PublishKeeps, NewSessionKeeps, DeliveryKeeps, RetransmitKeeps, SnapshotKeeps
     DEF Next

\* The feed starts with nothing, and nothing to be wrong about.
LEMMA FeedStart == Init => FeedInv
<1> SUFFICES ASSUME Init PROVE FeedInv
  OBVIOUS
<1>1. lines \in [Line -> Seq(Header)] /\ \A l \in Line : Len(lines[l]) = 0
  BY DEF Init
<1>2. FeedTypeOK
  BY <1>1, MaxFailuresAssumption, MaxCountAssumption
     DEF Init, SeqInit, FeedTypeOK, MoldTypeOK, Position
<1> QED
  BY <1>1, <1>2 DEF Init, SeqInit, FeedInv, LinesPublished, Joined, HeldIsOfSession, NotAhead,
       AsksFromBehind, BookHasNoHole, Live, SnapshotWillJoin

\* The invariant holds of every behaviour of the feed.
LEMMA FeedAlways == Spec => []FeedInv
BY FeedStart, FeedStep, PTL DEF Spec

\* Type correctness: packets, answers and sessions in any order leave the feed
\* within its types, and what it holds within the messages of its sessions.
THEOREM MoldFeedTypeCorrect == Spec => []FeedTypeOK
<1>1. FeedInv => FeedTypeOK
  BY DEF FeedInv
<1> QED
  BY <1>1, FeedAlways, PTL

\* Books that may be published are the messages of the session followed before
\* the position, with no hole, none ahead and none of another session.
THEOREM MoldBooksAreWhole == Spec => []BookHasNoHole
<1>1. FeedInv => BookHasNoHole
  BY DEF FeedInv
<1> QED
  BY <1>1, FeedAlways, PTL

\* A step of the feed is an answer of observe, a recovery or none of the
\* sequencer's business.
LEMMA FeedMovesSequencer ==
  ASSUME FeedInv, [Next]_vars
  PROVE  \/ \E h \in Header : Observe(h)
         \/ \E seq \in 1 .. MaxPosition : RecoveredTo(seq)
         \/ UNCHANGED seqVars
<1>1. ASSUME NEW l \in Line, Deliver(l)
      PROVE  \E h \in Header : Observe(h)
  <2>1. Receive(l) /\ Observe(Head(lines[l]))
    BY <1>1 DEF Deliver, DeliverSessionChanged, DeliverIdle, DeliverDuplicate, DeliverApply,
         DeliverRetransmitGap, DeliverSnapshotGap, Observe
  <2> QED
    BY <2>1, DeliveredIsPublished
<1>2. CASE \/ \E next \in Position : RetransmitDone(next)
           \/ \E p, next \in Position : SnapshotDone(p, next)
  BY <1>2 DEF RetransmitDone, SnapshotDone, Position
<1>3. CASE \/ \E n \in 0 .. MaxCount, surviving \in SUBSET Line : Publish(n, surviving)
           \/ \E surviving \in SUBSET Line : NewSession(surviving)
           \/ RetransmitLost \/ UNCHANGED vars
  BY <1>3 DEF Publish, NewSession, RetransmitLost, Send, vars, seqVars
<1> QED
  BY <1>1, <1>2, <1>3 DEF Next

\* Behind the lines, the answers and the sessions of a feed, every gap counted
\* asks for exactly one recovery.
THEOREM MoldFeedGapsEscalate == Spec => []GapsEscalateOnce
<1>1. Init => GapsEscalateOnce
  BY DEF Init, SeqInit, GapsEscalateOnce, Counter
<1>2. FeedInv /\ GapsEscalateOnce /\ [Next]_vars => GapsEscalateOnce'
  <2> SUFFICES ASSUME FeedInv, GapsEscalateOnce, [Next]_vars PROVE GapsEscalateOnce'
    OBVIOUS
  <2>1. CASE \E h \in Header : Observe(h)
    BY <2>1, ObserveEscalates DEF FeedInv, FeedTypeOK
  <2>2. CASE (\E seq \in 1 .. MaxPosition : RecoveredTo(seq)) \/ UNCHANGED seqVars
    BY <2>2 DEF RecoveredTo, seqVars, GapsEscalateOnce
  <2> QED
    BY <2>1, <2>2, FeedMovesSequencer
<1> QED
  BY <1>1, <1>2, FeedAlways, PTL DEF Spec

\* Behind a feed the position never moves back within a session, whatever
\* answers come late.
THEOREM MoldFeedNeverRewinds == Spec => PositionOnlyAdvances
<1>1. FeedInv /\ [Next]_vars
        => [session # None /\ session' = session => expected' >= expected]_seqVars
  <2> SUFFICES ASSUME FeedInv, [Next]_vars, session # None, session' = session
               PROVE  expected' >= expected \/ UNCHANGED seqVars
    OBVIOUS
  <2>1. CASE \E h \in Header : Observe(h)
    BY <2>1, ObserveAdvances DEF FeedInv, FeedTypeOK
  <2>2. CASE \E seq \in 1 .. MaxPosition : RecoveredTo(seq)
    BY <2>2 DEF RecoveredTo, FeedInv, FeedTypeOK, MoldTypeOK
  <2> QED
    BY <2>1, <2>2, FeedMovesSequencer
<1> QED
  BY <1>1, FeedAlways, PTL DEF Spec, PositionOnlyAdvances

\* Only a duplicate is counted as one.
LEMMA CountedIsDuplicate ==
  ASSUME FeedInv, Next, NEW l \in Line, Classified(l, "duplicates")
  PROVE  DeliverDuplicate(l)
<1>1. stats'.duplicates > stats.duplicates /\ lines[l] # <<>> /\ lines'[l] = Tail(lines[l])
  BY DEF Classified
<1>2. lines \in [Line -> Seq(Header)] /\ stats \in [Counter -> Nat]
  BY DEF FeedInv, FeedTypeOK, MoldTypeOK
<1>3. stats'.duplicates # stats.duplicates
  BY <1>1, <1>2 DEF Counter
<1>4. PICK k \in Line : Deliver(k)
  BY <1>3 DEF Next, Publish, NewSession, Send, RetransmitDone, RetransmitLost, SnapshotDone,
       RecoveredTo, seqVars
<1>5. DeliverDuplicate(k)
  <2>1. ~DeliverDuplicate(k) => stats'.duplicates = stats.duplicates
    BY <1>4 DEF Deliver, DeliverSessionChanged, DeliverIdle, DeliverRetransmitGap,
         DeliverSnapshotGap, DeliverApply, SessionChanged, Ended, Heartbeat,
         RequestRetransmit, RequestSnapshot, Apply, Tally, Counter
  <2> QED
    BY <1>3, <2>1
<1>6. k = l
  <2>1. PICK n \in Nat : Len(lines[l]) = n
    BY <1>2
  <2>2. Len(Tail(lines[l])) = n - 1
    BY <1>1, <1>2, <2>1
  <2>3. lines'[l] # lines[l]
    <3>1. n - 1 # n
      OBVIOUS
    <3> QED
      BY <1>1, <2>1, <2>2, <3>1
  <2>4. lines' = [lines EXCEPT ![k] = Tail(@)]
    BY <1>5 DEF DeliverDuplicate, Receive
  <2>5. k # l => lines'[l] = lines[l]
    BY <1>2, <2>4
  <2> QED
    BY <2>3, <2>5
<1> QED
  BY <1>5, <1>6

\* What is discarded as a duplicate of the running session is reflected in the
\* books, held, or reflected in the snapshot that was asked for, wherever
\* recoveries end and however many sessions reused its numbers.
THEOREM NothingDiscardedIsLost == Spec => DiscardedIsNotLost
<1> DEFINE Kept == \A l \in Line :
              Classified(l, "duplicates") /\ Head(lines[l]).session = current
                => Messages(Head(lines[l])) \subseteq
                     book \union held \union (IF snapFrom = None THEN {} ELSE Before(snapFrom))
<1>1. ASSUME FeedInv, Next, NEW l \in Line, Classified(l, "duplicates"),
             Head(lines[l]).session = current
      PROVE  Messages(Head(lines[l])) \subseteq
               book \union held \union (IF snapFrom = None THEN {} ELSE Before(snapFrom))
  <2> DEFINE h == Head(lines[l])
  <2>1. DeliverDuplicate(l)
    BY <1>1, CountedIsDuplicate
  <2>2. session # None /\ session = h.session /\ NextExpected(h) <= expected
    BY <1>1, <2>1, DuplicateKeeps
  <2>3. h \in Header /\ NextExpected(h) <= MaxPosition /\ CarriesBlocks(h)
    BY <1>1, <2>1, DeliveredIsPublished DEF DeliverDuplicate, Duplicate, Published
  <2>4. h.seq \in Position /\ NextExpected(h) \in Position
        /\ Messages(h) = Run(session, h.seq, NextExpected(h) - 1)
    BY <2>2, <2>3, HeaderFacts
  <2>5. session = current
    BY <1>1, <2>2
  <2>6. expected \in Int /\ snapFrom \in Position \union {None}
    BY <1>1 DEF FeedInv, FeedTypeOK, MoldTypeOK
  <2> HIDE DEF h
  <2>7. Messages(h) \subseteq Run(session, 1, expected - 1)
    BY <2>2, <2>4, <2>6 DEF Run, Position
  <2>8. CASE snapFrom = None
    <3>1. book = Run(session, 1, expected - 1)
      BY <1>1, <2>2, <2>8 DEF FeedInv, BookHasNoHole, Live
    <3> QED
      BY <2>7, <3>1 DEF h
  <2>9. CASE snapFrom # None
    <3>1. \A n \in snapFrom .. expected - 1 : <<session, n>> \in held
      BY <1>1, <2>5, <2>9 DEF FeedInv, SnapshotWillJoin
    <3>2. snapFrom \in Nat
      BY <2>6, <2>9 DEF Position
    <3>3. Run(session, 1, expected - 1) \subseteq held \union Before(snapFrom)
      BY <2>6, <3>1, <3>2 DEF Run, Before
    <3> QED
      BY <2>7, <2>9, <3>3 DEF h
  <2> QED
    BY <2>8, <2>9
<1>2. FeedInv /\ [Next]_vars => [Kept]_vars
  BY <1>1
<1> QED
  BY <1>2, FeedAlways, PTL DEF Spec, DiscardedIsNotLost

----
(***************************************************************************)
(* The promise of the books, kept until the exchange opens a second        *)
(* session.                                                                *)
(***************************************************************************)

\* In the first session the books are empty before it is joined, and while a
\* snapshot is awaited they are older than what it will reflect.
FirstSession ==
  current = 0 =>
    /\ session = None => book = {}
    /\ snapFrom # None => snapFrom <= published /\ \A m \in book : m[2] < snapFrom

\* In the first session there is no other to follow.
LEMMA OneSession ==
  ASSUME FeedInv, current = 0
  PROVE  /\ session \in {None, 0} /\ 0 # None
         /\ expected \in Nat /\ published \in Position /\ published \in Nat
         /\ session # None => expected <= published /\ session = current
         /\ snapFrom # None => snapFrom \in Nat
<1>1. session \in Session \union {None} /\ published \in Position /\ expected \in Nat
      /\ snapFrom \in Position \union {None}
  BY DEF FeedInv, FeedTypeOK, MoldTypeOK
<1>2. session # None => session = 0
  BY <1>1, Numbers DEF FeedInv, Joined
<1> QED
  BY <1>1, <1>2, Numbers DEF FeedInv, NotAhead

\* In the first session every message of the books was published.
LEMMA BooksOfFirstSession ==
  ASSUME FeedInv, FirstSession, current = 0
  PROVE  \A m \in book : m[2] < published
<1>1. /\ expected \in Nat /\ published \in Nat
      /\ session # None => expected <= published
      /\ snapFrom # None => snapFrom \in Nat
  BY OneSession
<1>2. book \subseteq Message
  BY DEF FeedInv, FeedTypeOK
<1>3. \A m \in book : m[2] \in Nat
  BY <1>2 DEF Message
<1>4. CASE Live
  <2>1. book = Run(session, 1, expected - 1) /\ session # None
    BY <1>4 DEF FeedInv, BookHasNoHole, Live
  <2> QED
    BY <1>1, <2>1 DEF Run
<1>5. CASE session # None /\ snapFrom # None
  BY <1>1, <1>3, <1>5 DEF FirstSession
<1>6. CASE session = None
  BY <1>6 DEF FirstSession
<1> QED
  BY <1>4, <1>5, <1>6 DEF Live

\* The first session ends only by its exchange opening the next.
LEMMA FirstSessionGoesOn ==
  ASSUME FeedInv, [Next]_vars, current' = 0
  PROVE  current = 0
<1>1. current \in Nat
  BY Numbers DEF FeedInv, FeedTypeOK
<1>2. \A surviving : ~NewSession(surviving)
  BY <1>1 DEF NewSession
<1> QED
  BY <1>2 DEF Next, Publish, Deliver, DeliverSessionChanged, DeliverIdle, DeliverDuplicate,
       DeliverRetransmitGap, DeliverSnapshotGap, DeliverApply, Receive, RetransmitDone,
       RetransmitLost, SnapshotDone, exchangeVars, vars

\* No packet of the first session changes the session.
LEMMA NoChangeInFirstSession ==
  ASSUME FeedInv, current = 0, NEW l \in Line
  PROVE  ~DeliverSessionChanged(l)
<1> SUFFICES ASSUME DeliverSessionChanged(l) PROVE FALSE
  OBVIOUS
<1>1. Head(lines[l]) \in Header /\ Head(lines[l]).session <= 0
  BY DeliveredIsPublished DEF DeliverSessionChanged, Published
<1>2. Head(lines[l]).session = 0
  BY <1>1, Numbers DEF Header
<1> QED
  BY <1>2, OneSession DEF DeliverSessionChanged, SessionChanged

\* A step that leaves the books and whether they may be published as they
\* are, and takes back no message, keeps the promise.
LEMMA StutterKeeps ==
  ASSUME book' = book, Live' = Live, published \in Nat, published' \in Nat, published <= published'
  PROVE  [Promise!Next]_(Promise!vars)
<1>1. \A a, b \in Nat : a <= b => 1 .. a - 1 \subseteq 1 .. b - 1
  OBVIOUS
<1>2. Promise!Publish
  BY <1>1, Zenon DEF Promise!Publish
<1> QED
  BY <1>2 DEF Promise!Next

\* Books that are the messages before the position are a prefix.
LEMMA RunIsPrefix ==
  ASSUME NEW s, NEW e \in Nat, NEW p \in Nat, e <= p
  PROVE  /\ {m[2] : m \in Run(s, 1, e - 1)} = 1 .. e - 1
         /\ 1 .. e - 1 \subseteq 1 .. p - 1
         /\ \A n \in 1 .. e - 1 : 1 .. n \subseteq 1 .. e - 1
<1>1. ASSUME NEW n \in 1 .. e - 1
      PROVE  n \in {m[2] : m \in Run(s, 1, e - 1)}
  <2>1. <<s, n>> \in Run(s, 1, e - 1) /\ <<s, n>>[2] = n
    BY DEF Run
  <2> QED
    BY <2>1
<1>2. ASSUME NEW m \in Run(s, 1, e - 1)
      PROVE  m[2] \in 1 .. e - 1
  BY DEF Run
<1>3. {m[2] : m \in Run(s, 1, e - 1)} = 1 .. e - 1
  BY <1>1, <1>2
<1> QED
  BY <1>3

\* The first session goes on as it began.
LEMMA FirstSessionStep ==
  ASSUME FeedInv, FirstSession, [Next]_vars
  PROVE  FirstSession'
<1> SUFFICES ASSUME current' = 0
             PROVE  /\ session' = None => book' = {}
                    /\ snapFrom' # None => snapFrom' <= published'
                                           /\ \A m \in book' : m[2] < published' /\ m[2] < snapFrom'
  BY DEF FirstSession
<1>1. current = 0
  BY FirstSessionGoesOn
<1>2. /\ \A m \in book : m[2] < published /\ m[2] \in Nat
      /\ published \in Position /\ published \in Nat
      /\ snapFrom # None => snapFrom \in Nat
  <2>1. book \subseteq Message
    BY DEF FeedInv, FeedTypeOK
  <2> QED
    BY <1>1, <2>1, BooksOfFirstSession, OneSession DEF Message
<1>3. /\ session = None => book = {}
      /\ snapFrom # None => snapFrom <= published /\ \A m \in book : m[2] < snapFrom
  BY <1>1 DEF FirstSession
<1>4. CASE UNCHANGED <<session, book, snapFrom, published>>
  BY <1>2, <1>3, <1>4
<1>5. ASSUME NEW n \in 0 .. MaxCount, NEW surviving, Publish(n, surviving)
      PROVE  /\ session' = None => book' = {}
             /\ snapFrom' # None => snapFrom' <= published'
                                    /\ \A m \in book' : m[2] < published' /\ m[2] < snapFrom'
  <2>1. UNCHANGED <<session, book, snapFrom>> /\ published' = published + n
    BY <1>5 DEF Publish, Send, seqVars, handlerVars
  <2>2. n \in Nat
    BY MaxCountAssumption
  <2> QED
    BY <1>2, <1>3, <2>1, <2>2
<1>6. ASSUME NEW l \in Line, Deliver(l)
      PROVE  /\ session' = None => book' = {}
             /\ snapFrom' # None => snapFrom' <= published'
                                    /\ \A m \in book' : m[2] < published' /\ m[2] < snapFrom'
  <2>1. published' = published /\ Head(lines[l]).session # None
    <3>1. Receive(l)
      BY <1>6 DEF Deliver, DeliverSessionChanged, DeliverIdle, DeliverDuplicate,
           DeliverRetransmitGap, DeliverSnapshotGap, DeliverApply
    <3> QED
      BY <3>1, DeliveredIsPublished, Numbers DEF Header
  <2>2. CASE DeliverIdle(l)
    BY <1>2, <1>3, <2>1, <2>2 DEF DeliverIdle, Ended, Heartbeat, InSession, Join
  <2>3. CASE DeliverDuplicate(l)
    BY <1>2, <1>3, <2>1, <2>3 DEF DeliverDuplicate, Duplicate, InSession, handlerVars
  <2>4. CASE DeliverRetransmitGap(l)
    BY <1>2, <1>3, <2>1, <2>4 DEF DeliverRetransmitGap, RequestRetransmit, InSession
  <2>5. CASE DeliverSnapshotGap(l)
    BY <1>2, <1>3, <2>1, <2>5 DEF DeliverSnapshotGap, RequestSnapshot, InSession
  <2>6. CASE DeliverApply(l)
    <3>1. /\ session' # None
          /\ book' = IF Live THEN book \union Messages(Head(lines[l])) ELSE book
          /\ snapFrom' = IF session = None THEN published ELSE snapFrom
      BY <2>1, <2>6 DEF DeliverApply, Apply, InSession, Join
    <3>2. CASE Live
      BY <3>1, <3>2 DEF Live
    <3>3. CASE ~Live
      BY <1>2, <1>3, <2>1, <3>1, <3>3 DEF Live
    <3> QED
      BY <3>2, <3>3
  <2> QED
    BY <1>1, <1>6, <2>2, <2>3, <2>4, <2>5, <2>6, NoChangeInFirstSession DEF Deliver
<1>7. ASSUME NEW next \in Position, RetransmitDone(next)
      PROVE  /\ session' = None => book' = {}
             /\ snapFrom' # None => snapFrom' <= published'
                                    /\ \A m \in book' : m[2] < published' /\ m[2] < snapFrom'
  <2>1. /\ UNCHANGED <<session, snapFrom, published>>
        /\ ~Live => book' = book
    BY <1>7 DEF RetransmitDone, RecoveredTo, exchangeVars
  <2>2. CASE Live
    BY <2>1, <2>2 DEF Live
  <2> QED
    BY <1>2, <1>3, <2>1, <2>2
<1>8. ASSUME NEW p, NEW next \in Position, SnapshotDone(p, next)
      PROVE  session' # None /\ snapFrom' = None
  BY <1>1, <1>8, OneSession DEF SnapshotDone, RecoveredTo
<1>9. CASE RetransmitLost
  BY <1>4, <1>9 DEF RetransmitLost, seqVars, exchangeVars
<1>10. CASE UNCHANGED vars
  BY <1>4, <1>10 DEF vars, seqVars, exchangeVars, handlerVars
<1>11. \A surviving : ~NewSession(surviving)
  <2>1. current' # current + 1
    BY <1>1
  <2> QED
    BY <2>1 DEF NewSession
<1> QED
  BY <1>5, <1>6, <1>7, <1>8, <1>9, <1>10, <1>11 DEF Next

\* While the books are live in the first session, they are the messages
\* before the position, all of them published.
LEMMA LivePrefix ==
  ASSUME FeedInv, current = 0, Live
  PROVE  Promise!IsPrefix({m[2] : m \in book})
<1>1. book = Run(session, 1, expected - 1) /\ session # None
  BY DEF FeedInv, BookHasNoHole, Live
<1>2. expected \in Nat /\ published \in Nat /\ expected <= published
  BY <1>1, OneSession
<1> QED
  BY <1>1, <1>2, RunIsPrefix DEF Promise!IsPrefix

\* The same after a step.
LEMMA LivePrefixNext ==
  (FeedInv /\ current = 0 /\ Live => Promise!IsPrefix({m[2] : m \in book}))'
BY LivePrefix, PTL

\* A gap shows only once the session has been joined.
LEMMA GapsComeAfterJoining ==
  ASSUME FeedInv, NEW l \in Line, DeliverRetransmitGap(l)
  PROVE  session # None
<1> DEFINE h == Head(lines[l])
<1>1. h \in Header
  BY DeliveredIsPublished DEF DeliverRetransmitGap
<1>2. h.seq \in Nat /\ h.seq > Base(h)
  BY <1>1, Numbers DEF Header, Position, DeliverRetransmitGap, RequestRetransmit
<1> QED
  BY <1>2 DEF Base

\* Books that grow and are a prefix again extend what was promised.
LEMMA GrowthKeeps ==
  ASSUME Live, Live', book \subseteq book', published' = published,
         Promise!IsPrefix({m[2] : m \in book})'
  PROVE  Promise!Next
<1>1. {m[2] : m \in book} \subseteq {m[2] : m \in book}'
  OBVIOUS
<1>2. Promise!Extend
  BY <1>1 DEF Promise!Extend, Promise!IsPrefix
<1> QED
  BY <1>2 DEF Promise!Next

\* Every step of the first session is one the promise allows, or none.
LEMMA PromiseStep ==
  ASSUME FeedInv, FeedInv', FirstSession, [Next]_vars, current' = 0
  PROVE  [Promise!Next]_(Promise!vars)
<1>1. current = 0 /\ FirstSession'
  BY FirstSessionGoesOn, FirstSessionStep
<1>2. published \in Nat /\ published # None
  BY <1>1, OneSession, Numbers
<1>3. Live' => Promise!IsPrefix({m[2] : m \in book})'
  BY <1>1, LivePrefixNext
<1>4. CASE UNCHANGED <<session, book, snapFrom, published>>
  <2>1. Live' = Live
    BY <1>4 DEF Live
  <2> QED
    BY <1>2, <1>4, <2>1, StutterKeeps
<1>5. ASSUME NEW n \in 0 .. MaxCount, NEW surviving, Publish(n, surviving)
      PROVE  [Promise!Next]_(Promise!vars)
  <2>1. UNCHANGED <<session, book, snapFrom>> /\ published' = published + n /\ n \in Nat
    BY <1>5, MaxCountAssumption DEF Publish, Send, seqVars, handlerVars
  <2>2. Live' = Live
    BY <2>1 DEF Live
  <2> QED
    BY <1>2, <2>1, <2>2, StutterKeeps
<1>6. ASSUME NEW l \in Line, Deliver(l)
      PROVE  [Promise!Next]_(Promise!vars)
  <2>1. published' = published /\ Head(lines[l]).session # None
    <3>1. Receive(l)
      BY <1>6 DEF Deliver, DeliverSessionChanged, DeliverIdle, DeliverDuplicate,
           DeliverRetransmitGap, DeliverSnapshotGap, DeliverApply
    <3> QED
      BY <3>1, DeliveredIsPublished, Numbers DEF Header
  <2>2. CASE /\ book' = book /\ session \in {None, session'} /\ session' # None
             /\ snapFrom' = IF session = None THEN published ELSE snapFrom
    <3>1. Live' <=> Live
      BY <1>2, <2>2 DEF Live
    <3>2. Live' = Live
      BY <3>1 DEF Live
    <3>3. published <= published'
      BY <1>2, <2>1
    <3> QED
      BY <1>2, <2>1, <2>2, <3>2, <3>3, StutterKeeps, Zenon
  <2>3. CASE DeliverIdle(l)
    <3>1. /\ book' = book /\ session \in {None, session'} /\ session' # None
          /\ snapFrom' = IF session = None THEN published ELSE snapFrom
      BY <2>1, <2>3 DEF DeliverIdle, Ended, Heartbeat, InSession, Join
    <3> QED
      BY <2>2, <3>1
  <2>4. CASE DeliverDuplicate(l)
    <3>1. session # None
      BY <2>4, DuplicateKeeps
    <3>2. /\ book' = book /\ session \in {None, session'} /\ session' # None
          /\ snapFrom' = snapFrom
      BY <2>1, <2>4 DEF DeliverDuplicate, Duplicate, InSession, handlerVars
    <3> QED
      BY <2>2, <3>1, <3>2
  <2>5. CASE DeliverRetransmitGap(l)
    <3>1. session # None
      BY <2>5, GapsComeAfterJoining
    <3>2. /\ book' = book /\ session \in {None, session'} /\ session' # None
          /\ snapFrom' = snapFrom
      BY <2>1, <2>5 DEF DeliverRetransmitGap, RequestRetransmit, InSession
    <3> QED
      BY <2>2, <3>1, <3>2
  <2>6. CASE DeliverSnapshotGap(l)
    <3>1. ~Live' /\ book' = book
      BY <1>2, <2>6 DEF DeliverSnapshotGap, Live
    <3>2. Live' = FALSE
      BY <3>1 DEF Live
    <3>3. Promise!Suspend
      BY <2>1, <3>1, <3>2 DEF Promise!Suspend
    <3> QED
      BY <3>3 DEF Promise!Next
  <2>7. CASE DeliverApply(l)
    <3>1. /\ session' # None /\ session \in {None, session'}
          /\ book' = IF Live THEN book \union Messages(Head(lines[l])) ELSE book
          /\ snapFrom' = IF session = None THEN published ELSE snapFrom
      BY <2>1, <2>7 DEF DeliverApply, Apply, InSession, Join
    <3>2. CASE Live
      <4>1. Live' /\ book \subseteq book'
        BY <3>1, <3>2 DEF Live
      <4> QED
        BY <1>3, <2>1, <3>2, <4>1, GrowthKeeps
    <3>3. CASE ~Live
      <4>1. book' = book
        BY <3>1, <3>3
      <4> QED
        BY <2>2, <3>1, <4>1
    <3> QED
      BY <3>2, <3>3
  <2> QED
    BY <1>1, <1>6, <2>3, <2>4, <2>5, <2>6, <2>7, NoChangeInFirstSession DEF Deliver
<1>7. ASSUME NEW next \in Position, RetransmitDone(next)
      PROVE  [Promise!Next]_(Promise!vars)
  <2>1. /\ UNCHANGED <<session, snapFrom, published>>
        /\ book \subseteq book'
        /\ ~Live => book' = book
    BY <1>7 DEF RetransmitDone, RecoveredTo, exchangeVars
  <2>2. CASE Live
    <3>1. Live'
      BY <2>1, <2>2 DEF Live
    <3> QED
      BY <1>3, <2>1, <2>2, <3>1, GrowthKeeps
  <2> QED
    BY <1>4, <2>1, <2>2
<1>8. ASSUME NEW p \in Position, NEW next \in Position, SnapshotDone(p, next)
      PROVE  [Promise!Next]_(Promise!vars)
  <2>1. /\ UNCHANGED <<session, published>>
        /\ snapFrom # None /\ snapFrom' = None /\ session # None
        /\ snapFrom <= p /\ snapFrom \in Nat /\ p \in Nat /\ next \in Nat
        /\ <<session, next>> \notin Before(p) /\ next >= 1
        /\ book' = Before(next)
    BY <1>1, <1>8, OneSession, Numbers
       DEF SnapshotDone, FirstMissing, RecoveredTo, exchangeVars
  <2>2. ~Live /\ Live'
    BY <2>1 DEF Live
  <2>3. next >= p
    <3> SUFFICES ASSUME next < p PROVE FALSE
      BY <2>1
    <3> QED
      BY <2>1 DEF Before, Run
  <2>4. \A m \in book : m[2] < snapFrom /\ m[2] \in Nat /\ m[2] >= 1
    <3>1. book \subseteq Message
      BY DEF FeedInv, FeedTypeOK
    <3> QED
      BY <1>1, <2>1, <3>1 DEF FirstSession, Message
  <2>5. {m[2] : m \in book} \subseteq 1 .. next - 1
    BY <2>1, <2>3, <2>4
  <2>6. {m[2] : m \in book}' = 1 .. next - 1
    <3>1. {m[2] : m \in Run(session, 1, next - 1)} = 1 .. next - 1
      <4>1. next <= next
        BY <2>1
      <4> QED
        BY <2>1, <4>1, RunIsPrefix, Zenon
    <3> QED
      BY <2>1, <3>1 DEF Before
  <2>7. Live' = TRUE
    BY <2>2 DEF Live
  <2>8. Promise!Recover
    BY <1>3, <2>1, <2>2, <2>5, <2>6, <2>7 DEF Promise!Recover, Promise!IsPrefix
  <2> QED
    BY <2>8 DEF Promise!Next
<1>9. CASE RetransmitLost \/ UNCHANGED vars
  BY <1>4, <1>9 DEF RetransmitLost, vars, seqVars, exchangeVars, handlerVars
<1>10. \A surviving : ~NewSession(surviving)
  <2>1. current' # current + 1
    BY <1>1
  <2> QED
    BY <2>1 DEF NewSession
<1> QED
  BY <1>5, <1>6, <1>7, <1>8, <1>9, <1>10 DEF Next

\* Until the exchange opens its second session, the handler publishes only
\* growing prefixes of the stream, and no recovery brings back older books.
THEOREM MoldPromiseKept == Spec => KeepsPromise
<1>1. Init => FirstSession /\ Promise!Init
  BY DEF Init, SeqInit, FirstSession, Promise!Init, Live
<1>2. FeedInv /\ FirstSession /\ [Next]_vars => FirstSession'
  BY FirstSessionStep
<1>3. FeedInv /\ FeedInv' /\ FirstSession /\ [Next]_vars
        => [current' = 0 => Promise!Next]_(Promise!vars)
  BY PromiseStep
<1> QED
  BY <1>1, <1>2, <1>3, FeedAlways, PTL DEF Spec, KeepsPromise
====
