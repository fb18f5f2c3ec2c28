---- MODULE MitchFeedProofs ----
(***************************************************************************)
(* Theorems about the MITCH sequencer, for every size of the sequence      *)
(* space, replay window, budget and packet, and about the feed it stands   *)
(* in, for any number of messages, failovers and packets in flight.  The   *)
(* lemmas of the first part speak of single calls of observe, quarantine,  *)
(* release and resync; the second part cites them.                         *)
(***************************************************************************)
EXTENDS MitchFeed, TLAPS

\* The two facts about the counters that every call preserves together.
Accounting == BudgetConserved /\ GapsEscalateOnce

\* Sequence arithmetic stays inside the sequence space.
LEMMA SeqArithmetic ==
  ASSUME NEW seq \in SeqNo, NEW n \in Nat
  PROVE  /\ NextExpected(seq, n) \in SeqNo
         /\ n > 0 => LastSeq(seq, n) \in SeqNo
<1>1. \A a \in Nat : a % SeqMod \in SeqNo
  BY SeqModAssumption, Z3 DEF SeqNo
<1>2. seq + n \in Nat
  BY SeqModAssumption DEF SeqNo
<1>3. n > 0 => seq + n - 1 \in Nat
  BY SeqModAssumption DEF SeqNo
<1> QED
  BY <1>1, <1>2, <1>3 DEF NextExpected, LastSeq

\* A tally changes the counters it names and keeps them counters.
LEMMA TallyCounts ==
  ASSUME TypeOK, NEW counters \in SUBSET Counter, Tally(counters)
  PROVE  /\ stats' \in [Counter -> Nat]
         /\ \A c \in Counter : stats'[c] = IF c \in counters THEN stats[c] + 1
                                                             ELSE stats[c]
BY DEF TypeOK, Tally

\* Whatever packet arrives on whichever line, observe keeps every variable of
\* the sequencer in its type.
LEMMA ObserveType ==
  ASSUME TypeOK, NEW seq \in SeqNo, NEW n \in Nat, NEW l \in Line,
         Observe(seq, n, l)
  PROVE  TypeOK'
<1>1. /\ NextExpected(seq, n) \in SeqNo
      /\ n > 0 => LastSeq(seq, n) \in SeqNo
  BY SeqArithmetic
<1>2. CASE Heartbeat(seq, n, l)
  BY <1>2 DEF TypeOK, Heartbeat, seqVars
<1>3. CASE ExchangeRestart(seq, n, l)
  <2>1. stats' \in [Counter -> Nat]
    BY <1>3, TallyCounts DEF ExchangeRestart, Counter
  <2> QED
    BY <1>1, <1>3, <2>1 DEF TypeOK, ExchangeRestart
<1>4. ASSUME Forward(seq, n, l)
      PROVE  lineHigh' \in [Line -> SeqNo \union {None}]
  BY <1>1, <1>4 DEF TypeOK, Forward
<1>5. CASE FirstPacket(seq, n, l)
  <2>1. stats' \in [Counter -> Nat]
    BY <1>5, TallyCounts DEF FirstPacket, Counter
  <2> QED
    BY <1>1, <1>4, <1>5, <2>1 DEF TypeOK, FirstPacket
<1>6. CASE InOrder(seq, n, l)
  <2>1. stats' \in [Counter -> Nat]
    BY <1>6, TallyCounts DEF InOrder, Counter
  <2> QED
    BY <1>1, <1>4, <1>6, <2>1 DEF TypeOK, InOrder
<1>7. CASE Duplicate(seq, n, l)
  <2>1. stats' \in [Counter -> Nat]
    BY <1>7, TallyCounts DEF Duplicate, Counter
  <2> QED
    BY <1>4, <1>7, <2>1 DEF TypeOK, Duplicate
<1>8. CASE RequestReplay(seq, n, l)
  <2>1. stats' \in [Counter -> Nat]
    BY <1>8, TallyCounts DEF RequestReplay, Counter
  <2>2. replayBudget' \in 0 .. InitialBudget
    BY <1>8, InitialBudgetAssumption DEF TypeOK, RequestReplay, CanReplay
  <2> QED
    BY <1>4, <1>8, <2>1, <2>2 DEF TypeOK, RequestReplay
<1>9. CASE RequestSnapshot(seq, n, l)
  <2>1. stats' \in [Counter -> Nat]
    BY <1>9, TallyCounts DEF RequestSnapshot, Counter
  <2> QED
    BY <1>1, <1>4, <1>9, <2>1 DEF TypeOK, RequestSnapshot
<1> QED
  BY <1>2, <1>3, <1>5, <1>6, <1>7, <1>8, <1>9 DEF Observe

\* The other calls keep the type too.
LEMMA CallType ==
  ASSUME TypeOK,
         \/ \E i \in Instrument : Quarantine(i) \/ Release(i)
         \/ \E next \in SeqNo : Resync(next)
  PROVE  TypeOK'
BY DEF TypeOK, Quarantine, Release, Resync

\* observe pays for each replay out of the budget, and requests one recovery
\* for each gap it counts.
LEMMA ObserveAccounting ==
  ASSUME TypeOK, Accounting, NEW seq, NEW n, NEW l, Observe(seq, n, l)
  PROVE  Accounting'
<1> USE DEF Accounting, BudgetConserved, GapsEscalateOnce, Counter
<1>1. stats \in [Counter -> Nat] /\ replayBudget \in Int
  BY DEF TypeOK
<1>2. CASE Heartbeat(seq, n, l)
  BY <1>2 DEF Heartbeat, seqVars
<1>3. CASE ExchangeRestart(seq, n, l)
  BY <1>1, <1>3 DEF ExchangeRestart, Tally
<1>4. CASE FirstPacket(seq, n, l)
  BY <1>1, <1>4 DEF FirstPacket, Tally
<1>5. CASE InOrder(seq, n, l)
  BY <1>1, <1>5 DEF InOrder, Tally
<1>6. CASE Duplicate(seq, n, l)
  BY <1>1, <1>6 DEF Duplicate, Tally
<1>7. CASE RequestReplay(seq, n, l)
  BY <1>1, <1>7 DEF RequestReplay, Tally
<1>8. CASE RequestSnapshot(seq, n, l)
  BY <1>1, <1>8 DEF RequestSnapshot, Tally
<1> QED
  BY <1>2, <1>3, <1>4, <1>5, <1>6, <1>7, <1>8 DEF Observe

\* The sequencer starts with the type and the accounting of its counters.
LEMMA InitInvariant == SeqInit => TypeOK /\ Accounting
BY InitialBudgetAssumption
   DEF SeqInit, TypeOK, Accounting, BudgetConserved, GapsEscalateOnce, Counter

\* No answer of observe and no call of the handler breaks them.
LEMMA StepInvariant == TypeOK /\ Accounting /\ [SeqNext]_seqVars => (TypeOK /\ Accounting)'
<1> SUFFICES ASSUME TypeOK, Accounting, [SeqNext]_seqVars
             PROVE  TypeOK' /\ Accounting'
  OBVIOUS
<1>1. CASE UNCHANGED seqVars
  BY <1>1 DEF seqVars, TypeOK, Accounting, BudgetConserved, GapsEscalateOnce
<1>2. ASSUME NEW seq \in SeqNo, NEW n \in 0 .. MaxCount, NEW l \in Line, Observe(seq, n, l)
      PROVE  TypeOK' /\ Accounting'
  <2>1. n \in Nat
    BY MaxCountAssumption
  <2> QED
    BY <1>2, <2>1, ObserveType, ObserveAccounting
<1>3. CASE \/ \E i \in Instrument : Quarantine(i) \/ Release(i)
           \/ \E next \in SeqNo : Resync(next)
  <2>1. TypeOK'
    BY <1>3, CallType
  <2>2. UNCHANGED <<replayBudget, stats>>
    BY <1>3 DEF Quarantine, Release, Resync
  <2> QED
    BY <2>1, <2>2 DEF Accounting, BudgetConserved, GapsEscalateOnce
<1> QED
  BY <1>1, <1>2, <1>3 DEF SeqNext

\* The sequencer keeps its type whatever it is handed.
THEOREM SequencerTypeCorrect == SeqSpec => []TypeOK
<1>1. SeqSpec => [](TypeOK /\ Accounting)
  BY InitInvariant, StepInvariant, PTL DEF SeqSpec
<1> QED
  BY <1>1, PTL

\* The local quota is never exceeded: requests made and requests left always
\* add up to the grant of Sequencer::new.
THEOREM ReplayBudgetConserved == SeqSpec => []BudgetConserved
<1>1. SeqSpec => [](TypeOK /\ Accounting)
  BY InitInvariant, StepInvariant, PTL DEF SeqSpec
<1>2. Accounting => BudgetConserved
  BY DEF Accounting
<1> QED
  BY <1>1, <1>2, PTL

\* Each gap is escalated exactly once.
THEOREM EveryGapEscalates == SeqSpec => []GapsEscalateOnce
<1>1. SeqSpec => [](TypeOK /\ Accounting)
  BY InitInvariant, StepInvariant, PTL DEF SeqSpec
<1>2. Accounting => GapsEscalateOnce
  BY DEF Accounting
<1> QED
  BY <1>1, <1>2, PTL

\* Reduction modulo the size of the sequence space, below and just above it.
LEMMA Reduce ==
  \A a \in Nat : a < 2 * SeqMod => a % SeqMod = IF a < SeqMod THEN a ELSE a - SeqMod
BY SeqModAssumption, Z3

\* A packet that ends past the top of the sequence space ends near its bottom.
LEMMA AdvanceOrWrap ==
  ASSUME NEW seq \in SeqNo, NEW n \in 0 .. MaxCount
  PROVE  NextExpected(seq, n) = seq + n \/ NextExpected(seq, n) < MaxCount
<1>1. PICK a \in Nat : a = seq + n
  BY SeqModAssumption, MaxCountAssumption DEF SeqNo
<1>2. a < 2 * SeqMod /\ a - SeqMod < MaxCount
  BY <1>1, SeqModAssumption, MaxCountAssumption DEF SeqNo
<1>3. a % SeqMod = IF a < SeqMod THEN a ELSE a - SeqMod
  BY <1>2, Reduce
<1>4. NextExpected(seq, n) = a % SeqMod
  BY <1>1 DEF NextExpected
<1> QED
  BY <1>1, <1>2, <1>3, <1>4

\* No answer of observe moves the expected sequence back, but a restart.
LEMMA ObserveNeverRewinds ==
  ASSUME TypeOK, NEW seq \in SeqNo, NEW n \in 0 .. MaxCount, NEW l \in Line, Observe(seq, n, l),
         expected # None, stats'.restarts = stats.restarts
  PROVE  expected' >= expected \/ expected' < MaxCount
<1>1. NextExpected(seq, n) = seq + n \/ NextExpected(seq, n) < MaxCount
  BY AdvanceOrWrap
<1>2. expected \in Int /\ seq \in Int /\ n \in Nat
  BY MaxCountAssumption DEF TypeOK, SeqNo
<1>3. ~ExchangeRestart(seq, n, l)
  <2>1. stats'.restarts = stats.restarts + 1 => stats'.restarts # stats.restarts
    BY DEF TypeOK, Counter
  <2> QED
    BY <2>1 DEF ExchangeRestart, Tally, Counter
<1>4. CASE UNCHANGED expected
  BY <1>2, <1>4
<1>5. CASE expected' = NextExpected(seq, n) /\ seq >= expected
  BY <1>1, <1>2, <1>5
<1> QED
  BY <1>2, <1>3, <1>4, <1>5
     DEF Observe, Heartbeat, seqVars, FirstPacket, InOrder, Duplicate,
         RequestReplay, RequestSnapshot

\* Only a restart and a resync move the expected sequence back: arbitration
\* between the lines never re-opens what was already delivered.
THEOREM OnlyRestartsRewind == SeqSpec => ArbitrationNeverRewinds
<1> DEFINE Guarded == stats' # stats /\ stats'.restarts = stats.restarts /\ expected # None
                        => expected' >= expected \/ expected' < MaxCount
<1>1. TypeOK /\ [SeqNext]_seqVars => [Guarded]_seqVars
  <2> SUFFICES ASSUME TypeOK, SeqNext, stats' # stats, expected # None,
                      stats'.restarts = stats.restarts
               PROVE  expected' >= expected \/ expected' < MaxCount
    OBVIOUS
  <2>1. PICK seq \in SeqNo, n \in 0 .. MaxCount, l \in Line : Observe(seq, n, l)
    BY DEF SeqNext, Quarantine, Release, Resync
  <2> QED
    BY <2>1, ObserveNeverRewinds
<1>2. SeqSpec => [](TypeOK /\ Accounting)
  BY InitInvariant, StepInvariant, PTL DEF SeqSpec
<1> QED
  BY <1>1, <1>2, PTL DEF SeqSpec, ArbitrationNeverRewinds

----
(* The feed. *)

\* A packet of this shape fits in one exchange site's numbering.
Fits(pk) == pk.seq + pk.count <= MaxSeq + 1

\* FeedTypeOK, and packets whose numbers do not leave the sequence space.
FeedType ==
  /\ FeedTypeOK
  /\ \A l \in Line : \A i \in 1 .. Len(lines[l]) : Fits(lines[l][i])

\* What a line delivers is a packet, and the rest of the line is packets.
LEMMA HeadIsPacket ==
  ASSUME FeedType, NEW l \in Line, lines[l] # <<>>
  PROVE  /\ Head(lines[l]) \in Packet
         /\ Fits(Head(lines[l]))
         /\ Head(lines[l]).epoch \in Epoch
         /\ Head(lines[l]).seq \in SeqNo \intersect Position
         /\ Head(lines[l]).count \in Nat
         /\ Messages(Head(lines[l])) \subseteq Message
<1>1. lines[l] \in Seq(Packet)
  BY DEF FeedType, FeedTypeOK
<1>2. Head(lines[l]) = lines[l][1] /\ 1 \in 1 .. Len(lines[l])
  BY <1>1
<1>3. Head(lines[l]) \in Packet /\ Fits(Head(lines[l]))
  BY <1>1, <1>2 DEF FeedType
<1>4. PICK pk \in Packet : pk = Head(lines[l]) /\ Fits(pk)
  BY <1>3
<1>5. pk.seq \in 1 .. MaxSeq + 1 /\ pk.count \in 0 .. MaxCount /\ pk.seq + pk.count <= MaxSeq + 1
  BY <1>4 DEF Packet, Position, Fits
<1>6. pk.seq \in SeqNo /\ pk.count \in Nat
  BY <1>5, SeqModAssumption, MaxSeqAssumption, MaxCountAssumption DEF SeqNo
<1>7. Messages(pk) \subseteq Message
  BY <1>5, <1>6, MaxSeqAssumption DEF Messages, Message, SeqNo
<1> QED
  BY <1>4, <1>5, <1>6, <1>7 DEF Packet, Position

\* The numbers of a packet that fits never wrap.
LEMMA NoWrap ==
  ASSUME NEW pk \in Packet, Fits(pk)
  PROVE  /\ NextExpected(pk.seq, pk.count) = pk.seq + pk.count
         /\ NextExpected(pk.seq, pk.count) \in Position
         /\ pk.count > 0 => LastSeq(pk.seq, pk.count) = pk.seq + pk.count - 1
<1>1. PICK a \in Nat : a = pk.seq + pk.count /\ a \in Position
  BY SeqModAssumption, MaxSeqAssumption, MaxCountAssumption DEF Packet, Position, Fits
<1>2. a < SeqMod
  BY <1>1, MaxSeqAssumption, SeqModAssumption DEF Position
<1>3. a % SeqMod = a
  BY <1>2, Reduce, SeqModAssumption
<1>4. PICK b \in Nat : b = pk.seq + pk.count - 1 /\ b < a
  BY <1>1, MaxSeqAssumption, MaxCountAssumption DEF Position, Packet
<1>5. b < SeqMod
  BY <1>1, <1>2, <1>4, SeqModAssumption
<1>6. b % SeqMod = b
  BY <1>5, Reduce, SeqModAssumption
<1> QED
  BY <1>1, <1>3, <1>4, <1>6 DEF NextExpected, LastSeq

\* Taking a packet off a line leaves lines of packets.
LEMMA ReceiveKeepsLines ==
  ASSUME FeedType, NEW l \in Line, Receive(l)
  PROVE  /\ lines' \in [Line -> Seq(Packet)]
         /\ \A k \in Line : \A i \in 1 .. Len(lines'[k]) : Fits(lines'[k][i])
<1>1. lines \in [Line -> Seq(Packet)] /\ lines[l] # <<>>
  BY DEF FeedType, FeedTypeOK, Receive
<1>2. lines' = [lines EXCEPT ![l] = Tail(lines[l])]
  BY DEF Receive
<1>3. \A k \in Line : lines'[k] = IF k = l THEN Tail(lines[l]) ELSE lines[k]
  BY <1>1, <1>2
<1>4. /\ Tail(lines[l]) \in Seq(Packet)
      /\ Len(Tail(lines[l])) = Len(lines[l]) - 1
      /\ \A i \in 1 .. Len(lines[l]) - 1 : Tail(lines[l])[i] = lines[l][i + 1]
  BY <1>1
<1>5. lines' \in [Line -> Seq(Packet)]
  BY <1>1, <1>2, <1>4
<1>6. \A i \in 1 .. Len(lines[l]) - 1 : i + 1 \in 1 .. Len(lines[l])
  BY <1>1
<1> QED
  BY <1>3, <1>4, <1>5, <1>6 DEF FeedType

\* The feed starts well typed.
LEMMA FeedInitType == Init => FeedType
<1> SUFFICES ASSUME Init PROVE FeedType
  OBVIOUS
<1>1. TypeOK
  BY InitInvariant DEF Init
<1>2. lines \in [Line -> Seq(Packet)] /\ \A l \in Line : Len(lines[l]) = 0
  BY DEF Init
<1> QED
  BY <1>1, <1>2, MaxSeqAssumption, MaxEpochAssumption
     DEF Init, SeqInit, FeedType, FeedTypeOK, Epoch, Position, Message

\* Delivering a packet, whatever observe answers, keeps the type.
LEMMA DeliverType ==
  ASSUME FeedType, NEW l \in Line, Deliver(l)
  PROVE  FeedType'
<1> DEFINE pk == Head(lines[l])
<1>1. Receive(l) /\ lines[l] # <<>>
  BY DEF Deliver, DeliverHeartbeat, DeliverRestart, DeliverFirst, DeliverInOrder,
         DeliverDuplicate, DeliverReplayGap, DeliverSnapshotGap, Receive
<1>2. /\ pk \in Packet /\ pk.seq \in SeqNo /\ pk.count \in Nat
      /\ Messages(pk) \subseteq Message
      /\ pk.epoch \in Epoch /\ pk.seq \in Position /\ Fits(pk)
  BY <1>1, HeadIsPacket
<1>3. Observe(pk.seq, pk.count, l)
  BY DEF Deliver, DeliverHeartbeat, DeliverRestart, DeliverFirst, DeliverInOrder,
         DeliverDuplicate, DeliverReplayGap, DeliverSnapshotGap, Observe
<1>4. TypeOK'
  BY <1>2, <1>3, ObserveType DEF FeedType, FeedTypeOK
<1>5. /\ lines' \in [Line -> Seq(Packet)]
      /\ \A k \in Line : \A i \in 1 .. Len(lines'[k]) : Fits(lines'[k][i])
  BY <1>1, ReceiveKeepsLines
<1>6. epoch' \in Epoch /\ published' \in Position
  BY <1>1 DEF Receive, exchangeVars, FeedType, FeedTypeOK
<1>7. lineEpoch' \in [Line -> Epoch] /\ streamEpoch' \in Epoch
  BY <1>2 DEF Deliver, DeliverHeartbeat, DeliverRestart, DeliverFirst, DeliverInOrder,
         DeliverDuplicate, DeliverReplayGap, DeliverSnapshotGap, FeedType, FeedTypeOK
<1>8. book' \subseteq Message /\ held' \subseteq Message
  BY <1>2 DEF Deliver, DeliverHeartbeat, DeliverRestart, DeliverFirst, DeliverInOrder,
         DeliverDuplicate, DeliverReplayGap, DeliverSnapshotGap, FeedType, FeedTypeOK,
         handlerVars
<1>9. snapFrom' \in Position \union {None}
  BY DEF Deliver, DeliverHeartbeat, DeliverRestart, DeliverFirst, DeliverInOrder,
         DeliverDuplicate, DeliverReplayGap, DeliverSnapshotGap, FeedType, FeedTypeOK,
         handlerVars
<1>10. pending' \in [from : Position, to : Message] \union {None}
  <2>1. CASE DeliverReplayGap(l)
    <3>1. expected \in Position /\ expected < pk.seq
      BY <2>1 DEF DeliverReplayGap, RequestReplay, FeedType, FeedTypeOK
    <3>2. ReplayRange(pk.seq) \in [from : Position, to : Message]
      BY <1>2, <3>1, MaxSeqAssumption DEF ReplayRange, Position, Message
    <3>3. pending # None => pending.to \in Message
      BY DEF FeedType, FeedTypeOK
    <3> QED
      BY <2>1, <3>2, <3>3 DEF DeliverReplayGap
  <2>2. CASE ~DeliverReplayGap(l)
    BY <2>2 DEF Deliver, DeliverHeartbeat, DeliverRestart, DeliverFirst, DeliverInOrder,
         DeliverDuplicate, DeliverSnapshotGap, FeedType, FeedTypeOK, handlerVars
  <2> QED
    BY <2>1, <2>2
<1>11. expected' \in Position \union {None}
  <2>1. expected' = expected \/ expected' = NextExpected(pk.seq, pk.count)
    BY <1>3 DEF Observe, Heartbeat, seqVars, ExchangeRestart, FirstPacket, InOrder,
         Duplicate, RequestReplay, RequestSnapshot
  <2> QED
    BY <1>2, <2>1, NoWrap DEF FeedType, FeedTypeOK
<1> QED
  BY <1>4, <1>5, <1>6, <1>7, <1>8, <1>9, <1>10, <1>11 DEF FeedType, FeedTypeOK

\* Publishing a packet keeps the type.
LEMMA PublishType ==
  ASSUME FeedType, NEW n \in 0 .. MaxCount, NEW surviving \in SUBSET Line,
         Publish(n, surviving)
  PROVE  FeedType'
<1> DEFINE pk == [epoch |-> epoch, seq |-> published, count |-> n]
<1>1. pk \in Packet /\ Fits(pk)
  BY DEF Packet, Fits, Publish, FeedType, FeedTypeOK
<1>2. published' \in Position
  BY MaxSeqAssumption, MaxCountAssumption, SeqModAssumption
     DEF Publish, FeedType, FeedTypeOK, Position
<1>3. \A l \in Line : lines'[l] = IF l \in surviving THEN Append(lines[l], pk) ELSE lines[l]
  BY DEF Publish
<1>4. ASSUME NEW l \in Line
      PROVE  /\ lines'[l] \in Seq(Packet)
             /\ \A i \in 1 .. Len(lines'[l]) : Fits(lines'[l][i])
  <2>1. lines[l] \in Seq(Packet) /\ \A i \in 1 .. Len(lines[l]) : Fits(lines[l][i])
    BY DEF FeedType, FeedTypeOK
  <2>2. CASE l \in surviving
    <3>1. lines'[l] = Append(lines[l], pk)
      BY <1>3, <2>2
    <3>2. /\ Len(lines'[l]) = Len(lines[l]) + 1
          /\ lines'[l] \in Seq(Packet)
          /\ \A i \in 1 .. Len(lines[l]) : lines'[l][i] = lines[l][i]
          /\ lines'[l][Len(lines[l]) + 1] = pk
      BY <1>1, <2>1, <3>1
    <3> QED
      BY <1>1, <2>1, <3>2
  <2> QED
    BY <1>3, <2>1, <2>2
<1>5. lines' \in [Line -> Seq(Packet)]
  <2>1. lines' = [l \in Line |-> lines'[l]]
    BY DEF Publish
  <2> QED
    BY <1>4, <2>1
<1> QED
  BY <1>2, <1>4, <1>5
     DEF Publish, FeedType, FeedTypeOK, TypeOK, seqVars, handlerVars

\* The answers of the recovery channels keep the type.
LEMMA RecoveryType ==
  ASSUME FeedType,
         \/ \E next \in Position : ReplayDone(next)
         \/ ReplayRefused
         \/ \E p, next \in Position : SnapshotDone(p, next)
  PROVE  FeedType'
<1>1. CASE ReplayRefused
  BY <1>1 DEF ReplayRefused, FeedType, FeedTypeOK, TypeOK, seqVars, exchangeVars
<1>2. ASSUME NEW next \in Position, ReplayDone(next)
      PROVE  FeedType'
  <2>1. next \in SeqNo
    BY MaxSeqAssumption, SeqModAssumption DEF SeqNo, Position
  <2>2. TypeOK'
    BY <1>2, <2>1, CallType DEF ReplayDone, FeedType, FeedTypeOK
  <2>3. PICK from \in Position, to \in Message : pending.from = from /\ pending.to = to
    BY <1>2 DEF ReplayDone, FeedType, FeedTypeOK
  <2>4. from .. to \subseteq Message
    BY <2>3, MaxSeqAssumption DEF Position, Message
  <2>5. held \union (pending.from .. pending.to) \subseteq Message
    BY <2>3, <2>4 DEF FeedType, FeedTypeOK
  <2>6. expected .. next - 1 \subseteq Message
    BY <1>2, <2>5 DEF ReplayDone, FirstMissing
  <2>7. book' \subseteq Message /\ held' \subseteq Message
    BY <1>2, <2>5, <2>6 DEF ReplayDone, FeedType, FeedTypeOK
  <2> QED
    BY <1>2, <2>2, <2>7 DEF ReplayDone, Resync, FeedType, FeedTypeOK, exchangeVars
<1>3. ASSUME NEW p \in Position, NEW next \in Position, SnapshotDone(p, next)
      PROVE  FeedType'
  <2>1. next \in SeqNo
    BY MaxSeqAssumption, SeqModAssumption DEF SeqNo, Position
  <2>2. TypeOK'
    BY <1>3, <2>1, CallType DEF SnapshotDone, FeedType, FeedTypeOK
  <2>3. 1 .. next - 1 \subseteq Message
    BY MaxSeqAssumption DEF Position, Message
  <2>4. book' \subseteq Message /\ held' \subseteq Message
    BY <1>3, <2>3 DEF SnapshotDone, FeedType, FeedTypeOK
  <2> QED
    BY <1>3, <2>2, <2>4 DEF SnapshotDone, Resync, FeedType, FeedTypeOK, exchangeVars
<1> QED
  BY <1>1, <1>2, <1>3

\* Every step of the feed keeps the type.
LEMMA FeedStepType == FeedType /\ [Next]_vars => FeedType'
<1> SUFFICES ASSUME FeedType, [Next]_vars PROVE FeedType'
  OBVIOUS
<1>1. CASE UNCHANGED vars
  BY <1>1 DEF vars, seqVars, exchangeVars, handlerVars, FeedType, FeedTypeOK, TypeOK
<1>2. CASE Failover
  BY <1>2, MaxEpochAssumption, MaxSeqAssumption
     DEF Failover, seqVars, handlerVars, FeedType, FeedTypeOK, TypeOK, Epoch, Position
<1>3. ASSUME NEW i \in Instrument, WithholdBook(i) \/ PublishBook(i)
      PROVE  FeedType'
  BY <1>3 DEF WithholdBook, PublishBook, Quarantine, Release, exchangeVars, handlerVars,
       FeedType, FeedTypeOK, TypeOK
<1> QED
  BY <1>1, <1>2, <1>3, PublishType, DeliverType, RecoveryType DEF Next

\* Every variable of the feed keeps its type, and no message of a site's
\* stream ever wraps around the sequence space.
THEOREM FeedTypeCorrect == Spec => []FeedTypeOK
<1>1. Spec => []FeedType
  BY FeedInitType, FeedStepType, PTL DEF Spec
<1>2. FeedType => FeedTypeOK
  BY DEF FeedType
<1> QED
  BY <1>1, <1>2, PTL

----
(***************************************************************************)
(* A line never goes backwards except over a failover.  The invariant says *)
(* so of everything at once: the packets on a line follow one another, all *)
(* of them follow what the line has delivered, and all precede what the    *)
(* exchange will publish next.                                             *)
(***************************************************************************)

\* Position s of epoch e is no later than position t of epoch f.
Precedes(e, s, f, t) == e < f \/ (e = f /\ s <= t)

\* The position just past what line l is marked to have delivered.
MarkEnd(l) == IF lineHigh[l] = None THEN 0 ELSE lineHigh[l] + 1

LineOrdered(l) ==
  /\ Precedes(lineEpoch[l], MarkEnd(l), epoch, published)
  /\ \A i \in 1 .. Len(lines[l]) :
       LET pk == lines[l][i] IN
       /\ Precedes(lineEpoch[l], MarkEnd(l), pk.epoch, pk.seq)
       /\ Precedes(pk.epoch, pk.seq + pk.count, epoch, published)
  /\ \A i, j \in 1 .. Len(lines[l]) :
       i < j => Precedes(lines[l][i].epoch, lines[l][i].seq + lines[l][i].count,
                         lines[l][j].epoch, lines[l][j].seq)

LinesOrdered == \A l \in Line : LineOrdered(l)

\* The order in which a line carries its packets is transitive.
LEMMA PrecedesTransitive ==
  ASSUME NEW e1 \in Int, NEW s1 \in Int, NEW e2 \in Int, NEW s2 \in Int,
         NEW e3 \in Int, NEW s3 \in Int,
         Precedes(e1, s1, e2, s2), Precedes(e2, s2, e3, s3)
  PROVE  Precedes(e1, s1, e3, s3)
BY DEF Precedes

\* What a delivery does to the marks: the delivering line is marked up to the
\* end of its packet, unless that is a heartbeat; the other line keeps its
\* mark or loses it.
LEMMA DeliveryMarks ==
  ASSUME FeedType, NEW l \in Line, Deliver(l)
  PROVE  LET pk == Head(lines[l]) IN
         /\ \/ lineEpoch'[l] = lineEpoch[l] /\ lineHigh'[l] = lineHigh[l]
            \/ lineEpoch'[l] = pk.epoch /\ lineHigh'[l] = pk.seq + pk.count - 1
         /\ \A k \in Line \ {l} : /\ lineEpoch'[k] = lineEpoch[k]
                                  /\ lineHigh'[k] \in {lineHigh[k], None}
<1> DEFINE pk == Head(lines[l])
<1>1. Receive(l) /\ lines[l] # <<>>
  BY DEF Deliver, DeliverHeartbeat, DeliverRestart, DeliverFirst, DeliverInOrder,
         DeliverDuplicate, DeliverReplayGap, DeliverSnapshotGap, Receive
<1>2. pk \in Packet /\ Fits(pk)
  BY <1>1, HeadIsPacket
<1>3. pk.count > 0 => LastSeq(pk.seq, pk.count) = pk.seq + pk.count - 1
  BY <1>2, NoWrap
<1>4. lineHigh \in [Line -> SeqNo \union {None}] /\ lineEpoch \in [Line -> Epoch]
  BY DEF FeedType, FeedTypeOK, TypeOK
<1>5. CASE DeliverHeartbeat(l)
  BY <1>4, <1>5 DEF DeliverHeartbeat, Heartbeat, seqVars
<1>6. CASE DeliverRestart(l)
  BY <1>3, <1>4, <1>6 DEF DeliverRestart, ExchangeRestart
<1>7. CASE \/ DeliverFirst(l) \/ DeliverInOrder(l) \/ DeliverDuplicate(l)
           \/ DeliverReplayGap(l) \/ DeliverSnapshotGap(l)
  <2>1. Forward(pk.seq, pk.count, l) /\ lineEpoch' = [lineEpoch EXCEPT ![l] = pk.epoch]
    BY <1>7 DEF DeliverFirst, DeliverInOrder, DeliverDuplicate, DeliverReplayGap,
         DeliverSnapshotGap, FirstPacket, InOrder, Duplicate, RequestReplay, RequestSnapshot
  <2> QED
    BY <1>3, <1>4, <2>1 DEF Forward
<1> QED
  BY <1>5, <1>6, <1>7 DEF Deliver

\* The lines start empty, hence in order.
LEMMA InitOrdered == Init => LinesOrdered
BY DEF Init, SeqInit, LinesOrdered, LineOrdered, Precedes, MarkEnd

\* Losing a mark cannot break the order of a line.
LEMMA UnmarkedOrdered ==
  ASSUME FeedType, NEW k \in Line, LineOrdered(k),
         lines'[k] = lines[k], lineEpoch'[k] = lineEpoch[k],
         lineHigh'[k] \in {lineHigh[k], None}, UNCHANGED exchangeVars
  PROVE  LineOrdered(k)'
<1>1. CASE lineHigh'[k] = lineHigh[k]
  BY <1>1 DEF LineOrdered, MarkEnd, Precedes, exchangeVars
<1>2. CASE lineHigh'[k] = None
  <2>1. /\ MarkEnd(k)' = 0
        /\ MarkEnd(k) \in Nat
    BY <1>2 DEF MarkEnd, FeedType, FeedTypeOK, TypeOK, SeqNo
  <2>2. published \in Nat /\ epoch \in Nat /\ lineEpoch[k] \in Nat
    BY DEF FeedType, FeedTypeOK, Position, Epoch
  <2>3. Precedes(lineEpoch[k], 0, epoch, published)
    BY <2>1, <2>2 DEF LineOrdered, Precedes
  <2>4. ASSUME NEW i \in 1 .. Len(lines[k])
        PROVE  Precedes(lineEpoch[k], 0, lines[k][i].epoch, lines[k][i].seq)
    <3>1. lines[k][i] \in Packet
      BY DEF FeedType, FeedTypeOK
    <3> QED
      BY <2>1, <2>2, <3>1 DEF LineOrdered, Precedes, Packet, Position, Epoch
  <2> QED
    BY <2>1, <2>3, <2>4 DEF LineOrdered, exchangeVars
<1> QED
  BY <1>1, <1>2

\* Delivering the oldest packet leaves every line in order, its mark behind.
LEMMA DeliverOrdered ==
  ASSUME FeedType, LinesOrdered, NEW l \in Line, Deliver(l)
  PROVE  LinesOrdered'
<1> DEFINE pk == Head(lines[l])
<1>1. lines[l] # <<>> /\ lines' = [lines EXCEPT ![l] = Tail(lines[l])] /\ UNCHANGED exchangeVars
  BY DEF Deliver, DeliverHeartbeat, DeliverRestart, DeliverFirst, DeliverInOrder,
         DeliverDuplicate, DeliverReplayGap, DeliverSnapshotGap, Receive
<1>2. \A k \in Line : lines'[k] = IF k = l THEN Tail(lines[l]) ELSE lines[k]
  BY <1>1 DEF FeedType, FeedTypeOK
<1>3. /\ \/ lineEpoch'[l] = lineEpoch[l] /\ lineHigh'[l] = lineHigh[l]
         \/ lineEpoch'[l] = pk.epoch /\ lineHigh'[l] = pk.seq + pk.count - 1
      /\ \A k \in Line \ {l} : /\ lineEpoch'[k] = lineEpoch[k]
                               /\ lineHigh'[k] \in {lineHigh[k], None}
  BY DeliveryMarks
<1>4. ASSUME NEW k \in Line, k # l
      PROVE  LineOrdered(k)'
  BY <1>1, <1>2, <1>3, <1>4, UnmarkedOrdered DEF LinesOrdered
<1>5. LineOrdered(l)'
  <2>1. /\ lines[l] \in Seq(Packet) /\ pk = lines[l][1] /\ 1 \in 1 .. Len(lines[l])
        /\ Len(lines'[l]) = Len(lines[l]) - 1
        /\ \A i \in 1 .. Len(lines'[l]) : /\ lines'[l][i] = lines[l][i + 1]
                                          /\ i + 1 \in 1 .. Len(lines[l])
    <3>1. lines[l] \in Seq(Packet)
      BY DEF FeedType, FeedTypeOK
    <3>2. lines'[l] = Tail(lines[l])
      BY <1>2
    <3>3. /\ Len(Tail(lines[l])) = Len(lines[l]) - 1
          /\ \A i \in 1 .. Len(lines[l]) - 1 : Tail(lines[l])[i] = lines[l][i + 1]
          /\ 1 \in 1 .. Len(lines[l])
      BY <1>1, <3>1
    <3>4. \A i \in 1 .. Len(lines[l]) - 1 : i + 1 \in 1 .. Len(lines[l])
      BY <3>1
    <3>5. pk = lines[l][1]
      BY <1>1, <3>1
    <3> QED
      BY <3>1, <3>2, <3>3, <3>4, <3>5
  <2>2. pk.epoch \in Nat /\ pk.seq \in Nat /\ pk.count \in Nat
    BY <1>1, HeadIsPacket DEF Epoch, Position
  <2>3. CASE lineEpoch'[l] = lineEpoch[l] /\ lineHigh'[l] = lineHigh[l]
    <3>1. MarkEnd(l)' = MarkEnd(l)
      BY <2>3 DEF MarkEnd
    <3>2. LineOrdered(l)
      BY DEF LinesOrdered
    <3> QED
      BY <1>1, <2>1, <2>3, <3>1, <3>2 DEF LineOrdered, exchangeVars
  <2>4. CASE lineEpoch'[l] = pk.epoch /\ lineHigh'[l] = pk.seq + pk.count - 1
    <3>1. MarkEnd(l)' = pk.seq + pk.count
      <4>1. pk.seq + pk.count - 1 \in Int /\ (pk.seq + pk.count - 1) + 1 = pk.seq + pk.count
        BY <2>2
      <4> QED
        BY <2>4, <4>1, NoneAssumption DEF MarkEnd
    <3>2. LineOrdered(l)
      BY DEF LinesOrdered
    <3>3. Precedes(pk.epoch, pk.seq + pk.count, epoch, published)
      BY <2>1, <3>2 DEF LineOrdered
    <3>4. \A i \in 1 .. Len(lines'[l]) :
             /\ Precedes(pk.epoch, pk.seq + pk.count, lines'[l][i].epoch, lines'[l][i].seq)
             /\ Precedes(lines'[l][i].epoch, lines'[l][i].seq + lines'[l][i].count,
                         epoch, published)
      BY <2>1, <3>2 DEF LineOrdered
    <3>5. \A i, j \in 1 .. Len(lines'[l]) :
             i < j => Precedes(lines'[l][i].epoch, lines'[l][i].seq + lines'[l][i].count,
                               lines'[l][j].epoch, lines'[l][j].seq)
      <4> SUFFICES ASSUME NEW i \in 1 .. Len(lines'[l]), NEW j \in 1 .. Len(lines'[l]), i < j
                   PROVE  Precedes(lines'[l][i].epoch, lines'[l][i].seq + lines'[l][i].count,
                                   lines'[l][j].epoch, lines'[l][j].seq)
        OBVIOUS
      <4>1. i + 1 \in 1 .. Len(lines[l]) /\ j + 1 \in 1 .. Len(lines[l]) /\ i + 1 < j + 1
        BY <2>1
      <4>2. PICK a, b \in 1 .. Len(lines[l]) : a = i + 1 /\ b = j + 1 /\ a < b
        BY <4>1
      <4>3. lines'[l][i] = lines[l][a] /\ lines'[l][j] = lines[l][b]
        BY <2>1, <4>2
      <4> QED
        BY <3>2, <4>2, <4>3 DEF LineOrdered
    <3> QED
      BY <1>1, <2>4, <3>1, <3>3, <3>4, <3>5 DEF LineOrdered, exchangeVars
  <2> QED
    BY <1>3, <2>3, <2>4
<1> QED
  BY <1>4, <1>5 DEF LinesOrdered

\* A new packet goes behind everything in flight.
LEMMA PublishOrdered ==
  ASSUME FeedType, LinesOrdered, NEW n \in 0 .. MaxCount, NEW surviving \in SUBSET Line,
         Publish(n, surviving)
  PROVE  LinesOrdered'
<1> SUFFICES ASSUME NEW l \in Line PROVE LineOrdered(l)'
  BY DEF LinesOrdered
<1> DEFINE pk == [epoch |-> epoch, seq |-> published, count |-> n]
<1>1. /\ lines[l] \in Seq(Packet) /\ LineOrdered(l)
      /\ epoch \in Nat /\ published \in Nat /\ n \in Nat /\ lineEpoch[l] \in Nat
      /\ MarkEnd(l) \in Nat
  BY MaxCountAssumption
     DEF LinesOrdered, FeedType, FeedTypeOK, TypeOK, MarkEnd, SeqNo, Epoch, Position
<1>2. /\ epoch' = epoch /\ published' = published + n /\ lineEpoch' = lineEpoch
      /\ MarkEnd(l)' = MarkEnd(l)
      /\ lines'[l] = IF l \in surviving THEN Append(lines[l], pk) ELSE lines[l]
  BY DEF Publish, MarkEnd, seqVars
<1>3. ASSUME NEW e \in Int, NEW s \in Int, Precedes(e, s, epoch, published)
      PROVE  Precedes(e, s, epoch, published + n)
  BY <1>1, <1>3 DEF Precedes
<1>4. ASSUME NEW i \in 1 .. Len(lines[l])
      PROVE  /\ lines[l][i].epoch \in Int /\ lines[l][i].seq + lines[l][i].count \in Int
             /\ Precedes(lines[l][i].epoch, lines[l][i].seq + lines[l][i].count,
                         epoch, published + n)
  <2>1. lines[l][i] \in Packet
    BY <1>1
  <2>2. lines[l][i].epoch \in Int /\ lines[l][i].seq + lines[l][i].count \in Int
    BY <2>1, MaxCountAssumption DEF Packet, Epoch, Position
  <2> QED
    BY <1>1, <1>3, <2>2 DEF LineOrdered
<1>5. CASE l \notin surviving
  BY <1>1, <1>2, <1>3, <1>4, <1>5 DEF LineOrdered
<1>6. CASE l \in surviving
  <2>1. /\ Len(lines'[l]) = Len(lines[l]) + 1
        /\ \A i \in 1 .. Len(lines[l]) : lines'[l][i] = lines[l][i]
        /\ lines'[l][Len(lines[l]) + 1] = pk
    BY <1>1, <1>2, <1>6
  <2>2. Precedes(lineEpoch[l], MarkEnd(l), pk.epoch, pk.seq)
    BY <1>1 DEF LineOrdered
  <2>3. Precedes(pk.epoch, pk.seq + pk.count, epoch, published + n)
    BY <1>1 DEF Precedes
  <2>4. \A i \in 1 .. Len(lines'[l]) :
           /\ Precedes(lineEpoch[l], MarkEnd(l), lines'[l][i].epoch, lines'[l][i].seq)
           /\ Precedes(lines'[l][i].epoch, lines'[l][i].seq + lines'[l][i].count,
                       epoch, published + n)
    <3> SUFFICES ASSUME NEW i \in 1 .. Len(lines'[l])
                 PROVE  /\ Precedes(lineEpoch[l], MarkEnd(l), lines'[l][i].epoch, lines'[l][i].seq)
                        /\ Precedes(lines'[l][i].epoch, lines'[l][i].seq + lines'[l][i].count,
                                    epoch, published + n)
      OBVIOUS
    <3>1. CASE i \in 1 .. Len(lines[l])
      BY <1>1, <1>4, <2>1, <3>1 DEF LineOrdered
    <3>2. CASE i = Len(lines[l]) + 1
      BY <2>1, <2>2, <2>3, <3>2
    <3> QED
      BY <1>1, <2>1, <3>1, <3>2
  <2>5. \A i, j \in 1 .. Len(lines'[l]) :
           i < j => Precedes(lines'[l][i].epoch, lines'[l][i].seq + lines'[l][i].count,
                             lines'[l][j].epoch, lines'[l][j].seq)
    <3> SUFFICES ASSUME NEW i \in 1 .. Len(lines'[l]), NEW j \in 1 .. Len(lines'[l]), i < j
                 PROVE  Precedes(lines'[l][i].epoch, lines'[l][i].seq + lines'[l][i].count,
                                 lines'[l][j].epoch, lines'[l][j].seq)
      OBVIOUS
    <3>1. i \in 1 .. Len(lines[l]) /\ lines'[l][i] = lines[l][i]
      BY <1>1, <2>1
    <3>2. CASE j \in 1 .. Len(lines[l])
      BY <1>1, <2>1, <3>1, <3>2 DEF LineOrdered
    <3>3. CASE j = Len(lines[l]) + 1
      BY <1>1, <2>1, <3>1, <3>3 DEF LineOrdered
    <3> QED
      BY <1>1, <2>1, <3>2, <3>3
  <2>6. Precedes(lineEpoch[l], MarkEnd(l), epoch, published + n)
    BY <1>1, <1>3 DEF LineOrdered
  <2> QED
    BY <1>2, <2>4, <2>5, <2>6 DEF LineOrdered
<1> QED
  BY <1>5, <1>6

\* Every step of the feed keeps the lines in order.
LEMMA FeedStepOrdered == FeedType /\ LinesOrdered /\ [Next]_vars => LinesOrdered'
<1> SUFFICES ASSUME FeedType, LinesOrdered, [Next]_vars PROVE LinesOrdered'
  OBVIOUS
<1>1. CASE UNCHANGED vars
  BY <1>1 DEF vars, seqVars, exchangeVars, LinesOrdered, LineOrdered, MarkEnd
<1>2. CASE Failover
  <2>1. epoch \in Nat /\ \A l \in Line : lineEpoch[l] \in Nat
    BY DEF FeedType, FeedTypeOK, Epoch
  <2>2. \A l \in Line : \A i \in 1 .. Len(lines[l]) : lines[l][i].epoch \in Nat
    <3> SUFFICES ASSUME NEW l \in Line, NEW i \in 1 .. Len(lines[l])
                 PROVE  lines[l][i].epoch \in Nat
      OBVIOUS
    <3>1. lines[l] \in Seq(Packet)
      BY DEF FeedType, FeedTypeOK
    <3>2. lines[l][i] \in Packet
      BY <3>1
    <3> QED
      BY <3>2 DEF Packet, Epoch
  <2>3. ASSUME NEW e \in Nat, NEW s, Precedes(e, s, epoch, published)
        PROVE  Precedes(e, s, epoch', published')
    BY <1>2, <2>1, <2>3 DEF Precedes, Failover
  <2> QED
    BY <1>2, <2>1, <2>2, <2>3 DEF Failover, seqVars, LinesOrdered, LineOrdered, MarkEnd
<1>3. CASE \/ \E next \in Position : ReplayDone(next)
           \/ \E p, next \in Position : SnapshotDone(p, next)
  <2>1. /\ UNCHANGED <<exchangeVars, lines, lineEpoch>>
        /\ lineHigh' = [l \in Line |-> None]
    BY <1>3 DEF ReplayDone, SnapshotDone, Resync
  <2> QED
    BY <2>1, UnmarkedOrdered DEF LinesOrdered
<1>4. CASE ReplayRefused
  BY <1>4 DEF ReplayRefused, seqVars, exchangeVars, LinesOrdered, LineOrdered, MarkEnd
<1>5. CASE \E i \in Instrument : WithholdBook(i) \/ PublishBook(i)
  BY <1>5 DEF WithholdBook, PublishBook, Quarantine, Release, exchangeVars,
       LinesOrdered, LineOrdered, MarkEnd
<1> QED
  BY <1>1, <1>2, <1>3, <1>4, <1>5, PublishOrdered, DeliverOrdered DEF Next

\* A packet is read as an exchange restart only if its line has crossed a
\* failover: loss, a slow twin, replays and snapshots never cause a rebuild.
THEOREM RestartsAreReal == Spec => RestartOnlyAfterFailover
<1> DEFINE Real == \A l \in Line : Classified(l, "restarts")
                                    => lineEpoch[l] < Head(lines[l]).epoch
<1>1. FeedType /\ LinesOrdered /\ [Next]_vars => [Real]_vars
  <2> SUFFICES ASSUME FeedType, LinesOrdered, Next, NEW l \in Line, Classified(l, "restarts")
               PROVE  lineEpoch[l] < Head(lines[l]).epoch
    OBVIOUS
  <2>1. stats'.restarts > stats.restarts /\ lines[l] # <<>> /\ lines'[l] = Tail(lines[l])
    BY DEF Classified
  <2>2. stats'.restarts # stats.restarts
    BY <2>1 DEF FeedType, FeedTypeOK, TypeOK, Counter
  <2>3. PICK k \in Line : DeliverRestart(k)
    <3>1. PICK k \in Line : Deliver(k)
      BY <2>2 DEF Next, Publish, Failover, ReplayDone, ReplayRefused, SnapshotDone, Resync,
           WithholdBook, PublishBook, Quarantine, Release, seqVars
    <3>2. ~DeliverRestart(k) => stats'.restarts = stats.restarts
      BY <3>1 DEF Deliver, DeliverHeartbeat, DeliverFirst, DeliverInOrder, DeliverDuplicate,
           DeliverReplayGap, DeliverSnapshotGap, Heartbeat, FirstPacket, InOrder, Duplicate,
           RequestReplay, RequestSnapshot, Tally, seqVars, Counter
    <3> QED
      BY <2>2, <3>1, <3>2
  <2>4. k = l
    <3>1. lines[l] \in Seq(Packet)
      BY DEF FeedType, FeedTypeOK
    <3>2. Tail(lines[l]) # lines[l]
      <4>1. PICK len \in Nat : Len(lines[l]) = len
        BY <3>1
      <4>2. Len(Tail(lines[l])) = len - 1
        BY <2>1, <3>1, <4>1
      <4>3. len - 1 # len
        BY <4>1
      <4> QED
        BY <4>1, <4>2, <4>3
    <3>3. k # l => lines'[l] = lines[l]
      BY <2>3 DEF DeliverRestart, Receive, FeedType, FeedTypeOK
    <3> QED
      BY <2>1, <3>2, <3>3
  <2>5. lineHigh[l] # None /\ Head(lines[l]).seq <= lineHigh[l]
    BY <2>3, <2>4 DEF DeliverRestart, ExchangeRestart, WentBackwards
  <2>6. Precedes(lineEpoch[l], lineHigh[l] + 1, Head(lines[l]).epoch, Head(lines[l]).seq)
    <3>1. lines[l] \in Seq(Packet) /\ lines[l] # <<>>
      BY <2>1 DEF FeedType, FeedTypeOK
    <3>2. 1 \in 1 .. Len(lines[l]) /\ Head(lines[l]) = lines[l][1]
      BY <3>1
    <3> QED
      BY <2>5, <3>2 DEF LinesOrdered, LineOrdered, MarkEnd
  <2>7. lineHigh[l] \in Int /\ Head(lines[l]).seq \in Int
    BY <2>1, <2>5, HeadIsPacket DEF FeedType, FeedTypeOK, TypeOK, SeqNo
  <2> QED
    BY <2>5, <2>6, <2>7 DEF Precedes
<1>2. Spec => [](FeedType /\ LinesOrdered)
  BY FeedInitType, FeedStepType, InitOrdered, FeedStepOrdered, PTL DEF Spec
<1> QED
  BY <1>1, <1>2, PTL DEF Spec, RestartOnlyAfterFailover

----
(***************************************************************************)
(* The handler's books, and the quota, behind any lines and any recovery.  *)
(***************************************************************************)

\* A replay is only ever asked for after the session has been joined.
Joined == pending # None => expected # None

\* No step asks for a replay before the session is joined.
LEMMA JoinedStep == FeedType /\ Joined /\ [Next]_vars => Joined'
<1> SUFFICES ASSUME FeedType, Joined, [Next]_vars, expected' = None
             PROVE  pending' = None
  BY DEF Joined
<1> USE DEF Joined
<1>1. CASE UNCHANGED <<expected, pending>>
  BY <1>1
<1>2. ASSUME NEW l \in Line, Deliver(l)
      PROVE  pending' = None
  <2>1. lines[l] # <<>>
    BY <1>2 DEF Deliver, DeliverHeartbeat, DeliverRestart, DeliverFirst, DeliverInOrder,
         DeliverDuplicate, DeliverReplayGap, DeliverSnapshotGap, Receive
  <2>2. NextExpected(Head(lines[l]).seq, Head(lines[l]).count) # None
    BY <2>1, HeadIsPacket, NoWrap, NoneAssumption DEF Position
  <2> QED
    BY <1>2, <2>2 DEF Deliver, DeliverHeartbeat, DeliverRestart, DeliverFirst, DeliverInOrder,
         DeliverDuplicate, DeliverReplayGap, DeliverSnapshotGap, Heartbeat, ExchangeRestart,
         FirstPacket, InOrder, Duplicate, RequestReplay, RequestSnapshot, seqVars, handlerVars
<1>3. CASE \/ \E next \in Position : ReplayDone(next)
           \/ \E p, next \in Position : SnapshotDone(p, next)
  <2>1. expected' \in Position
    BY <1>3 DEF ReplayDone, SnapshotDone, Resync
  <2> QED
    BY <2>1, NoneAssumption DEF Position
<1> QED
  BY <1>1, <1>2, <1>3 DEF Next, Publish, Failover, ReplayRefused, WithholdBook, PublishBook,
       Quarantine, Release, vars, seqVars, handlerVars

\* Every step keeps a live book whole.
LEMMA BookStep == FeedType /\ Joined /\ BookHasNoHole /\ [Next]_vars => BookHasNoHole'
<1> SUFFICES ASSUME FeedType, Joined, BookHasNoHole, [Next]_vars, Live'
             PROVE  book' = 1 .. expected' - 1
  BY DEF BookHasNoHole
<1> USE DEF Live
<1>1. CASE UNCHANGED vars
  BY <1>1 DEF vars, seqVars, handlerVars, BookHasNoHole
<1>2. CASE Failover \/ \E n \in 0 .. MaxCount, surviving \in SUBSET Line : Publish(n, surviving)
  BY <1>2 DEF Failover, Publish, seqVars, handlerVars, BookHasNoHole
<1>3. ASSUME NEW l \in Line, Deliver(l)
      PROVE  book' = 1 .. expected' - 1
  <2> DEFINE pk == Head(lines[l])
  <2>1. CASE DeliverInOrder(l)
    <3>1. lines[l] # <<>>
      BY <2>1 DEF DeliverInOrder, Receive
    <3>2. /\ pk \in Packet /\ Fits(pk) /\ pk.seq \in Nat /\ pk.seq > 0 /\ pk.count \in Nat
          /\ NextExpected(pk.seq, pk.count) = pk.seq + pk.count
      BY <3>1, HeadIsPacket, NoWrap DEF Position
    <3>3. /\ expected = pk.seq /\ expected' = pk.seq + pk.count
          /\ snapFrom = None /\ book' = book \union Messages(pk)
      BY <2>1, <3>2 DEF DeliverInOrder, InOrder, Live
    <3>4. book = 1 .. pk.seq - 1
      BY <2>1, <3>3 DEF BookHasNoHole, DeliverInOrder, InOrder
    <3>5. \A s \in Nat, n \in Nat : s > 0 =>
             (1 .. s - 1) \union (s .. s + n - 1) = 1 .. s + n - 1
      OBVIOUS
    <3>6. (1 .. pk.seq - 1) \union (pk.seq .. pk.seq + pk.count - 1)
             = 1 .. pk.seq + pk.count - 1
      <4> HIDE DEF pk
      <4> QED
        BY <3>2, <3>5
    <3>7. Messages(pk) = pk.seq .. pk.seq + pk.count - 1
      BY DEF Messages
    <3> HIDE DEF pk
    <3>8. book' = 1 .. pk.seq + pk.count - 1
      BY ONLY <3>3, <3>4, <3>6, <3>7, Zenon
    <3>9. (pk.seq + pk.count) - 1 = pk.seq + pk.count - 1
      BY <3>2
    <3> QED
      BY ONLY <3>3, <3>8, <3>9, Zenon
  <2>2. CASE DeliverHeartbeat(l) \/ DeliverDuplicate(l) \/ DeliverReplayGap(l)
    BY <2>2 DEF DeliverHeartbeat, DeliverDuplicate, DeliverReplayGap, Heartbeat, Duplicate,
         RequestReplay, seqVars, handlerVars, BookHasNoHole
  <2>3. CASE DeliverRestart(l) \/ DeliverFirst(l) \/ DeliverSnapshotGap(l)
    <3>1. published # None
      BY NoneAssumption DEF FeedType, FeedTypeOK, Position
    <3> QED
      BY <2>3, <3>1 DEF DeliverRestart, DeliverFirst, DeliverSnapshotGap
  <2> QED
    BY <1>3, <2>1, <2>2, <2>3 DEF Deliver
<1>4. ASSUME NEW next \in Position, ReplayDone(next)
      PROVE  book' = 1 .. expected' - 1
  <2>1. CASE expected = None
    BY <1>4, <2>1 DEF ReplayDone, Joined
  <2>2. CASE expected \in Position
    <3>1. /\ expected' = next /\ snapFrom = None /\ next >= expected
          /\ book' = book \union (expected .. next - 1)
      BY <1>4, <2>2, NoneAssumption DEF ReplayDone, FirstMissing, Resync, Position
    <3>2. book = 1 .. expected - 1
      BY <2>2, <3>1, NoneAssumption DEF BookHasNoHole, Position
    <3>3. \A e, n \in Nat : e >= 1 /\ n >= e => (1 .. e - 1) \union (e .. n - 1) = 1 .. n - 1
      OBVIOUS
    <3>4. expected \in Nat /\ expected >= 1 /\ next \in Nat
      BY <2>2, MaxSeqAssumption DEF Position
    <3> QED
      BY <3>1, <3>2, <3>3, <3>4
  <2> QED
    BY <2>1, <2>2 DEF FeedType, FeedTypeOK
<1>5. CASE ReplayRefused
  BY <1>5, NoneAssumption DEF ReplayRefused, FeedType, FeedTypeOK, Position
<1>6. ASSUME NEW p \in Position, NEW next \in Position, SnapshotDone(p, next)
      PROVE  book' = 1 .. expected' - 1
  BY <1>6 DEF SnapshotDone, Resync
<1>7. CASE \E i \in Instrument : WithholdBook(i) \/ PublishBook(i)
  BY <1>7 DEF WithholdBook, PublishBook, Quarantine, Release, handlerVars, BookHasNoHole
<1> QED
  BY <1>1, <1>2, <1>3, <1>4, <1>5, <1>6, <1>7 DEF Next

\* Live books are always the whole stream up to the expected sequence.
THEOREM BooksAreWhole == Spec => []BookHasNoHole
<1>1. Init => Joined /\ BookHasNoHole
  BY DEF Init, SeqInit, Joined, BookHasNoHole, Live
<1>2. Spec => []FeedType
  BY FeedInitType, FeedStepType, PTL DEF Spec
<1> QED
  BY <1>1, <1>2, JoinedStep, BookStep, PTL DEF Spec

\* What a line delivers is observed as a packet of the exchange.
LEMMA DeliveryIsObserved ==
  ASSUME FeedType, NEW l \in Line, Deliver(l)
  PROVE  /\ Observe(Head(lines[l]).seq, Head(lines[l]).count, l)
         /\ Head(lines[l]).seq \in SeqNo /\ Head(lines[l]).count \in 0 .. MaxCount
<1>1. Observe(Head(lines[l]).seq, Head(lines[l]).count, l) /\ lines[l] # <<>>
  BY DEF Deliver, DeliverHeartbeat, DeliverRestart, DeliverFirst, DeliverInOrder, Receive,
       DeliverDuplicate, DeliverReplayGap, DeliverSnapshotGap, Observe
<1>2. Head(lines[l]) \in Packet
  BY <1>1, HeadIsPacket
<1>3. Position \subseteq SeqNo
  BY MaxSeqAssumption, SeqModAssumption DEF Position, SeqNo
<1> QED
  BY <1>1, <1>2, <1>3 DEF Packet

\* The counts of the sequencer add up behind any feed.
LEMMA AccountingAlways == Spec => []Accounting
<1>1. Init => Accounting
  BY InitInvariant DEF Init
<1>2. FeedType /\ Accounting /\ [Next]_vars => Accounting'
  <2> SUFFICES ASSUME FeedType, Accounting, [Next]_vars PROVE Accounting'
    OBVIOUS
  <2>1. CASE UNCHANGED <<replayBudget, stats>>
    BY <2>1 DEF Accounting, BudgetConserved, GapsEscalateOnce
  <2>2. ASSUME NEW l \in Line, Deliver(l)
        PROVE  Accounting'
    BY <2>2, DeliveryIsObserved, ObserveAccounting DEF FeedType, FeedTypeOK
  <2> QED
    BY <2>1, <2>2 DEF Next, Publish, Failover, ReplayDone, ReplayRefused, SnapshotDone,
         Resync, WithholdBook, PublishBook, Quarantine, Release, vars, seqVars
<1>3. Spec => []FeedType
  BY FeedInitType, FeedStepType, PTL DEF Spec
<1> QED
  BY <1>1, <1>2, <1>3, PTL DEF Spec

\* The replay quota holds behind any feed, across failovers and resyncs.
THEOREM FeedBudgetConserved == Spec => []BudgetConserved
<1>1. Accounting => BudgetConserved
  BY DEF Accounting
<1> QED
  BY <1>1, AccountingAlways, PTL

\* Behind any feed every gap is escalated exactly once.
THEOREM FeedGapsEscalate == Spec => []GapsEscalateOnce
<1>1. Accounting => GapsEscalateOnce
  BY DEF Accounting
<1> QED
  BY <1>1, AccountingAlways, PTL

\* Behind any feed, with both lines late and a handler that resyncs at any
\* time, no packet but that of a restart moves the expected sequence back.
THEOREM FeedNeverRewinds == Spec => ArbitrationNeverRewinds
<1> DEFINE Guarded == stats' # stats /\ stats'.restarts = stats.restarts /\ expected # None
                        => expected' >= expected \/ expected' < MaxCount
<1>1. FeedType /\ [Next]_vars => [Guarded]_seqVars
  <2> SUFFICES ASSUME FeedType, [Next]_vars, stats' # stats, expected # None,
                      stats'.restarts = stats.restarts
               PROVE  expected' >= expected \/ expected' < MaxCount
    OBVIOUS
  <2>1. PICK l \in Line : Deliver(l)
    BY DEF Next, Publish, Failover, ReplayDone, ReplayRefused, SnapshotDone,
         Resync, WithholdBook, PublishBook, Quarantine, Release, vars, seqVars
  <2> QED
    BY <2>1, DeliveryIsObserved, ObserveNeverRewinds DEF FeedType, FeedTypeOK
<1>2. Spec => []FeedType
  BY FeedInitType, FeedStepType, PTL DEF Spec
<1> QED
  BY <1>1, <1>2, PTL DEF Spec, ArbitrationNeverRewinds

\* Whatever a packet or a recovery does, a quarantined instrument is released
\* by the handler over live books, or by a restart (sequencer.rs, release and
\* ExchangeRestart), after which every book awaits its snapshot.
THEOREM QuarantineIsKept == Spec => QuarantineHolds
<1> DEFINE Kept == \A i \in quarantined :
              \/ i \in quarantined'
              \/ PublishBook(i)
              \/ (~Live' /\ \E l \in Line : Classified(l, "restarts"))
<1>1. FeedType /\ [Next]_vars => [Kept]_vars
  <2> SUFFICES ASSUME FeedType, Next, NEW i \in quarantined
               PROVE  \/ i \in quarantined'
                      \/ PublishBook(i)
                      \/ (~Live' /\ \E l \in Line : Classified(l, "restarts"))
    OBVIOUS
  <2>1. ASSUME NEW l \in Line, DeliverRestart(l)
        PROVE  ~Live' /\ Classified(l, "restarts")
    <3>1. ~Live'
      BY <2>1, NoneAssumption DEF DeliverRestart, Live, FeedType, FeedTypeOK, Position
    <3>2. lines \in [Line -> Seq(Packet)] /\ stats \in [Counter -> Nat] /\ "restarts" \in Counter
      BY DEF FeedType, FeedTypeOK, TypeOK, Counter
    <3>3. lines[l] # <<>> /\ lines'[l] = Tail(lines[l])
      BY <2>1, <3>2 DEF DeliverRestart, Receive
    <3>4. stats'["restarts"] = stats["restarts"] + 1
      BY <2>1, <3>2 DEF DeliverRestart, ExchangeRestart, Tally
    <3> QED
      BY <3>1, <3>2, <3>3, <3>4 DEF Classified
  <2>2. ASSUME NEW l \in Line, Deliver(l), ~DeliverRestart(l)
        PROVE  quarantined' = quarantined
    BY <2>2 DEF Deliver, DeliverHeartbeat, DeliverFirst, DeliverInOrder, DeliverDuplicate,
       DeliverReplayGap, DeliverSnapshotGap, Heartbeat, FirstPacket, InOrder, Duplicate,
       RequestReplay, RequestSnapshot, seqVars
  <2>3. ASSUME NEW j \in Instrument, PublishBook(j)
        PROVE  PublishBook(i) \/ i \in quarantined'
    BY <2>3 DEF PublishBook, Release
  <2>4. ASSUME NEW j \in Instrument, WithholdBook(j)
        PROVE  i \in quarantined'
    BY <2>4 DEF WithholdBook, Quarantine
  <2>5. (\E n \in 0 .. MaxCount, surviving \in SUBSET Line : Publish(n, surviving)) \/ Failover
        \/ (\E next \in Position : ReplayDone(next)) \/ ReplayRefused
        \/ (\E p, next \in Position : SnapshotDone(p, next))
          => quarantined' = quarantined
    BY DEF Publish, Failover, ReplayDone, ReplayRefused, SnapshotDone, Resync, seqVars
  <2> QED
    BY <2>1, <2>2, <2>3, <2>4, <2>5 DEF Next
<1>2. Spec => []FeedType
  BY FeedInitType, FeedStepType, PTL DEF Spec
<1> QED
  BY <1>1, <1>2, PTL DEF Spec, QuarantineHolds

----
(***************************************************************************)
(* The promise of the books, for one site's stream.                        *)
(***************************************************************************)

\* Nothing known of the only site is ahead of it, and books that await a
\* snapshot are older than what it will reflect.
OneSite ==
  /\ expected = None => book = {}
  /\ expected # None => expected <= published
  /\ \A m \in held : m < published
  /\ pending # None => pending.to < published
  /\ snapFrom # None => snapFrom <= published /\ \A m \in book : m < snapFrom

SiteInv == FeedType /\ LinesOrdered /\ Joined /\ BookHasNoHole /\ OneSite

\* The numbers of the feed are naturals, and no position is None.
LEMMA FeedNumbers ==
  ASSUME FeedType
  PROVE  /\ published \in Nat /\ published # None /\ published >= 1
         /\ expected # None => expected \in Nat /\ expected >= 1
         /\ snapFrom # None => snapFrom \in Nat /\ snapFrom >= 1
         /\ \A m \in book \union held : m \in Nat /\ m >= 1
         /\ \A p \in Position : p \in Nat /\ p # None
<1>1. \A p \in Position : p \in Nat /\ p >= 1 /\ p # None
  BY NoneAssumption, MaxSeqAssumption, SeqModAssumption DEF Position, SeqNo
<1>2. /\ published \in Position /\ expected \in Position \union {None}
      /\ snapFrom \in Position \union {None} /\ book \subseteq Message /\ held \subseteq Message
  BY DEF FeedType, FeedTypeOK
<1>3. \A m \in Message : m \in Nat /\ m >= 1
  BY DEF Message
<1> QED
  BY <1>1, <1>2, <1>3

\* With one site no packet is a restart, and none ends ahead of the exchange.
LEMMA OneSiteDelivers ==
  ASSUME MaxEpoch = 0, FeedType, LinesOrdered, NEW l \in Line, Deliver(l)
  PROVE  LET pk == Head(lines[l]) IN
         /\ ~DeliverRestart(l)
         /\ published' = published
         /\ pk.seq \in Nat /\ pk.seq >= 1 /\ pk.count \in Nat
         /\ pk.seq + pk.count <= published
         /\ NextExpected(pk.seq, pk.count) = pk.seq + pk.count
<1> DEFINE pk == Head(lines[l])
<1>1. lines[l] # <<>> /\ published' = published
  BY DEF Deliver, DeliverHeartbeat, DeliverRestart, DeliverFirst, DeliverInOrder,
     DeliverDuplicate, DeliverReplayGap, DeliverSnapshotGap, Receive, exchangeVars
<1>2. /\ pk \in Packet /\ Fits(pk) /\ pk.epoch \in Epoch /\ pk.seq \in Position /\ pk.count \in Nat
      /\ NextExpected(pk.seq, pk.count) = pk.seq + pk.count
  BY <1>1, HeadIsPacket, NoWrap
<1>3. pk.epoch = 0 /\ epoch = 0 /\ lineEpoch[l] = 0
  BY <1>2 DEF FeedType, FeedTypeOK, Epoch
<1>4. /\ Precedes(lineEpoch[l], MarkEnd(l), pk.epoch, pk.seq)
      /\ Precedes(pk.epoch, pk.seq + pk.count, epoch, published)
  <2>1. lines[l] \in Seq(Packet)
    BY DEF FeedType, FeedTypeOK
  <2>2. 1 \in 1 .. Len(lines[l]) /\ Head(lines[l]) = lines[l][1]
    BY <1>1, <2>1
  <2> QED
    BY <2>2 DEF LinesOrdered, LineOrdered
<1>5. MarkEnd(l) <= pk.seq /\ pk.seq + pk.count <= published
  BY <1>3, <1>4 DEF Precedes
<1>6. ~DeliverRestart(l)
  <2> SUFFICES ASSUME DeliverRestart(l) PROVE FALSE
    OBVIOUS
  <2>1. lineHigh[l] # None /\ pk.seq <= lineHigh[l]
    BY DEF DeliverRestart, ExchangeRestart, WentBackwards
  <2>2. lineHigh[l] \in Int /\ pk.seq \in Int
    BY <1>2, <2>1 DEF FeedType, FeedTypeOK, TypeOK, SeqNo, Position
  <2> HIDE DEF pk
  <2> QED
    BY <1>5, <2>1, <2>2 DEF MarkEnd
<1>7. pk.seq \in Nat /\ pk.seq >= 1
  BY <1>2 DEF Position
<1> QED
  BY <1>1, <1>2, <1>5, <1>6, <1>7

\* Every packet leaves the handler behind the site.
LEMMA OneSiteDelivery ==
  ASSUME MaxEpoch = 0, SiteInv, NEW l \in Line, Deliver(l)
  PROVE  OneSite'
<1> DEFINE pk == Head(lines[l])
<1>1. /\ ~DeliverRestart(l) /\ published' = published
      /\ pk.seq \in Nat /\ pk.seq >= 1 /\ pk.count \in Nat /\ pk.seq + pk.count <= published
      /\ NextExpected(pk.seq, pk.count) = pk.seq + pk.count
  BY OneSiteDelivers DEF SiteInv
<1>2. /\ published \in Nat /\ published # None
      /\ expected # None => expected \in Nat /\ expected >= 1
      /\ snapFrom # None => snapFrom \in Nat
      /\ \A m \in book \union held : m \in Nat
  BY FeedNumbers DEF SiteInv
<1>3. \A m \in Messages(pk) : m < published
  <2> SUFFICES ASSUME NEW m \in Messages(pk) PROVE m < published
    OBVIOUS
  <2> HIDE DEF pk
  <2>1. m \in pk.seq .. pk.seq + pk.count - 1
    BY DEF Messages
  <2> QED
    BY <1>1, <1>2, <2>1
<1>4. pk.seq + pk.count # None
  BY <1>1, <1>2, NoneAssumption, MaxSeqAssumption, SeqModAssumption
     DEF SiteInv, FeedType, FeedTypeOK, Position, SeqNo
<1>5. \A m \in book : m < published
  <2>1. CASE Live
    BY <1>2, <2>1 DEF SiteInv, BookHasNoHole, OneSite, Live
  <2>2. CASE snapFrom # None
    BY <1>2, <2>2 DEF SiteInv, OneSite
  <2>3. CASE expected = None
    BY <2>3 DEF SiteInv, OneSite
  <2> QED
    BY <2>1, <2>2, <2>3 DEF Live
<1> HIDE DEF pk
<1>6. CASE DeliverHeartbeat(l) \/ DeliverDuplicate(l)
  <2>1. UNCHANGED <<expected, book, held, pending, snapFrom>>
    BY <1>6 DEF DeliverHeartbeat, DeliverDuplicate, Heartbeat, Duplicate, seqVars, handlerVars
  <2> QED
    BY <1>1, <2>1 DEF SiteInv, OneSite
<1>7. CASE DeliverFirst(l)
  <2>1. /\ expected = None /\ expected' = pk.seq + pk.count /\ held' = Messages(pk)
        /\ snapFrom' = published /\ book' = book /\ pending' = pending
    BY <1>1, <1>7 DEF DeliverFirst, FirstPacket, pk
  <2> QED
    BY <1>1, <1>2, <1>3, <1>4, <2>1 DEF SiteInv, OneSite, Joined
<1>8. CASE DeliverInOrder(l)
  <2>1. /\ expected # None /\ expected' = pk.seq + pk.count
        /\ held' = (IF Live THEN held ELSE held \union Messages(pk))
        /\ snapFrom' = snapFrom /\ pending' = pending
        /\ book' = (IF Live THEN book \union Messages(pk) ELSE book)
    BY <1>1, <1>8 DEF DeliverInOrder, InOrder, pk
  <2>2. CASE Live
    BY <1>1, <1>3, <1>4, <2>1, <2>2 DEF SiteInv, OneSite, Live
  <2>3. CASE ~Live
    BY <1>1, <1>3, <1>4, <2>1, <2>3 DEF SiteInv, OneSite, Live
  <2> QED
    BY <2>2, <2>3
<1>9. CASE DeliverReplayGap(l)
  <2>1. /\ expected' = expected /\ book' = book /\ snapFrom' = snapFrom
        /\ held' = held \union Messages(pk)
        /\ pending'.to \in {pending.to, pk.seq - 1}
        /\ pending'.to = pending.to => pending # None \/ pending'.to = pk.seq - 1
    BY <1>9 DEF DeliverReplayGap, RequestReplay, ReplayRange, pk
  <2>2. pk.count > 0 \/ pk.seq - 1 < published
    BY <1>1, <1>2
  <2>3. pending' # None => pending'.to < published
    BY <1>1, <1>2, <2>1, <2>2 DEF SiteInv, OneSite
  <2> QED
    BY <1>1, <1>3, <2>1, <2>3 DEF SiteInv, OneSite
<1>10. CASE DeliverSnapshotGap(l)
  <2>1. /\ expected # None /\ expected' = pk.seq + pk.count /\ held' = held \union Messages(pk)
        /\ snapFrom' = published /\ book' = book /\ pending' = pending
    BY <1>1, <1>10 DEF DeliverSnapshotGap, RequestSnapshot, pk
  <2> QED
    BY <1>1, <1>2, <1>3, <1>4, <1>5, <2>1 DEF SiteInv, OneSite
<1> QED
  BY <1>1, <1>6, <1>7, <1>8, <1>9, <1>10 DEF Deliver

\* With one site, every step leaves the handler behind it.
LEMMA OneSiteStep ==
  ASSUME MaxEpoch = 0, SiteInv, [Next]_vars
  PROVE  OneSite'
<1>1. /\ published \in Nat /\ published # None
      /\ expected # None => expected \in Nat /\ expected >= 1
      /\ snapFrom # None => snapFrom \in Nat
      /\ \A m \in book \union held : m \in Nat
      /\ \A p \in Position : p \in Nat /\ p # None
  BY FeedNumbers DEF SiteInv
<1>2. CASE UNCHANGED <<published, expected, book, held, pending, snapFrom>>
  BY <1>2 DEF SiteInv, OneSite
<1>3. ASSUME NEW n \in 0 .. MaxCount, NEW surviving, Publish(n, surviving)
      PROVE  OneSite'
  <2>1. /\ UNCHANGED <<expected, book, held, pending, snapFrom>>
        /\ published' = published + n /\ n \in Nat
    BY <1>3, MaxCountAssumption DEF Publish, seqVars, handlerVars
  <2>2. pending # None => pending.to \in Nat
    BY DEF SiteInv, FeedType, FeedTypeOK, Message
  <2> QED
    BY <1>1, <2>1, <2>2 DEF SiteInv, OneSite
<1>4. ~Failover
  BY DEF SiteInv, FeedType, FeedTypeOK, Epoch, Failover
<1>5. ASSUME NEW next \in Position, ReplayDone(next)
      PROVE  OneSite'
  <2> DEFINE have == held \union (pending.from .. pending.to)
  <2>1. /\ pending # None /\ pending' = None /\ expected' = next
        /\ next \in expected .. MaxSeq + 1 /\ expected .. next - 1 \subseteq have
        /\ ~Live => book' = book
        /\ \A m \in held' : m \in have
        /\ UNCHANGED <<published, snapFrom>>
    BY <1>5 DEF ReplayDone, FirstMissing, Resync, exchangeVars
  <2>2. expected # None /\ expected \in Nat /\ expected <= published /\ pending.to < published
    BY <1>1, <2>1 DEF SiteInv, Joined, OneSite
  <2>3. pending.from \in Nat /\ pending.to \in Nat
    BY <2>1 DEF SiteInv, FeedType, FeedTypeOK, Position, Message
  <2>4. \A m \in have : m \in Nat /\ m < published
    BY <1>1, <2>2, <2>3 DEF SiteInv, OneSite
  <2> HIDE DEF have
  <2>5. next <= published
    <3> SUFFICES ASSUME next > published PROVE FALSE
      BY <1>1
    <3>1. next - 1 \in expected .. next - 1
      BY <1>1, <2>2
    <3>2. next - 1 < published
      BY <2>1, <2>4, <3>1
    <3> QED
      BY <1>1, <3>2
  <2>6. \A m \in held' : m < published
    BY <2>1, <2>4
  <2> QED
    BY <1>1, <2>1, <2>5, <2>6 DEF SiteInv, OneSite, Live
<1>6. CASE ReplayRefused
  <2>1. /\ pending # None /\ pending' = None /\ snapFrom' = published
        /\ UNCHANGED <<published, expected, book, held>>
    BY <1>6 DEF ReplayRefused, seqVars, exchangeVars
  <2>2. expected # None
    BY <2>1 DEF SiteInv, Joined
  <2>3. \A m \in book : m < published
    BY <1>1, <2>2 DEF SiteInv, BookHasNoHole, OneSite, Live
  <2> QED
    BY <1>1, <2>1, <2>2, <2>3 DEF SiteInv, OneSite
<1>7. ASSUME NEW p \in Position, NEW next \in Position, SnapshotDone(p, next)
      PROVE  OneSite'
  <2>1. /\ p <= published /\ expected' = next /\ snapFrom' = None
        /\ 1 .. next - 1 \subseteq (1 .. p - 1) \union held
        /\ held' \subseteq held
        /\ UNCHANGED <<published, pending>>
    BY <1>7 DEF SnapshotDone, FirstMissing, Resync, exchangeVars
  <2>2. next <= published
    <3> SUFFICES ASSUME next > published PROVE FALSE
      BY <1>1
    <3>1. next - 1 \in 1 .. next - 1
      <4>1. published >= 1
        BY FeedNumbers DEF SiteInv
      <4> QED
        BY <1>1, <4>1
    <3>2. next - 1 < published
      <4>1. next - 1 \in 1 .. p - 1 \/ next - 1 \in held
        BY <2>1, <3>1
      <4>2. \A m \in held : m < published
        BY DEF SiteInv, OneSite
      <4> QED
        BY <1>1, <2>1, <4>1, <4>2
    <3> QED
      BY <1>1, <3>2
  <2> QED
    BY <1>1, <2>1, <2>2 DEF SiteInv, OneSite
<1>8. CASE \E i \in Instrument : WithholdBook(i) \/ PublishBook(i)
  BY <1>2, <1>8 DEF WithholdBook, PublishBook, Quarantine, Release, handlerVars, exchangeVars
<1>9. CASE UNCHANGED vars
  BY <1>2, <1>9 DEF vars, seqVars, exchangeVars, handlerVars
<1> QED
  BY <1>3, <1>4, <1>5, <1>6, <1>7, <1>8, <1>9, OneSiteDelivery DEF Next

\* With one site the invariant holds of every behaviour.
LEMMA SiteInvAlways == ASSUME MaxEpoch = 0 PROVE Spec => []SiteInv
<1>1. Init => Joined /\ BookHasNoHole /\ OneSite
  BY DEF Init, SeqInit, Joined, BookHasNoHole, Live, OneSite
<1>2. SiteInv /\ [Next]_vars => SiteInv'
  BY OneSiteStep, FeedStepType, FeedStepOrdered, JoinedStep, BookStep DEF SiteInv
<1>3. Init => SiteInv
  BY <1>1, FeedInitType, InitOrdered DEF SiteInv
<1> QED
  BY <1>2, <1>3, PTL DEF Spec

\* Books that are the numbers before a position the site has reached are a
\* prefix of its stream.
LEMMA PrefixOfSite ==
  SiteInv /\ Live => Promise!IsPrefix(book)
<1> SUFFICES ASSUME SiteInv, Live PROVE Promise!IsPrefix(book)
  OBVIOUS
<1>1. /\ expected \in Nat /\ published \in Nat /\ expected <= published
      /\ book = 1 .. expected - 1
  BY FeedNumbers DEF SiteInv, OneSite, BookHasNoHole, Live
<1> QED
  BY <1>1 DEF Promise!IsPrefix

\* The same after a step.
LEMMA PrefixOfSiteNext == (SiteInv /\ Live => Promise!IsPrefix(book))'
BY PrefixOfSite, PTL

\* With one site, every step is one the promise allows, or none.
LEMMA PromiseStep ==
  ASSUME MaxEpoch = 0, SiteInv, SiteInv', [Next]_vars
  PROVE  [Promise!Next]_(Promise!vars)
<1>1. /\ published \in Nat /\ published # None
      /\ snapFrom # None => snapFrom \in Nat
      /\ \A m \in book : m \in Nat /\ m >= 1
      /\ \A p \in Position : p \in Nat /\ p # None
  BY FeedNumbers DEF SiteInv
<1>2. Live' => Promise!IsPrefix(book)'
  BY PrefixOfSiteNext
<1>3. ASSUME book' = book, Live' = Live, published' \in Nat, published <= published'
      PROVE  [Promise!Next]_(Promise!vars)
  <2>1. \A a, b \in Nat : a <= b => 1 .. a - 1 \subseteq 1 .. b - 1
    OBVIOUS
  <2>2. Promise!Publish
    BY <1>1, <1>3, <2>1, Zenon DEF Promise!Publish
  <2> QED
    BY <2>2 DEF Promise!Next
<1>4. ASSUME Live, Live', book \subseteq book', published' = published
      PROVE  [Promise!Next]_(Promise!vars)
  <2>1. Promise!Extend
    BY <1>2, <1>4 DEF Promise!Extend, Promise!IsPrefix
  <2> QED
    BY <2>1 DEF Promise!Next
<1>5. ASSUME ~Live', book' = book, published' = published
      PROVE  [Promise!Next]_(Promise!vars)
  <2>1. Live' = FALSE
    BY <1>5 DEF Live
  <2>2. Promise!Suspend
    BY <1>5, <2>1 DEF Promise!Suspend
  <2> QED
    BY <2>2 DEF Promise!Next
<1>6. ASSUME NEW l \in Line, Deliver(l)
      PROVE  [Promise!Next]_(Promise!vars)
  <2>1. /\ ~DeliverRestart(l) /\ published' = published
        /\ NextExpected(Head(lines[l]).seq, Head(lines[l]).count) # None
    <3>1. lines[l] # <<>>
      BY <1>6 DEF Deliver, DeliverHeartbeat, DeliverRestart, DeliverFirst, DeliverInOrder,
           DeliverDuplicate, DeliverReplayGap, DeliverSnapshotGap, Receive
    <3> QED
      BY <1>1, <1>6, <3>1, OneSiteDelivers, HeadIsPacket, NoWrap DEF SiteInv
  <2>2. CASE DeliverHeartbeat(l) \/ DeliverDuplicate(l) \/ DeliverReplayGap(l)
    <3>1. UNCHANGED <<expected, book, snapFrom>>
      BY <2>2 DEF DeliverHeartbeat, DeliverDuplicate, DeliverReplayGap, Heartbeat, Duplicate,
           RequestReplay, seqVars, handlerVars
    <3>2. Live' = Live
      BY <3>1 DEF Live
    <3>3. published' \in Nat /\ published <= published'
      BY <1>1, <2>1
    <3> QED
      BY <1>3, <3>1, <3>2, <3>3
  <2>3. CASE DeliverFirst(l) \/ DeliverSnapshotGap(l)
    <3>1. ~Live' /\ book' = book
      BY <1>1, <2>3 DEF DeliverFirst, DeliverSnapshotGap, Live
    <3> QED
      BY <1>5, <2>1, <3>1
  <2>4. CASE DeliverInOrder(l)
    <3>1. /\ expected' # None /\ snapFrom' = snapFrom
          /\ book' = IF Live THEN book \union Messages(Head(lines[l])) ELSE book
      BY <2>1, <2>4 DEF DeliverInOrder, InOrder
    <3>2. CASE Live
      <4>1. Live' /\ book \subseteq book'
        BY <3>1, <3>2 DEF Live
      <4> QED
        BY <1>4, <2>1, <3>2, <4>1
    <3>3. CASE ~Live
      <4>1. expected # None
        BY <2>4 DEF DeliverInOrder, InOrder
      <4>2. ~Live' /\ book' = book
        BY <3>1, <3>3, <4>1 DEF Live
      <4> QED
        BY <1>5, <2>1, <4>2
    <3> QED
      BY <3>2, <3>3
  <2> QED
    BY <1>6, <2>1, <2>2, <2>3, <2>4 DEF Deliver
<1>7. ASSUME NEW n \in 0 .. MaxCount, NEW surviving, Publish(n, surviving)
      PROVE  [Promise!Next]_(Promise!vars)
  <2>1. UNCHANGED <<expected, book, snapFrom>> /\ published' = published + n /\ n \in Nat
    BY <1>7, MaxCountAssumption DEF Publish, seqVars, handlerVars
  <2>2. Live' = Live
    BY <2>1 DEF Live
  <2>3. published' \in Nat /\ published <= published'
    BY <1>1, <2>1
  <2> QED
    BY <1>3, <2>1, <2>2, <2>3
<1>8. ASSUME NEW next \in Position, ReplayDone(next)
      PROVE  [Promise!Next]_(Promise!vars)
  <2>1. /\ pending # None /\ expected' # None /\ snapFrom' = snapFrom /\ published' = published
        /\ book \subseteq book'
        /\ ~Live => book' = book
    BY <1>1, <1>8 DEF ReplayDone, Resync, exchangeVars
  <2>2. expected # None
    BY <2>1 DEF SiteInv, Joined
  <2>3. Live' <=> Live
    BY <2>1, <2>2 DEF Live
  <2> QED
    BY <1>4, <1>5, <2>1, <2>3
<1>9. CASE ReplayRefused
  <2>1. ~Live' /\ book' = book /\ published' = published
    BY <1>1, <1>9 DEF ReplayRefused, exchangeVars, Live
  <2> QED
    BY <1>5, <2>1
<1>10. ASSUME NEW p \in Position, NEW next \in Position, SnapshotDone(p, next)
       PROVE  [Promise!Next]_(Promise!vars)
  <2>1. /\ snapFrom # None /\ snapFrom' = None /\ expected' = next
        /\ snapFrom <= p /\ next \notin 1 .. p - 1 /\ next >= 1
        /\ book' = 1 .. next - 1 /\ published' = published
    BY <1>1, <1>10 DEF SnapshotDone, FirstMissing, Resync, exchangeVars
  <2>2. ~Live /\ Live'
    BY <1>1, <2>1 DEF Live
  <2>3. next >= p
    BY <1>1, <2>1
  <2>4. \A m \in book : m < snapFrom
    BY <2>1 DEF SiteInv, OneSite
  <2>5. book \subseteq book'
    BY <1>1, <2>1, <2>3, <2>4
  <2>6. Live' = TRUE
    BY <2>2 DEF Live
  <2>7. Promise!Recover
    BY <1>2, <2>1, <2>2, <2>5, <2>6 DEF Promise!Recover, Promise!IsPrefix
  <2> QED
    BY <2>7 DEF Promise!Next
<1>11. ~Failover
  BY DEF SiteInv, FeedType, FeedTypeOK, Epoch, Failover
<1>12. CASE UNCHANGED vars \/ \E i \in Instrument : WithholdBook(i) \/ PublishBook(i)
  <2>1. UNCHANGED <<published, expected, book, snapFrom>>
    BY <1>12 DEF WithholdBook, PublishBook, Quarantine, Release, handlerVars, exchangeVars,
         vars, seqVars
  <2>2. Live' = Live
    BY <2>1 DEF Live
  <2>3. published' \in Nat /\ published <= published'
    BY <1>1, <2>1
  <2> QED
    BY <1>3, <2>1, <2>2, <2>3
<1> QED
  BY <1>6, <1>7, <1>8, <1>9, <1>10, <1>11, <1>12 DEF Next

\* With one site, the handler publishes only growing prefixes of its stream,
\* and no replay and no snapshot brings back older books.
THEOREM OneSitePromiseKept == ASSUME MaxEpoch = 0 PROVE Spec => KeepsPromise
<1>1. Init => Promise!Init
  BY DEF Init, SeqInit, Promise!Init, Live
<1>2. SiteInv /\ SiteInv' /\ [Next]_vars => [Promise!Next]_(Promise!vars)
  BY PromiseStep
<1> QED
  BY <1>1, <1>2, SiteInvAlways, PTL DEF Spec, KeepsPromise, Promise!Spec

----
(***************************************************************************)
(* What the position passes is not lost, and it only advances, for one     *)
(* site: what was passed since a snapshot was asked for is held.           *)
(***************************************************************************)

SnapshotWillJoin ==
  snapFrom # None /\ expected # None => \A n \in snapFrom .. expected - 1 : n \in held

\* A packet that is delivered keeps it: what is in order is held, and a
\* snapshot is asked for from ahead of the position.
LEMMA DeliverJoins ==
  ASSUME MaxEpoch = 0, SiteInv, SnapshotWillJoin, NEW l \in Line, Deliver(l)
  PROVE  SnapshotWillJoin' /\ (expected # None => expected' >= expected)
<1> DEFINE h == Head(lines[l])
<1>1. /\ ~DeliverRestart(l) /\ published' = published
      /\ h.seq \in Nat /\ h.seq >= 1 /\ h.count \in Nat /\ h.seq + h.count <= published
      /\ NextExpected(h.seq, h.count) = h.seq + h.count
  BY OneSiteDelivers DEF SiteInv
<1>2. /\ published \in Nat
      /\ expected # None => expected \in Nat /\ expected <= published
      /\ snapFrom # None => snapFrom \in Nat
  BY FeedNumbers DEF SiteInv, OneSite
<1> HIDE DEF h
<1>3. CASE DeliverHeartbeat(l) \/ DeliverDuplicate(l)
  <2>1. UNCHANGED <<expected, held, snapFrom>>
    BY <1>3 DEF DeliverHeartbeat, DeliverDuplicate, Heartbeat, Duplicate, seqVars, handlerVars
  <2> QED
    BY <1>2, <2>1 DEF SnapshotWillJoin
<1>4. CASE DeliverFirst(l)
  <2>1. expected = None /\ expected' = h.seq + h.count /\ snapFrom' = published
    BY <1>1, <1>4 DEF DeliverFirst, FirstPacket, h
  <2> QED
    BY <1>1, <1>2, <2>1 DEF SnapshotWillJoin
<1>5. CASE DeliverInOrder(l)
  <2>1. /\ expected # None /\ expected = h.seq /\ expected' = h.seq + h.count
        /\ held' = (IF Live THEN held ELSE held \union Messages(h))
        /\ snapFrom' = snapFrom
    BY <1>1, <1>5 DEF DeliverInOrder, InOrder, h
  <2>2. SnapshotWillJoin'
    <3> SUFFICES ASSUME snapFrom' # None, NEW n \in snapFrom' .. expected' - 1
                 PROVE  n \in held'
      BY DEF SnapshotWillJoin
    <3>1. (h.seq + h.count) - 1 = h.seq + h.count - 1
      BY <1>1
    <3>2. snapFrom # None /\ n \in snapFrom .. h.seq + h.count - 1
      BY ONLY <2>1, <3>1, snapFrom' # None, n \in snapFrom' .. expected' - 1, Zenon
    <3>3. held' = held \union Messages(h)
      BY <2>1, <3>2 DEF Live
    <3>4. n \in snapFrom .. expected - 1 \/ n \in Messages(h)
      BY <1>1, <1>2, <2>1, <3>2 DEF Messages
    <3> QED
      BY <2>1, <3>2, <3>3, <3>4 DEF SnapshotWillJoin
  <2> QED
    BY <1>1, <2>1, <2>2
<1>6. CASE DeliverReplayGap(l)
  <2>1. /\ expected' = expected /\ snapFrom' = snapFrom /\ held' = held \union Messages(h)
    BY <1>6 DEF DeliverReplayGap, RequestReplay, h
  <2> QED
    BY <1>2, <2>1 DEF SnapshotWillJoin
<1>7. CASE DeliverSnapshotGap(l)
  <2>1. /\ expected # None /\ h.seq > expected /\ expected' = h.seq + h.count
        /\ snapFrom' = published
    BY <1>1, <1>7 DEF DeliverSnapshotGap, RequestSnapshot, h
  <2> QED
    BY <1>1, <1>2, <2>1 DEF SnapshotWillJoin
<1> QED
  BY <1>1, <1>3, <1>4, <1>5, <1>6, <1>7 DEF Deliver

\* A replay starts from the position, and what it finds is held while a
\* snapshot is awaited.
LEMMA ReplayJoins ==
  ASSUME SiteInv, SnapshotWillJoin, NEW next \in Position, ReplayDone(next)
  PROVE  SnapshotWillJoin' /\ expected' >= expected
<1> DEFINE have == held \union (pending.from .. pending.to)
<1>1. /\ pending # None /\ expected' = next
      /\ FirstMissing(have, expected, next)
      /\ held' = (IF Live THEN {m \in held : m > next} ELSE have)
      /\ snapFrom' = snapFrom
  BY DEF ReplayDone, Resync
<1>2. expected # None /\ expected \in Nat /\ next \in Nat
  BY <1>1, FeedNumbers DEF SiteInv, Joined
<1>3. next >= expected
  BY <1>1, <1>2, MaxSeqAssumption DEF FirstMissing
<1>4. SnapshotWillJoin'
  <2> SUFFICES ASSUME snapFrom # None, NEW n \in snapFrom .. next - 1
               PROVE  n \in have
    BY <1>1 DEF SnapshotWillJoin, Live
  <2>1. snapFrom \in Nat
    BY FeedNumbers DEF SiteInv
  <2>2. n \in snapFrom .. expected - 1 \/ n \in expected .. next - 1
    BY <1>2, <2>1
  <2>3. n \in snapFrom .. expected - 1 => n \in held
    BY <1>2 DEF SnapshotWillJoin
  <2> QED
    BY <1>1, <2>2, <2>3 DEF FirstMissing
<1> QED
  BY <1>1, <1>3, <1>4

\* A snapshot and what is held reach the position.
LEMMA SnapshotReaches ==
  ASSUME SiteInv, SnapshotWillJoin, NEW p \in Position, NEW next \in Position,
         SnapshotDone(p, next)
  PROVE  SnapshotWillJoin' /\ (expected # None => expected' >= expected)
<1> DEFINE have == (1 .. p - 1) \union held
<1>1. /\ snapFrom # None /\ snapFrom' = None /\ snapFrom <= p
      /\ expected' = next /\ FirstMissing(have, 1, next)
  BY DEF SnapshotDone, Resync
<1>2. /\ p \in Nat /\ next \in Nat /\ next >= 1 /\ snapFrom \in Nat
      /\ expected # None => expected \in Nat
  BY <1>1, FeedNumbers DEF SiteInv, Position
<1>3. ASSUME expected # None, next < expected
      PROVE  FALSE
  <2>1. next <= p - 1 \/ next \in snapFrom .. expected - 1
    BY <1>1, <1>2, <1>3
  <2>2. next \in have
    BY <1>1, <1>2, <1>3, <2>1 DEF SnapshotWillJoin
  <2> QED
    BY <1>1, <2>2 DEF FirstMissing
<1> QED
  BY <1>1, <1>2, <1>3 DEF SnapshotWillJoin

\* No step of a feed of one site loses what was passed, or goes back.
LEMMA JoinStep ==
  ASSUME MaxEpoch = 0, SiteInv, SnapshotWillJoin, [Next]_vars
  PROVE  SnapshotWillJoin' /\ (expected # None => expected' >= expected)
<1>1. ~Failover
  BY DEF SiteInv, FeedType, FeedTypeOK, Epoch, Failover
<1>2. /\ published \in Nat /\ (expected # None => expected \in Nat /\ expected <= published)
  BY FeedNumbers DEF SiteInv, OneSite
<1>3. CASE UNCHANGED <<expected, held, snapFrom>>
  BY <1>2, <1>3 DEF SnapshotWillJoin
<1>4. CASE ReplayRefused
  <2>1. expected' = expected /\ snapFrom' = published
    BY <1>4 DEF ReplayRefused, seqVars
  <2> QED
    BY <1>2, <2>1 DEF SnapshotWillJoin
<1>6. ASSUME NEW next \in Position, ReplayDone(next)
      PROVE  SnapshotWillJoin' /\ (expected # None => expected' >= expected)
  BY <1>6, ReplayJoins
<1>7. ASSUME NEW p \in Position, NEW next \in Position, SnapshotDone(p, next)
      PROVE  SnapshotWillJoin' /\ (expected # None => expected' >= expected)
  BY <1>7, SnapshotReaches
<1>8. ASSUME NEW l \in Line, Deliver(l)
      PROVE  SnapshotWillJoin' /\ (expected # None => expected' >= expected)
  BY <1>8, DeliverJoins
<1>9. (\E n \in 0 .. MaxCount, surviving \in SUBSET Line : Publish(n, surviving))
      \/ (\E i \in Instrument : WithholdBook(i) \/ PublishBook(i)) \/ UNCHANGED vars
        => UNCHANGED <<expected, held, snapFrom>>
  BY DEF Publish, WithholdBook, PublishBook, Quarantine, Release, handlerVars, vars, seqVars
<1> QED
  BY <1>1, <1>3, <1>4, <1>6, <1>7, <1>8, <1>9 DEF Next

LEMMA JoinAlways == ASSUME MaxEpoch = 0 PROVE Spec => []SnapshotWillJoin
<1>1. Init => SnapshotWillJoin
  BY DEF Init, SnapshotWillJoin
<1>2. SiteInv /\ SnapshotWillJoin /\ [Next]_vars => SnapshotWillJoin'
  BY JoinStep
<1> QED
  BY <1>1, <1>2, SiteInvAlways, PTL DEF Spec

\* Every message the position has passed (sequencer.rs, Apply, Duplicate and
\* resync) is in the books, held, or part of the snapshot to come, for any
\* lines, losses, replays and snapshots of one site.
THEOREM OneSitePassesOnlySeen == ASSUME MaxEpoch = 0 PROVE Spec => []PassedIsNotLost
<1>1. SiteInv /\ SnapshotWillJoin => PassedIsNotLost
  <2> SUFFICES ASSUME SiteInv, SnapshotWillJoin, expected # None,
                      NEW m \in 1 .. expected - 1
               PROVE  Seen(m)
    BY DEF PassedIsNotLost
  <2>1. expected \in Nat /\ (snapFrom # None => snapFrom \in Nat)
    BY FeedNumbers DEF SiteInv
  <2>2. CASE snapFrom = None
    BY <2>2 DEF SiteInv, BookHasNoHole, Live, Seen
  <2>3. CASE snapFrom # None
    <3>1. m < snapFrom \/ m \in snapFrom .. expected - 1
      BY <2>1, <2>3
    <3> QED
      BY <2>3, <3>1 DEF SnapshotWillJoin, Seen
  <2> QED
    BY <2>2, <2>3
<1> QED
  BY <1>1, JoinAlways, SiteInvAlways, PTL

\* No packet moves the position back, and no replay or snapshot, however late
\* it comes (sequencer.rs, observe and resync), in the feed of one site.
THEOREM OneSiteOnlyAdvances == ASSUME MaxEpoch = 0 PROVE Spec => PositionOnlyAdvances
<1>1. SiteInv /\ SnapshotWillJoin /\ [Next]_vars
        => [expected # None => expected' >= expected]_vars
  BY JoinStep
<1> QED
  BY <1>1, JoinAlways, SiteInvAlways, PTL DEF Spec, PositionOnlyAdvances
====
