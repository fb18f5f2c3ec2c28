---- MODULE PacketProofs ----
(***************************************************************************)
(* Theorems about the packets of both protocols, for every sequence space, *)
(* packet and message: what a walk of a packet yields is what its header   *)
(* promised, or the packet is refused.                                     *)
(***************************************************************************)
EXTENDS MitchPacket, MoldPacket, FoldLemmas

----
(* MoldUDP64: where the blocks start. *)

\* What each block takes up in the payload.
BlockSizes(lens) == [i \in 1 .. Len(lens) |-> Prefix + lens[i]]

\* A block starts where those before it end.
LEMMA BlockAtIsSum ==
  ASSUME NEW lens \in Seq(Nat), NEW n \in 1 .. Len(lens) + 1
  PROVE  BlockAt(lens, n) = SumFunctionOnSet(BlockSizes(lens), 1 .. n - 1)
<1> DEFINE w == BlockSizes(lens)
           m == n - 1
           seq == SubSeq(lens, 1, m)
           S == 1 .. m
           Rule(g) == g = [s \in SUBSET DOMAIN seq |->
                             IF s = {} THEN 0 ELSE g[s \ {Max(s)}] + Prefix + seq[Max(s)]]
           f == CHOOSE g : Rule(g)
           sums == [s \in SUBSET S |-> SumFunctionOnSet(w, s)]
<1>1. BlockAt(lens, n) = f[DOMAIN seq]
  BY Zenon DEF BlockAt, FoldLeft, MapThenFoldSet
<1>2. m \in Nat /\ m <= Len(lens) /\ DOMAIN seq = S /\ \A i \in S : seq[i] = lens[i]
  OBVIOUS
<1>3. \A i \in S : w[i] = Prefix + lens[i] /\ w[i] \in Nat /\ lens[i] \in Nat
  BY <1>2 DEF BlockSizes, Prefix
<1>4. IsFiniteSet(S)
  BY <1>2, FS_Interval
<1> HIDE DEF w, m, seq
<1>5. ASSUME NEW s \in SUBSET S, s # {}
      PROVE  /\ Max(s) \in s
             /\ sums[s] = sums[s \ {Max(s)}] + Prefix + seq[Max(s)]
  <2>1. Max(s) \in s
    BY <1>2, <1>5, LargestIndex
  <2>2. IsFiniteSet(s) /\ IsFiniteSet(s \ {Max(s)}) /\ \A i \in s : w[i] \in Nat
    BY <1>3, <1>4, FS_Subset
  <2>3. SumFunctionOnSet(w, s) = w[Max(s)] + SumFunctionOnSet(w, s \ {Max(s)})
    BY <2>1, <2>2, SumTake
  <2>4. SumFunctionOnSet(w, s \ {Max(s)}) \in Nat
    BY <2>2, SumIsNat
  <2>0. \A i \in S : w[i] = Prefix + seq[i] /\ seq[i] \in Nat
    BY <1>2, <1>3
  <2>5. w[Max(s)] = Prefix + seq[Max(s)] /\ seq[Max(s)] \in Nat
    BY ONLY <1>5, <2>0, <2>1
  <2> DEFINE a == SumFunctionOnSet(w, s \ {Max(s)})
             b == seq[Max(s)]
  <2>6. w[Max(s)] + a = a + Prefix + b
    <3>1. a \in Nat /\ b \in Nat /\ w[Max(s)] = Prefix + b
      BY <2>4, <2>5
    <3> HIDE DEF a, b
    <3> QED
      BY <3>1 DEF Prefix
  <2> QED
    BY <2>1, <2>3, <2>6
<1>6. sums[{}] = 0
  BY SumIsNat, FS_EmptySet
<1> HIDE DEF S
<1>7. Rule(sums)
  <2>1. sums = [s \in SUBSET S |->
                  IF s = {} THEN 0 ELSE sums[s \ {Max(s)}] + Prefix + seq[Max(s)]]
    <3> HIDE DEF sums
    <3>1. sums = [s \in SUBSET S |-> sums[s]]
      BY DEF sums
    <3> QED
      BY <1>5, <1>6, <3>1
  <2> QED
    BY <1>2, <2>1
<1>8. Rule(f)
  BY <1>7, Zenon
<1> HIDE DEF f, sums
<1> DEFINE P == {s \in SUBSET S : f[s] = sums[s]}
<1>9. f[{}] = 0 /\ \A s \in SUBSET S : s # {} => f[s] = f[s \ {Max(s)}] + Prefix + seq[Max(s)]
  BY <1>2, <1>8
<1>10. (SUBSET S) \subseteq P
  <2>1. {} \in P
    BY <1>6, <1>9
  <2>2. ASSUME NEW s \in SUBSET S, s # {}
        PROVE  \E x \in s : s \ {x} \in P => s \in P
    <3>1. f[s \ {Max(s)}] = sums[s \ {Max(s)}] => f[s] = sums[s]
      BY <1>5, <1>9, <2>2
    <3> QED
      BY <1>5, <2>2, <3>1
  <2> HIDE DEF P
  <2> QED
    BY <1>4, <2>1, <2>2, SetInduction
<1>11. f[S] = sums[S]
  BY <1>10
<1> QED
  BY <1>1, <1>2, <1>11 DEF sums, S, m, w

\* Each block starts where the one before it ends, and the first at zero.
LEMMA BlocksFollow ==
  ASSUME NEW lens \in Seq(Nat)
  PROVE  /\ \A n \in 1 .. Len(lens) + 1 : BlockAt(lens, n) \in Nat
         /\ BlockAt(lens, 1) = 0
         /\ \A n \in 1 .. Len(lens) : BlockAt(lens, n + 1) = BlockAt(lens, n) + Prefix + lens[n]
<1> DEFINE w == BlockSizes(lens)
<1>1. \A i \in 1 .. Len(lens) : w[i] = Prefix + lens[i] /\ w[i] \in Nat
  BY DEF BlockSizes, Prefix
<1> HIDE DEF w
<1>2. Len(lens) \in Nat
  OBVIOUS
<1>3. \A m \in 0 .. Len(lens) :
        /\ SumFunctionOnSet(w, 1 .. m) \in Nat
        /\ m = 0 => SumFunctionOnSet(w, 1 .. m) = 0
        /\ m > 0 => SumFunctionOnSet(w, 1 .. m) = w[m] + SumFunctionOnSet(w, 1 .. m - 1)
  BY <1>1, <1>2, PrefixSum
<1>4. \A n \in 1 .. Len(lens) + 1 : BlockAt(lens, n) = SumFunctionOnSet(w, 1 .. n - 1)
  BY BlockAtIsSum DEF w
<1>5. ASSUME NEW n \in 1 .. Len(lens) + 1
      PROVE  BlockAt(lens, n) \in Nat
  BY <1>2, <1>3, <1>4
<1>6. BlockAt(lens, 1) = 0
  <2>1. 1 \in 1 .. Len(lens) + 1 /\ 1 - 1 = 0 /\ 0 \in 0 .. Len(lens)
    BY <1>2
  <2> QED
    BY <1>3, <1>4, <2>1
<1>7. ASSUME NEW n \in 1 .. Len(lens)
      PROVE  BlockAt(lens, n + 1) = BlockAt(lens, n) + Prefix + lens[n]
  <2>1. n + 1 \in 1 .. Len(lens) + 1 /\ n \in 1 .. Len(lens) + 1 /\ (n + 1) - 1 = n /\ n > 0
    BY <1>2
  <2>2. BlockAt(lens, n + 1) = SumFunctionOnSet(w, 1 .. n)
    BY <1>4, <2>1
  <2>3. BlockAt(lens, n) = SumFunctionOnSet(w, 1 .. n - 1)
    BY <1>4, <2>1
  <2>4. SumFunctionOnSet(w, 1 .. n) = w[n] + SumFunctionOnSet(w, 1 .. n - 1)
    BY <1>2, <1>3, <2>1
  <2>5. BlockAt(lens, n) \in Nat /\ w[n] = Prefix + lens[n] /\ lens[n] \in Nat
    BY <1>1, <1>5, <2>1
  <2> DEFINE a == BlockAt(lens, n)
             b == lens[n]
  <2>6. a \in Nat /\ b \in Nat /\ BlockAt(lens, n + 1) = (Prefix + b) + a
    BY <2>2, <2>3, <2>4, <2>5
  <2> HIDE DEF a, b
  <2>7. BlockAt(lens, n + 1) = a + Prefix + b
    BY <2>6 DEF Prefix
  <2> QED
    BY <2>7 DEF a, b
<1> QED
  BY <1>5, <1>6, <1>7

\* No two blocks start at the same place.
LEMMA BlocksAreApart ==
  ASSUME NEW lens \in Seq(Nat), NEW n \in 1 .. Len(lens) + 1, NEW m \in 1 .. Len(lens) + 1,
         BlockAt(lens, m) = BlockAt(lens, n)
  PROVE  m = n
<1> DEFINE top == Len(lens) + 1
           f == [i \in 1 .. top |-> BlockAt(lens, i)]
<1>1. top \in Nat /\ \A i \in 1 .. top : f[i] \in Nat
  BY BlocksFollow
<1>2. ASSUME NEW i \in 1 .. top - 1
      PROVE  f[i] < f[i + 1]
  <2>1. i \in 1 .. Len(lens) /\ i \in 1 .. top /\ i + 1 \in 1 .. top
    OBVIOUS
  <2>2. BlockAt(lens, i + 1) = BlockAt(lens, i) + Prefix + lens[i] /\ lens[i] \in Nat
    BY <2>1, BlocksFollow
  <2>3. BlockAt(lens, i) \in Nat /\ f[i] = BlockAt(lens, i) /\ f[i + 1] = BlockAt(lens, i + 1)
    BY <1>1, <2>1
  <2> HIDE DEF f
  <2> QED
    BY <2>2, <2>3 DEF Prefix
<1>3. f[m] = f[n]
  OBVIOUS
<1> HIDE DEF f
<1> QED
  BY <1>1, <1>2, <1>3, RisingIsApart

----
(* MoldUDP64: the walk. *)

\* The packet has these blocks: at its start each of them can be read.
HasBlocks(p, lens) ==
  /\ lens \in Seq(Nat)
  /\ p.count = Len(lens) /\ p.count < EndCount
  /\ \A n \in 1 .. Len(lens) :
       BlockAt(lens, n) \in DOMAIN p.starts /\ p.starts[BlockAt(lens, n)] = lens[n]

\* A walk inside the payload of a packet.  Of one that lost or gained bytes it
\* has read the blocks as they were sent, and the payload does not end where
\* the last of them does.
MoldInv ==
  packet # NoPacket =>
    /\ packet.size \in Nat /\ packet.sequence \in Nat /\ packet.count \in 0 .. EndCount
    /\ \A at \in DOMAIN packet.starts : packet.starts[at] \in Nat
    /\ position \in Nat /\ blocksRead \in Nat
    /\ 3 * blocksRead <= position /\ position <= packet.size
    /\ blocksRead <= Blocks(packet)
    /\ nextSequence = packet.sequence + blocksRead
    /\ stopped => blocksRead < Blocks(packet)
    /\ packet.whole \/ \E lens : /\ HasBlocks(packet, lens)
                                 /\ packet.size # BlockAt(lens, Len(lens) + 1)
                                 /\ position = BlockAt(lens, blocksRead + 1)

\* A packet of the exchange has the blocks it was made of.
LEMMA SentHasBlocks ==
  ASSUME NEW sequence \in Sequences64, NEW change \in Change, NEW n \in 0 .. MaxBlocks,
         NEW lens \in [1 .. n -> BlockLen \ {0}], ReceiveSent(lens, sequence, change)
  PROVE  MoldInv'
<1>1. lens \in Seq(Nat) /\ Len(lens) = n /\ n \in Nat /\ n < EndCount /\ EndCount \in Nat
  <2>1. n \in Nat /\ n < EndCount /\ EndCount \in Nat
    BY EndCountAssumption
  <2>2. lens \in [1 .. n -> Nat]
    BY BytesAssumption
  <2> QED
    BY <2>1, <2>2
<1> DEFINE size == BlockAt(lens, Len(lens) + 1)
           starts == [at \in {BlockAt(lens, i) : i \in 1 .. Len(lens)} |->
                        lens[CHOOSE i \in 1 .. Len(lens) : BlockAt(lens, i) = at]]
           p == [sequence |-> sequence, count |-> Len(lens), size |-> size + change,
                 starts |-> starts, whole |-> change = 0]
<1>2. size + change >= 0 /\ Accept(p)
  BY DEF ReceiveSent
<1>3. \A i \in 1 .. Len(lens) : i \in 1 .. Len(lens) + 1
  BY <1>1
<1>4. ASSUME NEW i \in 1 .. Len(lens)
      PROVE  BlockAt(lens, i) \in DOMAIN starts /\ starts[BlockAt(lens, i)] = lens[i]
  <2> DEFINE j == CHOOSE j \in 1 .. Len(lens) : BlockAt(lens, j) = BlockAt(lens, i)
  <2>1. j \in 1 .. Len(lens) /\ BlockAt(lens, j) = BlockAt(lens, i)
    OBVIOUS
  <2>2. starts[BlockAt(lens, i)] = lens[j]
    OBVIOUS
  <2> HIDE DEF j, starts
  <2>3. j = i
    BY <1>1, <1>3, <2>1, BlocksAreApart
  <2>4. BlockAt(lens, i) \in DOMAIN starts
    BY DEF starts
  <2> QED
    BY <2>2, <2>3, <2>4
<1>5. \A at \in DOMAIN starts : starts[at] \in Nat
  <2> SUFFICES ASSUME NEW at \in DOMAIN starts PROVE starts[at] \in Nat
    OBVIOUS
  <2>1. PICK i \in 1 .. Len(lens) : at = BlockAt(lens, i)
    OBVIOUS
  <2> HIDE DEF starts
  <2> QED
    BY <1>1, <1>4, <2>1
<1>6. size \in Nat
  BY <1>1, BlocksFollow
<1> HIDE DEF starts, size
<1>7. HasBlocks(p, lens)
  BY <1>1, <1>4 DEF HasBlocks
<1>8. /\ p.size \in Nat /\ p.sequence \in Nat /\ p.count \in 0 .. EndCount
      /\ \A at \in DOMAIN p.starts : p.starts[at] \in Nat
      /\ p.count = Len(lens)
  BY <1>1, <1>2, <1>5, <1>6, BytesAssumption, ChangeAssumption
<1>9. p.whole \/ p.size # size
  <2>1. CASE change = 0
    BY <2>1, Zenon
  <2>2. CASE change # 0
    <3>1. p.size = size + change
      OBVIOUS
    <3> QED
      BY <1>6, <2>2, <3>1, ChangeAssumption
  <2> QED
    BY <2>1, <2>2
<1>10. BlockAt(lens, 0 + 1) = 0
  BY <1>1, BlocksFollow
<1>11. Blocks(p) \in Nat
  BY <1>1, <1>8 DEF Blocks
<1>12. /\ packet' = p /\ position' = 0 /\ blocksRead' = 0 /\ nextSequence' = p.sequence
       /\ stopped' = FALSE
  BY <1>2 DEF Accept
<1> HIDE DEF p
<1>13. packet'.whole \/ \E ls : /\ HasBlocks(packet', ls)
                                /\ packet'.size # BlockAt(ls, Len(ls) + 1)
                                /\ position' = BlockAt(ls, blocksRead' + 1)
  BY <1>7, <1>9, <1>10, <1>12 DEF size
<1> QED
  BY <1>8, <1>11, <1>12, <1>13 DEF MoldInv, Blocks, HasBlocks

\* A block is read where the walk is: the next of those the packet has, when
\* the walk has read the ones before it.
LEMMA YieldKeeps ==
  ASSUME MoldInv, packet # NoPacket, NEW len \in SeenLen, YieldBlock(len)
  PROVE  MoldInv'
<1>1. /\ packet.size \in Nat /\ packet.sequence \in Nat /\ packet.count \in 0 .. EndCount
      /\ \A at \in DOMAIN packet.starts : packet.starts[at] \in Nat
      /\ position \in Nat /\ blocksRead \in Nat
      /\ 3 * blocksRead <= position
      /\ nextSequence = packet.sequence + blocksRead
      /\ blocksRead < Blocks(packet) /\ ~stopped
  BY DEF MoldInv, YieldBlock, Going
<1>2. len \in Nat \ {0} /\ position + Prefix + len <= packet.size
  <2>1. len \in Nat
    BY <1>1, BytesAssumption DEF SeenLen
  <2> QED
    BY <2>1 DEF YieldBlock, BlockFits
<1>3. /\ packet' = packet /\ stopped' = stopped
      /\ position' = position + Prefix + len
      /\ blocksRead' = blocksRead + 1 /\ nextSequence' = nextSequence + 1
  BY DEF YieldBlock
<1>4. /\ position' \in Nat /\ blocksRead' \in Nat
      /\ 3 * blocksRead' <= position' /\ position' <= packet'.size
      /\ nextSequence' = packet'.sequence + blocksRead'
  BY <1>1, <1>2, <1>3 DEF Prefix
<1>5. blocksRead' <= Blocks(packet')
  <2>1. Blocks(packet) \in Nat
    BY <1>1, EndCountAssumption DEF Blocks
  <2> QED
    BY <1>1, <1>3, <2>1
<1>6. ASSUME ~packet.whole
      PROVE  \E lens : /\ HasBlocks(packet', lens)
                       /\ packet'.size # BlockAt(lens, Len(lens) + 1)
                       /\ position' = BlockAt(lens, blocksRead' + 1)
  <2>1. PICK lens : /\ HasBlocks(packet, lens)
                    /\ packet.size # BlockAt(lens, Len(lens) + 1)
                    /\ position = BlockAt(lens, blocksRead + 1)
    BY <1>6 DEF MoldInv
  <2> DEFINE n == blocksRead + 1
  <2>2. lens \in Seq(Nat) /\ n \in 1 .. Len(lens)
    <3>1. lens \in Seq(Nat) /\ Blocks(packet) = Len(lens)
      BY <1>1, <2>1, EndCountAssumption DEF HasBlocks, Blocks
    <3> QED
      BY <1>1, <3>1
  <2>3. len = lens[n]
    BY <2>1, <2>2 DEF HasBlocks, SeenLen
  <2>4. BlockAt(lens, n + 1) = BlockAt(lens, n) + Prefix + lens[n]
    BY <2>2, BlocksFollow
  <2>5. position' = BlockAt(lens, blocksRead' + 1)
    BY <1>3, <2>1, <2>3, <2>4
  <2> QED
    BY <1>3, <2>1, <2>5
<1> QED
  BY <1>1, <1>3, <1>4, <1>5, <1>6 DEF MoldInv

\* Every packet, block and refusal keeps the invariant.
LEMMA MoldStep == MoldInv /\ [MoldNext]_moldVars => MoldInv'
<1> SUFFICES ASSUME MoldInv, [MoldNext]_moldVars PROVE MoldInv'
  OBVIOUS
<1>1. CASE UNCHANGED moldVars
  BY <1>1 DEF moldVars, MoldInv
<1>2. ASSUME NEW num \in 0 .. MaxBlocks \union {EndCount}, NEW size \in Payloads,
             NEW sequence \in Sequences64, ReceiveAny(num, size, sequence)
      PROVE  MoldInv'
  <2> DEFINE p == [sequence |-> sequence, count |-> num, size |-> size, starts |-> <<>>,
                   whole |-> TRUE]
  <2>1. /\ packet' = p /\ position' = 0 /\ blocksRead' = 0 /\ nextSequence' = p.sequence
        /\ stopped' = FALSE
    BY <1>2 DEF ReceiveAny, Accept
  <2>2. /\ p.size \in Nat /\ p.sequence \in Nat /\ p.count \in 0 .. EndCount
        /\ DOMAIN p.starts = {} /\ p.whole
    BY EndCountAssumption, BytesAssumption
  <2> HIDE DEF p
  <2>3. Blocks(p) \in Nat
    BY <2>2, EndCountAssumption DEF Blocks
  <2> QED
    BY <2>1, <2>2, <2>3 DEF MoldInv
<1>3. ASSUME NEW len, RefuseBlock(len)
      PROVE  MoldInv'
  BY <1>3 DEF RefuseBlock, Going, MoldInv
<1>4. CASE DiscardPacket
  BY <1>4 DEF DiscardPacket, MoldInv
<1> QED
  BY <1>1, <1>2, <1>3, <1>4, SentHasBlocks, YieldKeeps DEF MoldNext

\* A walk of a packet, of the exchange or of any bytes, ends, stays inside it,
\* and satisfies finish only on a whole packet read to its last byte.
THEOREM MoldWalkIsSound == MoldPacketSpec => []BlocksAreSound
<1>1. MoldInit => MoldInv
  BY DEF MoldInit, MoldInv
<1>2. MoldInv => BlocksAreDeclared
  <2> SUFFICES ASSUME MoldInv, packet # NoPacket
               PROVE  /\ 3 * blocksRead <= position /\ position <= packet.size
                      /\ blocksRead <= Blocks(packet)
                      /\ nextSequence = packet.sequence + blocksRead
                      /\ nextSequence <= NextOf(packet)
    BY DEF BlocksAreDeclared
  <2>1. /\ packet.sequence \in Nat /\ packet.count \in Nat /\ blocksRead \in Nat
        /\ nextSequence = packet.sequence + blocksRead /\ blocksRead <= Blocks(packet)
    BY EndCountAssumption DEF MoldInv
  <2>2. nextSequence <= NextOf(packet)
    BY <2>1, EndCountAssumption DEF Blocks, NextOf
  <2> QED
    BY <2>2 DEF MoldInv
<1>3. MoldInv => FinishedIsWhole
  <2> SUFFICES ASSUME MoldInv, packet # NoPacket, Finish
               PROVE  /\ ~stopped
                      /\ position = packet.size
                      /\ nextSequence = NextOf(packet)
                      /\ packet.whole
    BY DEF FinishedIsWhole
  <2>1. /\ packet.sequence \in Nat /\ packet.count \in Nat /\ blocksRead \in Nat
        /\ packet.size \in Nat /\ position \in Nat /\ position <= packet.size
        /\ nextSequence = packet.sequence + blocksRead
        /\ stopped => blocksRead < Blocks(packet)
    BY EndCountAssumption DEF MoldInv
  <2>2. blocksRead = Blocks(packet) /\ position = packet.size
    BY <2>1 DEF Finish
  <2>3. nextSequence = NextOf(packet)
    BY <2>1, <2>2, EndCountAssumption DEF Blocks, NextOf
  <2>4. ~stopped
    BY <2>1, <2>2
  <2>5. ASSUME ~packet.whole PROVE FALSE
    <3>1. PICK lens : /\ HasBlocks(packet, lens)
                      /\ packet.size # BlockAt(lens, Len(lens) + 1)
                      /\ position = BlockAt(lens, blocksRead + 1)
      BY <2>5 DEF MoldInv
    <3>2. blocksRead = Len(lens)
      BY <2>1, <2>2, <3>1, EndCountAssumption DEF HasBlocks, Blocks
    <3> QED
      BY <2>2, <3>1, <3>2
  <2> QED
    BY <2>2, <2>3, <2>4, <2>5
<1> QED
  BY <1>1, <1>2, <1>3, MoldStep, PTL DEF MoldPacketSpec, BlocksAreSound

----
(* MITCH: where the messages start. *)

\* The widths of the fields of a built message.
Widths(t) == [i \in 1 .. Len(Written[t]) |-> Written[t][i][2]]

\* The fields that are written take up some bytes each.
LEMMA FieldsHaveWidth ==
  ASSUME NEW t \in DOMAIN Written
  PROVE  /\ Len(Written[t]) \in Nat
         /\ \A i \in 1 .. Len(Written[t]) : Written[t][i][2] \in Nat
<1>1. CASE t = "time"
  BY <1>1 DEF Written, Reserved
<1>2. CASE t = "system_event"
  BY <1>2 DEF Written, Reserved
<1>3. CASE t = "add_order"
  BY <1>3 DEF Written, Reserved
<1>4. CASE t = "order_deleted"
  BY <1>4 DEF Written, Reserved
<1>5. CASE t = "order_modified"
  BY <1>5 DEF Written, Reserved
<1>6. CASE t = "order_executed"
  BY <1>6 DEF Written, Reserved
<1>7. CASE t = "order_book_clear"
  BY <1>7 DEF Written, Reserved
<1>8. CASE t = "trade"
  BY <1>8 DEF Written, Reserved
<1> QED
  BY <1>1, <1>2, <1>3, <1>4, <1>5, <1>6, <1>7, <1>8 DEF Written

\* The first fields of a message end where their widths add up to, after its
\* length and its type.
LEMMA EndOfIsSum ==
  ASSUME NEW t \in DOMAIN Written, NEW n \in 0 .. Len(Written[t])
  PROVE  /\ EndOf(t, n) = 2 + SumFunctionOnSet(Widths(t), 1 .. n)
         /\ EndOf(t, n) \in Nat \ {0}
<1> DEFINE seq == SubSeq(Written[t], 1, n)
           w == Widths(t)
           Rule(g) == g = [s \in SUBSET DOMAIN seq |->
                             IF s = {} THEN 2 ELSE g[s \ {Max(s)}] + seq[Max(s)][2]]
           f == CHOOSE g : Rule(g)
<1>1. EndOf(t, n) = f[DOMAIN seq]
  BY Zenon DEF EndOf, FoldLeft, MapThenFoldSet
<1>2. /\ n \in Nat /\ DOMAIN seq = 1 .. n
      /\ \A i \in 1 .. n : w[i] = seq[i][2] /\ w[i] \in Nat
  BY FieldsHaveWidth DEF Widths
<1> HIDE DEF seq, w
<1>3. \A s \in SUBSET (1 .. n) : s # {} => w[Max(s)] = seq[Max(s)][2]
  <2> SUFFICES ASSUME NEW s \in SUBSET (1 .. n), s # {} PROVE w[Max(s)] = seq[Max(s)][2]
    OBVIOUS
  <2>1. Max(s) \in s
    BY <1>2, LargestIndex
  <2> QED
    BY <1>2, <2>1
<1>4. \A g : Rule(g) <=> LeftRule(g, 2, w, n)
  BY <1>2, <1>3 DEF LeftRule
<1>5. \E g : LeftRule(g, 2, w, n)
  BY <1>2, LeftSum
<1>6. Rule(f)
  BY <1>4, <1>5, Zenon
<1> HIDE DEF f, Rule
<1>7. f[1 .. n] = 2 + SumFunctionOnSet(w, 1 .. n)
  BY <1>2, <1>4, <1>6, LeftSum
<1>8. IsFiniteSet(1 .. n)
  BY <1>2, FS_Interval
<1>9. SumFunctionOnSet(w, 1 .. n) \in Nat
  BY <1>2, <1>8, SumIsNat
<1> DEFINE total == SumFunctionOnSet(w, 1 .. n)
<1> HIDE DEF total
<1>10. EndOf(t, n) = 2 + total /\ total \in Nat
  BY <1>1, <1>2, <1>7, <1>9 DEF total
<1>11. EndOf(t, n) \in Nat \ {0}
  BY <1>10
<1> QED
  BY <1>10, <1>11 DEF total, w

\* A built message is as long as its fields, its length and its type.
LEMMA BuiltLenIsSum ==
  ASSUME NEW t \in DOMAIN Written
  PROVE  /\ BuiltLen(t) = 2 + SumFunctionOnSet(Widths(t), 1 .. Len(Written[t]))
         /\ BuiltLen(t) \in Nat \ {0}
<1>1. Len(Written[t]) \in 0 .. Len(Written[t])
  BY FieldsHaveWidth
<1> QED
  BY <1>1, EndOfIsSum DEF BuiltLen

\* Each field ends its width after the one before it.
LEMMA FieldsFollow ==
  ASSUME NEW t \in DOMAIN Written
  PROVE  /\ EndOf(t, 0) = 2
         /\ \A n \in 1 .. Len(Written[t]) : EndOf(t, n) = EndOf(t, n - 1) + Written[t][n][2]
<1> DEFINE w == Widths(t)
           len == Len(Written[t])
<1>1. len \in Nat /\ \A i \in 1 .. len : w[i] = Written[t][i][2] /\ w[i] \in Nat
  BY FieldsHaveWidth DEF Widths
<1>2. \A n \in 0 .. len : EndOf(t, n) = 2 + SumFunctionOnSet(w, 1 .. n)
  BY EndOfIsSum
<1> HIDE DEF w, len
<1>3. EndOf(t, 0) = 2
  <2>1. SumFunctionOnSet(w, 1 .. 0) = 0
    BY <1>1, PrefixSum
  <2> QED
    BY <1>1, <1>2, <2>1
<1>4. ASSUME NEW n \in 1 .. len PROVE EndOf(t, n) = EndOf(t, n - 1) + Written[t][n][2]
  <2>1. n \in 0 .. len /\ n - 1 \in 0 .. len /\ n > 0
    BY <1>1
  <2> DEFINE before == SumFunctionOnSet(w, 1 .. n - 1)
             all == SumFunctionOnSet(w, 1 .. n)
  <2>2. all = w[n] + before /\ before \in Nat
    BY <1>1, <2>1, PrefixSum
  <2>3. EndOf(t, n) = 2 + all /\ EndOf(t, n - 1) = 2 + before
    BY <1>2, <2>1
  <2>4. w[n] \in Nat /\ w[n] = Written[t][n][2]
    BY <1>1
  <2> HIDE DEF before, all
  <2> QED
    BY <2>2, <2>3, <2>4
<1> QED
  BY <1>3, <1>4 DEF len

\* Where a field of a message starts and ends.
Starts(t, a) == Layout[t][a][1]
Ends(t, a) == Layout[t][a][1] + Layout[t][a][2]

\* The fields of a message take up some bytes each, apart from each other, and
\* the last ends where the minimum length does.
LEMMA FieldsApart ==
  ASSUME NEW t \in Decoded
  PROVE  /\ \A a \in DOMAIN Layout[t] : /\ Layout[t][a] \in Nat \X (Nat \ {0})
                                       /\ Ends(t, a) <= MinLen[t]
         /\ \A a, b \in DOMAIN Layout[t] :
              a = b \/ Ends(t, a) <= Starts(t, b) \/ Ends(t, b) <= Starts(t, a)
         /\ \E a \in DOMAIN Layout[t] : Ends(t, a) = MinLen[t]
<1>1. CASE t = "time"
  BY <1>1 DEF Layout, MinLen, Starts, Ends
<1>2. CASE t = "system_event"
  BY <1>2 DEF Layout, MinLen, Starts, Ends
<1>3. CASE t = "add_order"
  BY <1>3 DEF Layout, MinLen, Starts, Ends
<1>4. CASE t = "add_attributed_order"
  BY <1>4 DEF Layout, MinLen, Starts, Ends
<1>5. CASE t = "order_deleted"
  BY <1>5 DEF Layout, MinLen, Starts, Ends
<1>6. CASE t = "order_modified"
  BY <1>6 DEF Layout, MinLen, Starts, Ends
<1>7. CASE t = "order_book_clear"
  BY <1>7 DEF Layout, MinLen, Starts, Ends
<1>8. CASE t = "order_executed"
  BY <1>8 DEF Layout, MinLen, Starts, Ends
<1>9. CASE t = "order_executed_with_price_size"
  BY <1>9 DEF Layout, MinLen, Starts, Ends
<1>10. CASE t = "trade"
  BY <1>10 DEF Layout, MinLen, Starts, Ends
<1> QED
  BY <1>1, <1>2, <1>3, <1>4, <1>5, <1>6, <1>7, <1>8, <1>9, <1>10 DEF Decoded, Layout

\* The layouts of the messages have finitely many fields.
LEMMA FieldsAreFinite ==
  ASSUME NEW t \in Decoded
  PROVE  IsFiniteSet(DOMAIN Layout[t])
<1> DEFINE names == DOMAIN Layout[t]
           bytes == 0 .. MinLen[t]
           F == [a \in names |-> Starts(t, a)]
<1>1. \A a \in names : Starts(t, a) \in bytes
  BY FieldsApart DEF Starts, Ends
<1>2. \A a, b \in names : Starts(t, a) = Starts(t, b) => a = b
  BY FieldsApart DEF Starts, Ends
<1>3. IsFiniteSet(bytes)
  <2>1. MinLen[t] \in Nat
    BY FieldsApart DEF Starts, Ends
  <2> QED
    BY <2>1, FS_Interval
<1>4. F \in Injection(names, bytes)
  <2>1. \A a \in names : F[a] = Starts(t, a)
    OBVIOUS
  <2>2. F \in [names -> bytes]
    BY <1>1
  <2> HIDE DEF F, names, bytes
  <2> QED
    BY <1>2, <2>1, <2>2, Zenon DEF Injection, IsInjective
<1> QED
  BY <1>3, <1>4, FS_Injection

\* A message is decoded from fields that are apart and up to its minimum length.
LEMMA FieldsAlwaysFit ==
  ASSUME NEW t \in Decoded
  PROVE  FieldsFit(t)
<1> DEFINE names == DOMAIN Layout[t]
           fields == {Layout[t][a] : a \in names}
           ends == {f[1] + f[2] : f \in fields}
<1>1. /\ \A a \in names : /\ Layout[t][a] \in Nat \X (Nat \ {0})
                          /\ Ends(t, a) <= MinLen[t]
      /\ \A a, b \in names : a = b \/ Ends(t, a) <= Starts(t, b) \/ Ends(t, b) <= Starts(t, a)
      /\ \E a \in names : Ends(t, a) = MinLen[t]
  BY FieldsApart
<1>2. MinLen[t] = Max(ends)
  <2>1. \A x \in ends : x \in Nat /\ x <= MinLen[t]
    BY <1>1 DEF Ends
  <2>2. MinLen[t] \in ends
    BY <1>1 DEF Ends
  <2> HIDE DEF ends
  <2>3. \A y \in ends : MinLen[t] >= y
    BY <2>1, <2>2
  <2>4. \A x \in ends : (\A y \in ends : x >= y) => x = MinLen[t]
    BY <2>1, <2>2
  <2> QED
    BY <2>2, <2>3, <2>4 DEF Max
<1>3. \A f, g \in fields : f = g \/ f[1] + f[2] <= g[1] \/ g[1] + g[2] <= f[1]
  BY <1>1 DEF Starts, Ends
<1>4. Cardinality(fields) = Cardinality(names)
  <2> DEFINE F == [a \in names |-> Layout[t][a]]
  <2>1. ASSUME NEW a \in names, NEW b \in names, Layout[t][a] = Layout[t][b] PROVE a = b
    BY <1>1, <2>1 DEF Starts, Ends
  <2>2. F \in Bijection(names, fields)
    BY <2>1 DEF Bijection, Injection, Surjection, IsInjective
  <2> QED
    BY <2>2, FieldsAreFinite, FS_Bijection, Zenon DEF ExistsBijection
<1> QED
  BY <1>2, <1>3, <1>4, Zenon DEF FieldsFit

\* What is written is read where it is written.
LEMMA BuilderAlwaysAgrees ==
  ASSUME NEW t \in DOMAIN Written
  PROVE  BuilderAgrees(t)
<1>0. /\ EndOf(t, 0) = 2
      /\ \A n \in 1 .. Len(Written[t]) : EndOf(t, n) = EndOf(t, n - 1) + Written[t][n][2]
  BY FieldsFollow
<1>1. CASE t = "time"
  BY <1>0, <1>1 DEF BuilderAgrees, Written, Layout, Reserved
<1>2. CASE t = "system_event"
  BY <1>0, <1>2 DEF BuilderAgrees, Written, Layout, Reserved
<1>3. CASE t = "add_order"
  BY <1>0, <1>3 DEF BuilderAgrees, Written, Layout, Reserved
<1>4. CASE t = "order_deleted"
  BY <1>0, <1>4 DEF BuilderAgrees, Written, Layout, Reserved
<1>5. CASE t = "order_modified"
  BY <1>0, <1>5 DEF BuilderAgrees, Written, Layout, Reserved
<1>6. CASE t = "order_executed"
  BY <1>0, <1>6 DEF BuilderAgrees, Written, Layout, Reserved
<1>7. CASE t = "order_book_clear"
  BY <1>0, <1>7 DEF BuilderAgrees, Written, Layout, Reserved
<1>8. CASE t = "trade"
  BY <1>0, <1>8 DEF BuilderAgrees, Written, Layout, Reserved
<1> QED
  BY <1>1, <1>2, <1>3, <1>4, <1>5, <1>6, <1>7, <1>8 DEF Written

\* The accessors answer for the types that carry the field, and no other.
LEMMA AccessorsAlwaysAnswer ==
  ASSUME NEW t \in Decoded
  PROVE  AccessorsAnswer(t)
<1>1. CASE t = "time"
  BY <1>1 DEF AccessorsAnswer, NamesInstrument, NamesOrder, Timed, Decoded, Layout
<1>2. CASE t = "system_event"
  BY <1>2 DEF AccessorsAnswer, NamesInstrument, NamesOrder, Timed, Decoded, Layout
<1>3. CASE t = "add_order"
  BY <1>3 DEF AccessorsAnswer, NamesInstrument, NamesOrder, Timed, Decoded, Layout
<1>4. CASE t = "add_attributed_order"
  BY <1>4 DEF AccessorsAnswer, NamesInstrument, NamesOrder, Timed, Decoded, Layout
<1>5. CASE t = "order_deleted"
  BY <1>5 DEF AccessorsAnswer, NamesInstrument, NamesOrder, Timed, Decoded, Layout
<1>6. CASE t = "order_modified"
  BY <1>6 DEF AccessorsAnswer, NamesInstrument, NamesOrder, Timed, Decoded, Layout
<1>7. CASE t = "order_book_clear"
  BY <1>7 DEF AccessorsAnswer, NamesInstrument, NamesOrder, Timed, Decoded, Layout
<1>8. CASE t = "order_executed"
  BY <1>8 DEF AccessorsAnswer, NamesInstrument, NamesOrder, Timed, Decoded, Layout
<1>9. CASE t = "order_executed_with_price_size"
  BY <1>9 DEF AccessorsAnswer, NamesInstrument, NamesOrder, Timed, Decoded, Layout
<1>10. CASE t = "trade"
  BY <1>10 DEF AccessorsAnswer, NamesInstrument, NamesOrder, Timed, Decoded, Layout
<1> QED
  BY <1>1, <1>2, <1>3, <1>4, <1>5, <1>6, <1>7, <1>8, <1>9, <1>10 DEF Decoded, Layout

\* What each message takes up in the payload.
MessageSizes(types) == [i \in 1 .. Len(types) |-> BuiltLen(types[i])]

\* A message starts where those before it end.
LEMMA StartOfIsSum ==
  ASSUME NEW types \in Seq(DOMAIN Written), NEW k \in 1 .. Len(types) + 1
  PROVE  StartOf(types, k) = SumFunctionOnSet(MessageSizes(types), 1 .. k - 1)
<1> DEFINE n == k - 1
           seq == SubSeq(types, 1, n)
           w == MessageSizes(types)
           Rule(g) == g = [s \in SUBSET DOMAIN seq |->
                             IF s = {} THEN 0 ELSE g[s \ {Max(s)}] + BuiltLen(seq[Max(s)])]
           f == CHOOSE g : Rule(g)
<1>1. StartOf(types, k) = f[DOMAIN seq]
  BY Zenon DEF StartOf, FoldLeft, MapThenFoldSet
<1>2. n \in Nat /\ n <= Len(types) /\ DOMAIN seq = 1 .. n /\ \A i \in 1 .. n : seq[i] = types[i]
  OBVIOUS
<1>3. \A i \in 1 .. n : types[i] \in DOMAIN Written /\ w[i] = BuiltLen(types[i])
  BY <1>2 DEF MessageSizes
<1>4. \A i \in 1 .. n : w[i] = BuiltLen(seq[i]) /\ w[i] \in Nat
  BY <1>2, <1>3, BuiltLenIsSum
<1> HIDE DEF n, seq, w
<1>5. \A s \in SUBSET (1 .. n) : s # {} => w[Max(s)] = BuiltLen(seq[Max(s)])
  <2> SUFFICES ASSUME NEW s \in SUBSET (1 .. n), s # {} PROVE w[Max(s)] = BuiltLen(seq[Max(s)])
    OBVIOUS
  <2>1. Max(s) \in s
    BY <1>2, LargestIndex
  <2> QED
    BY <1>4, <2>1
<1>6. \A g : Rule(g) <=> LeftRule(g, 0, w, n)
  BY <1>2, <1>5 DEF LeftRule
<1>7. \E g : LeftRule(g, 0, w, n)
  BY <1>2, <1>4, LeftSum
<1>8. Rule(f)
  BY <1>6, <1>7, Zenon
<1> HIDE DEF f, Rule
<1>9. f[1 .. n] = 0 + SumFunctionOnSet(w, 1 .. n)
  BY <1>2, <1>4, <1>6, <1>8, LeftSum
<1>10. IsFiniteSet(1 .. n)
  BY <1>2, FS_Interval
<1>11. SumFunctionOnSet(w, 1 .. n) \in Nat
  BY <1>4, <1>10, SumIsNat
<1> DEFINE total == SumFunctionOnSet(w, 1 .. n)
<1> HIDE DEF total
<1>12. StartOf(types, k) = total
  BY <1>1, <1>2, <1>9, <1>11 DEF total
<1> QED
  BY <1>12 DEF total, w, n

\* Each message starts where the one before it ends, the first at zero, and
\* none where it would not be told from another.
LEMMA MessagesFollow ==
  ASSUME NEW types \in Seq(DOMAIN Written)
  PROVE  /\ \A n \in 1 .. Len(types) + 1 : StartOf(types, n) \in Nat
         /\ StartOf(types, 1) = 0
         /\ \A n \in 1 .. Len(types) :
              /\ StartOf(types, n + 1) = StartOf(types, n) + BuiltLen(types[n])
              /\ BuiltLen(types[n]) \in Nat \ {0}
<1> DEFINE w == MessageSizes(types)
<1>1. \A i \in 1 .. Len(types) : w[i] = BuiltLen(types[i]) /\ w[i] \in Nat \ {0}
  <2>1. \A i \in 1 .. Len(types) : w[i] = BuiltLen(types[i]) /\ types[i] \in DOMAIN Written
    BY DEF MessageSizes
  <2> QED
    BY <2>1, BuiltLenIsSum
<1> HIDE DEF w
<1>2. Len(types) \in Nat /\ \A i \in 1 .. Len(types) : w[i] \in Nat
  BY <1>1
<1>3. \A m \in 0 .. Len(types) :
        /\ SumFunctionOnSet(w, 1 .. m) \in Nat
        /\ m = 0 => SumFunctionOnSet(w, 1 .. m) = 0
        /\ m > 0 => SumFunctionOnSet(w, 1 .. m) = w[m] + SumFunctionOnSet(w, 1 .. m - 1)
  BY <1>2, PrefixSum
<1>4. \A n \in 1 .. Len(types) + 1 : StartOf(types, n) = SumFunctionOnSet(w, 1 .. n - 1)
  BY StartOfIsSum DEF w
<1>5. ASSUME NEW n \in 1 .. Len(types) + 1
      PROVE  StartOf(types, n) \in Nat
  BY <1>2, <1>3, <1>4
<1>6. StartOf(types, 1) = 0
  <2>1. 1 \in 1 .. Len(types) + 1 /\ 1 - 1 = 0 /\ 0 \in 0 .. Len(types)
    BY <1>2
  <2> QED
    BY <1>3, <1>4, <2>1
<1>7. ASSUME NEW n \in 1 .. Len(types)
      PROVE  /\ StartOf(types, n + 1) = StartOf(types, n) + BuiltLen(types[n])
             /\ BuiltLen(types[n]) \in Nat \ {0}
  <2>1. n + 1 \in 1 .. Len(types) + 1 /\ n \in 1 .. Len(types) + 1 /\ (n + 1) - 1 = n /\ n > 0
    BY <1>2
  <2>2. StartOf(types, n + 1) = SumFunctionOnSet(w, 1 .. n)
    BY <1>4, <2>1
  <2>3. StartOf(types, n) = SumFunctionOnSet(w, 1 .. n - 1)
    BY <1>4, <2>1
  <2>4. SumFunctionOnSet(w, 1 .. n) = w[n] + SumFunctionOnSet(w, 1 .. n - 1)
    BY <1>2, <1>3, <2>1
  <2>5. StartOf(types, n) \in Nat /\ w[n] = BuiltLen(types[n]) /\ w[n] \in Nat \ {0}
    BY <1>1, <1>5, <2>1
  <2> QED
    BY <2>2, <2>3, <2>4, <2>5
<1> QED
  BY <1>5, <1>6, <1>7

\* No two messages start at the same place.
LEMMA MessagesAreApart ==
  ASSUME NEW types \in Seq(DOMAIN Written), NEW n \in 1 .. Len(types) + 1,
         NEW m \in 1 .. Len(types) + 1, StartOf(types, m) = StartOf(types, n)
  PROVE  m = n
<1> DEFINE top == Len(types) + 1
           f == [i \in 1 .. top |-> StartOf(types, i)]
<1>1. top \in Nat /\ \A i \in 1 .. top : f[i] \in Nat
  BY MessagesFollow
<1>2. ASSUME NEW i \in 1 .. top - 1
      PROVE  f[i] < f[i + 1]
  <2>1. i \in 1 .. Len(types) /\ i \in 1 .. top /\ i + 1 \in 1 .. top
    OBVIOUS
  <2>2. /\ StartOf(types, i + 1) = StartOf(types, i) + BuiltLen(types[i])
        /\ BuiltLen(types[i]) \in Nat \ {0}
    BY <2>1, MessagesFollow
  <2>3. StartOf(types, i) \in Nat /\ f[i] = StartOf(types, i) /\ f[i + 1] = StartOf(types, i + 1)
    BY <1>1, <2>1
  <2> HIDE DEF f
  <2> QED
    BY <2>2, <2>3
<1>3. f[m] = f[n]
  OBVIOUS
<1> HIDE DEF f
<1> QED
  BY <1>1, <1>2, <1>3, RisingIsApart

----
(* MITCH: the walk. *)

\* The datagram d holds these messages, and no more.
HasMessages(d, types) ==
  /\ types \in Seq(DOMAIN Written)
  /\ d.length - UNIT_HEADER_LEN = StartOf(types, Len(types) + 1)
  /\ \A n \in 1 .. Len(types) :
       /\ StartOf(types, n) \in DOMAIN d.starts
       /\ d.starts[StartOf(types, n)] = [len |-> BuiltLen(types[n]), type |-> types[n], valid |-> TRUE]

\* A datagram that decodes.
Datagram(d) ==
  /\ d.length \in Nat /\ UNIT_HEADER_LEN <= d.length
  /\ d.count \in Nat /\ d.sequence \in Nat
  /\ \A at \in DOMAIN d.starts : d.starts[at].len \in Nat /\ d.starts[at].type \in DOMAIN Written

Item == [sequence : Nat, type : {f.type : f \in Frame} \union DOMAIN Written]

\* The walk is inside the payload and has numbered what it yielded; of a built
\* packet it has yielded the messages in order, and is where the next starts.
WalkInv ==
  unit # None =>
    /\ Datagram(unit)
    /\ offset \in Nat /\ emitted \in Nat /\ emitted <= offset /\ offset <= Payload
    /\ Len(yielded) = emitted
    /\ \A i \in 1 .. emitted :
         yielded[i].sequence = IF Unsequenced THEN 0 ELSE (unit.sequence + i - 1) % SequenceMod
    /\ ~Unsequenced => next = (unit.sequence + emitted) % SequenceMod
    /\ built # <<>> =>
         /\ HasMessages(unit, built)
         /\ emitted <= Len(built) /\ offset = StartOf(built, emitted + 1)
         /\ \A i \in 1 .. emitted : yielded[i].type = built[i]

PacketInv ==
  /\ built \in Seq(BuiltType) /\ count \in Nat
  /\ yielded \in Seq(Item)
  /\ WalkInv

\* A walk that begins has yielded nothing.
LEMMA ParseBegins ==
  ASSUME NEW d, Parse(d), Datagram(d), d.sequence \in 0 .. SequenceMod - 1,
         built # <<>> => HasMessages(d, built)
  PROVE  WalkInv' /\ yielded' = <<>> /\ built' = built /\ count' = count
<1>1. /\ unit' = d /\ offset' = 0 /\ emitted' = 0 /\ next' = d.sequence /\ yielded' = <<>>
      /\ built' = built /\ count' = count
  BY DEF Parse
<1>2. d.length \in Nat /\ 8 <= d.length /\ d.sequence \in Nat
  BY DEF Datagram, UNIT_HEADER_LEN
<1>3. d.length - UNIT_HEADER_LEN >= 0
  BY <1>2 DEF UNIT_HEADER_LEN
<1>4. (d.sequence + 0) % SequenceMod = d.sequence
  <2>1. SequenceMod \in Nat \ {0} /\ (SequenceMod * 0 + d.sequence) % SequenceMod = d.sequence
    BY ModAssumption, Remainder
  <2>2. SequenceMod * 0 + d.sequence = d.sequence + 0
    BY <2>1, <1>2
  <2> QED
    BY <2>1, <2>2
<1>5. ASSUME built # <<>>
      PROVE  HasMessages(d, built) /\ 0 <= Len(built) /\ StartOf(built, 0 + 1) = 0
  <2>1. built \in Seq(DOMAIN Written)
    BY <1>5 DEF HasMessages
  <2> QED
    BY <1>5, <2>1, MessagesFollow
<1> QED
  BY <1>1, <1>2, <1>3, <1>4, <1>5 DEF WalkInv, Payload, Unsequenced

\* The numbers the assumptions speak of.
LEMMA Sizes16 ==
  /\ SequenceMod \in Nat \ {0} /\ CountMod \in Nat \ {0} /\ LengthMod \in Nat \ {0}
  /\ Damage \subseteq Int
BY ModAssumption, DamageAssumption

\* A built packet is a datagram of its messages, whatever it gains or loses.
LEMMA BuiltIsWhole ==
  ASSUME PacketInv, NEW sequence \in 0 .. SequenceMod - 1, NEW change \in Damage,
         ParseBuilt(sequence, change)
  PROVE  PacketInv'
<1> DEFINE payload == StartOf(built, Len(built) + 1)
           messages == {n \in 1 .. Len(built) : TRUE}
           starts == [at \in {StartOf(built, n) : n \in messages} |->
                        LET n == CHOOSE n \in messages : StartOf(built, n) = at
                        IN  [len |-> BuiltLen(built[n]), type |-> built[n], valid |-> TRUE]]
           d == Received(Finished(sequence), change)
<1>1. built \in Seq(DOMAIN Written) /\ built \in Seq(BuiltType) /\ Len(built) \in Nat /\ count \in Nat
  BY BuiltAssumption DEF PacketInv
<1>2. payload \in Nat
  BY <1>1, MessagesFollow
<1>3. messages = 1 .. Len(built)
  OBVIOUS
<1>4. ASSUME NEW n \in 1 .. Len(built)
      PROVE  /\ StartOf(built, n) \in DOMAIN starts
             /\ starts[StartOf(built, n)] = [len |-> BuiltLen(built[n]), type |-> built[n], valid |-> TRUE]
             /\ BuiltLen(built[n]) \in Nat /\ built[n] \in DOMAIN Written
  <2> DEFINE m == CHOOSE m \in messages : StartOf(built, m) = StartOf(built, n)
  <2>1. m \in messages /\ StartOf(built, m) = StartOf(built, n)
    BY <1>3
  <2>2. StartOf(built, n) \in DOMAIN starts
    BY <1>3
  <2>3. starts[StartOf(built, n)] = [len |-> BuiltLen(built[m]), type |-> built[m], valid |-> TRUE]
    BY <2>2
  <2> HIDE DEF m, starts
  <2>4. m \in 1 .. Len(built) + 1 /\ n \in 1 .. Len(built) + 1
    BY <1>1, <1>3, <2>1
  <2>5. m = n
    BY <1>1, <2>1, <2>4, MessagesAreApart
  <2>6. BuiltLen(built[n]) \in Nat /\ built[n] \in DOMAIN Written
    BY <1>1, MessagesFollow
  <2> QED
    BY <2>2, <2>3, <2>5, <2>6
<1>5. \A at \in DOMAIN starts : starts[at].len \in Nat /\ starts[at].type \in DOMAIN Written
  <2> SUFFICES ASSUME NEW at \in DOMAIN starts
               PROVE  starts[at].len \in Nat /\ starts[at].type \in DOMAIN Written
    OBVIOUS
  <2>1. PICK n \in 1 .. Len(built) : at = StartOf(built, n)
    OBVIOUS
  <2> HIDE DEF starts
  <2>2. /\ starts[at] = [len |-> BuiltLen(built[n]), type |-> built[n], valid |-> TRUE]
        /\ BuiltLen(built[n]) \in Nat /\ built[n] \in DOMAIN Written
    BY <1>4, <2>1
  <2> DEFINE len == BuiltLen(built[n])
             type == built[n]
  <2> HIDE DEF len, type
  <2>3. starts[at].len = len /\ starts[at].type = type
    BY <2>2 DEF len, type
  <2> QED
    BY <2>2, <2>3 DEF len, type
<1>6. /\ d.length = (UNIT_HEADER_LEN + payload) % LengthMod
      /\ d.count = count /\ d.sequence = sequence /\ d.starts = starts
  BY DEF Received, Finished
<1>7. Finished(sequence).size = UNIT_HEADER_LEN + payload
  BY DEF Finished
<1> HIDE DEF starts, payload, d
<1>8. (UNIT_HEADER_LEN + payload) % LengthMod = UNIT_HEADER_LEN + payload
  <2> DEFINE a == UNIT_HEADER_LEN + payload
  <2>1. a \in Nat /\ a < LengthMod
    BY <1>2, <1>7 DEF ParseBuilt, UNIT_HEADER_LEN
  <2> HIDE DEF a
  <2>2. (LengthMod * 0 + a) % LengthMod = a /\ LengthMod * 0 + a = a
    BY <2>1, Sizes16, Remainder
  <2> QED
    BY <2>2 DEF a
<1>9. Datagram(d)
  BY <1>1, <1>2, <1>5, <1>6, <1>8, Sizes16 DEF Datagram, UNIT_HEADER_LEN
<1>10. HasMessages(d, built)
  BY <1>1, <1>2, <1>4, <1>6, <1>8 DEF HasMessages, UNIT_HEADER_LEN, payload
<1>11. Parse(d)
  BY DEF ParseBuilt, d
<1>12. WalkInv' /\ yielded' = <<>> /\ built' = built /\ count' = count
  BY <1>6, <1>9, <1>10, <1>11, ParseBegins
<1> QED
  BY <1>1, <1>12 DEF PacketInv

\* So are heartbeats and what anybody sends.
LEMMA OthersAreDatagrams ==
  ASSUME PacketInv,
         \/ \E sequence \in 0 .. SequenceMod - 1 : ParseHeartbeat(sequence)
         \/ \E h \in Foreign : ParseForeign(h)
  PROVE  PacketInv'
<1>1. ASSUME NEW sequence \in 0 .. SequenceMod - 1, ParseHeartbeat(sequence)
      PROVE  PacketInv'
  <2> DEFINE d == HeartbeatUnit(sequence)
  <2>1. Parse(d) /\ built = <<>>
    BY <1>1 DEF ParseHeartbeat
  <2>2. Datagram(d) /\ d.sequence \in 0 .. SequenceMod - 1
    BY Sizes16 DEF Datagram, HeartbeatUnit, UNIT_HEADER_LEN
  <2> HIDE DEF d
  <2>3. WalkInv' /\ yielded' = <<>> /\ built' = built /\ count' = count
    BY <2>1, <2>2, ParseBegins
  <2> QED
    BY <2>3 DEF PacketInv
<1>2. ASSUME NEW h \in Foreign, ParseForeign(h)
      PROVE  PacketInv'
  <2> DEFINE d == [size |-> h.size, length |-> h.length, count |-> h.count,
                   sequence |-> h.sequence, starts |-> <<>>]
  <2>1. Parse(d) /\ built = <<>>
    BY <1>2 DEF ParseForeign
  <2>2. UNIT_HEADER_LEN <= d.length
    BY <2>1 DEF Parse, Decodes
  <2>3. Datagram(d) /\ d.sequence \in 0 .. SequenceMod - 1
    BY <2>2, Sizes16, ForeignAssumption DEF Datagram
  <2> HIDE DEF d
  <2>4. WalkInv' /\ yielded' = <<>> /\ built' = built /\ count' = count
    BY <2>1, <2>3, ParseBegins
  <2> QED
    BY <2>4 DEF PacketInv
<1> QED
  BY <1>1, <1>2

\* A message yielded leaves the walk at the next.
LEMMA YieldMoves ==
  ASSUME PacketInv, unit # None, NEW f \in Seen, Yield(f)
  PROVE  PacketInv'
<1>1. /\ Datagram(unit) /\ offset \in Nat /\ emitted \in Nat /\ emitted <= offset
      /\ offset < Payload /\ Payload \in Nat /\ Len(yielded) = emitted /\ yielded \in Seq(Item)
  <2>1. Payload \in Nat
    BY DEF PacketInv, WalkInv, Datagram, Payload, UNIT_HEADER_LEN
  <2> QED
    BY <2>1 DEF PacketInv, WalkInv, Yield
<1>2. f.len \in Nat /\ f.type \in {g.type : g \in Frame} \union DOMAIN Written
  BY <1>1, FrameAssumption DEF Seen, Datagram
<1>3. f.len > 0 /\ f.len <= Payload - offset
  BY DEF Yield, Readable
<1> DEFINE item == [sequence |-> IF Unsequenced THEN 0 ELSE next, type |-> f.type]
<1>4. /\ unit' = unit /\ built' = built /\ count' = count
      /\ offset' = offset + f.len /\ emitted' = emitted + 1
      /\ yielded' = Append(yielded, item)
      /\ ~Unsequenced => next' = (next + 1) % SequenceMod
  BY DEF Yield
<1>5. ~Unsequenced => /\ next = (unit.sequence + emitted) % SequenceMod
                      /\ unit.sequence + emitted \in Nat
  BY <1>1 DEF PacketInv, WalkInv, Datagram
<1>6. item \in Item
  <2>1. (IF Unsequenced THEN 0 ELSE next) \in Nat
    <3>1. \A a \in Nat : a % SequenceMod \in Nat
      BY Sizes16, NextInCircle
    <3> QED
      BY <1>5, <3>1
  <2> QED
    BY <1>2, <2>1 DEF Item
<1>7. /\ yielded' \in Seq(Item) /\ Len(yielded') = emitted'
      /\ \A i \in 1 .. emitted : yielded'[i] = yielded[i]
      /\ yielded'[emitted + 1] = item
  <2> HIDE DEF item
  <2> QED
    BY <1>1, <1>4, <1>6
<1>8. offset' \in Nat /\ emitted' \in Nat /\ emitted' <= offset' /\ offset' <= Payload
  BY <1>1, <1>2, <1>3, <1>4
<1>9. ~Unsequenced => next' = (unit.sequence + emitted') % SequenceMod
  <2> DEFINE a == unit.sequence + emitted
  <2>1. ~Unsequenced => a \in Nat /\ next' = ((a % SequenceMod) + 1) % SequenceMod
    BY <1>4, <1>5
  <2>2. ~Unsequenced => next' = (a + 1) % SequenceMod
    BY <2>1, Sizes16, NextInCircle
  <2>3. a + 1 = unit.sequence + emitted'
    <3>1. unit.sequence \in Nat /\ emitted \in Nat /\ emitted' = emitted + 1
      BY <1>1, <1>4 DEF Datagram
    <3> QED
      BY ONLY <3>1
  <2> QED
    BY <2>2, <2>3
<1>10. ASSUME NEW i \in 1 .. emitted'
       PROVE  yielded'[i].sequence = IF Unsequenced THEN 0 ELSE (unit.sequence + i - 1) % SequenceMod
  <2>1. CASE i \in 1 .. emitted
    BY <1>7, <2>1 DEF PacketInv, WalkInv
  <2>2. CASE i = emitted + 1
    <3>1. yielded'[i].sequence = IF Unsequenced THEN 0 ELSE next
      BY <1>7, <2>2
    <3>2. unit.sequence + i - 1 = unit.sequence + emitted
      BY <1>1, <2>2 DEF Datagram
    <3> QED
      BY <1>5, <3>1, <3>2
  <2> QED
    BY <1>1, <1>4, <2>1, <2>2
<1>11. ASSUME built # <<>>
       PROVE  /\ HasMessages(unit, built)
              /\ emitted' <= Len(built) /\ offset' = StartOf(built, emitted' + 1)
              /\ \A i \in 1 .. emitted' : yielded'[i].type = built[i]
  <2>1. /\ HasMessages(unit, built) /\ emitted <= Len(built)
        /\ offset = StartOf(built, emitted + 1)
        /\ \A i \in 1 .. emitted : yielded[i].type = built[i]
    BY <1>11 DEF PacketInv, WalkInv
  <2>2. built \in Seq(DOMAIN Written) /\ Payload = StartOf(built, Len(built) + 1) /\ Len(built) \in Nat
    BY <2>1 DEF HasMessages, Payload
  <2>3. emitted # Len(built)
    BY <1>1, <2>1, <2>2
  <2> DEFINE n == emitted + 1
  <2>4. n \in 1 .. Len(built)
    BY <1>1, <2>1, <2>2, <2>3
  <2>5. f = [len |-> BuiltLen(built[n]), type |-> built[n], valid |-> TRUE]
    BY <2>1, <2>4 DEF HasMessages, Seen
  <2>6. f.len = BuiltLen(built[n]) /\ f.type = built[n]
    BY <2>5
  <2>7. StartOf(built, n + 1) = StartOf(built, n) + BuiltLen(built[n])
    BY <2>2, <2>4, MessagesFollow
  <2>8. offset' = StartOf(built, emitted' + 1)
    BY <1>4, <2>1, <2>6, <2>7
  <2>9. emitted' <= Len(built)
    BY <1>4, <2>4
  <2>10. ASSUME NEW i \in 1 .. emitted'
         PROVE  yielded'[i].type = built[i]
    <3>1. CASE i \in 1 .. emitted
      BY <1>7, <2>1, <3>1
    <3>2. CASE i = n
      BY <1>7, <2>6, <3>2
    <3> QED
      BY <1>1, <1>4, <3>1, <3>2
  <2> QED
    BY <2>1, <2>8, <2>9, <2>10
<1>12. WalkInv'
  <2>1. Payload' = Payload /\ Unsequenced' = Unsequenced
    BY <1>4 DEF Payload, Unsequenced
  <2> HIDE DEF item
  <2> QED
    BY <1>1, <1>4, <1>7, <1>8, <1>9, <1>10, <1>11, <2>1 DEF WalkInv
<1> QED
  BY <1>4, <1>7, <1>12 DEF PacketInv

\* Every push, parse and step of a walk keeps the invariant.
LEMMA PacketStep == PacketInv /\ [PacketNext]_packetVars => PacketInv'
<1> SUFFICES ASSUME PacketInv, [PacketNext]_packetVars PROVE PacketInv'
  OBVIOUS
<1>1. CASE UNCHANGED packetVars
  BY <1>1 DEF packetVars, PacketInv, WalkInv, Payload, Unsequenced
<1>2. ASSUME NEW t \in BuiltType, Push(t)
      PROVE  PacketInv'
  <2>1. built' \in Seq(BuiltType)
    <3>1. built \in Seq(BuiltType) /\ Append(built, t) \in Seq(BuiltType)
      BY DEF PacketInv
    <3>2. built' = Append(built, t) \/ built' = <<>>
      BY <1>2 DEF Push
    <3>3. <<>> \in Seq(BuiltType)
      OBVIOUS
    <3> QED
      BY <3>1, <3>2, <3>3, Zenon
  <2>2. count' \in Nat
    <3>1. count \in Nat /\ CountMod \in Nat \ {0}
      BY Sizes16 DEF PacketInv
    <3>2. (count + 1) % CountMod \in Nat
      BY <3>1, NextInCircle
    <3> QED
      BY <1>2, <3>2 DEF Push
  <2>3. unit' = None /\ yielded' = yielded
    BY <1>2 DEF Push, walkVars
  <2> QED
    BY <2>1, <2>2, <2>3 DEF PacketInv, WalkInv
<1>3. ASSUME NEW f, Refuse(f)
      PROVE  PacketInv'
  BY <1>3 DEF Refuse, PacketInv, WalkInv, Payload, Unsequenced
<1>4. CASE Discard
  BY <1>4 DEF Discard, PacketInv, WalkInv
<1>5. CASE StartOver
  BY <1>5 DEF StartOver, walkVars, PacketInv, WalkInv
<1> QED
  BY <1>1, <1>2, <1>3, <1>4, <1>5, BuiltIsWhole, OthersAreDatagrams, YieldMoves DEF PacketNext

\* The invariant holds from the start.
LEMMA PacketInvAlways == PacketSpec => []PacketInv
<1>1. PacketInit => PacketInv
  BY DEF PacketInit, PacketInv, WalkInv
<1> QED
  BY <1>1, PacketStep, PTL DEF PacketSpec

\* A walk of any bytes stays inside them, numbers what it yields without a
\* gap, and verified leaves off where the header says the next packet starts.
THEOREM MitchWalkIsSound == PacketSpec => []WalkIsSound
<1>1. PacketInv => WalkIsSound
  BY DEF PacketInv, WalkInv, WalkIsSound, WalkStaysInside, VerifiedIsExpected, CountVerified,
         NextExpectedOf
<1> QED
  BY <1>1, PacketInvAlways, PTL

\* A built packet whose walk ends without an error has yielded what was built.
THEOREM BuiltPacketsReadBack == PacketSpec => []BuiltReadsBack
<1>1. PacketInv => BuiltReadsBack
  <2> SUFFICES ASSUME PacketInv, unit # None, built # <<>>, Over, ~failed
               PROVE  [i \in 1 .. emitted |-> yielded[i].type] = built
    BY DEF BuiltReadsBack
  <2>1. /\ HasMessages(unit, built) /\ emitted <= Len(built)
        /\ offset = StartOf(built, emitted + 1) /\ emitted \in Nat
        /\ \A i \in 1 .. emitted : yielded[i].type = built[i]
    BY DEF PacketInv, WalkInv
  <2>2. built \in Seq(DOMAIN Written) /\ Payload = StartOf(built, Len(built) + 1) /\ Len(built) \in Nat
    BY <2>1 DEF HasMessages, Payload
  <2>3. offset = Payload
    <3>1. offset \in Nat /\ offset <= Payload /\ Payload \in Nat
      BY <2>2, MessagesFollow DEF PacketInv, WalkInv
    <3> QED
      BY <3>1 DEF Over
  <2>4. emitted + 1 \in 1 .. Len(built) + 1 /\ Len(built) + 1 \in 1 .. Len(built) + 1
    BY <2>1, <2>2
  <2>5. emitted + 1 = Len(built) + 1
    BY <2>1, <2>2, <2>3, <2>4, MessagesAreApart
  <2>6. emitted = Len(built)
    BY <2>1, <2>2, <2>5
  <2> QED
    BY <2>1, <2>2, <2>6
<1> QED
  BY <1>1, PacketInvAlways, PTL
====
