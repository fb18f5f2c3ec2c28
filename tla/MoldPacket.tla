---- MODULE MoldPacket ----
(***************************************************************************)
(* One MoldUDP64 packet: the walk of Packet (moldudp64/packet.rs) over its *)
(* message blocks, of a packet as the exchange sends it or of any bytes.   *)
(* The header is its fields; the blocks are known by the offsets at which  *)
(* they start in the payload, and what any other offset holds is chosen    *)
(* when the walk reads it, once, as the walk never goes back.              *)
(***************************************************************************)
EXTENDS Integers, Sequences, SequencesExt

CONSTANTS
  EndCount,    \* END_OF_SESSION, the message count that is a sentinel (2^16 - 1)
  BlockLen,    \* lengths anybody may prefix a block with
  Payloads,    \* payload lengths anybody may send
  Sequences64, \* sequence numbers in headers
  MaxBlocks,   \* bound: blocks in a packet of the exchange
  Change,      \* bytes a datagram may gain, or lose, on its way
  NoPacket     \* no packet is being walked

ASSUME EndCountAssumption == EndCount \in Nat \ {0} /\ MaxBlocks \in 0 .. EndCount - 1
ASSUME BytesAssumption == BlockLen \subseteq Nat /\ Payloads \subseteq Nat /\ Sequences64 \subseteq Nat
ASSUME ChangeAssumption == Change \subseteq Int

VARIABLES
  packet,        \* the packet being walked, or NoPacket
  position,      \* where the next block starts in the payload
  blocksRead,    \* blocks yielded so far
  nextSequence,  \* sequence the next block gets
  stopped        \* whether a block has been refused

blockVars == <<position, blocksRead, nextSequence, stopped>>
moldVars == <<packet, position, blocksRead, nextSequence, stopped>>

MoldInit ==
  /\ packet = NoPacket
  /\ position = 0
  /\ blocksRead = 0
  /\ nextSequence = 0
  /\ stopped = FALSE

\* A block is its length, in two bytes, and its body.
Prefix == 2

----
(* DownstreamHeader. *)

\* blocks: how many follow the header.
Blocks(p) == IF p.count = EndCount THEN 0 ELSE p.count

\* next_expected: heartbeats and the sentinel carry nothing.
NextOf(p) == IF p.count \in {0, EndCount} THEN p.sequence ELSE p.sequence + p.count

----
(* What arrives. *)

\* Where the n-th block starts, counted from 1.
BlockAt(lens, n) == FoldLeft(LAMBDA at, len : at + Prefix + len, 0, SubSeq(lens, 1, n - 1))

\* Packet::parse of a header whose session is printable and complete.
Accept(p) ==
  /\ packet = NoPacket
  /\ packet' = p
  /\ position' = 0
  /\ blocksRead' = 0
  /\ nextSequence' = p.sequence
  /\ stopped' = FALSE

\* The exchange sends blocks of these lengths; no block of its is empty.
ReceiveSent(lens, sequence, change) ==
  LET size == BlockAt(lens, Len(lens) + 1)
      blocks == 1 .. Len(lens)
  IN  /\ size + change >= 0
      /\ Accept([sequence |-> sequence, count |-> Len(lens), size |-> size + change,
                 starts |-> [at \in {BlockAt(lens, n) : n \in blocks} |->
                              lens[CHOOSE n \in blocks : BlockAt(lens, n) = at]],
                 whole |-> change = 0])

ReceiveAny(count, size, sequence) ==
  Accept([sequence |-> sequence, count |-> count, size |-> size, starts |-> <<>>,
          whole |-> TRUE])

----
(* Packet. *)

\* The lengths that may be read at the position.
SeenLen == IF position \in DOMAIN packet.starts THEN {packet.starts[position]} ELSE BlockLen

Going == packet # NoPacket /\ ~stopped /\ blocksRead < Blocks(packet)

\* The length can be read, is not zero, and its body is in the payload.
BlockFits(len) == len # 0 /\ position + Prefix + len <= packet.size

\* Iterator::next, of a block.
YieldBlock(len) ==
  /\ Going
  /\ BlockFits(len)
  /\ position' = position + Prefix + len
  /\ blocksRead' = blocksRead + 1
  /\ nextSequence' = nextSequence + 1
  /\ UNCHANGED <<packet, stopped>>

\* Iterator::next, of a length or a body that is not there, or of length zero.
RefuseBlock(len) ==
  /\ Going
  /\ ~BlockFits(len)
  /\ stopped' = TRUE
  /\ UNCHANGED <<packet, position, blocksRead, nextSequence>>

\* Mutant: the bytes after the last block are not looked at.
FinishCounts == blocksRead = Blocks(packet)

\* Packet::finish returns no error.
Finish == blocksRead = Blocks(packet) /\ position >= packet.size

DiscardPacket ==
  /\ packet # NoPacket
  /\ ~Going
  /\ packet' = NoPacket
  /\ position' = 0
  /\ blocksRead' = 0
  /\ nextSequence' = 0
  /\ stopped' = FALSE

MoldNext ==
  \/ \E sequence \in Sequences64, change \in Change, n \in 0 .. MaxBlocks :
       \E lens \in [1 .. n -> BlockLen \ {0}] : ReceiveSent(lens, sequence, change)
  \/ \E count \in 0 .. MaxBlocks \union {EndCount}, size \in Payloads, sequence \in Sequences64 :
       ReceiveAny(count, size, sequence)
  \/ packet # NoPacket /\ \E len \in SeenLen : YieldBlock(len) \/ RefuseBlock(len)
  \/ DiscardPacket

MoldPacketSpec == MoldInit /\ [][MoldNext]_moldVars

----
(* Properties. *)

\* The walk stays inside the payload, every block takes it at least three
\* bytes further ("would leave the offset where it is and spin here forever"),
\* and it never numbers a block the header does not declare: not those after a
\* heartbeat or the end of the session, whose count is no count.
BlocksAreDeclared ==
  packet # NoPacket =>
    /\ 3 * blocksRead <= position /\ position <= packet.size
    /\ blocksRead <= Blocks(packet)
    /\ nextSequence = packet.sequence + blocksRead
    /\ nextSequence <= NextOf(packet)

\* finish is satisfied only by a packet read to its last byte that leaves the
\* walk at the sequence the header promises, and by no packet that lost or
\* gained bytes on its way.
FinishedIsWhole ==
  packet # NoPacket /\ Finish =>
    /\ ~stopped
    /\ position = packet.size
    /\ nextSequence = NextOf(packet)
    /\ packet.whole

\* Both, of Packet::next and Packet::finish together.
BlocksAreSound == BlocksAreDeclared /\ FinishedIsWhole
====
