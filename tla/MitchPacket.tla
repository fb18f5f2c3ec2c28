---- MODULE MitchPacket ----
(***************************************************************************)
(* One MITCH packet: put together by PacketBuilder (build.rs) or sent by   *)
(* anybody, cut or extended on its way, and walked by Packet (packet.rs).  *)
(* A datagram is its size in bytes, the header's fields and the messages   *)
(* at the payload offsets where they are known to start; what is at any    *)
(* other offset is chosen when the walk reads it, once, as the walk never  *)
(* goes back.                                                              *)
(***************************************************************************)
EXTENDS MitchMessage

CONSTANTS
  SequenceMod, \* sequence numbers are 0 .. SequenceMod - 1 (2^32)
  CountMod,    \* message counts are 0 .. CountMod - 1 (2^8)
  LengthMod,   \* unit lengths are 0 .. LengthMod - 1 (2^16)
  Frame,       \* messages anybody may send: records of len, type and valid
  Foreign,     \* headers anybody may send: records of size, length, count, sequence
  BuiltType,   \* types that are built
  MaxBuilt,    \* bound: messages in a built packet
  Damage,      \* bytes a datagram may gain, or lose, on its way
  None         \* the absent value of an Option

ASSUME ModAssumption == {SequenceMod, CountMod, LengthMod} \subseteq Nat \ {0}
ASSUME FrameAssumption ==
  \A f \in Frame : f.len \in Nat /\ f.valid \in BOOLEAN /\ f.type \in STRING
ASSUME ForeignAssumption ==
  \A h \in Foreign : /\ h.size \in Nat /\ h.length \in 0 .. LengthMod - 1
                     /\ h.count \in 0 .. CountMod - 1 /\ h.sequence \in 0 .. SequenceMod - 1
ASSUME DamageAssumption == Damage \subseteq Int
ASSUME BuiltAssumption == BuiltType \subseteq DOMAIN Written /\ MaxBuilt \in Nat

VARIABLES
  built,     \* the messages pushed to the builder
  count,     \* the builder's count
  unit,      \* the datagram being walked, or None
  offset,    \* where the next message starts in the payload
  emitted,   \* messages yielded so far
  next,      \* sequence the next message gets
  failed,    \* whether a message has been refused
  yielded    \* what the walk yielded: sequence and type of each message

walkVars == <<offset, emitted, next, failed, yielded>>
packetVars == <<built, count, unit, offset, emitted, next, failed, yielded>>

UNIT_HEADER_LEN == 8

PacketInit ==
  /\ built = <<>>
  /\ count = 0
  /\ unit = None
  /\ offset = 0
  /\ emitted = 0
  /\ next = 0
  /\ failed = FALSE
  /\ yielded = <<>>

----
(* PacketBuilder. *)

\* Where the n-th message of a built payload starts, counted from 1.
StartOf(types, n) == FoldLeft(LAMBDA at, t : at + BuiltLen(t), 0, SubSeq(types, 1, n - 1))

\* The count is a u8; past its top a release build wraps and a debug build
\* panics, and the builder with it.
Push(t) ==
  /\ unit = None
  /\ Len(built) < MaxBuilt
  /\ \/ built' = Append(built, t) /\ count' = (count + 1) % CountMod
     \/ count + 1 = CountMod /\ built' = <<>> /\ count' = 0
  /\ UNCHANGED <<unit, walkVars>>

\* finish: the length is the payload's, cut to a u16.
Finished(sequence) ==
  LET payload == StartOf(built, Len(built) + 1)
      messages == {n \in 1 .. Len(built) : TRUE}
  IN  [size |-> UNIT_HEADER_LEN + payload,
       length |-> (UNIT_HEADER_LEN + payload) % LengthMod,
       count |-> count,
       sequence |-> sequence,
       starts |-> [at \in {StartOf(built, n) : n \in messages} |->
                     LET n == CHOOSE n \in messages : StartOf(built, n) = at
                     IN  [len |-> BuiltLen(built[n]), type |-> built[n], valid |-> TRUE]]]

\* PacketBuilder::heartbeat.
HeartbeatUnit(sequence) ==
  [size |-> UNIT_HEADER_LEN, length |-> UNIT_HEADER_LEN, count |-> 0,
   sequence |-> sequence, starts |-> <<>>]

Received(d, change) == [d EXCEPT !.size = @ + change]

----
(* Packet. *)

\* UnitHeader::decode accepts the datagram.
Decodes(d) == d.size >= UNIT_HEADER_LEN /\ UNIT_HEADER_LEN <= d.length /\ d.length <= d.size

Payload == unit.length - UNIT_HEADER_LEN
Unsequenced == unit.sequence = 0
NextExpectedOf(d) == (d.sequence + d.count) % SequenceMod

\* Packet::parse of a datagram that its header lets through.
Parse(d) ==
  /\ unit = None
  /\ Decodes(d)
  /\ unit' = d
  /\ offset' = 0
  /\ emitted' = 0
  /\ next' = d.sequence
  /\ failed' = FALSE
  /\ yielded' = <<>>
  /\ UNCHANGED <<built, count>>

\* What may be read at the offset.
Seen == IF offset \in DOMAIN unit.starts THEN {unit.starts[offset]} ELSE Frame

\* Mutant: the walk advances by what the type needs, not by what it declares.
YieldNeeded(f) ==
  /\ unit # None /\ ~failed /\ offset < Payload
  /\ Readable(f, Payload - offset)
  /\ offset' = offset + (IF f.type \in Decoded THEN MinLen[f.type] ELSE f.len)
  /\ emitted' = emitted + 1
  /\ yielded' = Append(yielded, [sequence |-> IF Unsequenced THEN 0 ELSE next, type |-> f.type])
  /\ next' = IF Unsequenced THEN next ELSE (next + 1) % SequenceMod
  /\ UNCHANGED <<built, count, unit, failed>>

\* Iterator::next, of a message.
Yield(f) ==
  /\ unit # None /\ ~failed /\ offset < Payload
  /\ Readable(f, Payload - offset)
  /\ offset' = offset + f.len
  /\ emitted' = emitted + 1
  /\ yielded' = Append(yielded, [sequence |-> IF Unsequenced THEN 0 ELSE next, type |-> f.type])
  /\ next' = IF Unsequenced THEN next ELSE (next + 1) % SequenceMod
  /\ UNCHANGED <<built, count, unit, failed>>

\* Iterator::next, of something that cannot be decoded: the walk is over.
Refuse(f) ==
  /\ unit # None /\ ~failed /\ offset < Payload
  /\ ~Readable(f, Payload - offset)
  /\ failed' = TRUE
  /\ UNCHANGED <<built, count, unit, offset, emitted, next, yielded>>

\* Iterator::next yields nothing more.
Over == failed \/ offset >= Payload

\* Packet::verify_count.
CountVerified == emitted = unit.count

\* The reader is done with the packet.
Discard ==
  /\ unit # None
  /\ Over
  /\ built' = <<>>
  /\ count' = 0
  /\ unit' = None
  /\ offset' = 0
  /\ emitted' = 0
  /\ next' = 0
  /\ failed' = FALSE
  /\ yielded' = <<>>

\* A built packet is a datagram, no longer than its length field can say.
ParseBuilt(sequence, change) ==
  /\ built # <<>>
  /\ Finished(sequence).size < LengthMod
  /\ Parse(Received(Finished(sequence), change))

ParseHeartbeat(sequence) == built = <<>> /\ Parse(HeartbeatUnit(sequence))

ParseForeign(h) ==
  /\ built = <<>>
  /\ Parse([size |-> h.size, length |-> h.length, count |-> h.count,
            sequence |-> h.sequence, starts |-> <<>>])

\* The header is refused, or nothing is sent: start again.
StartOver ==
  /\ unit = None
  /\ built # <<>>
  /\ built' = <<>>
  /\ count' = 0
  /\ UNCHANGED <<unit, walkVars>>

PacketNext ==
  \/ \E t \in BuiltType : Push(t)
  \/ \E sequence \in 0 .. SequenceMod - 1, change \in Damage : ParseBuilt(sequence, change)
  \/ \E sequence \in 0 .. SequenceMod - 1 : ParseHeartbeat(sequence)
  \/ \E h \in Foreign : ParseForeign(h)
  \/ unit # None /\ \E f \in Seen : Yield(f) \/ Refuse(f)
  \/ Discard
  \/ StartOver

PacketSpec == PacketInit /\ [][PacketNext]_packetVars

----
(* Properties. *)

\* The walk stays inside the declared length and every message it yields
\* takes it at least a byte further, so it comes to an end on any bytes
\* ("would not advance the parser"); and it numbers what it yields from the
\* header's sequence without a gap, or all of it zero.
WalkStaysInside ==
  unit # None =>
    /\ emitted <= offset /\ offset <= Payload
    /\ Len(yielded) = emitted
    /\ \A i \in 1 .. emitted :
         yielded[i].sequence = IF Unsequenced THEN 0 ELSE (unit.sequence + i - 1) % SequenceMod

\* A packet that was walked without an error and whose count verifies leaves
\* the walk where the sequencer expects the next packet: the two counts, of
\* messages declared and of messages found, cannot drift apart.
VerifiedIsExpected ==
  unit # None /\ Over /\ ~failed /\ CountVerified /\ ~Unsequenced
    => next = NextExpectedOf(unit)

\* Both: what Packet::next yields is what the header promised, or is refused.
WalkIsSound == WalkStaysInside /\ VerifiedIsExpected

\* A built packet, cut, extended or neither on its way, and whatever its count
\* wrapped to: when it is accepted, its walk ends without an error and its
\* count verifies, it yielded exactly what was built (build.rs, packet.rs).
BuiltReadsBack ==
  unit # None /\ built # <<>> /\ Over /\ ~failed /\ CountVerified
    => [i \in 1 .. emitted |-> yielded[i].type] = built
====
