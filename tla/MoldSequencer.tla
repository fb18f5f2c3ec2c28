---- MODULE MoldSequencer ----
(***************************************************************************)
(* The MoldUDP64 sequencer of crates/amd-feed/src/moldudp64/sequencer.rs:  *)
(* sessions, A/B arbitration and the escalation of gaps.  One action per   *)
(* answer of Sequencer::observe, and one for recovered_to.  Sequence       *)
(* numbers are a u64 that does not wrap, and are plain naturals here.  The *)
(* per-line high-water array `seen` is left out: the code writes it and    *)
(* never reads it.                                                         *)
(***************************************************************************)
EXTENDS Integers

CONSTANTS
  Session,        \* session identifiers
  MaxRetransmit,  \* MAX_RETRANSMIT, the most one request can ask for
  MaxCount,       \* most messages in a packet
  EndOfSession,   \* END_OF_SESSION, the count that is a sentinel
  MaxPosition,    \* bound on sequence numbers, for model checking
  MaxObserved,    \* bound on packets classified, for model checking
  None            \* the absent value of an Option

ASSUME MaxRetransmitAssumption == MaxRetransmit \in Nat
ASSUME MaxCountAssumption == MaxCount \in Nat
ASSUME SentinelAssumption == EndOfSession \in Nat /\ EndOfSession > MaxCount
ASSUME MaxPositionAssumption == MaxPosition \in Nat
ASSUME NoSessionAssumption == None \notin Session

VARIABLES
  session,   \* the session being followed, or None
  expected,  \* sequence the next in-order packet should carry
  stats      \* the counters of Stats

seqVars == <<session, expected, stats>>

Counter == {"applied", "duplicates", "gaps", "session_changes",
            "retransmit_requests", "snapshot_requests"}

\* A downstream header: the session, the first sequence and the count.
Header == [session : Session, seq : 1 .. MaxPosition, count : (0 .. MaxCount) \union {EndOfSession}]

MoldTypeOK ==
  /\ session \in Session \union {None}
  /\ expected \in 0 .. MaxPosition + MaxCount
  /\ stats \in [Counter -> Nat]

SeqInit ==
  /\ session = None
  /\ expected = 0
  /\ stats = [c \in Counter |-> 0]

----
(* The header. *)

\* Mutant: the end-of-session sentinel is read as a count.
CountsSentinel(h) == h.count # 0

CarriesBlocks(h) == h.count # 0 /\ h.count # EndOfSession

NextExpected(h) == IF CarriesBlocks(h) THEN h.seq + h.count ELSE h.seq

\* Where h is judged from: the first packet of all synchronises.
Base(h) == IF session = None THEN h.seq ELSE expected

\* The messages a RequestRetransmit asks for.
RetransmitRange(h) == [from |-> Base(h), to |-> h.seq - 1]

\* The session check of observe passes, and joins on the first packet.
InSession(h) ==
  /\ session \in {None, h.session}
  /\ session' = h.session

Tally(counters) ==
  stats' = [c \in Counter |-> IF c \in counters THEN stats[c] + 1 ELSE stats[c]]

----
(* The answers of observe(h, line), in the order the code tests them. *)

\* Mutant: the position of the old session is kept.
SessionKeepsPosition(h) ==
  /\ session \notin {None, h.session}
  /\ session' = h.session
  /\ Tally({"session_changes"})
  /\ UNCHANGED expected

SessionChanged(h) ==
  /\ session \notin {None, h.session}
  /\ session' = h.session
  /\ expected' = h.seq
  /\ Tally({"session_changes"})

Ended(h) ==
  /\ InSession(h)
  /\ h.count = EndOfSession
  /\ expected' = Base(h)
  /\ UNCHANGED stats

Heartbeat(h) ==
  /\ InSession(h)
  /\ h.count = 0
  /\ expected' = Base(h)
  /\ UNCHANGED stats

\* Mutant: judged by where the packet starts, not by where it ends.
DuplicateByStart(h) ==
  /\ InSession(h)
  /\ CarriesBlocks(h)
  /\ h.seq < Base(h)
  /\ expected' = Base(h)
  /\ Tally({"duplicates"})

Duplicate(h) ==
  /\ InSession(h)
  /\ CarriesBlocks(h)
  /\ NextExpected(h) <= Base(h)
  /\ expected' = Base(h)
  /\ Tally({"duplicates"})

RequestRetransmit(h) ==
  /\ InSession(h)
  /\ CarriesBlocks(h)
  /\ NextExpected(h) > Base(h)
  /\ h.seq > Base(h)
  /\ h.seq - Base(h) <= MaxRetransmit
  /\ expected' = Base(h)
  /\ Tally({"gaps", "retransmit_requests"})

\* Mutant: a gap too wide for one request is counted and nothing asked.
GapDropped(h) ==
  /\ InSession(h)
  /\ CarriesBlocks(h)
  /\ NextExpected(h) > Base(h)
  /\ h.seq > Base(h)
  /\ h.seq - Base(h) > MaxRetransmit
  /\ expected' = Base(h)
  /\ Tally({"gaps"})

RequestSnapshot(h) ==
  /\ InSession(h)
  /\ CarriesBlocks(h)
  /\ NextExpected(h) > Base(h)
  /\ h.seq > Base(h)
  /\ h.seq - Base(h) > MaxRetransmit
  /\ expected' = Base(h)
  /\ Tally({"gaps", "snapshot_requests"})

\* Mutant: a packet is applied although messages before it are missing.
ApplyAhead(h) ==
  /\ InSession(h)
  /\ CarriesBlocks(h)
  /\ NextExpected(h) > Base(h)
  /\ expected' = NextExpected(h)
  /\ Tally({"applied"})

\* In order, or overlapping what was applied; the caller filters the overlap.
Apply(h) ==
  /\ InSession(h)
  /\ CarriesBlocks(h)
  /\ NextExpected(h) > Base(h)
  /\ h.seq <= Base(h)
  /\ expected' = NextExpected(h)
  /\ Tally({"applied"})

Observe(h) ==
  \/ SessionChanged(h)
  \/ Ended(h)
  \/ Heartbeat(h)
  \/ Duplicate(h)
  \/ RequestRetransmit(h)
  \/ RequestSnapshot(h)
  \/ Apply(h)

\* Mutant: the position is set, although a late answer may be behind it.
RecoveredExactly(seq) ==
  /\ expected' = seq
  /\ UNCHANGED <<session, stats>>

RecoveredTo(seq) ==
  /\ expected' = IF expected >= seq THEN expected ELSE seq
  /\ UNCHANGED <<session, stats>>

----
(* The sequencer by itself, handed any packet whatever. *)

Observed == stats.applied + stats.duplicates + stats.gaps + stats.session_changes

SeqNext ==
  \/ Observed < MaxObserved /\ \E h \in Header : Observe(h)
  \/ \E seq \in 1 .. MaxPosition : RecoveredTo(seq)

SeqSpec == SeqInit /\ [][SeqNext]_seqVars

----
(* Properties. *)

\* Within a session the expected sequence only moves forward, whatever the
\* lines deliver and however late a recovery reports: no message is judged
\* missing or applied after it was passed.
PositionOnlyAdvances ==
  [][session # None /\ session' = session => expected' >= expected]_seqVars

\* Every gap asks for exactly one recovery, a retransmission or a snapshot.
GapsEscalateOnce == stats.gaps = stats.retransmit_requests + stats.snapshot_requests
====
