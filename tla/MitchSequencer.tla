---- MODULE MitchSequencer ----
(***************************************************************************)
(* The MITCH sequencer of crates/amd-feed/src/mitch/sequencer.rs: sequence *)
(* tracking, A/B arbitration and the escalation of gaps, for one market    *)
(* data group.  One action per outcome of Sequencer::observe, and one for  *)
(* each of quarantine, release and resync.  Sequence numbers keep the      *)
(* wrapping arithmetic of their u32, with SeqMod standing for 2^32.        *)
(*                                                                         *)
(* Spec is the sequencer by itself, handed any packet whatever.  MitchFeed *)
(* puts it behind two multicast lines and in front of a recovery handler.  *)
(***************************************************************************)
EXTENDS Integers, FiniteSets

CONSTANTS
  SeqMod,         \* sequence numbers are 0 .. SeqMod - 1
  ReplayWindow,   \* REPLAY_WINDOW, the rolling window of the Replay channel
  InitialBudget,  \* replay requests granted to Sequencer::new
  Instrument,     \* instrument identifiers
  MaxCount,       \* most messages in a packet (u8 in the code)
  MaxObserved,    \* bound on packets classified, for model checking
  None            \* the absent value of an Option

ASSUME SeqModAssumption == SeqMod \in Nat \ {0}
ASSUME ReplayWindowAssumption == ReplayWindow \in Nat
ASSUME InitialBudgetAssumption == InitialBudget \in Nat
ASSUME MaxCountAssumption == MaxCount \in 0 .. SeqMod - 1
ASSUME MaxObservedAssumption == MaxObserved \in Nat
ASSUME NoneAssumption == None \notin Int

VARIABLES
  expected,      \* sequence the next packet should carry, None before the first
  lineHigh,      \* highest sequence each line delivered, None when unmarked
  quarantined,   \* instruments whose book is not to be published
  replayBudget,  \* replay requests still allowed
  stats          \* the counters of Stats

seqVars == <<expected, lineHigh, quarantined, replayBudget, stats>>

Line == {"A", "B"}
SeqNo == 0 .. SeqMod - 1
Counter == {"applied", "duplicates", "gaps", "restarts",
            "replay_requests", "snapshot_requests"}

TypeOK ==
  /\ expected \in SeqNo \union {None}
  /\ lineHigh \in [Line -> SeqNo \union {None}]
  /\ quarantined \subseteq Instrument
  /\ replayBudget \in 0 .. InitialBudget
  /\ stats \in [Counter -> Nat]

SeqInit ==
  /\ expected = None
  /\ lineHigh = [l \in Line |-> None]
  /\ quarantined = {}
  /\ replayBudget = InitialBudget
  /\ stats = [c \in Counter |-> 0]

----
(* Header arithmetic. *)

NextExpected(seq, n) == (seq + n) % SeqMod
LastSeq(seq, n) == (seq + n - 1) % SeqMod

\* Mutant: judged against what both lines delivered, not the line itself.
BehindExpected(seq, l) == expected # None /\ seq < expected

\* The line delivers a sequence it has already delivered.
WentBackwards(seq, l) == lineHigh[l] # None /\ seq <= lineHigh[l]

\* Mutant: the window is checked and the budget is not.
CanReplayUnbudgeted(seq) == seq - expected <= ReplayWindow

\* Few enough messages are missing for the Replay channel, and budget remains.
CanReplay(seq) == seq - expected <= ReplayWindow /\ replayBudget > 0

\* Mutant: the end of the range is taken to be exclusive.
ReplayRangeShort(seq) == [from |-> expected, to |-> seq - 2]

\* The messages RequestReplay asks for.
ReplayRange(seq) == [from |-> expected, to |-> seq - 1]

\* The packet goes past the restart check, which is the first of observe.
Forward(seq, n, l) ==
  /\ n > 0
  /\ ~WentBackwards(seq, l)
  /\ lineHigh' = [lineHigh EXCEPT ![l] = LastSeq(seq, n)]

Tally(counters) ==
  stats' = [c \in Counter |-> IF c \in counters THEN stats[c] + 1 ELSE stats[c]]

----
(* The outcomes of observe(seq, n, l), in the order the code tests them. *)

Heartbeat(seq, n, l) ==
  /\ n = 0
  /\ UNCHANGED seqVars

\* Mutant: a restart grants the replay requests anew.
RestartRefills(seq, n, l) ==
  /\ n > 0
  /\ WentBackwards(seq, l)
  /\ Tally({"restarts"})
  /\ expected' = NextExpected(seq, n)
  /\ lineHigh' = [k \in Line |-> IF k = l THEN LastSeq(seq, n) ELSE None]
  /\ quarantined' = {}
  /\ replayBudget' = InitialBudget

ExchangeRestart(seq, n, l) ==
  /\ n > 0
  /\ WentBackwards(seq, l)
  /\ Tally({"restarts"})
  /\ expected' = NextExpected(seq, n)
  /\ lineHigh' = [k \in Line |-> IF k = l THEN LastSeq(seq, n) ELSE None]
  /\ quarantined' = {}
  /\ UNCHANGED replayBudget

FirstPacket(seq, n, l) ==
  /\ Forward(seq, n, l)
  /\ expected = None
  /\ expected' = NextExpected(seq, n)
  /\ Tally({"applied"})
  /\ UNCHANGED <<quarantined, replayBudget>>

\* Mutant: what is behind the expected sequence is applied as well.
InOrderOrBehind(seq, n, l) ==
  /\ Forward(seq, n, l)
  /\ expected # None
  /\ seq <= expected
  /\ expected' = NextExpected(seq, n)
  /\ Tally({"applied"})
  /\ UNCHANGED <<quarantined, replayBudget>>

\* Mutant: a packet that is applied vouches for every book.
InOrderClears(seq, n, l) ==
  /\ Forward(seq, n, l)
  /\ expected # None
  /\ seq = expected
  /\ expected' = NextExpected(seq, n)
  /\ Tally({"applied"})
  /\ quarantined' = {}
  /\ UNCHANGED replayBudget

\* Mutant: what is ahead of the expected sequence is applied as well.
InOrderOrAhead(seq, n, l) ==
  /\ Forward(seq, n, l)
  /\ expected # None
  /\ seq >= expected
  /\ expected' = NextExpected(seq, n)
  /\ Tally({"applied"})
  /\ UNCHANGED <<quarantined, replayBudget>>

InOrder(seq, n, l) ==
  /\ Forward(seq, n, l)
  /\ expected # None
  /\ seq = expected
  /\ expected' = NextExpected(seq, n)
  /\ Tally({"applied"})
  /\ UNCHANGED <<quarantined, replayBudget>>

Duplicate(seq, n, l) ==
  /\ Forward(seq, n, l)
  /\ expected # None
  /\ seq < expected
  /\ Tally({"duplicates"})
  /\ UNCHANGED <<expected, quarantined, replayBudget>>

\* Mutant: the position advances when the replay is requested.
ReplayAdvances(seq, n, l) ==
  /\ Forward(seq, n, l)
  /\ expected # None
  /\ seq > expected
  /\ CanReplay(seq)
  /\ replayBudget' = replayBudget - 1
  /\ expected' = NextExpected(seq, n)
  /\ Tally({"gaps", "replay_requests"})
  /\ UNCHANGED quarantined

\* The position is kept: it advances when the replayed messages arrive.
RequestReplay(seq, n, l) ==
  /\ Forward(seq, n, l)
  /\ expected # None
  /\ seq > expected
  /\ CanReplay(seq)
  /\ replayBudget' = replayBudget - 1
  /\ Tally({"gaps", "replay_requests"})
  /\ UNCHANGED <<expected, quarantined>>

\* Mutant: an exhausted replay falls through without a snapshot.
GapDropped(seq, n, l) ==
  /\ Forward(seq, n, l)
  /\ expected # None
  /\ seq > expected
  /\ ~CanReplay(seq)
  /\ expected' = NextExpected(seq, n)
  /\ Tally({"gaps"})
  /\ UNCHANGED <<quarantined, replayBudget>>

\* A snapshot resynchronises wholesale, so the new position is accepted.
RequestSnapshot(seq, n, l) ==
  /\ Forward(seq, n, l)
  /\ expected # None
  /\ seq > expected
  /\ ~CanReplay(seq)
  /\ expected' = NextExpected(seq, n)
  /\ Tally({"gaps", "snapshot_requests"})
  /\ UNCHANGED <<quarantined, replayBudget>>

Observe(seq, n, l) ==
  \/ Heartbeat(seq, n, l)
  \/ ExchangeRestart(seq, n, l)
  \/ FirstPacket(seq, n, l)
  \/ InOrder(seq, n, l)
  \/ Duplicate(seq, n, l)
  \/ RequestReplay(seq, n, l)
  \/ RequestSnapshot(seq, n, l)

----
(* The handler's calls. *)

Quarantine(i) ==
  /\ quarantined' = quarantined \union {i}
  /\ UNCHANGED <<expected, lineHigh, replayBudget, stats>>

Release(i) ==
  /\ quarantined' = quarantined \ {i}
  /\ UNCHANGED <<expected, lineHigh, replayBudget, stats>>

Resync(next) ==
  /\ expected' = next
  /\ lineHigh' = [l \in Line |-> None]
  /\ UNCHANGED <<quarantined, replayBudget, stats>>

----
(* The sequencer by itself. *)

Observed == stats.applied + stats.duplicates + stats.gaps + stats.restarts

SeqNext ==
  \/ /\ Observed < MaxObserved
     /\ \E seq \in SeqNo, n \in 0 .. MaxCount, l \in Line : Observe(seq, n, l)
  \/ \E i \in Instrument : Quarantine(i) \/ Release(i)
  \/ \E next \in SeqNo : Resync(next)

SeqSpec == SeqInit /\ [][SeqNext]_seqVars

----
(* Properties. *)

\* The replay quota is governed locally: every request made came out of the
\* budget, so that no sequence of gaps, restarts and resyncs asks for more
\* replays than were granted ("budget must not be exceeded").
BudgetConserved == replayBudget + stats.replay_requests = InitialBudget

\* Every gap is escalated exactly once, to the Replay channel or to a
\* snapshot: no branch of observe counts a gap and asks for nothing, and no
\* recovery is requested without a gap.
GapsEscalateOnce == stats.gaps = stats.replay_requests + stats.snapshot_requests

\* Arbitration never re-opens a position: whatever the two lines deliver and
\* in whatever order, only a restart or the handler's resync moves the
\* expected sequence back, so no message is applied a second time.  (A packet
\* that ends past the top of the sequence space moves it to the bottom.)
ArbitrationNeverRewinds ==
  [][stats' # stats /\ stats'.restarts = stats.restarts /\ expected # None
       => expected' >= expected \/ expected' < MaxCount]_seqVars
====
