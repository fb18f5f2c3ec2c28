---- MODULE Ingestor ----
(***************************************************************************)
(* The ingestor's loop for one venue, run_venue and poll_once of           *)
(* crates/amd-ingestor/src/main.rs, between a source it polls and the two  *)
(* sinks it feeds: the bus and the archive.  The loop keeps in memory what *)
(* it last saw of each instrument, and forgets it when the process dies.   *)
(* A step of the loop runs from one await to the next; the clock, the      *)
(* source and the sinks move in between.                                   *)
(*                                                                         *)
(* Venues share no state and fail independently, so one is modelled, with  *)
(* both sinks configured.                                                  *)
(***************************************************************************)
EXTENDS Calendar, FiniteSets

CONSTANTS
  Instrument,    \* the instruments of the venue
  Price,         \* prices, equal when cmp_value says so
  Unarchivable,  \* the instruments whose quotes QuoteRow::from_quote refuses
  ForcePoll,     \* AMD_FORCE_POLL: poll outside the sessions too
  MaxTime,       \* bound: the minute at which time ends
  MaxMoves,      \* bound: changes of the source's board
  MaxFailures,   \* bound: writes to a sink that fail
  MaxCrashes,    \* bound: restarts of the process
  None           \* the absent value of an Option

ASSUME UnarchivableAssumption == Unarchivable \subseteq Instrument
ASSUME ForcePollAssumption == ForcePoll \in BOOLEAN
ASSUME BoundsAssumption ==
  MaxTime \in Nat /\ MaxMoves \in Nat /\ MaxFailures \in Nat /\ MaxCrashes \in Nat
ASSUME NoPriceAssumption == None \notin Price /\ None \notin SessionState

VARIABLES
  clock,      \* the time, in minutes
  board,      \* the source: the last price of each instrument, or None
  pc,         \* where the loop is
  state,      \* the session state this iteration read
  lastState,  \* the session state last announced, or None
  lastSeen,   \* the baseline: last price seen of each instrument, or None
  quotes,     \* the board this iteration fetched
  todo,       \* the instruments of it still to be published
  rows,       \* the instruments of it to be archived
  status,     \* bus: the session state last announced there
  wire,       \* bus: the price last published of each instrument
  archive,    \* archive: the price last inserted of each instrument
  missed,     \* history: the instruments whose last write to a sink failed
  printed,    \* history: the instruments seen since the trading day began
  budget      \* what is left of the bounds

loopVars == <<pc, state, lastState, lastSeen, quotes, todo, rows>>
sinkVars == <<status, wire, archive, missed>>
vars == <<clock, board, loopVars, sinkVars, printed, budget>>

Board == [Instrument -> Price \union {None}]

IngestTypeOK ==
  /\ clock \in 0 .. MaxTime
  /\ board \in Board
  /\ pc \in {"observe", "announce", "fetch", "publish", "insert"}
  /\ state \in SessionState
  /\ lastState \in SessionState \union {None}
  /\ lastSeen \in Board
  /\ quotes \in Board
  /\ todo \subseteq {i \in Instrument : quotes[i] # None}
  /\ rows \subseteq Instrument
  /\ status \in SessionState \union {None}
  /\ wire \in Board
  /\ archive \in Board
  /\ missed \in [{"bus", "archive"} -> SUBSET Instrument]
  /\ printed \subseteq Instrument
  /\ budget \in [{"moves", "failures", "crashes"} -> Nat]

Nothing == [i \in Instrument |-> None]

Init ==
  /\ clock \in 0 .. MaxTime
  /\ board = Nothing
  /\ pc = "observe"
  /\ state = "closed"
  /\ lastState = None
  /\ lastSeen = Nothing
  /\ quotes = Nothing
  /\ todo = {}
  /\ rows = {}
  /\ status = None
  /\ wire = Nothing
  /\ archive = Nothing
  /\ missed = [s \in {"bus", "archive"} |-> {}]
  /\ printed = {}
  /\ budget = [moves |-> MaxMoves, failures |-> MaxFailures, crashes |-> MaxCrashes]

Spend(bound) ==
  /\ budget[bound] > 0
  /\ budget' = [budget EXCEPT ![bound] = @ - 1]

----
(* The world. *)

\* A minute passes.  From midnight to the first window it is PreOpen, for
\* hours, so a running loop that waits CLOSED_INTERVAL between two looks at
\* the clock sees it.
Tick ==
  /\ clock < MaxTime
  /\ clock' = clock + 1
  /\ SessionStateAt(clock) = "preopen" /\ SessionStateAt(clock') # "preopen"
       => lastState \in {None, "preopen"}
  /\ printed' = IF IsTradingDay(clock') /\ MinuteOfDay(clock') = 0 THEN {} ELSE printed
  /\ UNCHANGED <<board, loopVars, sinkVars, budget>>

Move(i, p) ==
  /\ board[i] # p
  /\ board' = [board EXCEPT ![i] = p]
  /\ Spend("moves")
  /\ UNCHANGED <<clock, loopVars, sinkVars, printed>>

----
(* The loop. *)

\* The iteration goes on to poll, or sleeps and looks at the clock again.
PollOrSleep(s) == pc' = IF s = "open" \/ ForcePoll THEN "fetch" ELSE "observe"

\* session_state, and an await on the bus when the state is new.
Observe ==
  /\ pc = "observe"
  /\ state' = SessionStateAt(clock)
  /\ IF lastState # state' THEN pc' = "announce" ELSE PollOrSleep(state')
  /\ UNCHANGED <<clock, board, lastState, lastSeen, quotes, todo, rows, sinkVars,
                 printed, budget>>

\* Mutant: the baseline outlives the trading day.
KeepBaseline(s) == lastSeen

\* A new session starts from a clean slate.
Baseline(s) == IF s = "preopen" THEN Nothing ELSE lastSeen

\* The status is published or its failure logged; either way it is taken as
\* announced.  A publish whose acknowledgement is lost fails too.
Announce ==
  /\ pc = "announce"
  /\ \/ status' = state /\ UNCHANGED budget
     \/ Spend("failures") /\ status' \in {status, state}
  /\ lastSeen' = Baseline(state)
  /\ lastState' = state
  /\ PollOrSleep(state)
  /\ UNCHANGED <<clock, board, state, quotes, todo, rows, wire, archive, missed, printed>>

\* Mutant: an instrument seen before is taken as unchanged.
MovedAtFirst(seen, now) == {i \in Instrument : now[i] # None /\ seen[i] = None}

\* Mutant: quotes without a price are not passed over.
MovedOrGone(seen, now) == {i \in Instrument : seen[i] # now[i]}

\* The quotes that have a price, and not the one last seen.
Moved(seen, now) == {i \in Instrument : now[i] # None /\ seen[i] # now[i]}

\* The source answers with its board.
Fetch ==
  /\ pc = "fetch"
  /\ quotes' = board
  /\ todo' = Moved(lastSeen, board)
  /\ rows' = {}
  /\ pc' = IF todo' = {} THEN "observe" ELSE "publish"
  /\ UNCHANGED <<clock, board, state, lastState, lastSeen, sinkVars, printed, budget>>

FetchFails ==
  /\ pc = "fetch"
  /\ pc' = "observe"
  /\ Spend("failures")
  /\ UNCHANGED <<clock, board, state, lastState, lastSeen, quotes, todo, rows, sinkVars,
                 printed>>

\* Mutant: a quote that cannot be a row gives up the batch.
RefusalDropsRows(i) ==
  /\ lastSeen' = [lastSeen EXCEPT ![i] = quotes[i]]
  /\ rows' = IF i \in Unarchivable THEN {} ELSE rows \union {i}

\* The price becomes the baseline before it is published, and is set aside
\* for the archive if it can be a row.
Record(i) ==
  /\ lastSeen' = [lastSeen EXCEPT ![i] = quotes[i]]
  /\ rows' = rows \union ({i} \ Unarchivable)

\* An await on the bus for each quote that moved.  A publish that fails may
\* have been delivered.
PublishQuote(i) ==
  /\ pc = "publish"
  /\ i \in todo
  /\ Record(i)
  /\ todo' = todo \ {i}
  /\ printed' = printed \union {i}
  /\ \/ /\ wire' = [wire EXCEPT ![i] = quotes[i]]
        /\ missed' = [missed EXCEPT !["bus"] = @ \ {i}]
        /\ UNCHANGED budget
     \/ /\ Spend("failures")
        /\ missed' = [missed EXCEPT !["bus"] = @ \union {i}]
        /\ wire' \in {wire, [wire EXCEPT ![i] = quotes[i]]}
  /\ pc' = CASE todo' # {}               -> "publish"
             [] todo' = {} /\ rows' # {} -> "insert"
             [] todo' = {} /\ rows' = {} -> "observe"
  /\ UNCHANGED <<clock, board, state, lastState, quotes, status, archive>>

\* What the archive holds once the batch is written.
Inserted == [i \in Instrument |-> IF i \in rows THEN quotes[i] ELSE archive[i]]

\* One await on the archive for the whole batch.  An insert that fails may
\* have been written.
InsertQuotes ==
  /\ pc = "insert"
  /\ \/ /\ archive' = Inserted
        /\ missed' = [missed EXCEPT !["archive"] = @ \ rows]
        /\ UNCHANGED budget
     \/ /\ Spend("failures")
        /\ missed' = [missed EXCEPT !["archive"] = @ \union rows]
        /\ archive' \in {archive, Inserted}
  /\ pc' = "observe"
  /\ UNCHANGED <<clock, board, state, lastState, lastSeen, quotes, todo, rows, status, wire,
                 printed>>

\* The process dies at any await and starts again with an empty memory.
Crash ==
  /\ Spend("crashes")
  /\ pc' = "observe"
  /\ lastState' = None
  /\ lastSeen' = Nothing
  /\ todo' = {}
  /\ rows' = {}
  /\ UNCHANGED <<clock, board, state, quotes, sinkVars, printed>>

Step ==
  \/ Observe
  \/ Announce
  \/ Fetch
  \/ \E i \in Instrument : PublishQuote(i)
  \/ InsertQuotes

Next ==
  \/ Tick
  \/ \E i \in Instrument, p \in Price \union {None} : Move(i, p)
  \/ Step
  \/ FetchFails
  \/ Crash

Spec == Init /\ [][Next]_vars

\* Timers fire, and requests to the source and to the sinks are answered.
FairSpec == Spec /\ WF_vars(Step)

----
(* Properties. *)

\* Between two iterations the sinks hold what the loop believes it has told
\* them: only a write that failed, or a quote the archive refuses, separates
\* the baseline that suppresses a price from what consumers have of it,
\* wherever the process died in between.
SinksFollowBaseline ==
  pc = "observe" =>
    \A i \in Instrument : lastSeen[i] # None =>
      /\ i \in missed["bus"] \/ wire[i] = lastSeen[i]
      /\ i \in missed["archive"] \union Unarchivable \/ archive[i] = lastSeen[i]

\* Once the trading day has begun, whatever suppresses a price was seen that
\* day ("yesterday's closes are not a baseline for today's first prints").
\* Without ForcePoll.
BaselineIsTodays ==
  SessionStateAt(clock) # "preopen" => {i \in Instrument : lastSeen[i] # None} \subseteq printed

\* Until the next trading day begins, only a crash makes the loop forget a
\* price it has seen: a venue that trades in several windows does not have its
\* board published over again after each break.
ForgetsOnlyOvernight ==
  [][\A i \in Instrument :
       lastSeen[i] # None /\ lastSeen'[i] = None
         => \/ budget'.crashes < budget.crashes
            \/ IsTradingDay(clock) /\ \A w \in Windows : MinuteOfDay(clock) < w.open]_vars

\* The baseline is what was published: "Last published price per instrument,
\* used to suppress unchanged rows".
BaselineWasPublished ==
  pc = "observe" => \A i \in Instrument : lastSeen[i] \in {None, wire[i]}

\* A price that stays while the venue is open reaches the bus, and the
\* archive if it can be a row, whatever crashes came before: in the end only
\* a write that failed keeps it from them.
PriceIsServed ==
  \A i \in Instrument, p \in Price :
    <>[](SessionStateAt(clock) = "open" /\ board[i] = p)
      => <>[](/\ i \in missed["bus"] \/ wire[i] = p
              /\ i \in missed["archive"] \union Unarchivable \/ archive[i] = p)
====
