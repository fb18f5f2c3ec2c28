---- MODULE IngestorProofs ----
(***************************************************************************)
(* The theorems of Ingestor, for every set of instruments and prices and   *)
(* every bound.                                                            *)
(***************************************************************************)
EXTENDS Ingestor, TLAPS

USE UnarchivableAssumption, ForcePollAssumption, BoundsAssumption, NoPriceAssumption

\* The calendar always says one of the three states, and PreOpen exactly on a
\* trading day before its first window.
LEMMA CalendarStates ==
  ASSUME NEW at
  PROVE  /\ SessionStateAt(at) \in SessionState
         /\ SessionStateAt(at) = "preopen"
              => IsTradingDay(at) /\ ~InWindow(at) /\ BeforeWindows(at)
         /\ IsTradingDay(at) /\ ~InWindow(at) /\ BeforeWindows(at)
              => SessionStateAt(at) = "preopen"
BY DEF SessionStateAt, SessionState

\* A trading day begins in PreOpen.
LEMMA MidnightIsPreOpen ==
  ASSUME NEW at, IsTradingDay(at), MinuteOfDay(at) = 0
  PROVE  SessionStateAt(at) = "preopen"
<1>1. ~InWindow(at) /\ BeforeWindows(at)
  BY WindowsAssumption DEF InWindow, BeforeWindows
<1> QED BY <1>1, CalendarStates

\* Spending a bound leaves the bounds numbers.
LEMMA SpendType ==
  ASSUME IngestTypeOK, NEW bound \in {"moves", "failures", "crashes"}, Spend(bound)
  PROVE  budget' \in [{"moves", "failures", "crashes"} -> Nat]
BY DEF IngestTypeOK, Spend

\* What the steps of the world and of the loop do to the types.
LEMMA IngestStepType == IngestTypeOK /\ [Next]_vars => IngestTypeOK'
<1> SUFFICES ASSUME IngestTypeOK, [Next]_vars PROVE IngestTypeOK'
  OBVIOUS
<1> USE DEF IngestTypeOK, loopVars, sinkVars
<1>1. CASE Tick
  <2>1. clock' \in 0 .. MaxTime /\ printed' \subseteq Instrument
    BY <1>1 DEF Tick
  <2> QED BY <1>1, <2>1 DEF Tick
<1>2. ASSUME NEW i \in Instrument, NEW p \in Price \union {None}, Move(i, p)
      PROVE  IngestTypeOK'
  <2>1. board' \in Board
    BY <1>2 DEF Move, Board
  <2> QED BY <1>2, <2>1, SpendType DEF Move
<1>3. CASE Observe
  <2>1. state' \in SessionState
    BY <1>3, CalendarStates DEF Observe
  <2> QED BY <1>3, <2>1 DEF Observe, PollOrSleep
<1>4. CASE Announce
  <2>1. lastSeen' \in Board
    BY <1>4 DEF Announce, Baseline, Board, Nothing
  <2> QED BY <1>4, <2>1, SpendType DEF Announce, PollOrSleep
<1>5. CASE Fetch
  <2>1. todo' \subseteq {i \in Instrument : quotes'[i] # None}
    BY <1>5 DEF Fetch, Moved
  <2> QED BY <1>5, <2>1 DEF Fetch
<1>6. CASE FetchFails
  BY <1>6, SpendType DEF FetchFails
<1>7. ASSUME NEW i \in Instrument, PublishQuote(i)
      PROVE  IngestTypeOK'
  <2>1. lastSeen' \in Board /\ rows' \subseteq Instrument
    BY <1>7 DEF PublishQuote, Record, Board
  <2>2. /\ wire' \in Board
        /\ missed' \in [{"bus", "archive"} -> SUBSET Instrument]
        /\ budget' \in [{"moves", "failures", "crashes"} -> Nat]
    BY <1>7, SpendType DEF PublishQuote, Board
  <2>3. pc' \in {"observe", "announce", "fetch", "publish", "insert"}
    BY <1>7 DEF PublishQuote
  <2> QED BY <1>7, <2>1, <2>2, <2>3 DEF PublishQuote
<1>8. CASE InsertQuotes
  <2>1. Inserted \in Board
    BY DEF Inserted, Board
  <2>2. /\ archive' \in Board
        /\ missed' \in [{"bus", "archive"} -> SUBSET Instrument]
        /\ budget' \in [{"moves", "failures", "crashes"} -> Nat]
    BY <1>8, <2>1, SpendType DEF InsertQuotes
  <2> QED BY <1>8, <2>2 DEF InsertQuotes
<1>9. CASE Crash
  BY <1>9, SpendType DEF Crash, Board, Nothing
<1>10. CASE UNCHANGED vars
  BY <1>10 DEF vars
<1> QED BY <1>1, <1>2, <1>3, <1>4, <1>5, <1>6, <1>7, <1>8, <1>9, <1>10 DEF Next, Step

\* Type correctness, with the fact that only quotes that have a price are
\* ever queued for publishing.
THEOREM IngestTypeCorrect == Spec => []IngestTypeOK
<1>1. Init => IngestTypeOK
  BY DEF Init, IngestTypeOK, Board, Nothing, SessionState
<1> QED BY <1>1, IngestStepType, PTL DEF Spec

----

\* The inductive form of SinksFollowBaseline: in the middle of a batch the
\* rows set aside carry the baseline and stand for what the archive is about
\* to hold.
Waiting(i) == pc \in {"publish", "insert"} /\ i \in rows

Followed(i) ==
  /\ Waiting(i) => quotes[i] = lastSeen[i]
  /\ lastSeen[i] # None =>
       /\ i \in missed["bus"] \/ wire[i] = lastSeen[i]
       /\ i \in missed["archive"] \union Unarchivable \/ archive[i] = lastSeen[i] \/ Waiting(i)

SinksInv == \A i \in Instrument : Followed(i)

\* Publishing one quote keeps the baselines of all followed.
LEMMA PublishFollowed ==
  ASSUME IngestTypeOK, SinksInv, NEW i \in Instrument, PublishQuote(i)
  PROVE  SinksInv'
<1> SUFFICES ASSUME NEW k \in Instrument PROVE Followed(k)'
  BY DEF SinksInv
<1> USE DEF PublishQuote, Record, IngestTypeOK, Board
<1>1. CASE k = i
  <2>1. lastSeen'[k] = quotes'[k]
    BY <1>1
  <2>2. k \in missed'["bus"] \/ wire'[k] = lastSeen'[k]
    BY <1>1
  <2>3. k \in Unarchivable \/ (k \in rows' /\ pc' \in {"publish", "insert"})
    BY <1>1
  <2> QED BY <2>1, <2>2, <2>3 DEF Followed, Waiting
<1>2. CASE k # i
  <2>1. /\ lastSeen'[k] = lastSeen[k] /\ quotes' = quotes /\ wire'[k] = wire[k]
        /\ archive' = archive /\ missed'["archive"] = missed["archive"]
        /\ k \in missed["bus"] => k \in missed'["bus"]
    BY <1>2
  <2>2. Waiting(k)' <=> Waiting(k)
    BY <1>2, <2>1 DEF Waiting
  <2> QED BY <2>1, <2>2 DEF SinksInv, Followed
<1> QED BY <1>1, <1>2

\* Writing the batch, or failing to, settles every row that was set aside.
LEMMA InsertFollowed ==
  ASSUME IngestTypeOK, SinksInv, InsertQuotes
  PROVE  SinksInv'
<1> SUFFICES ASSUME NEW k \in Instrument PROVE Followed(k)'
  BY DEF SinksInv
<1> USE DEF InsertQuotes, Inserted, IngestTypeOK, Board
<1>1. /\ lastSeen' = lastSeen /\ quotes' = quotes /\ wire' = wire
      /\ missed'["bus"] = missed["bus"] /\ pc = "insert" /\ pc' = "observe"
  OBVIOUS
<1>2. CASE k \in rows
  <2>1. k \in missed'["archive"] \/ archive'[k] = quotes[k]
    BY <1>2
  <2>2. quotes[k] = lastSeen[k]
    BY <1>1, <1>2 DEF SinksInv, Followed, Waiting
  <2> QED BY <1>1, <2>1, <2>2 DEF SinksInv, Followed, Waiting
<1>3. CASE k \notin rows
  <2>1. archive'[k] = archive[k] /\ (k \in missed["archive"] => k \in missed'["archive"])
    BY <1>3
  <2> QED BY <1>1, <1>3, <2>1 DEF SinksInv, Followed, Waiting
<1> QED BY <1>2, <1>3

\* No step lets the sinks drift from the baselines.
LEMMA SinksStep == IngestTypeOK /\ SinksInv /\ [Next]_vars => SinksInv'
<1> SUFFICES ASSUME IngestTypeOK, SinksInv, [Next]_vars PROVE SinksInv'
  OBVIOUS
<1> USE DEF loopVars, sinkVars
<1>1. CASE Tick
  BY <1>1 DEF Tick, SinksInv, Followed, Waiting
<1>2. ASSUME NEW i \in Instrument, NEW p \in Price \union {None}, Move(i, p)
      PROVE  SinksInv'
  BY <1>2 DEF Move, SinksInv, Followed, Waiting
<1>3. CASE Observe
  BY <1>3 DEF Observe, PollOrSleep, SinksInv, Followed, Waiting
<1>4. CASE Announce
  <2>1. \A k \in Instrument : lastSeen'[k] \in {None, lastSeen[k]}
    BY <1>4 DEF Announce, Baseline, Nothing
  <2> QED BY <1>4, <2>1 DEF Announce, PollOrSleep, SinksInv, Followed, Waiting
<1>5. CASE Fetch
  BY <1>5 DEF Fetch, SinksInv, Followed, Waiting
<1>6. CASE FetchFails
  BY <1>6 DEF FetchFails, SinksInv, Followed, Waiting
<1>7. ASSUME NEW i \in Instrument, PublishQuote(i) PROVE SinksInv'
  BY <1>7, PublishFollowed
<1>8. CASE InsertQuotes
  BY <1>8, InsertFollowed
<1>9. CASE Crash
  BY <1>9 DEF Crash, Nothing, SinksInv, Followed, Waiting
<1>10. CASE UNCHANGED vars
  BY <1>10 DEF vars, SinksInv, Followed, Waiting
<1> QED BY <1>1, <1>2, <1>3, <1>4, <1>5, <1>6, <1>7, <1>8, <1>9, <1>10 DEF Next, Step

\* Between iterations the bus and the archive hold every baseline but those
\* whose write failed or was refused: no crash, skipped quote or interrupted
\* batch parts them silently.
THEOREM SinksFollow == Spec => []SinksFollowBaseline
<1>1. Init => SinksInv
  BY DEF Init, SinksInv, Followed, Waiting, Nothing
<1>2. SinksInv => SinksFollowBaseline
  BY DEF SinksInv, Followed, Waiting, SinksFollowBaseline
<1> QED BY <1>1, <1>2, SinksStep, IngestTypeCorrect, PTL DEF Spec

----

Baselines == {i \in Instrument : lastSeen[i] # None}

\* The inductive form of BaselineIsTodays: the loop polls only in a session it
\* has announced as open, and before it has announced one since the day began
\* there is no baseline.
TodaysInv ==
  /\ pc \in {"fetch", "publish", "insert"} => lastState = "open"
  /\ lastState \in {None, "preopen"} => Baselines = {}
  /\ BaselineIsTodays

\* No step carries a baseline into the next trading day.
LEMMA TodaysStep ==
  ASSUME ForcePoll = FALSE, IngestTypeOK, TodaysInv, [Next]_vars
  PROVE  TodaysInv'
<1> USE DEF loopVars, sinkVars, TodaysInv, BaselineIsTodays, Baselines
<1>1. CASE Tick
  <2>1. printed' = printed \/ SessionStateAt(clock') = "preopen"
    BY <1>1, MidnightIsPreOpen DEF Tick
  <2>2. CASE SessionStateAt(clock) = "preopen" /\ SessionStateAt(clock') # "preopen"
    BY <1>1, <2>1, <2>2 DEF Tick
  <2>3. CASE SessionStateAt(clock) # "preopen" \/ SessionStateAt(clock') = "preopen"
    BY <1>1, <2>1, <2>3 DEF Tick
  <2> QED BY <2>2, <2>3
<1>2. ASSUME NEW i \in Instrument, NEW p \in Price \union {None}, Move(i, p)
      PROVE  TodaysInv'
  BY <1>2 DEF Move
<1>3. CASE Observe
  <2>1. SessionStateAt(clock) \in SessionState
    BY CalendarStates
  <2> QED BY <1>3, <2>1 DEF Observe, PollOrSleep, IngestTypeOK, SessionState
<1>4. CASE Announce
  <2>1. CASE state = "preopen"
    BY <1>4, <2>1 DEF Announce, Baseline, Nothing, PollOrSleep
  <2>2. CASE state # "preopen"
    BY <1>4, <2>2 DEF Announce, Baseline, PollOrSleep, IngestTypeOK, SessionState
  <2> QED BY <2>1, <2>2
<1>5. CASE Fetch
  BY <1>5 DEF Fetch
<1>6. CASE FetchFails
  BY <1>6 DEF FetchFails
<1>7. ASSUME NEW i \in Instrument, PublishQuote(i) PROVE TodaysInv'
  <2>1. Baselines' \subseteq Baselines \union {i}
    BY <1>7 DEF PublishQuote, Record, IngestTypeOK, Board
  <2> QED BY <1>7, <2>1 DEF PublishQuote, SessionState
<1>8. CASE InsertQuotes
  BY <1>8 DEF InsertQuotes
<1>9. CASE Crash
  BY <1>9 DEF Crash, Nothing
<1>10. CASE UNCHANGED vars
  BY <1>10 DEF vars
<1> QED BY <1>1, <1>2, <1>3, <1>4, <1>5, <1>6, <1>7, <1>8, <1>9, <1>10 DEF Next, Step

\* Unless polling is forced, no price is ever suppressed against a baseline of
\* an earlier trading day, however the loop is delayed within the day and
\* wherever it dies.
THEOREM BaselinesAreTodays == (ForcePoll = FALSE) => (Spec => []BaselineIsTodays)
<1> SUFFICES ASSUME ForcePoll = FALSE PROVE Spec => []BaselineIsTodays
  OBVIOUS
<1>1. Init => TodaysInv
  BY DEF Init, TodaysInv, Baselines, BaselineIsTodays, Nothing
<1>2. IngestTypeOK /\ TodaysInv /\ [Next]_vars => TodaysInv'
  BY TodaysStep
<1>3. TodaysInv => BaselineIsTodays
  BY DEF TodaysInv
<1> QED BY <1>1, <1>2, <1>3, IngestTypeCorrect, PTL DEF Spec

----

\* A loop that has seen prices has announced a state, and while it announces
\* PreOpen it still is.
Announcing ==
  /\ pc \in {"fetch", "publish", "insert"} => lastState # None
  /\ lastState = None => Baselines = {}
  /\ pc = "announce" => lastState # state
  /\ pc = "announce" /\ state = "preopen" /\ lastState # None
       => SessionStateAt(clock) = "preopen"

\* The clock does not leave PreOpen behind the back of a loop that polls.
LEMMA AnnouncingStep == IngestTypeOK /\ Announcing /\ [Next]_vars => Announcing'
<1> SUFFICES ASSUME IngestTypeOK, Announcing, [Next]_vars PROVE Announcing'
  OBVIOUS
<1> USE DEF loopVars, sinkVars, Announcing, Baselines
<1>1. CASE Tick
  BY <1>1 DEF Tick
<1>2. ASSUME NEW i \in Instrument, NEW p \in Price \union {None}, Move(i, p)
      PROVE  Announcing'
  BY <1>2 DEF Move
<1>3. CASE Observe
  <2>1. SessionStateAt(clock) # None
    BY CalendarStates
  <2> QED BY <1>3, <2>1 DEF Observe, PollOrSleep
<1>4. CASE Announce
  BY <1>4 DEF Announce, PollOrSleep, IngestTypeOK
<1>5. CASE Fetch
  BY <1>5 DEF Fetch
<1>6. CASE FetchFails
  BY <1>6 DEF FetchFails
<1>7. ASSUME NEW i \in Instrument, PublishQuote(i) PROVE Announcing'
  BY <1>7 DEF PublishQuote
<1>8. CASE InsertQuotes
  BY <1>8 DEF InsertQuotes
<1>9. CASE Crash
  BY <1>9 DEF Crash, Nothing
<1>10. CASE UNCHANGED vars
  BY <1>10 DEF vars
<1> QED BY <1>1, <1>2, <1>3, <1>4, <1>5, <1>6, <1>7, <1>8, <1>9, <1>10 DEF Next, Step

\* Whatever windows a venue trades in, and polling forced or not, a price once
\* seen is forgotten only by a crash or before the day's first window.
THEOREM ForgettingIsOvernight == Spec => ForgetsOnlyOvernight
<1>1. Init => Announcing
  BY DEF Init, Announcing, Baselines, Nothing
<1>2. ASSUME IngestTypeOK, Announcing, [Next]_vars,
             NEW i \in Instrument, lastSeen[i] # None, lastSeen'[i] = None
      PROVE  \/ budget'.crashes < budget.crashes
             \/ IsTradingDay(clock) /\ \A w \in Windows : MinuteOfDay(clock) < w.open
  <2> USE DEF loopVars, sinkVars
  <2>1. CASE Announce
    <3>1. state = "preopen" /\ lastState # None /\ pc = "announce"
      BY <1>2, <2>1 DEF Announce, Baseline, Announcing, Baselines
    <3> QED BY <1>2, <3>1, CalendarStates DEF Announcing, BeforeWindows
  <2>2. CASE Crash
    BY <1>2, <2>2 DEF Crash, Spend, IngestTypeOK
  <2>3. ASSUME NEW k \in Instrument, PublishQuote(k) PROVE FALSE
    <3>1. quotes[k] # None
      BY <1>2, <2>3 DEF PublishQuote, IngestTypeOK
    <3> QED BY <1>2, <2>3, <3>1 DEF PublishQuote, Record, IngestTypeOK, Board
  <2>4. lastSeen' # lastSeen
    BY <1>2
  <2> QED
    BY <1>2, <2>1, <2>2, <2>3, <2>4
    DEF Next, Step, Tick, Move, Observe, Fetch, FetchFails, InsertQuotes, vars
<1>3. IngestTypeOK /\ Announcing /\ [Next]_vars
        => \A i \in Instrument : lastSeen[i] # None /\ lastSeen'[i] = None
             => \/ budget'.crashes < budget.crashes
                \/ IsTradingDay(clock) /\ \A w \in Windows : MinuteOfDay(clock) < w.open
  BY <1>2
<1> QED
  BY <1>1, <1>3, AnnouncingStep, IngestTypeCorrect, PTL DEF Spec, ForgetsOnlyOvernight
====
