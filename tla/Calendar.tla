---- MODULE Calendar ----
(***************************************************************************)
(* The trading calendar of one venue, crates/amd-calendar/src/lib.rs: what *)
(* session_state says of an instant.  Instants are minutes, and minute 0   *)
(* is a midnight between a Sunday and a Monday at UTC.  Time zones come    *)
(* from a library; the venue's is an offset from UTC, as it is between     *)
(* two changes of the clock.                                               *)
(***************************************************************************)
EXTENDS Integers

CONSTANTS
  MinutesPerDay,  \* 1440
  Offset,         \* the venue's local time is UTC plus this
  TradingDays,    \* trading weekdays, Monday is 0
  Windows         \* Venue::sessions, each from open up to but not at close

ASSUME MinutesPerDayAssumption == MinutesPerDay \in Nat \ {0}
ASSUME OffsetAssumption == Offset \in Nat
ASSUME TradingDaysAssumption == TradingDays \subseteq 0 .. 6
ASSUME WindowsAssumption ==
  \A w \in Windows : w.open \in Nat /\ w.close \in Nat /\ 0 < w.open /\ w.open < w.close

SessionState == {"preopen", "open", "closed"}

\* The wall clock of the venue.
Local(at) == at + Offset
MinuteOfDay(at) == Local(at) % MinutesPerDay
Weekday(at) == (Local(at) \div MinutesPerDay) % 7

IsTradingDay(at) == Weekday(at) \in TradingDays

InWindow(at) ==
  \E w \in Windows : w.open <= MinuteOfDay(at) /\ MinuteOfDay(at) < w.close

\* Mutant: a window still to come is enough, as between two windows.
BeforeSomeWindow(at) == \E w \in Windows : MinuteOfDay(at) < w.open

\* Before the earliest window opens.
BeforeWindows(at) == \A w \in Windows : MinuteOfDay(at) < w.open

SessionStateAt(at) ==
  CASE ~IsTradingDay(at)                                          -> "closed"
    [] IsTradingDay(at) /\ InWindow(at)                           -> "open"
    [] IsTradingDay(at) /\ ~InWindow(at) /\ BeforeWindows(at)     -> "preopen"
    [] IsTradingDay(at) /\ ~InWindow(at) /\ ~BeforeWindows(at)    -> "closed"
====
