---- MODULE Venues ----
(***************************************************************************)
(* The venues of crates/amd-calendar/src/registry.rs and of the SDK's      *)
(* exchanges.ts, and the session state each of the two derives from its    *)
(* table.  Instants are minutes of the venue's own week, Monday first;     *)
(* both sides convert to the same time zones, by a library.                *)
(***************************************************************************)
EXTENDS Integers

MinutesPerDay == 1440
At(h, m) == 60 * h + m
W(open, close) == [open |-> open, close |-> close]

Venue == {"NGX", "JSE", "NSX", "GSE", "NSE", "EGX", "BRVM", "CSE", "SEM",
          "BSE", "LUSE", "DSE", "USE", "ZSE", "MSE", "RSE", "BVMT"}

Monday2Friday == 0 .. 4
Sunday2Thursday == {6} \union 0 .. 3

----
(* The services. *)

\* The windows of continuous trading.
Sessions ==
  [v \in Venue |->
     CASE v = "NGX" -> {W(At(9, 0), At(16, 0))}
       [] v \in {"JSE", "NSX"} -> {W(At(9, 0), At(17, 0))}
       [] v = "GSE" -> {W(At(10, 0), At(15, 0))} [] v = "NSE" -> {W(At(9, 31), At(15, 0))}
       [] v = "EGX" -> {W(At(10, 0), At(14, 30))} [] v = "BRVM" -> {W(At(9, 45), At(14, 0))}
       [] v = "CSE" -> {W(At(9, 30), At(15, 20))} [] v = "SEM" -> {W(At(9, 0), At(13, 30))}
       [] v = "BSE" -> {W(At(10, 25), At(11, 55)), W(At(12, 5), At(13, 20))}
       [] v = "DSE" -> {W(At(9, 31), At(16, 0))} [] v = "LUSE" -> {W(At(10, 0), At(14, 0))}
       [] v = "ZSE" -> {W(At(9, 30), At(13, 0))} [] v = "MSE" -> {W(At(9, 30), At(14, 30))}
       [] v = "RSE" -> {W(At(9, 0), At(12, 0))} [] v = "BVMT" -> {W(At(9, 0), At(14, 10))}
       [] v = "USE" -> {W(At(9, 30), At(12, 0))}]

\* The venues, each with the zone and the currency it is registered with.
Registry ==
  [v \in Venue |->
     CASE v = "NGX" -> <<"Lagos", "NGN">> [] v = "JSE" -> <<"Johannesburg", "ZAR">>
       [] v = "NSX" -> <<"Windhoek", "NAD">> [] v = "GSE" -> <<"Accra", "GHS">>
       [] v = "NSE" -> <<"Nairobi", "KES">> [] v = "EGX" -> <<"Cairo", "EGP">>
       [] v = "BRVM" -> <<"Abidjan", "XOF">> [] v = "CSE" -> <<"Casablanca", "MAD">>
       [] v = "SEM" -> <<"Mauritius", "MUR">> [] v = "BSE" -> <<"Gaborone", "BWP">>
       [] v = "DSE" -> <<"Dar_es_Salaam", "TZS">> [] v = "LUSE" -> <<"Lusaka", "ZMW">>
       [] v = "ZSE" -> <<"Harare", "ZWG">> [] v = "MSE" -> <<"Blantyre", "MWK">>
       [] v = "RSE" -> <<"Kigali", "RWF">> [] v = "BVMT" -> <<"Tunis", "TND">>
       [] v = "USE" -> <<"Kampala", "UGX">>]

TradingDaysOf(v) == IF v = "EGX" THEN Sunday2Thursday ELSE Monday2Friday

\* session_state, at a local instant.
Schedule(v) == INSTANCE Calendar
  WITH Offset <- 0, TradingDays <- TradingDaysOf(v), Windows <- Sessions[v]

----
(* The SDK. *)

SdkSessions ==
  [v \in Venue |->
     {CASE v = "NGX" -> W(At(9, 0), At(16, 0)) [] v \in {"JSE", "NSX"} -> W(At(9, 0), At(17, 0))
        [] v = "GSE" -> W(At(9, 30), At(15, 0)) [] v \in {"NSE", "BRVM"} -> W(At(9, 0), At(15, 0))
        [] v = "EGX" -> W(At(10, 0), At(14, 30)) [] v = "CSE" -> W(At(9, 30), At(15, 20))
        [] v = "SEM" -> W(At(9, 0), At(13, 30)) [] v = "BSE" -> W(At(9, 0), At(13, 0))
        [] v = "DSE" -> W(At(10, 0), At(15, 30)) [] v = "LUSE" -> W(At(10, 0), At(14, 0))
        [] v = "ZSE" -> W(At(9, 0), At(15, 30)) [] v = "MSE" -> W(At(9, 0), At(14, 0))
        [] v = "RSE" -> W(At(9, 0), At(12, 0)) [] v = "BVMT" -> W(At(9, 0), At(14, 10))
        [] v = "USE" -> W(At(9, 30), At(12, 0))}]

SdkRegistry ==
  [v \in Venue |->
     CASE v = "NGX" -> <<"Lagos", "NGN">> [] v = "JSE" -> <<"Johannesburg", "ZAR">>
       [] v = "NSX" -> <<"Windhoek", "NAD">> [] v = "GSE" -> <<"Accra", "GHS">>
       [] v = "NSE" -> <<"Nairobi", "KES">> [] v = "EGX" -> <<"Cairo", "EGP">>
       [] v = "BRVM" -> <<"Abidjan", "XOF">> [] v = "CSE" -> <<"Casablanca", "MAD">>
       [] v = "SEM" -> <<"Mauritius", "MUR">> [] v = "BSE" -> <<"Gaborone", "BWP">>
       [] v = "DSE" -> <<"Dar_es_Salaam", "TZS">> [] v = "LUSE" -> <<"Lusaka", "ZMW">>
       [] v = "ZSE" -> <<"Harare", "USD">> [] v = "MSE" -> <<"Blantyre", "MWK">>
       [] v = "RSE" -> <<"Kigali", "RWF">> [] v = "BVMT" -> <<"Tunis", "TND">>
       [] v = "USE" -> <<"Kampala", "UGX">>]

\* tradingDays, where Sunday is 0.
SdkTradingDays(v) == IF v = "EGX" THEN 0 .. 4 ELSE 1 .. 5

\* localParts counts the days of the week from Sunday.
SdkWeekday(at) == (at \div MinutesPerDay + 1) % 7

\* sessionState, at a local instant, with these windows and trading days.
SdkState(windows, days, at) ==
  LET now == at % MinutesPerDay
  IN  IF SdkWeekday(at) \notin days THEN "closed"
      ELSE IF \E w \in windows : w.open <= now /\ now < w.close THEN "open"
      ELSE IF \A w \in windows : now < w.open THEN "preopen" ELSE "closed"

SdkSessionState(v, at) == SdkState(SdkSessions[v], SdkTradingDays(v), at)

----
(* Properties. *)

\* The minutes of a venue's day at which anything changes, or has just.
Moments(v) ==
  {0, MinutesPerDay - 1}
    \union UNION {{w.open - 1, w.open, w.close - 1, w.close} : w \in Sessions[v]}

\* On each day of its week a venue goes through its session in order: before
\* the first window, in and between the windows, and after the last; it is
\* open for exactly as long as its windows are, and only on its trading days.
DayUnfolds(v, day) ==
  LET state(m) == Schedule(v)!SessionStateAt(day * MinutesPerDay + m) IN
  /\ \A w \in Sessions[v] : 0 < w.open /\ w.open < w.close /\ w.close < MinutesPerDay
  /\ \A w, x \in Sessions[v] : w = x \/ w.close < x.open \/ x.close < w.open
  /\ \A m, n \in Moments(v) : m < n /\ state(n) = "preopen" => state(m) = "preopen"
  /\ \A m \in Moments(v) : state(m) = "open" => day \in TradingDaysOf(v)
  /\ day \in TradingDaysOf(v) =>
       /\ state(0) = "preopen" /\ state(MinutesPerDay - 1) = "closed"
       /\ \A w \in Sessions[v] : /\ state(w.open - 1) # "open" /\ state(w.open) = "open"
                                 /\ state(w.close - 1) = "open" /\ state(w.close) = "closed"

\* From the services' entry of a venue the SDK makes the session states the
\* services make, on each day of its week: what calendar.ts computes is right.
SdkSessionsAgree(v, day) ==
  LET days == {(d + 1) % 7 : d \in TradingDaysOf(v)} IN
    \A m \in Moments(v) :
      LET at == day * MinutesPerDay + m
      IN  SdkState(Sessions[v], days, at) = Schedule(v)!SessionStateAt(at)

\* The SDK's own entry gives the zone, the currency and the session states that
\* the services' gives.
SdkEntryAgrees(v, day) ==
  /\ SdkRegistry[v] = Registry[v]
  /\ \A m \in Moments(v) :
       LET at == day * MinutesPerDay + m
       IN  SdkSessionState(v, at) = Schedule(v)!SessionStateAt(at)
====
