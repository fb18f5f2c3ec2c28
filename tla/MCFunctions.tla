---- MODULE MCFunctions ----
(***************************************************************************)
(* The parts of the program that share no state with others.  Packets are  *)
(* walked step by step, reference data is written statement by statement;  *)
(* messages, prices, boards, retries and the days of venues are tried one  *)
(* sample at a time.  Only one of these is under way at a time.            *)
(***************************************************************************)
EXTENDS MitchPacket, MoldPacket, SdkClient, HttpRetry, ReferenceStore

CONSTANTS
  Retries,    \* retries the HTTP client is built with
  StaleTime,  \* the stale_after of an annotation, in minutes
  MaxRows     \* bound: rows of each reference table

ASSUME StaleTimeAssumption == StaleTime \in Nat

VARIABLE sample  \* what is tried

vars == <<packetVars, moldVars, refVars, sample>>

Nothing == [kind |-> "nothing"]

----
(* Bounds. *)

\* Messages anybody may send: lengths around zero and around the minimum of
\* three kinds of types, those decoded, skipped and unknown.
SomeFrame ==
  [len : {0, 1, 2, 6, 12, 16}, type : {"time", "statistics", "unknown"}, valid : {TRUE}]
    \union [len : {6, 7}, type : {"system_event"}, valid : BOOLEAN]

\* Headers anybody may send: shorter than a header, lengths below, at and
\* above what is there, and counts that are right and wrong.
SomeForeign ==
  [size : {7, 8, 10, 20}, length : {7, 8, 9, 14, 20, 21}, count : 0 .. 2, sequence : {0, 1, 3}]

\* Bytes cut from or added to a datagram.
SomeDamage == -1 .. 1
SomeChange == -2 .. 1

\* Prices around zero, around the ties of rounding, too large for a wider
\* scale and, at the widest, at both ends of the width.
SomePrice ==
  [minor : {-1000, -151, -150, -149, -50, -5, -1, 0, 1, 5, 49, 50, 51, 150, 1000}, scale : Scale,
   currency : {"NGN"}]
    \union [minor : {-MaxMinor - 1, MaxMinor}, scale : {MaxScale}, currency : {"NGN"}]
    \union [minor : {0, 150}, scale : {0, 2}, currency : {"KES"}]

\* Tickers that are the same but for case and blanks, that are blank, and that
\* hold the separator.
SomeSymbol == {<<"a">>, <<" ", "A">>, <<" ">>, <<":">>}
SomeLetter == [c \in {"a"} |-> "A"]

\* Rows a source may send: prices that fit the SDK's scale, that do not, and
\* that overflow the service's; changes that are missing, down and up.
D(neg, digits, frac) == [neg |-> neg, digits |-> digits, frac |-> frac]
SomeRow ==
  [name : SomeSymbol \ {<<" ">>},
   price : {D(FALSE, 15, 1), D(FALSE, 125, 2), D(FALSE, 135, 2), D(FALSE, 5000, 0)},
   change : {{}, {D(FALSE, 5, 1)}, {D(TRUE, 25, 2)}}]
SomeBoard == UNION {[1 .. n -> SomeRow] : n \in 0 .. 2}

Sample ==
  {Nothing}
    \union [kind : {"message"}, type : Decoded]
    \union [kind : {"prices"}, p : SomePrice, q : SomePrice]
    \union [kind : {"replies"}, script : [1 .. Retries + 1 -> Reply]]
    \union [kind : {"day"}, venue : Venue, day : 0 .. 6]
    \union [kind : {"board"}, board : SomeBoard, symbols : {{}, {<<"A">>}, {<<"a">>}}]
    \union UNION {[kind : {"annotation"}, venue : {v}, asked : Moments(v), wait : 0 .. 1,
                   age : StaleTime - 1 .. StaleTime + 1] : v \in Venue}

----
PacketIdle == unit = None /\ built = <<>>
MoldIdle == packet = NoPacket
RefIdle == DOMAIN instruments = {}

Init == PacketInit /\ MoldInit /\ RefInit /\ sample = Nothing

WalkMitch ==
  /\ sample = Nothing /\ MoldIdle /\ RefIdle
  /\ PacketNext
  /\ UNCHANGED <<moldVars, refVars, sample>>

WalkMold ==
  /\ sample = Nothing /\ PacketIdle /\ RefIdle
  /\ MoldNext
  /\ UNCHANGED <<packetVars, refVars, sample>>

Write ==
  /\ sample = Nothing /\ PacketIdle /\ MoldIdle
  /\ RefNext
  /\ Cardinality(DOMAIN instruments') <= MaxRows
  /\ Cardinality(DOMAIN aliases') <= MaxRows
  /\ UNCHANGED <<packetVars, moldVars, sample>>

Try ==
  /\ PacketIdle /\ MoldIdle /\ RefIdle
  /\ sample = Nothing
  /\ sample' \in Sample \ {Nothing}
  /\ UNCHANGED <<packetVars, moldVars, refVars>>

Done ==
  /\ sample # Nothing
  /\ sample' = Nothing
  /\ UNCHANGED <<packetVars, moldVars, refVars>>

Next == WalkMitch \/ WalkMold \/ Write \/ Try \/ Done

Spec == Init /\ [][Next]_vars

----
(* The properties of the samples. *)

\* Every message is written where it is read, is as long as its fields need,
\* and answers for the fields it has (message.rs against build.rs).
LayoutsAgree ==
  sample.kind = "message" =>
    /\ sample.type \in DOMAIN Written => BuilderAgrees(sample.type)
    /\ FieldsFit(sample.type)
    /\ AccessorsAnswer(sample.type)

\* Whatever is computed of two prices is exact, to the rounding asked for, or
\* refused (money.rs, and the adapter and the archive that rely on it).
PricesAreExact ==
  sample.kind = "prices" =>
    /\ RescaledIsNearest(sample.p)
    /\ ArithmeticIsExact(sample.p, sample.q)
    /\ PreviousCloseIsExact(sample.p, sample.q)
    /\ RowIsExact(sample.p, sample.q)

\* A fetch makes the attempts that can help and no other (http.rs).
RetriesHelp == sample.kind = "replies" => RetriesWhatHelps(sample.script)

\* Each venue's days unfold as its registered windows say (registry.rs).
VenuesFit == sample.kind = "day" => DayUnfolds(sample.venue, sample.day)

\* Of prices, replies, the services' table of venues, boards and the time of a
\* quote the SDK makes what the services make (money.ts, util/http.ts,
\* calendar.ts, adapters/kwayisi.ts, client.ts).
SdkAgrees ==
  /\ sample.kind = "prices" => SdkPricesAgree(sample.p, sample.q)
  /\ sample.kind = "replies" => SdkRetriesAgree(sample.script)
  /\ sample.kind = "day" => SdkSessionsAgree(sample.venue, sample.day)
  /\ sample.kind = "board" => SdkBoardsAgree(sample.board, sample.symbols)
  /\ sample.kind = "annotation" =>
       SdkAnnotationsAgree(sample.venue, sample.asked, sample.wait, sample.age, StaleTime)

----
(* What the SDK says of itself, and does not do. *)

\* The SDK's table of venues is that of the services (exchanges.ts beside
\* registry.rs).
SdkVenuesAgree == sample.kind = "day" => SdkEntryAgrees(sample.venue, sample.day)

\* The SDK's quotes have the ids of the services' (adapters/kwayisi.ts:104
\* beside kwayisi.rs:175).
SdkTickersAgree == sample.kind = "board" => TickersAgree(sample.board, sample.symbols)

\* The SDK reads the boards the services read (adapters/kwayisi.ts:102 beside
\* kwayisi.rs:37).
SdkRefusesNoMore == sample.kind = "board" => RefusesNoMore(sample.board, sample.symbols)

\* The session the SDK tells with a quote is that of the moment at which the
\* quote is handed out (client.ts:75).
SdkSessionIsCurrent ==
  sample.kind = "annotation" =>
    SessionIsCurrent(sample.venue, sample.asked, sample.wait, sample.age, StaleTime)

\* Together: the SDK handles what it is given as the services do ("The Rust
\* workspace is the reference implementation").
SdkFollowsServices ==
  SdkVenuesAgree /\ SdkTickersAgree /\ SdkRefusesNoMore /\ SdkSessionIsCurrent
====
