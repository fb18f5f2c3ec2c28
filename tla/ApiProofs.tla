---- MODULE ApiProofs ----
(***************************************************************************)
(* The theorems of Api, for every value of its constants: whatever the     *)
(* deployment, nothing above an anonymous client's class reaches it.       *)
(***************************************************************************)
EXTENDS Api, SequenceTheorems, FiniteSetTheorems, TLAPS

USE WatchedAssumption, InstrumentAssumption, ApiBoundsAssumption

----
(* What may leave. *)

Free == {"eod", "unknown"}

\* An anonymous caller is allowed exactly what is free (entitlement.rs).
LEMMA AnonymousIsFree ==
  ASSUME NEW q, q.delay \in DelayClass
  PROVE  Allowed(q, NoKey) <=> q.delay \in Free
BY DEF Allowed, Permits, AnonymousMax, DelayClass, Rank, Free

\* The stream's own rule is the same (routes.rs).
LEMMA RelayedIsFree ==
  ASSUME NEW q, q.delay \in DelayClass
  PROVE  Relayed(q) <=> q.delay \in Free
BY DEF Relayed, Permits, AnonymousMax, DelayClass, Rank, Free

\* What subjects are made of.
Token == STRING \union Exchange \union {"amd", "v1", "quote", "*"}

\* A subject names its venue in its third token.
LEMMA VenueToken ==
  ASSUME NEW v \in Exchange
  PROVE  /\ ForVenue(v, "quote") \in Seq(Token)
         /\ Len(ForVenue(v, "quote")) = 4
         /\ ForVenue(v, "quote")[3] = v
<1>1. {"amd", "v1", "quote", v} \subseteq Token
  BY DEF Token
<1>2. <<"amd", "v1">> \in Seq(Token) /\ <<v, "quote">> \in Seq(Token)
  BY <1>1
<1>3. Len(<<"amd", "v1">>) = 2 /\ Len(<<v, "quote">>) = 2 /\ <<v, "quote">>[1] = v
  OBVIOUS
<1> QED BY <1>2, <1>3, ConcatProperties DEF ForVenue, Prefix

\* So does every subject under that of a venue.
LEMMA VenueTokenBelow ==
  ASSUME NEW v \in Exchange, NEW rest \in Seq(Token)
  PROVE  /\ ForVenue(v, "quote") \o rest \in Seq(Token)
         /\ Len(ForVenue(v, "quote") \o rest) = 4 + Len(rest)
         /\ (ForVenue(v, "quote") \o rest)[3] = v
         /\ \A k \in 1 .. Len(rest) : (ForVenue(v, "quote") \o rest)[4 + k] = rest[k]
<1> DEFINE base == ForVenue(v, "quote")
<1>1. base \in Seq(Token) /\ Len(base) = 4 /\ base[3] = v
  BY VenueToken
<1>2. Len(rest) \in Nat
  BY LenProperties
<1> HIDE DEF base
<1>3. /\ base \o rest \in Seq(Token)
      /\ Len(base \o rest) = 4 + Len(rest)
      /\ \A k \in 1 .. 4 + Len(rest) : (base \o rest)[k] = IF k <= 4 THEN base[k] ELSE rest[k - 4]
  <2>1. /\ base \o rest \in Seq(Token)
        /\ Len(base \o rest) = Len(base) + Len(rest)
        /\ \A k \in 1 .. Len(base) + Len(rest) :
             (base \o rest)[k] = IF k <= Len(base) THEN base[k] ELSE rest[k - Len(base)]
    BY <1>1, ConcatProperties, Zenon
  <2> QED BY <2>1, <1>1
<1>4. (base \o rest)[3] = v
  BY <1>1, <1>2, <1>3
<1>5. ASSUME NEW k \in 1 .. Len(rest) PROVE (base \o rest)[4 + k] = rest[k]
  <2>1. 4 + k \in 1 .. 4 + Len(rest) /\ ~(4 + k <= 4) /\ 4 + k - 4 = k
    BY <1>2
  <2> QED BY <2>1, <1>3
<1> QED BY <1>3, <1>4, <1>5 DEF base

\* A subscription to the quotes of a venue matches no subject of another.
LEMMA SubjectsAreApart ==
  ASSUME NEW v \in Exchange, NEW i \in Instrument,
         Matches(KindWildcard(v, "quote"), ForInstrument(i.exchange, i.symbol, "quote"))
  PROVE  i.exchange = v
<1> DEFINE pattern == KindWildcard(v, "quote")
           subject == ForInstrument(i.exchange, i.symbol, "quote")
<1>1. v # "*" /\ i.exchange \in Exchange
  BY CodeAssumption
<1>2. i.symbol \in Seq(Token)
  <2>1. i.symbol \in Seq(STRING) /\ STRING \subseteq Token
    BY DEF Token
  <2> QED BY <2>1, SeqMonotonic
<1>3. PICK star \in Seq(Token) : star = <<"*">> /\ Len(star) = 1 /\ star[1] = "*"
  <2>1. "*" \in Token
    BY DEF Token
  <2>2. <<"*">> \in Seq(Token) /\ Len(<<"*">>) = 1 /\ <<"*">>[1] = "*"
    BY <2>1
  <2> QED BY <2>2, Zenon
<1>4. Len(pattern) = 5 /\ pattern[3] = v /\ pattern[5] = "*"
  <2>1. pattern = ForVenue(v, "quote") \o star
    BY <1>3 DEF KindWildcard
  <2> HIDE DEF pattern
  <2>2. Len(pattern) = 4 + Len(star) /\ pattern[3] = v
    BY <2>1, VenueTokenBelow
  <2>3. 1 \in 1 .. Len(star)
    BY <1>3
  <2>4. pattern[4 + 1] = star[1]
    BY <2>1, <2>3, VenueTokenBelow, Zenon
  <2> QED BY <2>2, <2>4, <1>3
<1>5. subject[3] = i.exchange
  BY <1>1, <1>2, VenueTokenBelow DEF ForInstrument
<1>6. pattern[3] \in {"*", subject[3]}
  BY <1>4 DEF Matches
<1> QED BY <1>1, <1>4, <1>5, <1>6

----
(* The invariant. *)

\* The trades still to come fit under the bound of prices.
PriceBounded == \A i \in Instrument : price[i] + budget["prints"] <= MaxPrints

\* Whatever serves a venue gives each instrument a class.
AdaptersClassify ==
  \A v \in Exchange : \A a \in Preferred(registry, v) \union Preferred(feed, v) :
    a.delay \in [Instrument -> DelayClass]

\* What is on its way to a client, by either route, is of its venue.
OfItsVenue ==
  /\ DOMAIN request = Client
  /\ \A i \in Instrument : fetched[i] # None => fetched[i].exchange = i.exchange
  /\ \A c \in Client : \A n \in 1 .. Len(inbox[c]) : inbox[c][n].exchange = Watched[c]
  /\ \A c \in Client : request[c].phase = "read" =>
       \A r \in request[c].rows : r.instrument.exchange = Watched[c]

\* An answer holds what is free and of the venue, and nothing else.
AnswersAreFree ==
  \A c \in Client : request[c].phase = "answered" =>
    \A q \in request[c].quotes : q.delay \in Free /\ q.exchange = Watched[c]

Inv ==
  /\ ApiTypeOK
  /\ PriceBounded
  /\ AdaptersClassify
  /\ OfItsVenue
  /\ AnswersAreFree
  /\ EgressIsFiltered

\* What the preferred source of a venue would send now is a row.
LEMMA RowsAreRows ==
  ASSUME ApiTypeOK, NEW a, NEW i \in Instrument
  PROVE  RowOf(a, i) \in Row /\ RowOf(a, i).instrument = i
BY DEF ApiTypeOK, RowOf, Row, Stamp

\* What an adapter makes of a row is a quote of the row's instrument.
LEMMA QuotesAreQuotes ==
  ASSUME ApiTypeOK, NEW a, a.delay \in [Instrument -> DelayClass], NEW row \in Row
  PROVE  /\ ToQuote(a, row) \in Quote
         /\ ToQuote(a, row).exchange = row.instrument.exchange
<1>1. /\ row.instrument \in Instrument
      /\ row.price \in 0 .. MaxPrints
      /\ row.stamp \in 0 .. MaxTime \union {None}
      /\ row.instrument.exchange \in Exchange
      /\ a.delay[row.instrument] \in DelayClass
      /\ clock \in 0 .. MaxTime
  BY DEF Row, ApiTypeOK
<1>2. (IF row.stamp = None THEN clock ELSE row.stamp) \in 0 .. MaxTime
  BY <1>1
<1> QED BY <1>1, <1>2 DEF ToQuote, Quote

\* A session state is one of the three.
LEMMA SessionStates ==
  ASSUME NEW at
  PROVE  SessionStateAt(at) \in SessionState
BY DEF SessionStateAt, SessionState

\* An answer is an answer, and holds only quotes of the board that are free.
LEMMA AnswersAreAnswers ==
  ASSUME NEW quotes \in SUBSET Quote
  PROVE  /\ IsRequest(AnswerWith(quotes))
         /\ AnswerWith(quotes).phase = "answered"
         /\ \A q \in AnswerWith(quotes).quotes : q \in quotes /\ q.delay \in Free
<1> DEFINE kept == Kept(quotes, NoKey)
           aged == {q.instrument : q \in {p \in kept : IsStale(p)}}
<1>1. kept \subseteq quotes /\ kept \subseteq Quote
  BY DEF Kept
<1>2. \A q \in kept : q.delay \in Free
  <2>1. \A q \in kept : q.delay \in DelayClass /\ Allowed(q, NoKey)
    BY <1>1 DEF Kept, Quote
  <2> QED BY <2>1, AnonymousIsFree
<1>3. aged \subseteq Instrument
  BY <1>1 DEF Quote
<1>4. quotes \ kept \subseteq Quote
  OBVIOUS
<1>5. SessionStateAt(clock) \in SessionState
  BY SessionStates
<1>6. /\ AnswerWith(quotes).phase = "answered"
      /\ AnswerWith(quotes).status = 200
      /\ AnswerWith(quotes).quotes = kept
      /\ AnswerWith(quotes).out = quotes \ kept
      /\ AnswerWith(quotes).stale = aged
      /\ AnswerWith(quotes).session = SessionStateAt(clock)
  BY DEF AnswerWith
<1> HIDE DEF kept, aged
<1>7. IsRequest(AnswerWith(quotes))
  BY <1>1, <1>3, <1>4, <1>5, <1>6 DEF IsRequest
<1> QED BY <1>1, <1>2, <1>6, <1>7

\* A refusal is an answer without quotes.
LEMMA RefusalsAreAnswers ==
  ASSUME NEW status \in {501, 502}
  PROVE  /\ IsRequest(Refusal(status))
         /\ Refusal(status).phase = "answered"
         /\ Refusal(status).quotes = {}
BY DEF IsRequest, Refusal, SessionState

----
(* The steps. *)

LEMMA InitInv ==
  ASSUME Init
  PROVE  Inv
<1>1. ApiTypeOK
  <2>1. \A c \in Client : IsRequest(Idle)
    BY DEF IsRequest
  <2>2. \A c \in Client : inbox[c] \in Seq(Quote)
    BY DEF Init
  <2> QED BY <2>1, <2>2 DEF Init, ApiTypeOK
<1>2. PriceBounded
  BY DEF Init, PriceBounded
<1>3. AdaptersClassify
  <2>1. \E r \in Registrations : registry = Registered(r)
    BY DEF Init
  <2>2. \E r \in Registrations : feed = Registered(r)
    BY DEF Init
  <2> QED BY <2>1, <2>2, AdaptersAssumption DEF AdaptersClassify
<1>4. OfItsVenue
  BY DEF Init, OfItsVenue, Idle
<1>5. AnswersAreFree
  BY DEF Init, AnswersAreFree, Idle
<1>6. EgressIsFiltered
  BY DEF Init, EgressIsFiltered
<1> QED BY <1>1, <1>2, <1>3, <1>4, <1>5, <1>6 DEF Inv

\* The clock and the sources touch nothing that leaves.
LEMMA TickInv ==
  ASSUME Inv, Tick
  PROVE  Inv'
<1> USE DEF Inv, Tick, bootVars, ingestVars, clientVars
<1>1. ApiTypeOK'
  <2>1. clock' \in 0 .. MaxTime
    BY DEF ApiTypeOK
  <2> QED BY <2>1 DEF ApiTypeOK
<1>2. PriceBounded' /\ AdaptersClassify' /\ OfItsVenue' /\ AnswersAreFree' /\ EgressIsFiltered'
  BY DEF PriceBounded, AdaptersClassify, OfItsVenue, AnswersAreFree, EgressIsFiltered
<1> QED BY <1>1, <1>2

LEMMA TradeInv ==
  ASSUME Inv, NEW i \in Instrument, Trade(i)
  PROVE  Inv'
<1> USE DEF Inv, Trade, bootVars, ingestVars, clientVars
<1>1. /\ price[i] + 1 <= MaxPrints
      /\ budget["prints"] > 0
      /\ budget["prints"] \in Nat
      /\ budget' \in [{"prints", "faults"} -> Nat]
      /\ budget'["prints"] = budget["prints"] - 1
  BY DEF Spend, ApiTypeOK, PriceBounded
<1>2. price' \in [Instrument -> 0 .. MaxPrints] /\ printedAt' \in [Instrument -> 0 .. MaxTime]
  BY <1>1 DEF ApiTypeOK
<1>3. ApiTypeOK'
  BY <1>1, <1>2 DEF ApiTypeOK
<1>4. PriceBounded'
  <2>1. ASSUME NEW j \in Instrument
        PROVE  price[j] \in Nat /\ price'[j] <= price[j] + 1 /\ price'[j] \in Nat
    BY <1>2 DEF ApiTypeOK
  <2>2. \A j \in Instrument : price[j] + budget["prints"] <= MaxPrints
    BY DEF PriceBounded
  <2>3. ASSUME NEW j \in Instrument
        PROVE  price'[j] + budget'["prints"] <= MaxPrints
    <3> HIDE DEF Inv, Trade
    <3>1. MaxPrints \in Nat
      BY ApiBoundsAssumption
    <3>2. price[j] + budget["prints"] <= MaxPrints
      BY <2>2
    <3>3. \A x, y, b \in Nat : y <= x + 1 /\ b > 0 /\ x + b <= MaxPrints => y + (b - 1) <= MaxPrints
      BY <3>1
    <3> QED BY <2>1, <3>2, <3>3, <1>1
  <2> QED BY <2>3 DEF PriceBounded
<1>5. AdaptersClassify' /\ OfItsVenue' /\ AnswersAreFree' /\ EgressIsFiltered'
  BY DEF AdaptersClassify, OfItsVenue, AnswersAreFree, EgressIsFiltered
<1> QED BY <1>3, <1>4, <1>5

\* A poll fetches quotes of the venue's own instruments.
LEMMA PollInv ==
  ASSUME Inv, NEW v \in Exchange, Poll(v)
  PROVE  Inv'
<1> USE DEF Inv, Poll, worldVars, bootVars, clientVars
<1>1. PICK a \in Preferred(feed, v) :
        fetched' = [i \in Instrument |->
                      IF i \in Board(v) /\ baseline[i] # price[i]
                        THEN ToQuote(a, RowOf(a, i))
                        ELSE fetched[i]]
  BY DEF Poll
<1>2. a.delay \in [Instrument -> DelayClass]
  BY DEF AdaptersClassify
<1>3. ASSUME NEW i \in Instrument
      PROVE  ToQuote(a, RowOf(a, i)) \in Quote /\ ToQuote(a, RowOf(a, i)).exchange = i.exchange
  <2>1. RowOf(a, i) \in Row /\ RowOf(a, i).instrument = i
    BY RowsAreRows
  <2> QED BY <2>1, <1>2, QuotesAreQuotes
<1>4. fetched' \in [Instrument -> Quote \union {None}]
  BY <1>1, <1>3 DEF ApiTypeOK
<1>5. \A i \in Instrument : fetched'[i] # None => fetched'[i].exchange = i.exchange
  BY <1>1, <1>3 DEF OfItsVenue
<1>6. ApiTypeOK'
  BY <1>4 DEF ApiTypeOK
<1>7. OfItsVenue'
  BY <1>5 DEF OfItsVenue
<1>8. PriceBounded' /\ AdaptersClassify' /\ AnswersAreFree' /\ EgressIsFiltered'
  BY DEF PriceBounded, AdaptersClassify, AnswersAreFree, EgressIsFiltered
<1> QED BY <1>6, <1>7, <1>8

\* Spending one of the faults leaves the budget of prints.
LEMMA FaultsSpent ==
  ASSUME Inv, Spend("faults") \/ UNCHANGED budget
  PROVE  budget' \in [{"prints", "faults"} -> Nat] /\ budget'["prints"] = budget["prints"]
BY DEF Inv, ApiTypeOK, Spend

\* A publication reaches only subscriptions of the quote's venue.
LEMMA PublishInv ==
  ASSUME Inv, NEW i \in Instrument, PublishQuote(i)
  PROVE  Inv'
<1> USE DEF Inv, PublishQuote, worldVars, bootVars, clientVars
<1>1. fetched[i] \in Quote /\ fetched[i].exchange = i.exchange
  BY DEF ApiTypeOK, OfItsVenue
<1>2. PICK got \in SUBSET Subscribers(i) :
        /\ IF got = Subscribers(i) THEN UNCHANGED budget ELSE Spend("faults")
        /\ inbox' = [c \in Client |-> IF c \in got THEN Append(inbox[c], fetched[i]) ELSE inbox[c]]
        /\ lost' = [c \in Client |->
                      IF c \in got THEN lost[c] \ {i}
                      ELSE IF c \in Subscribers(i) THEN lost[c] \union {i}
                      ELSE lost[c]]
  OBVIOUS
<1>3. budget' \in [{"prints", "faults"} -> Nat] /\ budget'["prints"] = budget["prints"]
  BY <1>2, FaultsSpent
<1>4. \A c \in got : Watched[c] = i.exchange
  BY SubjectsAreApart DEF Subscribers
<1>5. ASSUME NEW c \in Client
      PROVE  /\ inbox'[c] \in Seq(Quote)
             /\ \A n \in 1 .. Len(inbox'[c]) : inbox'[c][n].exchange = Watched[c]
  <2>1. inbox[c] \in Seq(Quote) /\ \A n \in 1 .. Len(inbox[c]) : inbox[c][n].exchange = Watched[c]
    BY DEF ApiTypeOK, OfItsVenue
  <2>2. CASE c \in got
    <3>1. inbox'[c] = Append(inbox[c], fetched[i])
      BY <1>2, <2>2
    <3>2. /\ Append(inbox[c], fetched[i]) \in Seq(Quote)
          /\ Len(Append(inbox[c], fetched[i])) = Len(inbox[c]) + 1
          /\ \A n \in 1 .. Len(inbox[c]) : Append(inbox[c], fetched[i])[n] = inbox[c][n]
          /\ Append(inbox[c], fetched[i])[Len(inbox[c]) + 1] = fetched[i]
      BY <1>1, <2>1, AppendProperties
    <3>3. Len(inbox[c]) \in Nat
      BY <2>1, LenProperties
    <3> QED BY <3>1, <3>2, <3>3, <2>1, <2>2, <1>1, <1>4
  <2>3. CASE c \notin got
    BY <1>2, <2>1, <2>3
  <2> QED BY <2>2, <2>3
<1>6. inbox' \in [Client -> Seq(Quote)]
  <2>1. inbox' = [c \in Client |-> inbox'[c]]
    BY <1>2
  <2> QED BY <2>1, <1>5
<1>7. fetched' \in [Instrument -> Quote \union {None}] /\ baseline' \in [Instrument -> 0 .. MaxPrints \union {None}]
  <2>1. fetched[i].price \in 0 .. MaxPrints
    BY <1>1 DEF Quote
  <2> QED BY <2>1 DEF ApiTypeOK
<1>8. lost' \in [Client -> SUBSET Instrument]
  BY <1>2 DEF ApiTypeOK
<1>9. ApiTypeOK'
  BY <1>3, <1>6, <1>7, <1>8 DEF ApiTypeOK
<1>10. OfItsVenue'
  <2>1. \A j \in Instrument : fetched'[j] # None => fetched'[j].exchange = j.exchange
    BY DEF ApiTypeOK, OfItsVenue
  <2> QED BY <2>1, <1>5 DEF OfItsVenue
<1>11. PriceBounded' /\ AdaptersClassify' /\ AnswersAreFree' /\ EgressIsFiltered'
  BY <1>3 DEF PriceBounded, AdaptersClassify, AnswersAreFree, EgressIsFiltered
<1> QED BY <1>9, <1>10, <1>11

\* A request that is replaced by a legal one leaves the rest as it is.
LEMMA RequestInv ==
  ASSUME Inv, NEW c \in Client, NEW r,
         request' = [request EXCEPT ![c] = r],
         IsRequest(r),
         r.phase = "read" => \A row \in r.rows : row.instrument.exchange = Watched[c],
         r.phase = "answered" => \A q \in r.quotes : q.delay \in Free /\ q.exchange = Watched[c],
         Spend("faults") \/ UNCHANGED budget,
         UNCHANGED <<worldVars, bootVars, inbox, ingestVars, clientVars, lost>>
  PROVE  Inv'
<1> USE DEF worldVars, bootVars, ingestVars, clientVars
<1>1. budget' \in [{"prints", "faults"} -> Nat] /\ budget'["prints"] = budget["prints"]
  BY FaultsSpent
<1>2. DOMAIN request = Client /\ DOMAIN request' = Client
  BY DEF Inv, OfItsVenue
<1>3. \A d \in Client : request'[d] = IF d = c THEN r ELSE request[d]
  BY <1>2
<1>4. ApiTypeOK'
  <2>1. \A d \in Client : IsRequest(request'[d])
    BY <1>3 DEF Inv, ApiTypeOK
  <2>2. \A d \in Client : IsRequest(request[d])'
    BY <2>1 DEF IsRequest, Row, Quote
  <2> QED BY <1>1, <2>2 DEF Inv, ApiTypeOK
<1>5. OfItsVenue'
  BY <1>2, <1>3 DEF Inv, OfItsVenue
<1>6. AnswersAreFree'
  BY <1>3 DEF Inv, AnswersAreFree
<1>7. PriceBounded' /\ AdaptersClassify' /\ EgressIsFiltered'
  BY <1>1 DEF Inv, PriceBounded, AdaptersClassify, EgressIsFiltered
<1> QED BY <1>4, <1>5, <1>6, <1>7 DEF Inv

\* What the requests become is legal: sent, refused, read or answered.
LEMMA AskInv ==
  ASSUME Inv, NEW c \in Client, Ask(c)
  PROVE  Inv'
<1>1. IsRequest(Sent) /\ Sent.phase = "sent"
  BY DEF IsRequest, Sent
<1> QED BY <1>1, RequestInv DEF Ask

LEMMA RefusalInv ==
  ASSUME Inv, NEW c \in Client, NoSource(c) \/ SourceFails(c)
  PROVE  Inv'
<1>1. PICK r : /\ IsRequest(r) /\ r.phase = "answered" /\ r.quotes = {}
               /\ request' = [request EXCEPT ![c] = r]
               /\ Spend("faults") \/ UNCHANGED budget
  BY RefusalsAreAnswers DEF NoSource, SourceFails
<1>2. UNCHANGED <<worldVars, bootVars, inbox, ingestVars, clientVars, lost>>
  BY DEF NoSource, SourceFails
<1> QED BY <1>1, <1>2, RequestInv

LEMMA SourceReadsInv ==
  ASSUME Inv, NEW c \in Client, SourceReads(c)
  PROVE  Inv'
<1>1. PICK a \in Preferred(registry, Watched[c]) :
        request' = [request EXCEPT ![c] =
                      [phase |-> "read", rows |-> {RowOf(a, i) : i \in Board(Watched[c])}]]
  BY DEF SourceReads
<1> DEFINE rows == {RowOf(a, i) : i \in Board(Watched[c])}
           r == [phase |-> "read", rows |-> rows]
<1>2. \A row \in rows : row \in Row /\ row.instrument.exchange = Watched[c]
  BY RowsAreRows DEF Inv, Board
<1>3. r.phase = "read" /\ r.rows = rows /\ IsRequest(r)
  BY <1>2 DEF IsRequest
<1>4. request' = [request EXCEPT ![c] = r]
  BY <1>1
<1>5. UNCHANGED budget /\ UNCHANGED <<worldVars, bootVars, inbox, ingestVars, clientVars, lost>>
  BY DEF SourceReads
<1> HIDE DEF rows, r
<1> QED BY <1>2, <1>3, <1>4, <1>5, RequestInv

LEMMA RespondInv ==
  ASSUME Inv, NEW c \in Client, Respond(c)
  PROVE  Inv'
<1>1. PICK a \in Preferred(registry, Watched[c]) :
        request' = [request EXCEPT ![c] = AnswerWith({ToQuote(a, row) : row \in request[c].rows})]
  BY DEF Respond
<1> DEFINE quotes == {ToQuote(a, row) : row \in request[c].rows}
<1>2. \A row \in request[c].rows : row \in Row /\ row.instrument.exchange = Watched[c]
  <2>1. IsRequest(request[c]) /\ request[c].phase = "read"
    BY DEF Inv, ApiTypeOK, Respond
  <2>2. request[c].rows \subseteq Row
    BY <2>1 DEF IsRequest, Idle, Sent
  <2> QED BY <2>1, <2>2 DEF Inv, OfItsVenue
<1>3. a.delay \in [Instrument -> DelayClass]
  BY DEF Inv, AdaptersClassify
<1>4. \A q \in quotes : q \in Quote /\ q.exchange = Watched[c]
  BY <1>2, <1>3, QuotesAreQuotes DEF Inv
<1> HIDE DEF quotes
<1>5. /\ IsRequest(AnswerWith(quotes))
      /\ AnswerWith(quotes).phase = "answered"
      /\ \A q \in AnswerWith(quotes).quotes : q \in quotes /\ q.delay \in Free
  BY <1>4, AnswersAreAnswers
<1>6. request' = [request EXCEPT ![c] = AnswerWith(quotes)]
  BY <1>1 DEF quotes
<1> QED BY <1>4, <1>5, <1>6, RequestInv DEF Respond

\* Opening a stream shows nothing.
LEMMA SubscribeInv ==
  ASSUME Inv, NEW c \in Client, Subscribe(c)
  PROVE  Inv'
<1> USE DEF Inv, Subscribe, worldVars, bootVars, ingestVars
<1>1. ApiTypeOK'
  BY DEF ApiTypeOK
<1>2. PriceBounded' /\ AdaptersClassify' /\ OfItsVenue' /\ AnswersAreFree' /\ EgressIsFiltered'
  BY DEF PriceBounded, AdaptersClassify, OfItsVenue, AnswersAreFree, EgressIsFiltered
<1> QED BY <1>1, <1>2

\* A connection that breaks takes what was on its way with it.
LEMMA DisconnectInv ==
  ASSUME Inv, NEW c \in Client, Disconnect(c)
  PROVE  Inv'
<1> USE DEF Inv, Disconnect, worldVars, bootVars, ingestVars
<1>1. budget' \in [{"prints", "faults"} -> Nat] /\ budget'["prints"] = budget["prints"]
  BY FaultsSpent
<1>2. IsRequest(Idle) /\ Idle.phase = "idle"
  BY DEF IsRequest, Idle
<1>3. \A d \in Client : request'[d] = IF d = c THEN Idle ELSE request[d]
  BY DEF OfItsVenue
<1>4. inbox' \in [Client -> Seq(Quote)] /\ inbox'[c] = <<>>
  BY DEF ApiTypeOK
<1>5. /\ conn' \in [Client -> {"off", "live", "shown"}]
      /\ heard' \in [Client -> SUBSET Instrument]
      /\ lost' \in [Client -> SUBSET Instrument]
  BY DEF ApiTypeOK
<1>6. \A d \in Client : IsRequest(request'[d])
  BY <1>2, <1>3 DEF ApiTypeOK
<1>7. ApiTypeOK'
  <2>1. \A d \in Client : IsRequest(request[d])'
    BY <1>6 DEF IsRequest, Row, Quote
  <2> QED BY <1>1, <1>4, <1>5, <2>1 DEF ApiTypeOK
<1>8. OfItsVenue'
  BY <1>2, <1>3, <1>4 DEF OfItsVenue, ApiTypeOK
<1>9. AnswersAreFree'
  BY <1>2, <1>3 DEF AnswersAreFree
<1>10. PriceBounded' /\ AdaptersClassify' /\ EgressIsFiltered'
  BY <1>1 DEF PriceBounded, AdaptersClassify, EgressIsFiltered
<1> QED BY <1>7, <1>8, <1>9, <1>10

\* What a client shows of an answer is free.
LEMMA TakeInv ==
  ASSUME Inv, NEW c \in Client, Take(c)
  PROVE  Inv'
<1> USE DEF Inv, Take, worldVars, bootVars, ingestVars
<1>1. IsRequest(Idle) /\ Idle.phase = "idle"
  BY DEF IsRequest, Idle
<1>2. \A d \in Client : request'[d] = IF d = c THEN Idle ELSE request[d]
  BY DEF OfItsVenue
<1>3. request[c].quotes \subseteq Quote
  <2>1. IsRequest(request[c]) /\ request[c].phase = "answered"
    BY DEF ApiTypeOK
  <2>2. request[c] \notin {Idle, Sent}
    BY <2>1 DEF Idle, Sent
  <2> QED BY <2>1, <2>2 DEF IsRequest
<1> DEFINE told(i) == i \notin heard[c] /\ \E q \in request[c].quotes : q.instrument = i
           of(i) == CHOOSE q \in request[c].quotes : q.instrument = i
<1>4. ASSUME NEW i \in Instrument, told(i)
      PROVE  of(i) \in Quote /\ of(i).delay \in Free /\ of(i).exchange = Watched[c]
  <2>1. of(i) \in request[c].quotes
    BY <1>4
  <2> QED BY <2>1, <1>3 DEF AnswersAreFree
<1> DEFINE shown == [i \in Instrument |-> IF told(i) THEN of(i) ELSE view[c][i]]
<1>5. view' = [view EXCEPT ![c] = shown]
  OBVIOUS
<1>6. shown \in [Instrument -> Quote \union {None}]
  BY <1>4 DEF ApiTypeOK
<1>7. \A i \in Instrument : shown[i] # None =>
        shown[i].delay \in Free /\ shown[i].exchange = Watched[c]
  BY <1>4 DEF EgressIsFiltered, Free
<1> HIDE DEF shown
<1>8. view' \in [Client -> [Instrument -> Quote \union {None}]]
  BY <1>5, <1>6 DEF ApiTypeOK
<1>9. ApiTypeOK'
  <2>1. \A d \in Client : IsRequest(request'[d])
    BY <1>1, <1>2 DEF ApiTypeOK
  <2>2. \A d \in Client : IsRequest(request[d])'
    BY <2>1 DEF IsRequest, Row, Quote
  <2>3. conn' \in [Client -> {"off", "live", "shown"}]
    BY DEF ApiTypeOK
  <2> QED BY <1>8, <2>2, <2>3 DEF ApiTypeOK
<1>10. EgressIsFiltered'
  <2>1. \A d \in Client : view'[d] = IF d = c THEN shown ELSE view[d]
    BY <1>5 DEF ApiTypeOK
  <2>2. EgressIsFiltered
    OBVIOUS
  <2> HIDE DEF Inv, Take, told, of
  <2>3. ASSUME NEW d \in Client, NEW i \in Instrument, view'[d][i] # None
        PROVE  view'[d][i].delay \in Free /\ view'[d][i].exchange = Watched[d]
    <3>1. CASE d = c
      BY <2>1, <2>3, <3>1, <1>7
    <3>2. CASE d # c
      BY <2>1, <2>2, <2>3, <3>2 DEF EgressIsFiltered, Free
    <3> QED BY <3>1, <3>2
  <2> QED BY <2>3 DEF EgressIsFiltered, Free
<1>11. OfItsVenue'
  BY <1>1, <1>2 DEF OfItsVenue
<1>12. AnswersAreFree'
  BY <1>1, <1>2 DEF AnswersAreFree
<1>13. PriceBounded' /\ AdaptersClassify'
  BY DEF PriceBounded, AdaptersClassify
<1> QED BY <1>9, <1>10, <1>11, <1>12, <1>13

\* What a stream relays is free and of its venue.
LEMMA RelayInv ==
  ASSUME Inv, NEW c \in Client, Relay(c)
  PROVE  Inv'
<1> USE DEF Inv, Relay, worldVars, bootVars, ingestVars
<1> DEFINE q == Head(inbox[c])
<1>1. inbox[c] \in Seq(Quote) /\ inbox[c] # <<>>
  BY DEF ApiTypeOK
<1>2. /\ Len(inbox[c]) \in Nat \ {0} /\ q = inbox[c][1] /\ q \in Quote
      /\ Tail(inbox[c]) \in Seq(Quote)
      /\ Len(Tail(inbox[c])) = Len(inbox[c]) - 1
      /\ \A n \in 1 .. Len(Tail(inbox[c])) : Tail(inbox[c])[n] = inbox[c][n + 1]
  <2>1. Head(inbox[c]) = inbox[c][1]
    BY <1>1
  <2>2. Len(inbox[c]) \in Nat \ {0}
    BY <1>1, EmptySeq
  <2> HIDE DEF Inv, Relay
  <2>3. /\ Head(inbox[c]) \in Quote
        /\ Tail(inbox[c]) \in Seq(Quote)
        /\ Len(Tail(inbox[c])) = Len(inbox[c]) - 1
        /\ \A n \in 1 .. Len(Tail(inbox[c])) : Tail(inbox[c])[n] = inbox[c][n + 1]
    BY <1>1, HeadTailProperties, Zenon
  <2> QED BY <2>1, <2>2, <2>3
<1>3. q.exchange = Watched[c] /\ q.delay \in DelayClass /\ q.instrument \in Instrument
  <2>1. q.delay \in DelayClass /\ q.instrument \in Instrument
    BY <1>2 DEF Quote
  <2>2. \A n \in 1 .. Len(inbox[c]) : inbox[c][n].exchange = Watched[c]
    BY DEF OfItsVenue
  <2>3. 1 \in 1 .. Len(inbox[c])
    BY <1>2
  <2> HIDE DEF Inv, Relay, q
  <2>4. inbox[c][1].exchange = Watched[c]
    BY <2>2, <2>3
  <2> QED BY <2>1, <2>4, <1>2
<1>4. inbox' \in [Client -> Seq(Quote)]
  BY <1>2 DEF ApiTypeOK
<1>5. ASSUME NEW d \in Client
      PROVE  \A n \in 1 .. Len(inbox'[d]) : inbox'[d][n].exchange = Watched[d]
  <2>1. \A n \in 1 .. Len(inbox[d]) : inbox[d][n].exchange = Watched[d]
    BY DEF OfItsVenue
  <2>2. CASE d = c
    <3>1. inbox'[d] = Tail(inbox[c])
      BY <2>2 DEF ApiTypeOK
    <3>2. ASSUME NEW n \in 1 .. Len(Tail(inbox[c]))
          PROVE  n + 1 \in 1 .. Len(inbox[c])
      BY <1>2
    <3> QED BY <1>2, <2>1, <2>2, <3>1, <3>2
  <2>3. CASE d # c
    <3>1. inbox'[d] = inbox[d]
      BY <2>3 DEF ApiTypeOK
    <3> QED BY <2>1, <3>1
  <2> QED BY <2>2, <2>3
<1>6. OfItsVenue'
  BY <1>5 DEF OfItsVenue
<1>7. AnswersAreFree' /\ PriceBounded' /\ AdaptersClassify'
  BY DEF AnswersAreFree, PriceBounded, AdaptersClassify
<1>8. CASE Relayed(q)
  <2>1. q.delay \in Free
    BY <1>3, <1>8, RelayedIsFree
  <2>2. view' = [view EXCEPT ![c][q.instrument] = q] /\ heard' = [heard EXCEPT ![c] = @ \union {q.instrument}]
    BY <1>8
  <2> HIDE DEF q
  <2>3. /\ view' \in [Client -> [Instrument -> Quote \union {None}]]
        /\ heard' \in [Client -> SUBSET Instrument]
    BY <1>2, <1>3, <2>2 DEF ApiTypeOK
  <2>4. ApiTypeOK'
    BY <1>4, <2>3 DEF ApiTypeOK
  <2>5. \A d \in Client, i \in Instrument :
          view'[d][i] = IF d = c /\ i = q.instrument THEN q ELSE view[d][i]
    BY <1>3, <2>2 DEF ApiTypeOK
  <2>6. EgressIsFiltered'
    <3>1. EgressIsFiltered
      OBVIOUS
    <3> HIDE DEF Inv, Relay
    <3>2. ASSUME NEW d \in Client, NEW i \in Instrument, view'[d][i] # None
          PROVE  view'[d][i].delay \in Free /\ view'[d][i].exchange = Watched[d]
      <4>1. CASE d = c /\ i = q.instrument
        BY <1>3, <2>1, <2>5, <4>1
      <4>2. CASE ~(d = c /\ i = q.instrument)
        BY <2>5, <3>1, <3>2, <4>2 DEF EgressIsFiltered, Free
      <4> QED BY <4>1, <4>2
    <3> QED BY <3>2 DEF EgressIsFiltered, Free
  <2> QED BY <1>6, <1>7, <2>4, <2>6
<1>9. CASE ~Relayed(q)
  <2>1. UNCHANGED <<view, heard>>
    BY <1>9
  <2>2. ApiTypeOK'
    BY <1>4, <2>1 DEF ApiTypeOK
  <2>3. EgressIsFiltered'
    BY <2>1 DEF EgressIsFiltered
  <2> QED BY <1>6, <1>7, <2>2, <2>3
<1> QED BY <1>8, <1>9

LEMMA StepInv ==
  ASSUME Inv, [Next]_vars
  PROVE  Inv'
<1>1. CASE Tick
  BY <1>1, TickInv
<1>2. CASE \E i \in Instrument : Trade(i)
  BY <1>2, TradeInv
<1>3. CASE \E v \in Exchange : IngestStep(v)
  BY <1>3, PollInv, PublishInv DEF IngestStep, Board
<1>4. ASSUME NEW c \in Client,
             ClientStep(c) \/ AnswerStep(c) \/ Relay(c) \/ SourceFails(c) \/ Disconnect(c)
      PROVE  Inv'
  <2>1. CASE ClientStep(c)
    BY <2>1, AskInv, TakeInv, SubscribeInv DEF ClientStep
  <2>2. CASE AnswerStep(c)
    BY <2>2, RefusalInv, SourceReadsInv, RespondInv DEF AnswerStep
  <2>3. CASE Relay(c) \/ SourceFails(c) \/ Disconnect(c)
    BY <2>3, RelayInv, RefusalInv, DisconnectInv
  <2> QED BY <1>4, <2>1, <2>2, <2>3
<1>5. CASE UNCHANGED vars
  BY <1>5 DEF Inv, vars, worldVars, bootVars, ingestVars, clientVars, ApiTypeOK, PriceBounded,
              AdaptersClassify, OfItsVenue, AnswersAreFree, EgressIsFiltered, IsRequest
<1> QED BY <1>1, <1>2, <1>3, <1>4, <1>5 DEF Next

LEMMA InvAlways == Spec => []Inv
<1>1. Init => Inv
  BY InitInv
<1>2. Inv /\ [Next]_vars => Inv'
  BY StepInv
<1> QED BY <1>1, <1>2, PTL DEF Spec

----
(* What an answer tells of what it leaves out. *)

\* One member for each instrument of the venue, and no other.
Whole(S, v) ==
  /\ \A x \in S : x.instrument \in Board(v)
  /\ \A i \in Board(v) : \E x \in S : x.instrument = i
  /\ \A x, y \in S : x.instrument = y.instrument => x = y

\* What WithheldIsTold says of one answer about a venue.
Accounts(ans, v) ==
  /\ ans.status = 200 => Cardinality(ans.quotes) + ans.withheld.count = Cardinality(Board(v))
  /\ ans.out # {}
       => \E d \in ans.withheld.requires :
            Kept(ans.out, [maxDelayClass |-> d, exchanges |-> EveryVenue]) = ans.out

\* Sources send whole boards, so every answer can be accounted for.
Told ==
  /\ \A c \in Client : request[c].phase = "read" => Whole(request[c].rows, Watched[c])
  /\ \A c \in Client : request[c].phase = "answered" => Accounts(request[c], Watched[c])

\* A whole set is as large as the board.
LEMMA WholeIsCounted ==
  ASSUME NEW S, NEW v, Whole(S, v)
  PROVE  IsFiniteSet(S) /\ Cardinality(S) = Cardinality(Board(v))
<1> DEFINE of == [i \in Board(v) |-> CHOOSE x \in S : x.instrument = i]
<1>1. IsFiniteSet(Board(v))
  <2>1. Board(v) \in SUBSET Instrument
    BY DEF Board
  <2> QED BY <2>1, FS_Subset
<1>2. \A i \in Board(v) : of[i] \in S /\ of[i].instrument = i
  BY DEF Whole
<1>3. \A x \in S : x.instrument \in Board(v) /\ of[x.instrument] = x
  BY <1>2 DEF Whole
<1>4. of \in [Board(v) -> S]
  BY <1>2
<1> HIDE DEF of
<1>5. of \in Injection(Board(v), S)
  BY <1>2, <1>4 DEF Injection, IsInjective
<1>6. of \in Surjection(Board(v), S)
  BY <1>3, <1>4 DEF Surjection
<1>7. ExistsBijection(Board(v), S)
  BY <1>5, <1>6 DEF Bijection, ExistsBijection
<1> QED BY <1>1, <1>7, FS_Bijection

\* The class named is one of those withheld and no laxer than any of them.
LEMMA StrictestIsFirst ==
  ASSUME NEW classes \in SUBSET {"realtime", "delayed"}, classes # {}
  PROVE  /\ Strictest(classes) \in classes
         /\ \A e \in classes : Permits(Strictest(classes), e)
<1>1. \E d \in classes : \A e \in classes : Rank[d] <= Rank[e]
  <2>1. CASE "realtime" \in classes
    <3>1. \A e \in classes : Rank["realtime"] <= Rank[e]
      BY DEF Rank
    <3> QED BY <2>1, <3>1
  <2>2. CASE "realtime" \notin classes
    <3>1. classes = {"delayed"}
      BY <2>2
    <3>2. \A e \in classes : Rank["delayed"] <= Rank[e]
      BY <3>1 DEF Rank
    <3> QED BY <3>1, <3>2
  <2> QED BY <2>1, <2>2
<1> DEFINE d == Strictest(classes)
<1>2. d \in classes /\ \A e \in classes : Rank[d] <= Rank[e]
  BY <1>1 DEF Strictest
<1> HIDE DEF d
<1>3. ASSUME NEW e \in classes
      PROVE  Permits(d, e)
  BY <1>2 DEF Permits, Rank
<1> QED BY <1>2, <1>3 DEF d

\* A key of every venue with the class named is served what was left out.
LEMMA NamedClassServes ==
  ASSUME NEW out \in SUBSET Quote, out # {},
         \A q \in out : ~Allowed(q, NoKey)
  PROVE  LET d == Strictest({q.delay : q \in out})
         IN  Kept(out, [maxDelayClass |-> d, exchanges |-> EveryVenue]) = out
<1> DEFINE classes == {q.delay : q \in out}
           d == Strictest(classes)
           key == [maxDelayClass |-> d, exchanges |-> EveryVenue]
<1>1. \A q \in out : q.delay \in {"realtime", "delayed"}
  <2>1. \A q \in out : q.delay \in DelayClass /\ q.delay \notin Free
    BY AnonymousIsFree DEF Quote
  <2> QED BY <2>1 DEF DelayClass, Free
<1>2. classes \in SUBSET {"realtime", "delayed"} /\ classes # {}
  BY <1>1
<1>3. \A q \in out : q.delay \in classes
  OBVIOUS
<1> HIDE DEF classes
<1>4. d \in classes /\ \A e \in classes : Permits(d, e)
  BY <1>2, StrictestIsFirst
<1>5. d \in {"realtime", "delayed"}
  BY <1>2, <1>4
<1> HIDE DEF d
<1>6. key # NoKey
  <2>1. key \in ApiKey
    BY <1>5 DEF ApiKey, DelayClass
  <2> QED BY <2>1, KeyAssumption
<1>7. \A q \in out : Allowed(q, key)
  BY <1>3, <1>4, <1>6 DEF Allowed, MayReceive
<1>8. Kept(out, key) = out
  BY <1>7 DEF Kept
<1> QED BY <1>8 DEF d, classes

\* An answer made of a whole board accounts for it.
LEMMA AnswersAccount ==
  ASSUME NEW quotes \in SUBSET Quote, NEW v, Whole(quotes, v)
  PROVE  Accounts(AnswerWith(quotes), v)
<1> DEFINE kept == Kept(quotes, NoKey)
           out == quotes \ kept
<1>1. IsFiniteSet(quotes) /\ Cardinality(quotes) = Cardinality(Board(v))
  BY WholeIsCounted
<1>2. kept \in SUBSET quotes /\ \A q \in quotes : q \in kept <=> Allowed(q, NoKey)
  BY DEF Kept
<1>3. /\ AnswerWith(quotes).quotes = kept
      /\ AnswerWith(quotes).out = out
      /\ AnswerWith(quotes).withheld.count = Cardinality(out)
      /\ out # {} => AnswerWith(quotes).withheld.requires = {Strictest({q.delay : q \in out})}
  <2>1. /\ AnswerWith(quotes).quotes = kept
        /\ AnswerWith(quotes).out = out
        /\ AnswerWith(quotes).withheld = Withheld(quotes, NoKey)
    BY DEF AnswerWith
  <2>2. /\ Withheld(quotes, NoKey).count = Cardinality(out)
        /\ out # {} => Withheld(quotes, NoKey).requires = {Strictest({q.delay : q \in out})}
    BY DEF Withheld
  <2> HIDE DEF out
  <2> QED BY <2>1, <2>2
<1>4. out \in SUBSET Quote /\ \A q \in out : ~Allowed(q, NoKey)
  BY <1>2
<1> HIDE DEF kept
<1>5. Cardinality(kept) + Cardinality(out) = Cardinality(Board(v))
  <2>1. quotes \intersect kept = kept
    BY <1>2
  <2>2. Cardinality(quotes \ kept) = Cardinality(quotes) - Cardinality(quotes \intersect kept)
    BY <1>1, FS_Difference
  <2>3. IsFiniteSet(kept)
    BY <1>1, <1>2, FS_Subset
  <2>4. Cardinality(kept) \in Nat /\ Cardinality(quotes) \in Nat
    BY <1>1, <2>3, FS_CardinalityType
  <2> HIDE DEF out
  <2>5. Cardinality(out) = Cardinality(quotes) - Cardinality(kept)
    BY <2>1, <2>2 DEF out
  <2> QED BY <1>1, <2>4, <2>5
<1> HIDE DEF out
<1>6. out # {} => Kept(out, [maxDelayClass |-> Strictest({q.delay : q \in out}),
                             exchanges |-> EveryVenue]) = out
  BY <1>4, NamedClassServes
<1> HIDE DEF AnswerWith
<1> QED BY <1>3, <1>5, <1>6 DEF Accounts

\* A refusal leaves nothing out, and promises no board.
LEMMA RefusalsAccount ==
  ASSUME NEW status \in {501, 502}, NEW v
  PROVE  Accounts(Refusal(status), v)
BY DEF Accounts, Refusal

\* Requests that change one at a time to what is accounted for stay told.
LEMMA RequestTold ==
  ASSUME Inv, Told, NEW c \in Client, NEW r,
         request' = [request EXCEPT ![c] = r],
         r.phase = "read" => Whole(r.rows, Watched[c]),
         r.phase = "answered" => Accounts(r, Watched[c])
  PROVE  Told'
<1>1. \A d \in Client : request'[d] = IF d = c THEN r ELSE request[d]
  BY DEF Inv, OfItsVenue
<1> QED BY <1>1 DEF Told

\* Requests that do not change stay told.
LEMMA SameTold ==
  ASSUME Told, UNCHANGED request
  PROVE  Told'
BY DEF Told

\* The board a source sends is whole.
LEMMA SourceReadsTold ==
  ASSUME Inv, Told, NEW c \in Client, SourceReads(c)
  PROVE  Told'
<1>1. PICK a \in Preferred(registry, Watched[c]) :
        request' = [request EXCEPT ![c] =
                      [phase |-> "read", rows |-> {RowOf(a, i) : i \in Board(Watched[c])}]]
  BY DEF SourceReads
<1> DEFINE rows == {RowOf(a, i) : i \in Board(Watched[c])}
           r == [phase |-> "read", rows |-> rows]
<1>2. \A i \in Board(Watched[c]) : RowOf(a, i).instrument = i
  BY DEF RowOf
<1>3. Whole(rows, Watched[c])
  BY <1>2 DEF Whole
<1>4. r.phase = "read" /\ r.rows = rows
  OBVIOUS
<1>5. request' = [request EXCEPT ![c] = r]
  BY <1>1
<1> HIDE DEF rows, r
<1> QED BY <1>3, <1>4, <1>5, RequestTold

\* The quotes an adapter makes of a whole board are a whole board.
LEMMA RespondTold ==
  ASSUME Inv, Told, NEW c \in Client, Respond(c)
  PROVE  Told'
<1>1. PICK a \in Preferred(registry, Watched[c]) :
        request' = [request EXCEPT ![c] = AnswerWith({ToQuote(a, row) : row \in request[c].rows})]
  BY DEF Respond
<1> DEFINE quotes == {ToQuote(a, row) : row \in request[c].rows}
<1>2. Whole(request[c].rows, Watched[c]) /\ request[c].rows \subseteq Row
  <2>1. IsRequest(request[c]) /\ request[c].phase = "read"
    BY DEF Inv, ApiTypeOK, Respond
  <2> QED BY <2>1 DEF IsRequest, Idle, Sent, Told
<1>3. quotes \in SUBSET Quote
  <2>1. a.delay \in [Instrument -> DelayClass]
    BY DEF Inv, AdaptersClassify
  <2> QED BY <1>2, <2>1, QuotesAreQuotes DEF Inv
<1>4. \A row \in request[c].rows : ToQuote(a, row).instrument = row.instrument
  BY DEF ToQuote
<1>5. Whole(quotes, Watched[c])
  BY <1>2, <1>4 DEF Whole
<1> HIDE DEF quotes
<1>6. Accounts(AnswerWith(quotes), Watched[c])
  BY <1>3, <1>5, AnswersAccount
<1>7. AnswerWith(quotes).phase = "answered"
  BY DEF AnswerWith
<1>8. request' = [request EXCEPT ![c] = AnswerWith(quotes)]
  BY <1>1 DEF quotes
<1> QED BY <1>6, <1>7, <1>8, RequestTold

\* Whatever else a client or its answer does, the request becomes idle, sent
\* or a refusal.
LEMMA ClientTold ==
  ASSUME Inv, Told, NEW c \in Client,
         ClientStep(c) \/ NoSource(c) \/ SourceFails(c) \/ Relay(c) \/ Disconnect(c)
  PROVE  Told'
<1>1. CASE Ask(c)
  <2>1. Sent.phase = "sent" /\ request' = [request EXCEPT ![c] = Sent]
    BY <1>1 DEF Sent, Ask
  <2> QED BY <2>1, RequestTold
<1>2. CASE Take(c) \/ Disconnect(c)
  <2>1. Idle.phase = "idle" /\ request' = [request EXCEPT ![c] = Idle]
    BY <1>2 DEF Idle, Take, Disconnect
  <2> QED BY <2>1, RequestTold
<1>3. CASE NoSource(c) \/ SourceFails(c)
  <2>1. PICK status \in {501, 502} : request' = [request EXCEPT ![c] = Refusal(status)]
    BY <1>3 DEF NoSource, SourceFails
  <2>2. Accounts(Refusal(status), Watched[c]) /\ Refusal(status).phase = "answered"
    BY RefusalsAccount, RefusalsAreAnswers
  <2> QED BY <2>1, <2>2, RequestTold
<1>4. CASE Subscribe(c) \/ Relay(c)
  BY <1>4, SameTold DEF Subscribe, Relay
<1> QED BY <1>1, <1>2, <1>3, <1>4 DEF ClientStep

LEMMA ToldStep ==
  ASSUME Inv, Told, [Next]_vars
  PROVE  Told'
<1>1. CASE Tick \/ \E i \in Instrument : Trade(i)
  BY <1>1, SameTold DEF Tick, Trade
<1>2. CASE \E v \in Exchange : IngestStep(v)
  BY <1>2, SameTold DEF IngestStep, Poll, PublishQuote
<1>3. ASSUME NEW c \in Client,
             ClientStep(c) \/ AnswerStep(c) \/ Relay(c) \/ SourceFails(c) \/ Disconnect(c)
      PROVE  Told'
  BY <1>3, ClientTold, SourceReadsTold, RespondTold DEF AnswerStep
<1>4. CASE UNCHANGED vars
  BY <1>4, SameTold DEF vars
<1> QED BY <1>1, <1>2, <1>3, <1>4 DEF Next

----
(* The theorems. *)

\* The state of the composition keeps its types: every request is idle, on its
\* way or answered with a legal status, session and quotes (routes.rs).
THEOREM ApiTypeCorrect == Spec => []ApiTypeOK
<1>1. Inv => ApiTypeOK
  BY DEF Inv
<1> QED BY <1>1, InvAlways, PTL

\* Whatever adapters are registered on either side, whatever is published,
\* lost, asked for again or relayed, an anonymous client sees nothing licensed
\* above end-of-day and nothing of another venue (routes.rs, entitlement.rs).
THEOREM EgressFiltered == Spec => []EgressIsFiltered
<1>1. Inv => EgressIsFiltered
  BY DEF Inv
<1> QED BY <1>1, InvAlways, PTL

\* Every answer accounts for the whole board of its venue, served and withheld,
\* and the class it names is one that would have sufficed for what it withheld,
\* whatever the boards, the adapters and their classes (routes.rs,
\* entitlement.rs).
THEOREM AnswersTellWhatIsWithheld == Spec => []WithheldIsTold
<1>1. Init => Told
  BY DEF Init, Told, Idle
<1>2. Inv /\ Told /\ [Next]_vars => Told'
  BY ToldStep
<1>3. Told => WithheldIsTold
  BY DEF Told, Accounts, WithheldIsTold
<1> QED BY <1>1, <1>2, <1>3, InvAlways, PTL DEF Spec
====
