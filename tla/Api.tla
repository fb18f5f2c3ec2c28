---- MODULE Api ----
(***************************************************************************)
(* The HTTP surface, crates/amd-api/src/routes.rs, between the sources,    *)
(* the ingestor that publishes what moved, the bus that carries it, and    *)
(* clients that want a board and then every change of it.                  *)
(*                                                                         *)
(* GET quotes asks the preferred source of the venue and annotates what    *)
(* it may serve; GET stream relays the live events of the venue.  Both run *)
(* to their next await.  Of the ingestor there is the part that decides    *)
(* what reaches the bus (Ingestor has the rest).  The sources, NATS and    *)
(* the clients are external: a client first subscribes, then takes the     *)
(* board, and lets the stream prevail over it ("a fresh snapshot [...]     *)
(* plus the live stream", crates/amd-bus/src/lib.rs).                      *)
(***************************************************************************)
EXTENDS Entitlement, Calendar, Subjects, AdapterRegistry

CONSTANTS
  Client,         \* anonymous callers: no route resolves a key
  Watched,        \* the venue each client is interested in
  Instrument,     \* records of an exchange and a symbol
  Registrations,  \* the adapters a deployment may register, in order
  StaleAfter,     \* the stale_after of the queries, in minutes here
  MaxTime,        \* bound: the minute at which time ends
  MaxPrints,      \* bound: the trades the sources print; prices count up
  MaxFaults,      \* bound: requests and deliveries that fail, streams that break
  None            \* the absent value of an Option

ASSUME WatchedAssumption == Watched \in [Client -> Exchange]
ASSUME InstrumentAssumption ==
  /\ IsFiniteSet(Instrument)
  /\ \A i \in Instrument : i.exchange \in Exchange /\ i.symbol \in Seq(STRING)
ASSUME CodeAssumption == "*" \notin Exchange
ASSUME AdaptersAssumption ==
  \A r \in Registrations, v \in Exchange : \A a \in Preferred(Registered(r), v) :
    a.delay \in [Instrument -> DelayClass]
ASSUME ApiBoundsAssumption ==
  {StaleAfter, MaxTime, MaxPrints, MaxFaults} \subseteq Nat

VARIABLES
  clock,      \* the time, in minutes
  price,      \* the sources: the price of each instrument
  printedAt,  \* the sources: when it was printed
  registry,   \* API: its adapters
  bus,        \* API: whether it found the event bus when it started
  inbox,      \* API: the events each client's subscription has not read yet
  request,    \* API: where each client's request for quotes is
  feed,       \* ingestor: its adapters
  baseline,   \* ingestor: the price last seen of each instrument, or None
  fetched,    \* ingestor: the quotes of this poll still to be published, or None
  conn,       \* client: no stream, a live one, or one and the board under it
  heard,      \* client: the instruments the live stream has spoken of
  view,       \* client: the quote it shows of each instrument, or None
  lost,       \* history: instruments of which the live stream lost the last event
  budget      \* what is left of the bounds

worldVars == <<clock, price, printedAt>>
bootVars == <<registry, bus, feed>>
ingestVars == <<baseline, fetched>>
clientVars == <<conn, heard, view>>
vars == <<worldVars, bootVars, inbox, request, ingestVars, clientVars, lost, budget>>

Quote == [instrument : Instrument, exchange : Exchange, price : 0 .. MaxPrints,
          asOf : 0 .. MaxTime, delay : DelayClass]

Idle == [phase |-> "idle"]
Sent == [phase |-> "sent"]

\* The rows a source answered with; a row without a timestamp has None.
Row == [instrument : Instrument, price : 0 .. MaxPrints, stamp : 0 .. MaxTime \union {None}]

IsRequest(r) ==
  \/ r \in {Idle, Sent}
  \/ r.phase = "read" /\ r.rows \subseteq Row
  \/ /\ r.phase = "answered"
     /\ r.status \in {200, 501, 502}
     /\ r.quotes \subseteq Quote /\ r.out \subseteq Quote
     /\ r.stale \subseteq Instrument
     /\ r.session \in SessionState

ApiTypeOK ==
  /\ clock \in 0 .. MaxTime
  /\ price \in [Instrument -> 0 .. MaxPrints]
  /\ printedAt \in [Instrument -> 0 .. MaxTime]
  /\ bus \in BOOLEAN
  /\ inbox \in [Client -> Seq(Quote)]
  /\ \A c \in Client : IsRequest(request[c])
  /\ baseline \in [Instrument -> 0 .. MaxPrints \union {None}]
  /\ fetched \in [Instrument -> Quote \union {None}]
  /\ conn \in [Client -> {"off", "live", "shown"}]
  /\ heard \in [Client -> SUBSET Instrument]
  /\ view \in [Client -> [Instrument -> Quote \union {None}]]
  /\ lost \in [Client -> SUBSET Instrument]
  /\ budget \in [{"prints", "faults"} -> Nat]

Init ==
  /\ clock = 0
  /\ price = [i \in Instrument |-> 0]
  /\ printedAt = [i \in Instrument |-> 0]
  /\ registry \in {Registered(r) : r \in Registrations}
  /\ feed \in {Registered(r) : r \in Registrations}
  /\ bus \in BOOLEAN
  /\ inbox = [c \in Client |-> <<>>]
  /\ request = [c \in Client |-> Idle]
  /\ baseline = [i \in Instrument |-> None]
  /\ fetched = [i \in Instrument |-> None]
  /\ conn = [c \in Client |-> "off"]
  /\ heard = [c \in Client |-> {}]
  /\ view = [c \in Client |-> [i \in Instrument |-> None]]
  /\ lost = [c \in Client |-> {}]
  /\ budget = [prints |-> MaxPrints, faults |-> MaxFaults]

Spend(bound) ==
  /\ budget[bound] > 0
  /\ budget' = [budget EXCEPT ![bound] = @ - 1]

\* The instruments of a venue.
Board(v) == {i \in Instrument : i.exchange = v}

----
(* The world. *)

Tick ==
  /\ clock < MaxTime
  /\ clock' = clock + 1
  /\ UNCHANGED <<price, printedAt, bootVars, inbox, request, ingestVars, clientVars, lost, budget>>

Trade(i) ==
  /\ Spend("prints")
  /\ price' = [price EXCEPT ![i] = @ + 1]
  /\ printedAt' = [printedAt EXCEPT ![i] = clock]
  /\ UNCHANGED <<clock, bootVars, inbox, request, ingestVars, clientVars, lost>>

\* The time a source puts on its row, if it puts any.
Stamp(a, i) == IF a.timestamps THEN printedAt[i] ELSE None

\* Mutant: a quote without a timestamp goes out without one.
ToQuoteUnstamped(a, row) ==
  [instrument |-> row.instrument, exchange |-> row.instrument.exchange, price |-> row.price,
   asOf |-> row.stamp, delay |-> a.delay[row.instrument]]

\* What an adapter makes of a row it receives now: Provenance::stamped or,
\* for a source without timestamps, Provenance::imputed.
ToQuote(a, row) ==
  [instrument |-> row.instrument, exchange |-> row.instrument.exchange, price |-> row.price,
   asOf |-> IF row.stamp = None THEN clock ELSE row.stamp,
   delay |-> a.delay[row.instrument]]

RowOf(a, i) == [instrument |-> i, price |-> price[i], stamp |-> Stamp(a, i)]

----
(* The ingestor. *)

\* A poll of a venue that is open finds what moved since the baseline.
Poll(v) ==
  /\ bus
  /\ SessionStateAt(clock) = "open"
  /\ \A i \in Board(v) : fetched[i] = None
  /\ \E i \in Board(v) : baseline[i] # price[i]
  /\ \E a \in Preferred(feed, v) :
       fetched' = [i \in Instrument |->
                     IF i \in Board(v) /\ baseline[i] # price[i]
                       THEN ToQuote(a, RowOf(a, i))
                       ELSE fetched[i]]
  /\ UNCHANGED <<worldVars, bootVars, inbox, request, baseline, clientVars, lost, budget>>

\* Mutant: the subscription is to the subject of the venue, not to those below.
SubscribersOfVenue(i) ==
  {c \in Client :
     /\ conn[c] # "off"
     /\ Matches(ForVenue(Watched[c], "quote"), ForInstrument(i.exchange, i.symbol, "quote"))}

\* The streams whose subscription matches the subject of the event.
Subscribers(i) ==
  {c \in Client :
     /\ conn[c] # "off"
     /\ Matches(KindWildcard(Watched[c], "quote"), ForInstrument(i.exchange, i.symbol, "quote"))}

\* Bus::publish of a quote that moved.  The publish may fail, and core NATS
\* drops what a slow subscription does not take.
PublishQuote(i) ==
  /\ fetched[i] # None
  /\ baseline' = [baseline EXCEPT ![i] = fetched[i].price]
  /\ fetched' = [fetched EXCEPT ![i] = None]
  /\ \E got \in SUBSET Subscribers(i) :
       /\ IF got = Subscribers(i) THEN UNCHANGED budget ELSE Spend("faults")
       /\ inbox' = [c \in Client |-> IF c \in got THEN Append(inbox[c], fetched[i]) ELSE inbox[c]]
       /\ lost' = [c \in Client |->
                     IF c \in got THEN lost[c] \ {i}
                     ELSE IF c \in Subscribers(i) THEN lost[c] \union {i}
                     ELSE lost[c]]
  /\ UNCHANGED <<worldVars, bootVars, request, clientVars>>

----
(* GET /v1/exchanges/{code}/quotes. *)

\* The client wants one board for each stream it opens, and where there are no
\* streams it polls ("poll /quotes instead").
Ask(c) ==
  /\ request[c] = Idle
  /\ conn[c] = "live" \/ ~bus
  /\ request' = [request EXCEPT ![c] = Sent]
  /\ UNCHANGED <<worldVars, bootVars, inbox, ingestVars, clientVars, lost, budget>>

Refusal(status) ==
  [phase |-> "answered", status |-> status, quotes |-> {}, out |-> {}, stale |-> {},
   withheld |-> Withheld({}, NoKey), session |-> "closed"]

NoSource(c) ==
  /\ request[c] = Sent
  /\ Preferred(registry, Watched[c]) = {}
  /\ request' = [request EXCEPT ![c] = Refusal(501)]
  /\ UNCHANGED <<worldVars, bootVars, inbox, ingestVars, clientVars, lost, budget>>

SourceFails(c) ==
  /\ request[c] = Sent
  /\ Preferred(registry, Watched[c]) # {}
  /\ Spend("faults")
  /\ request' = [request EXCEPT ![c] = Refusal(502)]
  /\ UNCHANGED <<worldVars, bootVars, inbox, ingestVars, clientVars, lost>>

\* The source reads its board; the answer is on its way to the adapter.
SourceReads(c) ==
  /\ request[c] = Sent
  /\ \E a \in Preferred(registry, Watched[c]) :
       request' = [request EXCEPT ![c] =
                     [phase |-> "read", rows |-> {RowOf(a, i) : i \in Board(Watched[c])}]]
  /\ UNCHANGED <<worldVars, bootVars, inbox, ingestVars, clientVars, lost, budget>>

\* A quote that aged while the venue is open.
IsStale(q) == SessionStateAt(clock) = "open" /\ clock - q.asOf > StaleAfter

\* What list_quotes makes of the quotes of the board.
AnswerWith(quotes) ==
  [phase |-> "answered", status |-> 200,
   quotes |-> Kept(quotes, NoKey), out |-> quotes \ Kept(quotes, NoKey),
   stale |-> {q.instrument : q \in {p \in Kept(quotes, NoKey) : IsStale(p)}},
   withheld |-> Withheld(quotes, NoKey),
   session |-> SessionStateAt(clock)]

\* The adapter receives the board; no await separates the quotes it makes of
\* it from the answer to the client.
Respond(c) ==
  /\ request[c].phase = "read"
  /\ \E a \in Preferred(registry, Watched[c]) :
       request' = [request EXCEPT ![c] = AnswerWith({ToQuote(a, row) : row \in @.rows})]
  /\ UNCHANGED <<worldVars, bootVars, inbox, ingestVars, clientVars, lost, budget>>

\* The client shows the board, but for what the live stream has spoken of.  If
\* the answer is a refusal it asks again.
Take(c) ==
  /\ request[c].phase = "answered"
  /\ view' = [view EXCEPT ![c] = [i \in Instrument |->
                 IF i \notin heard[c] /\ \E q \in request[c].quotes : q.instrument = i
                   THEN CHOOSE q \in request[c].quotes : q.instrument = i
                   ELSE @[i]]]
  /\ conn' = [conn EXCEPT ![c] = IF @ = "live" /\ request[c].status = 200 THEN "shown" ELSE @]
  /\ request' = [request EXCEPT ![c] = Idle]
  /\ UNCHANGED <<worldVars, bootVars, inbox, ingestVars, heard, lost, budget>>

----
(* GET /v1/exchanges/{code}/stream. *)

\* Without the bus the request is refused.
Subscribe(c) ==
  /\ bus
  /\ conn[c] = "off"
  /\ conn' = [conn EXCEPT ![c] = "live"]
  /\ UNCHANGED <<worldVars, bootVars, inbox, request, ingestVars, heard, view, lost, budget>>

\* Mutant: a quote is relayed whatever its class.
RelayAll(q) == TRUE

\* "Entitlement filtering applies to the stream exactly as it does to the
\* snapshot endpoint".
Relayed(q) == ~(q.delay # "unknown" /\ ~Permits(AnonymousMax, q.delay))

\* The stream reads the next event of its subscription and relays it or not.
Relay(c) ==
  /\ inbox[c] # <<>>
  /\ inbox' = [inbox EXCEPT ![c] = Tail(@)]
  /\ LET q == Head(inbox[c])
     IN  IF Relayed(q)
           THEN /\ view' = [view EXCEPT ![c][q.instrument] = q]
                /\ heard' = [heard EXCEPT ![c] = @ \union {q.instrument}]
           ELSE UNCHANGED <<view, heard>>
  /\ UNCHANGED <<worldVars, bootVars, request, ingestVars, conn, lost, budget>>

\* The connection breaks: the subscription goes with it, and the client gives
\* up the request it has in flight.
Disconnect(c) ==
  /\ conn[c] # "off"
  /\ Spend("faults")
  /\ conn' = [conn EXCEPT ![c] = "off"]
  /\ inbox' = [inbox EXCEPT ![c] = <<>>]
  /\ request' = [request EXCEPT ![c] = Idle]
  /\ heard' = [heard EXCEPT ![c] = {}]
  /\ lost' = [lost EXCEPT ![c] = {}]
  /\ UNCHANGED <<worldVars, bootVars, ingestVars, view>>

----
ClientStep(c) == Ask(c) \/ Take(c) \/ Subscribe(c)
AnswerStep(c) == NoSource(c) \/ SourceReads(c) \/ Respond(c)
IngestStep(v) == Poll(v) \/ \E i \in Board(v) : PublishQuote(i)

Next ==
  \/ Tick
  \/ \E i \in Instrument : Trade(i)
  \/ \E v \in Exchange : IngestStep(v)
  \/ \E c \in Client : ClientStep(c) \/ AnswerStep(c) \/ Relay(c) \/ SourceFails(c) \/ Disconnect(c)

Spec == Init /\ [][Next]_vars

\* Every task goes on: the loop of a venue, the answer to a request, a stream
\* and a client.  Timers fire, sources answer, and what is sent arrives.
FairSpec ==
  /\ Spec
  /\ \A v \in Exchange : WF_vars(IngestStep(v))
  /\ \A c \in Client : WF_vars(AnswerStep(c)) /\ WF_vars(Relay(c)) /\ WF_vars(ClientStep(c))

----
(* Properties. *)

\* Nothing licensed above end-of-day, and nothing of another venue, reaches an
\* anonymous client, by the snapshot or by the stream ("a subscription is not
\* a way around it"), whichever adapters serve the two.
EgressIsFiltered ==
  \A c \in Client, i \in Instrument : view[c][i] # None =>
    /\ view[c][i].delay \in {"eod", "unknown"}
    /\ view[c][i].exchange = Watched[c]

\* An answer accounts for every quote of the board, and the class it names is
\* one with which a key of every venue would have been served what it left
\* out ("the strictest class the caller would have needed").
WithheldIsTold ==
  \A c \in Client : request[c].phase = "answered" =>
    LET ans == request[c]
    IN  /\ ans.status = 200
             => Cardinality(ans.quotes) + ans.withheld.count = Cardinality(Board(Watched[c]))
        /\ ans.out # {}
             => \E d \in ans.withheld.requires :
                  Kept(ans.out, [maxDelayClass |-> d, exchanges |-> EveryVenue]) = ans.out

\* Whether a deployment serves an anonymous client the instrument.
Serves(reg, i) ==
  \E a \in Preferred(reg, i.exchange) : a.delay[i] \in {"eod", "unknown"}

\* A price that stays while the venue is open is in the end what a client
\* shows that stays on the stream, or polls where there is none, wherever the
\* board it took falls between two publications: unless the event was lost,
\* since a price that does not move is not published again.
SubscriberCatchesUp ==
  \A c \in Client : \A i \in Board(Watched[c]), p \in 0 .. MaxPrints :
    (Serves(registry, i) /\ Serves(feed, i)) =>
      (<>[](price[i] = p /\ (conn[c] # "off" \/ ~bus) /\ SessionStateAt(clock) = "open")
         => <>[](i \in lost[c] \/ (view[c][i] # None /\ view[c][i].price = p)))

====
