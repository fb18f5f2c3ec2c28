---- MODULE SdkClient ----
(***************************************************************************)
(* The kwayisi adapters of the services (crates/amd-adapters/src/          *)
(* kwayisi.rs) and of the SDK (adapters/kwayisi.ts), on a board the source *)
(* may send, and the annotation of a quote by the SDK's client and by      *)
(* routes.rs.  A board is a sequence of rows, each with the ticker the     *)
(* source gives; the change of a row is a set, empty when the row has      *)
(* none.  The quotes are a function of the rows that are asked for.        *)
(***************************************************************************)
EXTENDS SdkMoney, Venues, InstrumentId

CONSTANTS
  ServiceScale,  \* DEFAULT_SCALE, 8
  SdkScale       \* SCALE of the SDK's adapter, 4

ASSUME SdkScaleAssumption == ServiceScale \in Scale /\ SdkScale \in 0 .. ServiceScale

Zero == [neg |-> FALSE, digits |-> 0, frac |-> 0]

\* The rows of a board that are asked for: their tickers are compared in
\* capitals, by both.
Asked(board, all, symbols) ==
  {n \in DOMAIN board : all \/ Upper(board[n].name) \in {Upper(s) : s \in symbols}}

\* The quotes a row may become; a change that is missing is zero.
RowQuotes(row) ==
  KwayisiQuote([price |-> row.price,
                change |-> IF row.change = {} THEN Zero ELSE CHOOSE d \in row.change : TRUE],
               "GHS", ServiceScale)

\* KwayisiAdapter::quotes, no symbols meaning all of them: for each row asked
\* for, the id of its instrument and the quotes it may become.  A row that
\* cannot be read refuses the board.
Quotes(board, symbols) ==
  LET asked == Asked(board, symbols = {}, symbols)
  IN  IF \E n \in asked : \E q \in RowQuotes(board[n]) : Failed(q) THEN Error("malformed")
      ELSE [quotes |-> [n \in asked |-> [id |-> Id("GSE", Upper(board[n].name)),
                                         prices |-> RowQuotes(board[n])]]]

SdkPreviousClose(last, change) == SdkSubtract(last, change)

\* fromJsonNumber of a finite number: what it may return.
SdkFromJsonNumber(d, currency, scale) ==
  {SdkParse(e, currency, scale) : e \in IF d.frac > scale THEN RoundedTo(d, scale) ELSE {d}}

SdkRowQuotes(row) ==
  {[last |-> last, previousClose |-> SdkPreviousClose(last, change)] :
     last \in SdkFromJsonNumber(row.price, "GHS", SdkScale),
     change \in UNION {SdkFromJsonNumber(d, "GHS", SdkScale) : d \in row.change}}

\* getQuotes: no list of symbols means all of them, an empty list none; the id
\* holds the ticker as the source gives it; a change that is missing is not a
\* number.
SdkQuotes(board, all, symbols) ==
  LET asked == Asked(board, all, symbols)
  IN  IF \E n \in asked : board[n].change = {} THEN Error("not a finite number")
      ELSE [quotes |-> [n \in asked |-> [id |-> [exchange |-> "GSE", symbol |-> board[n].name],
                                         prices |-> SdkRowQuotes(board[n])]]]

\* The state and the staleness told with a quote of this time, by routes.rs,
\* which reads the clock when the source has answered...
Annotated(v, answered, asOf, staleAfter) ==
  LET state == Schedule(v)!SessionStateAt(answered)
  IN  [session |-> state, stale |-> state = "open" /\ answered - asOf > staleAfter]

\* ... and by annotatedQuotes, which reads it before it asks.
SdkAnnotated(v, asked, asOf, staleAfter) ==
  LET state == SdkSessionState(v, asked)
  IN  [session |-> state, stale |-> state = "open" /\ asked - asOf > staleAfter]

----
\* Of one row the SDK makes the prices the services make, where the digits fit
\* its scale, and the nearest otherwise.
RowAgrees(row, q, r) ==
  LET Exact(d) == d.frac <= SdkScale IN
  /\ 2 * Abs(Wide(r.last) - Wide(q.last)) <= 2 * Pow10[MaxScale - SdkScale]
  /\ Exact(row.price) => Wide(r.last) = Wide(q.last)
  /\ Exact(row.price) /\ (\A d \in row.change : Exact(d)) /\ ~Failed(q.previousClose)
       => Wide(r.previousClose) = Wide(q.previousClose)

\* Both boards, the client asking for something.
Ours(board, symbols) == Quotes(board, symbols)
Theirs(board, symbols) == SdkQuotes(board, symbols = {}, symbols)
BothAnswer(board, symbols) == ~Failed(Ours(board, symbols)) /\ ~Failed(Theirs(board, symbols))

\* Where both answer they quote the same rows at the same prices, and the
\* services' InstrumentId makes the id it has of the ticker the SDK gives.
SdkBoardsAgree(board, symbols) ==
  LET ours == Ours(board, symbols).quotes
      theirs == Theirs(board, symbols).quotes
  IN  BothAnswer(board, symbols) =>
        /\ DOMAIN theirs = DOMAIN ours
        /\ \A n \in DOMAIN ours :
             /\ Id(theirs[n].id.exchange, theirs[n].id.symbol) = ours[n].id
             /\ \A q \in ours[n].prices, r \in theirs[n].prices : RowAgrees(board[n], q, r)

\* Where both answer, an instrument has one id.
TickersAgree(board, symbols) ==
  LET ours == Ours(board, symbols).quotes
      theirs == Theirs(board, symbols).quotes
  IN  BothAnswer(board, symbols) => \A n \in DOMAIN ours : theirs[n].id = ours[n].id

\* The SDK can read every board the services can read.
RefusesNoMore(board, symbols) == ~Failed(Ours(board, symbols)) => ~Failed(Theirs(board, symbols))

\* Where the two tables give a venue the same state when the SDK asks, it
\* tells what the services tell if the source answers at once; and if the
\* source makes it wait, a quote it calls stale is stale, or the venue has
\* closed.
SdkAnnotationsAgree(v, asked, wait, age, staleAfter) ==
  LET ours == Annotated(v, asked + wait, asked - age, staleAfter)
      theirs == SdkAnnotated(v, asked, asked - age, staleAfter)
  IN  SdkSessionState(v, asked) = Schedule(v)!SessionStateAt(asked) =>
        /\ wait = 0 => theirs = ours
        /\ theirs.stale => ours.stale \/ ours.session # "open"

\* The session that comes with a quote is the venue's when the quote comes.
SessionIsCurrent(v, asked, wait, age, staleAfter) ==
  SdkAnnotated(v, asked, asked - age, staleAfter).session = SdkSessionState(v, asked + wait)
====
