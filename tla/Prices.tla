---- MODULE Prices ----
(***************************************************************************)
(* Fixed-point money, crates/amd-core/src/money.rs, and the two places     *)
(* that depend on its arithmetic: what the kwayisi adapter makes of a row  *)
(* and how a quote becomes a row of the archive.  Decimal text is a record *)
(* of its sign, its digits as a number and how many follow the point.  An  *)
(* operation returns a price or, as the code does, an error.               *)
(***************************************************************************)
EXTENDS Integers

CONSTANTS
  Currency,   \* ISO codes
  MaxMinor,   \* the largest i128
  MaxChange,  \* the largest i64, of a change in basis points
  MaxScale    \* 18

ASSUME WidthAssumption == MaxMinor \in Nat \ {0} /\ MaxChange \in Nat
ASSUME ScaleAssumption == MaxScale \in Nat

Scale == 0 .. MaxScale
Fits(n) == -MaxMinor - 1 <= n /\ n <= MaxMinor
Price == [minor : -MaxMinor - 1 .. MaxMinor, scale : Scale, currency : Currency]
Decimal == [neg : BOOLEAN, digits : Nat, frac : Nat]

Pow10[n \in Nat] == IF n = 0 THEN 1 ELSE 10 * Pow10[n - 1]

Error(kind) == [error |-> kind]
Failed(result) == "error" \in DOMAIN result

Abs(n) == IF n < 0 THEN -n ELSE n

\* Division of Rust's integers: towards zero.
Quotient(n, d) == IF (n < 0) = (d < 0) THEN Abs(n) \div Abs(d) ELSE -(Abs(n) \div Abs(d))

InWidth(minor, scale, currency) ==
  IF Fits(minor) THEN [minor |-> minor, scale |-> scale, currency |-> currency]
                 ELSE Error("overflow")

----
(* Reading. *)

\* Price::parse: more digits than the scale holds are refused.
PriceParse(d, currency, scale) ==
  CASE scale > MaxScale                      -> Error("bad scale")
    [] scale <= MaxScale /\ d.frac > scale   -> Error("precision loss")
    [] scale <= MaxScale /\ d.frac <= scale  ->
         LET magnitude == d.digits * Pow10[scale - d.frac]
         IN  IF magnitude > MaxMinor
               THEN Error("overflow")
               ELSE InWidth(IF d.neg THEN -magnitude ELSE magnitude, scale, currency)

\* The decimals of that many digits nearest to d.  At a tie of the shortest
\* representation the binary number behind it decides.
RoundedTo(d, frac) ==
  LET unit == Pow10[d.frac - frac]
      low == d.digits \div unit
      rest == d.digits % unit
  IN  {[neg |-> d.neg, digits |-> n, frac |-> frac] :
         n \in (IF 2 * rest <= unit THEN {low} ELSE {})
                 \union (IF 2 * rest >= unit THEN {low + 1} ELSE {})}

\* Price::from_f64 of a finite number whose shortest representation is d: what
\* it may return.  Only here are digits rounded away.
FromF64(d, currency, scale) ==
  {PriceParse(e, currency, scale) : e \in IF d.frac > scale THEN RoundedTo(d, scale) ELSE {d}}

----
(* Arithmetic. *)

\* Mutant: the remainder of a negative number is left negative.
HalfUp(minor, unit) ==
  LET rest == minor - unit * Quotient(minor, unit)
  IN  Quotient(minor, unit) + (IF 2 * rest >= unit THEN 1 ELSE 0)

\* The multiple of unit nearest to minor, counted in units; half away from zero.
HalfAway(minor, unit) ==
  LET q == Quotient(minor, unit)
      rest == Abs(minor - unit * q)
  IN  IF 2 * rest < unit THEN q ELSE q + (IF minor < 0 THEN -1 ELSE 1)

Rescale(p, scale) ==
  CASE scale > MaxScale                        -> Error("bad scale")
    [] scale = p.scale                         -> p
    [] scale <= MaxScale /\ scale > p.scale    ->
         InWidth(p.minor * Pow10[scale - p.scale], scale, p.currency)
    [] scale < p.scale                         ->
         [p EXCEPT !.minor = HalfAway(@, Pow10[p.scale - scale]), !.scale = scale]

\* Two prices brought to the wider of their scales.
Align(p, q) ==
  LET scale == IF p.scale > q.scale THEN p.scale ELSE q.scale
      a == Rescale(p, scale)
      b == Rescale(q, scale)
  IN  IF p.currency # q.currency THEN Error("currency mismatch")
      ELSE IF Failed(a) THEN a
      ELSE IF Failed(b) THEN b
      ELSE [a |-> a.minor, b |-> b.minor, scale |-> scale]

Add(p, q) ==
  LET x == Align(p, q) IN IF Failed(x) THEN x ELSE InWidth(x.a + x.b, x.scale, p.currency)

Sub(p, q) ==
  LET x == Align(p, q) IN IF Failed(x) THEN x ELSE InWidth(x.a - x.b, x.scale, p.currency)

\* The sign of the comparison.
CmpValue(p, q) ==
  LET x == Align(p, q)
  IN  IF Failed(x) THEN x
      ELSE [order |-> IF x.a < x.b THEN -1 ELSE IF x.a > x.b THEN 1 ELSE 0]

\* The parts of one in which a change is counted.
BasisPoints == 10000

\* In basis points, towards zero.
ChangeBps(p, q) ==
  LET x == Align(p, q)
      scaled == (x.b - x.a) * BasisPoints
      bps == Quotient(scaled, x.a)
  IN  IF p.minor = 0 THEN Error("zero base")
      ELSE IF Failed(x) THEN x
      ELSE IF Fits(x.b - x.a) /\ Fits(scaled) /\ -MaxChange - 1 <= bps /\ bps <= MaxChange
        THEN [bps |-> bps]
        ELSE Error("overflow")

----
(* Its users. *)

\* poll_once: whether a price differs from the one last seen.
PriceMoved(prev, last) == Failed(CmpValue(prev, last)) \/ CmpValue(prev, last).order # 0

\* Quote::is_crossed, of a quote with both sides that compare.
IsCrossed(bid, ask) == CmpValue(bid, ask).order > 0

\* A row of the kwayisi feed as a quote, for each way its numbers may be read.
\* A previous close that cannot be computed is left out.
KwayisiQuote(row, currency, scale) ==
  {IF Failed(last) \/ Failed(change)
     THEN Error("malformed")
     ELSE [last |-> last, previousClose |-> Sub(last, change)] :
   last \in FromF64(row.price, currency, scale), change \in FromF64(row.change, currency, scale)}

\* The widest scale of the prices.
RowScale(prices) == LET p == CHOOSE p \in prices : \A q \in prices : q.scale <= p.scale IN p.scale

\* QuoteRow::from_quote: the prices of a quote, a function on the fields that
\* hold one, as integers of one scale.
QuoteRow(q) ==
  LET prices == {q[f] : f \in DOMAIN q}
      scaled == [f \in DOMAIN q |-> Rescale(q[f], RowScale(prices))]
  IN  CASE prices = {}                                     -> Error("no price")
        [] \E p, r \in prices : p.currency # r.currency    -> Error("mixed currencies")
        [] /\ prices # {}
           /\ \A p, r \in prices : p.currency = r.currency ->
             IF \E f \in DOMAIN q : Failed(scaled[f])
               THEN Error("overflow")
               ELSE [scale |-> RowScale(prices),
                     currency |-> (CHOOSE p \in prices : TRUE).currency,
                     minors |-> [f \in DOMAIN q |-> scaled[f].minor]]

DelayCode == [realtime |-> 1, delayed |-> 2, eod |-> 3, unknown |-> 4]
DelayFromCode(code) == {d \in DOMAIN DelayCode : DelayCode[d] = code}

----
(* Properties of two prices. *)

\* A price at the widest scale of all, where no width can refuse it.
Wide(p) == p.minor * Pow10[MaxScale - p.scale]

AsDecimal(p) == [neg |-> p.minor < 0, digits |-> Abs(p.minor), frac |-> p.scale]

\* Rescaling gives the nearest value there is, and the same value when the
\* scale is as wide; so a price brought to a wider scale and back is the same
\* price.  It is refused only for want of width.
RescaledIsNearest(p) ==
  \A scale \in Scale :
    LET r == Rescale(p, scale) IN
    /\ Failed(r) => scale > p.scale
    /\ ~Failed(r) =>
         /\ 2 * Abs(Wide(r) - Wide(p)) <= Pow10[MaxScale - scale]
         /\ scale >= p.scale => Wide(r) = Wide(p) /\ Rescale(r, p.scale) = p

\* Sums and differences are exact whatever the scales, a bid above an ask is
\* seen, and "a price that rescales identically has not moved": the price that
\* is not published is the one last published.
ArithmeticIsExact(p, q) ==
  /\ ~Failed(Sub(p, q)) => Wide(Sub(p, q)) = Wide(p) - Wide(q)
  /\ ~Failed(Add(p, q)) => Wide(Add(p, q)) = Wide(p) + Wide(q)
  /\ ~Failed(CmpValue(p, q)) => (IsCrossed(p, q) <=> Wide(p) > Wide(q))
  /\ ~PriceMoved(p, q) => p.currency = q.currency /\ Wide(p) = Wide(q)

\* "The feed gives absolute change, so previous close is exact": it is the
\* price read less the change read, and each is within half a unit of what
\* the feed wrote, at any scale it is read at.
PreviousCloseIsExact(p, q) ==
  \A scale \in Scale :
    \A quote \in KwayisiQuote([price |-> AsDecimal(p), change |-> AsDecimal(q)], p.currency, scale) :
      ~Failed(quote) =>
        LET moved == quote.last.minor - quote.previousClose.minor IN
        /\ 2 * Abs(Wide(quote.last) - Wide(p)) <= Pow10[MaxScale - scale]
        /\ ~Failed(quote.previousClose) =>
             2 * Abs(moved * Pow10[MaxScale - scale] - Wide(q)) <= Pow10[MaxScale - scale]

\* A row of the archive holds the prices of its quote exactly and comparable
\* to each other; a quote is refused only for its currencies or for want of
\* width; and its delay class is read back.
RowIsExact(p, q) ==
  LET row == QuoteRow([bid |-> p, ask |-> q]) IN
  /\ ~Failed(row) =>
       /\ row.minors.bid * Pow10[MaxScale - row.scale] = Wide(p)
       /\ row.minors.ask * Pow10[MaxScale - row.scale] = Wide(q)
  /\ Failed(row) => p.currency # q.currency \/ Failed(CmpValue(p, q))
  /\ \A d \in DOMAIN DelayCode : DelayFromCode(DelayCode[d]) = {d}
====
