---- MODULE SdkMoney ----
(***************************************************************************)
(* The prices of the TypeScript SDK, sdk/typescript/src/money.ts, beside   *)
(* those of the services.  Integers there have no width, and their         *)
(* division is towards zero.                                               *)
(***************************************************************************)
EXTENDS Prices

\* price(): the scale is checked.
SdkPrice(value, scale, currency) ==
  IF scale <= MaxScale
    THEN [minor |-> value, scale |-> scale, currency |-> currency]
    ELSE Error("scale")

\* parsePrice does not check the scale.
SdkParse(d, currency, scale) ==
  IF d.frac > scale
    THEN Error("decimals")
    ELSE [minor |-> (IF d.neg THEN -1 ELSE 1) * d.digits * Pow10[scale - d.frac],
          scale |-> scale, currency |-> currency]

\* Mutant: rounded towards zero.
SdkTruncated(p, scale) ==
  CASE scale = p.scale -> p
    [] scale > p.scale -> SdkPrice(p.minor * Pow10[scale - p.scale], scale, p.currency)
    [] scale < p.scale -> SdkPrice(Quotient(p.minor, Pow10[p.scale - scale]), scale, p.currency)

SdkRescale(p, scale) ==
  LET divisor == Pow10[p.scale - scale]
      q == Quotient(p.minor, divisor)
      up == IF p.minor < 0 THEN -1 ELSE 1
  IN  CASE scale = p.scale -> p
        [] scale > p.scale -> SdkPrice(p.minor * Pow10[scale - p.scale], scale, p.currency)
        [] scale < p.scale ->
             SdkPrice(IF 2 * Abs(p.minor - q * divisor) >= divisor THEN q + up ELSE q,
                      scale, p.currency)

\* align, after assertSameCurrency.
SdkAlign(p, q) ==
  LET scale == IF p.scale > q.scale THEN p.scale ELSE q.scale IN
  IF p.currency # q.currency
    THEN Error("currency mismatch")
    ELSE [a |-> SdkRescale(p, scale).minor, b |-> SdkRescale(q, scale).minor, scale |-> scale]

SdkAdd(p, q) ==
  LET x == SdkAlign(p, q) IN IF Failed(x) THEN x ELSE SdkPrice(x.a + x.b, x.scale, p.currency)

SdkSubtract(p, q) ==
  LET x == SdkAlign(p, q) IN IF Failed(x) THEN x ELSE SdkPrice(x.a - x.b, x.scale, p.currency)

SdkCompare(p, q) ==
  LET x == SdkAlign(p, q)
  IN  IF Failed(x) THEN x
      ELSE [order |-> IF x.a < x.b THEN -1 ELSE IF x.a > x.b THEN 1 ELSE 0]

\* changeBps: the currencies are compared before the base.
SdkChangeBps(p, q) ==
  LET x == SdkAlign(p, q)
  IN  IF Failed(x) THEN x
      ELSE IF p.minor = 0 THEN Error("zero base")
      ELSE [bps |-> Quotient((x.b - x.a) * BasisPoints, x.a)]

----
\* Whatever the services compute, the SDK computes too; and what it refuses
\* they refuse ("handles prices and provenance the same way the Rust services
\* do").  Only their widths are the services' own.
SdkPricesAgree(p, q) ==
  LET Same(theirs, ours) ==
        /\ ~Failed(ours) => ~Failed(theirs) /\ theirs = ours
        /\ Failed(theirs) => Failed(ours)
  IN  /\ Same(SdkAdd(p, q), Add(p, q))
      /\ Same(SdkSubtract(p, q), Sub(p, q))
      /\ Same(SdkCompare(p, q), CmpValue(p, q))
      /\ Same(SdkChangeBps(p, q), ChangeBps(p, q))
      /\ \A scale \in Scale : /\ Same(SdkRescale(p, scale), Rescale(p, scale))
                              /\ Same(SdkParse(AsDecimal(p), p.currency, scale),
                                      PriceParse(AsDecimal(p), p.currency, scale))
====
