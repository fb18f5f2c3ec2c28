---- MODULE Entitlement ----
(***************************************************************************)
(* Who may be served what: the delay class a quote carries, the keys of    *)
(* crates/amd-store/src/entitlements.rs and the filter at the egress of    *)
(* the API, crates/amd-api/src/entitlement.rs.  A quote is a record with   *)
(* at least its venue and its delay class.                                 *)
(***************************************************************************)
EXTENDS Naturals, FiniteSets

CONSTANTS
  Exchange,   \* the venues of ExchangeCode
  NoKey,      \* an absent key: the caller is anonymous
  EveryVenue  \* an absent list of venues: the key is good for all of them

ASSUME NoKeyAssumption == NoKey # EveryVenue

DelayClass == {"realtime", "delayed", "eod", "unknown"}

\* The order of the enum's variants.
Rank == [realtime |-> 0, delayed |-> 1, eod |-> 2, unknown |-> 3]

\* A class subsumes the laxer ones; Unknown is comparable to nothing else.
Permits(self, other) ==
  \/ self = other
  \/ other # "unknown" /\ Rank[self] < Rank[other]

----
(* Keys. *)

ApiKey == [maxDelayClass : DelayClass \ {"unknown"}, exchanges : (SUBSET Exchange) \union {EveryVenue}]

ASSUME KeyAssumption == NoKey \notin ApiKey

MayReceive(key, exchange, delay) ==
  /\ key.exchanges = EveryVenue \/ exchange \in key.exchanges
  /\ Permits(key.maxDelayClass, delay)

\* Entitlements::lookup on a row of api_keys.  A class the code does not know
\* fails closed; so does 'unknown', which the schema admits.  Venues it cannot
\* parse are dropped from the list.
Lookup(row) ==
  IF row.revoked \/ row.maxDelayClass \notin DelayClass \ {"unknown"}
    THEN NoKey
    ELSE [maxDelayClass |-> row.maxDelayClass,
          exchanges |-> IF row.exchanges = EveryVenue
                          THEN EveryVenue
                          ELSE row.exchanges \intersect Exchange]

----
(* The filter. *)

AnonymousMax == "eod"

Allowed(quote, key) ==
  IF key = NoKey
    THEN quote.delay = "unknown" \/ Permits(AnonymousMax, quote.delay)
    ELSE MayReceive(key, quote.exchange, quote.delay)

Kept(quotes, key) == {q \in quotes : Allowed(q, key)}

\* Mutant: the laxest class withheld is named.
Laxest(classes) == CHOOSE d \in classes : \A e \in classes : Rank[e] <= Rank[d]

\* The strictest class withheld, the first in the order of the variants.
Strictest(classes) == CHOOSE d \in classes : \A e \in classes : Rank[d] <= Rank[e]

\* What the answer says of the quotes it leaves out.
Withheld(quotes, key) ==
  LET out == quotes \ Kept(quotes, key)
  IN  [count |-> Cardinality(out),
       requires |-> IF out = {} THEN {} ELSE {Strictest({q.delay : q \in out})}]
====
