---- MODULE ReferenceStore ----
(***************************************************************************)
(* Reference data, crates/amd-store/src/reference.rs: the tables of        *)
(* instruments and of the tickers sources use for them, written by any     *)
(* number of processes, one statement at a time.  Instruments are keyed by *)
(* the text of their id.  Postgres is external: a statement is atomic, and *)
(* an alias of an instrument that is not there is refused.                 *)
(***************************************************************************)
EXTENDS InstrumentId

CONSTANTS
  Symbol,     \* texts a source may give for a ticker
  Attribute,  \* nullable columns: name, isin, sector, shares_outstanding
  Value,      \* what they may hold
  Money,      \* ISO codes
  Source      \* adapters that record aliases

ASSUME TextAssumption == Symbol \subseteq Seq(STRING)

VARIABLES
  instruments, \* the table of instruments: rows by id
  aliases      \* the table of aliases: id by source and ticker

refVars == <<instruments, aliases>>

----
\* An instrument: an id, a currency and what is known of it, an attribute that
\* is not known being the empty set.
Known == [Attribute -> {{}} \union {{v} : v \in Value}]

RefInit == instruments = [t \in {} |-> {}] /\ aliases = [s \in {} |-> {}]

\* Mutant: what the observation does not know is set to null.
Overwritten(new, old) == new

\* COALESCE.
Coalesced(new, old) == IF new = {} THEN old ELSE new

\* upsert.  The columns that are not named in the update keep their values.
Upsert(id, currency, known) ==
  LET t == Text(id) IN
  /\ instruments' =
       IF t \in DOMAIN instruments
         THEN [instruments EXCEPT ![t].known = [a \in Attribute |-> Coalesced(known[a], @[a])]]
         ELSE [s \in DOMAIN instruments \union {t} |->
                 IF s = t
                   THEN [exchange |-> id.exchange, symbol |-> id.symbol,
                         currency |-> currency, known |-> known]
                   ELSE instruments[s]]
  /\ UNCHANGED aliases

\* record_alias.
RecordAlias(source, ticker, id) ==
  /\ Text(id) \in DOMAIN instruments
  /\ aliases' = [s \in DOMAIN aliases \union {<<source, ticker>>} |->
                   IF s = <<source, ticker>> THEN Text(id) ELSE aliases[s]]
  /\ UNCHANGED instruments

\* list, of one exchange.
ListOf(exchange) ==
  {[id |-> Id(row.exchange, row.symbol), currency |-> row.currency, known |-> row.known] :
     row \in {instruments[t] : t \in {u \in DOMAIN instruments : instruments[u].exchange = exchange}}}

\* resolve_alias: at most one id.
Resolve(source, ticker) ==
  IF <<source, ticker>> \in DOMAIN aliases THEN ParsedId(aliases[<<source, ticker>>]) ELSE {}

RefNext ==
  \/ \E e \in Listing, s \in Symbol, c \in Money, known \in Known : Upsert(Id(e, s), c, known)
  \/ \E source \in Source, ticker \in Symbol, e \in Listing, s \in Symbol :
       RecordAlias(source, ticker, Id(e, s))

RefSpec == RefInit /\ [][RefNext]_refVars

----
(* Properties. *)

\* What is read back is what was stored: every row is listed once, under its
\* own exchange and key, and an alias resolves to an instrument that is
\* listed, never to another, unless its ticker is blank, when it resolves to
\* nothing ("Returns None rather than guessing").
ReadsBack ==
  /\ \A t \in DOMAIN instruments :
       Cardinality({i \in ListOf(instruments[t].exchange) : Text(i.id) = t}) = 1
  /\ \A s \in DOMAIN aliases :
       LET found == Resolve(s[1], s[2]) IN
       /\ \A id \in found :
            Text(id) = aliases[s] /\ \E i \in ListOf(id.exchange) : i.id = id
       /\ found = {} => instruments[aliases[s]].symbol = <<>>

\* However the observations of several sources alternate, nothing known of an
\* instrument is forgotten, its currency and its key stay, and the tables
\* read back after every statement.
NothingIsForgotten ==
  [][/\ \A t \in DOMAIN instruments :
          /\ t \in DOMAIN instruments'
          /\ instruments'[t].currency = instruments[t].currency
          /\ \A a \in Attribute :
               instruments[t].known[a] # {} => instruments'[t].known[a] # {}
     /\ \A s \in DOMAIN aliases : s \in DOMAIN aliases'
     /\ ReadsBack']_refVars
====
