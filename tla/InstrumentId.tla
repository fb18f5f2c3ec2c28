---- MODULE InstrumentId ----
(***************************************************************************)
(* InstrumentId of crates/amd-core/src/instrument.rs: how a ticker is      *)
(* folded into the symbol of an instrument, and the text of an id.  A text *)
(* is a sequence of characters, each a string of one, an exchange code     *)
(* being one character.  Only ASCII letters are folded.                    *)
(***************************************************************************)
EXTENDS Integers, Sequences, FiniteSetsExt

CONSTANTS
  Listing,  \* exchange codes
  Letter    \* a function from the small letters to the capital ones

ASSUME LetterAssumption ==
  /\ DOMAIN Letter \intersect {Letter[c] : c \in DOMAIN Letter} = {}
  /\ {" ", ":"} \intersect (DOMAIN Letter \union {Letter[c] : c \in DOMAIN Letter} \union Listing) = {}

ASSUME CharacterAssumption ==
  Listing \subseteq STRING /\ Letter \in [DOMAIN Letter -> STRING]

Upper(text) == [k \in DOMAIN text |-> IF text[k] \in DOMAIN Letter THEN Letter[text[k]] ELSE text[k]]

Trim(text) ==
  LET ink == {k \in DOMAIN text : text[k] # " "}
  IN  IF ink = {} THEN <<>> ELSE SubSeq(text, Min(ink), Max(ink))

\* InstrumentId::new.
Id(exchange, symbol) == [exchange |-> exchange, symbol |-> Upper(Trim(symbol))]

Text(id) == <<id.exchange, ":">> \o id.symbol

\* InstrumentId::from_str: at most one id.
ParsedId(text) ==
  LET colons == {k \in DOMAIN text : text[k] = ":"}
      symbol == SubSeq(text, Min(colons) + 1, Len(text))
      exchange == SubSeq(text, 1, Min(colons) - 1)
  IN  IF colons = {} THEN {}
      ELSE IF symbol = <<>> \/ exchange \notin {<<e>> : e \in Listing} THEN {}
      ELSE {Id(exchange[1], symbol)}
====
