---- MODULE Subjects ----
(***************************************************************************)
(* The subjects events travel under, crates/amd-bus/src/subject.rs, as     *)
(* sequences of the tokens that dots separate.  A symbol is one token, or  *)
(* several when the venue's ticker has dots in it.                         *)
(***************************************************************************)
EXTENDS Naturals, Sequences

Kind == {"quote", "bar", "status"}

Prefix == <<"amd", "v1">>

ForVenue(exchange, kind) == Prefix \o <<exchange, kind>>
ForInstrument(exchange, symbol, kind) == ForVenue(exchange, kind) \o symbol

KindWildcard(exchange, kind) == ForVenue(exchange, kind) \o <<"*">>
VenueWildcard(exchange) == Prefix \o <<exchange, ">">>
All == Prefix \o <<">">>

\* How NATS routes: a star stands for one token, a final > for one or more.
Matches(pattern, subject) ==
  LET TokensAgree(n) == \A k \in 1 .. n : pattern[k] \in {"*", subject[k]}
  IN  IF pattern[Len(pattern)] = ">"
        THEN Len(subject) >= Len(pattern) /\ TokensAgree(Len(pattern) - 1)
        ELSE Len(subject) = Len(pattern) /\ TokensAgree(Len(pattern))
====
