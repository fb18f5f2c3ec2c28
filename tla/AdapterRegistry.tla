---- MODULE AdapterRegistry ----
(***************************************************************************)
(* The sources of each venue, crates/amd-adapters/src/registry.rs: a       *)
(* function from the venues that were ever registered to the adapters that *)
(* serve them, the most preferred first.  An adapter is a record with at   *)
(* least its id and its exchanges.                                         *)
(***************************************************************************)
EXTENDS SequencesExt

Empty == [v \in {} |-> <<>>]

Supported(registry) == DOMAIN registry

ForExchange(registry, v) == IF v \in DOMAIN registry THEN registry[v] ELSE <<>>

\* A later registration takes precedence, and replaces one of the same id.
Register(registry, a) ==
  [v \in DOMAIN registry \union a.exchanges |->
     IF v \in a.exchanges
       THEN <<a>> \o SelectSeq(ForExchange(registry, v), LAMBDA b : b.id # a.id)
       ELSE registry[v]]

\* What is left of registering these adapters in turn, as main does at the start.
Registered(adapters) == FoldLeft(Register, Empty, adapters)

\* The adapters asked for a venue, at most one.
Preferred(registry, v) ==
  IF ForExchange(registry, v) = <<>> THEN {} ELSE {Head(ForExchange(registry, v))}

AllIds(registry) ==
  UNION {{registry[v][k].id : k \in DOMAIN registry[v]} : v \in DOMAIN registry}
====
