---- MODULE MCOrderBook ----
(* Small instances of the books: orders and instruments are model values   *)
(* and interchangeable.                                                    *)
EXTENDS OrderBook

Symmetric == Permutations(OrderId) \union Permutations(Instrument)
====
