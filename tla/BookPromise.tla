---- MODULE BookPromise ----
(***************************************************************************)
(* What the feed promises to whoever publishes its books: while the books  *)
(* are live they reflect a prefix of the stream, all of it and in order;   *)
(* they may be suspended at any time; and they come back no older than     *)
(* they were.                                                              *)
(***************************************************************************)
EXTENDS Naturals

VARIABLES
  available,  \* the messages the exchange has published
  book,       \* the messages the books reflect
  live        \* whether the books may be published

vars == <<available, book, live>>

\* s is a prefix of the stream as far as it is available.
IsPrefix(s) == s \subseteq available /\ \A m \in s : 1 .. m \subseteq s

Init == available = {} /\ book = {} /\ live = FALSE

Publish ==
  /\ available \subseteq available'
  /\ UNCHANGED <<book, live>>

Extend ==
  /\ live
  /\ book \subseteq book' /\ IsPrefix(book')
  /\ UNCHANGED <<available, live>>

Suspend ==
  /\ live' = FALSE
  /\ UNCHANGED <<available, book>>

Recover ==
  /\ ~live
  /\ book \subseteq book' /\ IsPrefix(book')
  /\ live' = TRUE
  /\ UNCHANGED available

Next == Publish \/ Extend \/ Suspend \/ Recover

Spec == Init /\ [][Next]_vars
====
