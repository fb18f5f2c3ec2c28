---- MODULE MCIngestor ----
(* Small instances of the ingestor's loop, for a venue that trades twice a *)
(* day with a break in between.                                            *)
EXTENDS Ingestor

BrokenDay == {[open |-> 1, close |-> 2], [open |-> 3, close |-> 4]}
====
