---- MODULE MCMoldFeed ----
(* Small instances of the MoldUDP64 feed: one session with losses, and     *)
(* several sessions.  The two lines play the same part.                    *)
EXTENDS MoldFeed, TLC

Symmetric == Permutations(Line)
====
