---- MODULE MCMitchFeed ----
(* Small instances of the feed.  The configurations choose how many        *)
(* messages, how many failovers and how wide the replay window.            *)
EXTENDS MitchFeed
====
