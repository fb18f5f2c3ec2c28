---- MODULE MCApi ----
(* Small instances of the HTTP surface: a venue with two instruments, one of *)
(* another venue, and the adapter that ships with a licensed one.            *)
EXTENDS Api

MTN == [exchange |-> "GSE", symbol |-> <<"MTNGH">>]
GCB == [exchange |-> "GSE", symbol |-> <<"GCB">>]
NPN == [exchange |-> "JSE", symbol |-> <<"NPN">>]

Ghana == {MTN, GCB, NPN}
WatchGhana == [c \in Client |-> "GSE"]

Kwayisi == [id |-> "kwayisi", exchanges |-> {"GSE"}, timestamps |-> FALSE,
            delay |-> [i \in Instrument |-> "unknown"]]
Licensed == [id |-> "licensed", exchanges |-> {"GSE", "JSE"}, timestamps |-> TRUE,
             delay |-> [i \in Instrument |-> CASE i = MTN -> "delayed"
                                             [] i = GCB -> "realtime"
                                             [] OTHER   -> "eod"]]
Deployments == {<<Kwayisi>>, <<Kwayisi, Licensed>>, <<[Licensed EXCEPT !.exchanges = {"JSE"}]>>}
Day == {[open |-> 1, close |-> 3]}
====
