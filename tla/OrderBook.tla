---- MODULE OrderBook ----
(***************************************************************************)
(* The books of one venue, built message by message from the MITCH stream: *)
(* BookSet, its order pool and the price levels of crates/amd-feed/src/    *)
(* book.  One action per message BookSet::apply handles, and one for       *)
(* reset.  A level exists from its first order to its last, as the         *)
(* BTreeMap entries do; the pool resolves the messages that carry no       *)
(* instrument.                                                             *)
(***************************************************************************)
EXTENDS SequencesExt, Integers

CONSTANTS
  OrderId,       \* order references
  Instrument,    \* instrument identifiers
  Price,         \* prices in minor units
  MaxQuantity,   \* largest displayed size (u32 in the code)
  MaxTrades,     \* bound on trades printed per book, for model checking
  MaxAnomalies,  \* bound on anomalies counted, for model checking
  None           \* the absent value of an Option

ASSUME MaxQuantityAssumption == MaxQuantity \in Nat
ASSUME NoneAssumption == None \notin Instrument

VARIABLES
  pool,       \* live orders by reference
  levels,     \* the price levels that exist, by instrument, side and price
  tape,       \* the books that exist, with what they have traded
  anomalies,  \* the counters of Anomalies
  touched,    \* what the last apply returned
  earlier     \* history: <<a, b>> when the live order a took its place before b

vars == <<pool, levels, tape, anomalies, touched, earlier>>

Side == {"Buy", "Sell"}
Quantity == 0 .. MaxQuantity
Order == [instrument : Instrument, side : Side, price : Price, quantity : Quantity]
LevelKey == Instrument \X Side \X Price
Level == [quantity : Nat, queue : Seq(OrderId)]
Tape == [last : (Price \X Quantity) \union {None}, volume : Nat, trades : Nat]
Anomaly == {"unknown_order", "desynced_level", "oversized_execution", "duplicate_order"}

BookTypeOK ==
  /\ DOMAIN pool \subseteq OrderId /\ \A id \in DOMAIN pool : pool[id] \in Order
  /\ DOMAIN levels \subseteq LevelKey /\ \A k \in DOMAIN levels : levels[k] \in Level
  /\ DOMAIN tape \subseteq Instrument /\ \A i \in DOMAIN tape : tape[i] \in Tape
  /\ anomalies \in [Anomaly -> Nat]
  /\ touched \in Instrument \union {None}
  /\ earlier \subseteq OrderId \X OrderId

EmptyMap == [x \in {} |-> None]

BookInit ==
  /\ pool = EmptyMap
  /\ levels = EmptyMap
  /\ tape = EmptyMap
  /\ anomalies = [a \in Anomaly |-> 0]
  /\ touched = None
  /\ earlier = {}

----
(* The operations of a level. *)

\* Mutant: a plain subtraction.
PlainSub(a, b) == a - b

SaturatingSub(a, b) == IF a >= b THEN a - b ELSE 0

\* Mutant: an order joins the queue at the front.
PushFront(level, id, q) ==
  [quantity |-> level.quantity + q, queue |-> <<id>> \o level.queue]

PushBack(level, id, q) ==
  [quantity |-> level.quantity + q, queue |-> Append(level.queue, id)]

TakeOut(level, id, q) ==
  [quantity |-> SaturatingSub(level.quantity, q), queue |-> RemoveFirst(level.queue, id)]

\* Mutant: the size of the order replaces that of the level.
ResizeToOrder(level, from, to) == [level EXCEPT !.quantity = to]

Resize(level, from, to) ==
  [level EXCEPT !.quantity = SaturatingSub(@, from) + to]

----
(* The operations of the maps.  A key that is assigned may be new. *)

Put(map, key, value) ==
  [k \in DOMAIN map \union {key} |-> IF k = key THEN value ELSE map[k]]

Drop(map, key) == Restrict(map, DOMAIN map \ {key})

KeyOf(order) == <<order.instrument, order.side, order.price>>

\* The order is in the pool but missing from its level.
Desynced(id, order) ==
  \/ KeyOf(order) \notin DOMAIN levels
  \/ ~Contains(levels[KeyOf(order)].queue, id)

\* remove_from_level: the levels without the order, and without its level
\* when that is left empty.
WithoutOrder(id, order) ==
  LET k == KeyOf(order)
      rest == TakeOut(levels[k], id, order.quantity) IN
  IF Desynced(id, order) THEN levels
  ELSE IF rest.queue = <<>> THEN Drop(levels, k)
  ELSE Put(levels, k, rest)

\* The levels lvls with the order at the back of the queue at k.
WithOrder(lvls, id, k, q) ==
  LET level == IF k \in DOMAIN lvls THEN lvls[k] ELSE [quantity |-> 0, queue |-> <<>>]
  IN  Put(lvls, k, PushBack(level, id, q))

\* The levels with the order resized in place.
WithSize(order, q) ==
  LET k == KeyOf(order) IN
  IF k \in DOMAIN levels THEN Put(levels, k, Resize(levels[k], order.quantity, q))
                         ELSE levels

\* book_mut: the book of i, created if it is the first message about it.
TapeOf(i) ==
  IF i \in DOMAIN tape THEN tape[i] ELSE [last |-> None, volume |-> 0, trades |-> 0]

\* A trade is printed on the tape of i, while MaxTrades allows.
RecordTrade(i, p, executed) ==
  /\ TapeOf(i).trades < MaxTrades
  /\ tape' = Put(tape, i, [last |-> <<p, executed>>,
                           volume |-> TapeOf(i).volume + executed,
                           trades |-> TapeOf(i).trades + 1])

\* The named anomalies are counted, while MaxAnomalies allows.
Tally(names) ==
  /\ names # {} => SumFunctionOnSet(anomalies, Anomaly) < MaxAnomalies
  /\ anomalies' = [a \in Anomaly |-> IF a \in names THEN anomalies[a] + 1 ELSE anomalies[a]]

DesyncTally(id, order) == IF Desynced(id, order) THEN {"desynced_level"} ELSE {}

----
(* The history of time priority, kept from what the messages say and not   *)
(* from what the handlers do with the queues.                              *)

\* The history without the orders of gone.
Without(gone) == {x \in earlier : x[1] \notin gone /\ x[2] \notin gone}

\* The orders of gone leave the venue.
Leave(gone) == earlier' = Without(gone)

\* id takes its place after every other live order.
TakePlace(id) == earlier' = Without({id}) \union ((DOMAIN pool \ {id}) \X {id})

----
(* The messages. *)

\* Time, System Event and unhandled messages.
NoBookMessage ==
  /\ touched' = None
  /\ UNCHANGED <<pool, levels, tape, anomalies, earlier>>

\* Any order-keyed message whose order is not in the pool.
UnknownOrder(id) ==
  /\ id \notin DOMAIN pool
  /\ Tally({"unknown_order"})
  /\ touched' = None
  /\ UNCHANGED <<pool, levels, tape, earlier>>

AddOrder(id, i, s, p, q) ==
  /\ id \notin DOMAIN pool
  /\ pool' = Put(pool, id, [instrument |-> i, side |-> s, price |-> p, quantity |-> q])
  /\ levels' = WithOrder(levels, id, <<i, s, p>>, q)
  /\ tape' = Put(tape, i, TapeOf(i))
  /\ touched' = i
  /\ TakePlace(id)
  /\ UNCHANGED anomalies

\* Mutant: the stale order is replaced in the pool and stays in its level.
ReAddKeepsStale(id, i, s, p, q) ==
  /\ id \in DOMAIN pool
  /\ pool' = Put(pool, id, [instrument |-> i, side |-> s, price |-> p, quantity |-> q])
  /\ levels' = WithOrder(levels, id, <<i, s, p>>, q)
  /\ tape' = Put(tape, i, TapeOf(i))
  /\ Tally({"duplicate_order"})
  /\ touched' = i
  /\ TakePlace(id)

\* The delete of the stale order was missed: it leaves its own book first.
ReAddOrder(id, i, s, p, q) ==
  /\ id \in DOMAIN pool
  /\ pool' = Put(pool, id, [instrument |-> i, side |-> s, price |-> p, quantity |-> q])
  /\ levels' = WithOrder(WithoutOrder(id, pool[id]), id, <<i, s, p>>, q)
  /\ tape' = Put(tape, i, TapeOf(i))
  /\ Tally({"duplicate_order"} \union DesyncTally(id, pool[id]))
  /\ touched' = i
  /\ TakePlace(id)

OrderDeleted(id) ==
  /\ id \in DOMAIN pool
  /\ pool' = Drop(pool, id)
  /\ levels' = WithoutOrder(id, pool[id])
  /\ Tally(DesyncTally(id, pool[id]))
  /\ touched' = pool[id].instrument
  /\ Leave({id})
  /\ UNCHANGED tape

\* Mutant: the order keeps its place although the message revokes it.
ModifyKeepsPlace(id, q, p, retained) ==
  /\ id \in DOMAIN pool
  /\ p = pool[id].price
  /\ levels' = WithSize(pool[id], q)
  /\ Tally(IF KeyOf(pool[id]) \in DOMAIN levels THEN {} ELSE {"desynced_level"})
  /\ pool' = [pool EXCEPT ![id].quantity = q]
  /\ touched' = pool[id].instrument
  /\ UNCHANGED tape

\* Priority survives only an in-place size change at the same price.
ModifyInPlace(id, q, p, retained) ==
  /\ id \in DOMAIN pool
  /\ retained /\ p = pool[id].price
  /\ levels' = WithSize(pool[id], q)
  /\ Tally(IF KeyOf(pool[id]) \in DOMAIN levels THEN {} ELSE {"desynced_level"})
  /\ pool' = [pool EXCEPT ![id].quantity = q]
  /\ touched' = pool[id].instrument
  /\ UNCHANGED tape

ModifyToBack(id, q, p, retained) ==
  /\ id \in DOMAIN pool
  /\ ~(retained /\ p = pool[id].price)
  /\ levels' = WithOrder(WithoutOrder(id, pool[id]), id,
                         <<pool[id].instrument, pool[id].side, p>>, q)
  /\ Tally(DesyncTally(id, pool[id]))
  /\ pool' = [pool EXCEPT ![id].quantity = q, ![id].price = p]
  /\ touched' = pool[id].instrument
  /\ UNCHANGED tape

OrderModified(id, q, p, retained) ==
  /\ ModifyInPlace(id, q, p, retained) \/ ModifyToBack(id, q, p, retained)
  /\ IF retained /\ p = pool[id].price THEN UNCHANGED earlier ELSE TakePlace(id)

\* resize_or_remove: the displayed size of a live order becomes remaining.
ResizeOrRemove(id, executed, remaining) ==
  LET order == pool[id]
      oversized == IF executed > order.quantity THEN {"oversized_execution"} ELSE {} IN
  /\ id \in DOMAIN pool
  /\ touched' = order.instrument
  /\ \/ /\ remaining = 0
        /\ pool' = Drop(pool, id)
        /\ levels' = WithoutOrder(id, order)
        /\ Tally(oversized \union DesyncTally(id, order))
        /\ Leave({id})
     \/ /\ remaining # 0
        /\ pool' = [pool EXCEPT ![id].quantity = remaining]
        /\ levels' = WithSize(order, remaining)
        /\ Tally(oversized \union
                 (IF KeyOf(order) \in DOMAIN levels THEN {} ELSE {"desynced_level"}))
        /\ UNCHANGED earlier

OrderExecuted(id, executed) ==
  /\ ResizeOrRemove(id, executed, SaturatingSub(pool[id].quantity, executed))
  /\ RecordTrade(pool[id].instrument, pool[id].price, executed)

\* The venue states the displayed size; a non-printable execution stays off
\* the tape.
OrderExecutedWithPriceSize(id, executed, display, p, printable) ==
  /\ ResizeOrRemove(id, executed, display)
  /\ IF printable THEN RecordTrade(pool[id].instrument, p, executed) ELSE UNCHANGED tape

\* A hidden order filled: only the tape moves.
Trade(i, p, executed) ==
  /\ RecordTrade(i, p, executed)
  /\ touched' = i
  /\ UNCHANGED <<pool, levels, anomalies, earlier>>

\* Mutant: the condition of the retain is the wrong way round.
ClearOthers(i) ==
  /\ pool' = Restrict(pool, {id \in DOMAIN pool : pool[id].instrument = i})
  /\ levels' = Restrict(levels, {k \in DOMAIN levels : k[1] = i})
  /\ touched' = i
  /\ Leave({id \in DOMAIN pool : pool[id].instrument = i})
  /\ UNCHANGED <<tape, anomalies>>

OrderBookClear(i) ==
  /\ pool' = Restrict(pool, {id \in DOMAIN pool : pool[id].instrument # i})
  /\ levels' = Restrict(levels, {k \in DOMAIN levels : k[1] # i})
  /\ touched' = i
  /\ Leave({id \in DOMAIN pool : pool[id].instrument = i})
  /\ UNCHANGED <<tape, anomalies>>

\* An exchange restart: BookSet::reset.
Reset ==
  /\ pool' = EmptyMap
  /\ levels' = EmptyMap
  /\ tape' = EmptyMap
  /\ earlier' = {}
  /\ UNCHANGED <<anomalies, touched>>

----

BookNext ==
  \/ NoBookMessage
  \/ Reset
  \/ \E id \in OrderId : UnknownOrder(id) \/ OrderDeleted(id)
  \/ \E id \in OrderId, i \in Instrument, s \in Side, p \in Price, q \in Quantity :
       AddOrder(id, i, s, p, q) \/ ReAddOrder(id, i, s, p, q)
  \/ \E id \in DOMAIN pool, q \in Quantity, p \in Price, retained \in BOOLEAN :
       OrderModified(id, q, p, retained)
  \/ \E id \in DOMAIN pool, executed \in Quantity : OrderExecuted(id, executed)
  \/ \E id \in DOMAIN pool, executed, display \in Quantity, p \in Price,
        printable \in BOOLEAN :
       OrderExecutedWithPriceSize(id, executed, display, p, printable)
  \/ \E i \in Instrument, p \in Price, executed \in Quantity : Trade(i, p, executed)
  \/ \E i \in Instrument : OrderBookClear(i)

BookSpec == BookInit /\ [][BookNext]_vars

----
(* Properties. *)

\* The pool p and the levels lvls describe the same orders.
Agree(p, lvls) ==
  /\ \A id \in DOMAIN p : KeyOf(p[id]) \in DOMAIN lvls /\ Contains(lvls[KeyOf(p[id])].queue, id)
  /\ \A k \in DOMAIN lvls :
       LET queue == lvls[k].queue IN
       /\ queue # <<>>
       /\ IsInjective(queue)
       /\ \A n \in DOMAIN queue : queue[n] \in DOMAIN p /\ KeyOf(p[queue[n]]) = k

\* The pool and the books agree: a live order stands in exactly one place, in
\* the level its pool entry names, no other reference is queued anywhere, and
\* a level with no order behind it is gone, so that the best bid and the best
\* ask are prices someone stands at; whatever adds, re-adds, price moves,
\* fills and clears went before.
PoolMatchesLevels == Agree(pool, levels)

Sizes(p) == [id \in DOMAIN p |-> p[id].quantity]

Standing(p, k) == {id \in DOMAIN p : KeyOf(p[id]) = k}

\* Every level of lvls shows what the orders of p that stand at it add up to.
AddUp(p, lvls) ==
  \A k \in DOMAIN lvls : lvls[k].quantity = SumFunctionOnSet(Sizes(p), Standing(p, k))

\* The size shown at a level is the sum of its orders' displayed sizes: no
\* path double-counts an order or loses some of its size.
LevelsAddUp == AddUp(pool, levels)

\* No stream of messages, however broken, brings pool and levels apart: the
\* anomaly that reports it is never counted.
NeverDesynced == anomalies.desynced_level = 0

\* The queues of lvls stand in the order of the pairs of e.
InOrderOf(lvls, e) ==
  \A k \in DOMAIN lvls :
    \A m, n \in DOMAIN lvls[k].queue :
      <<lvls[k].queue[m], lvls[k].queue[n]>> \in e <=> m < n

\* Time priority: at every level the orders stand in the order in which the
\* venue gave them their places.  An order that is added, re-added, moved to
\* another price or modified without its priority joins behind all that stand
\* there; a fill, a change of size that retains priority or the departure
\* of another order leaves it where it was.
TimePriorityKept == InOrderOf(levels, earlier)

BookOf(lvls, i) == [k \in {j \in DOMAIN lvls : j[1] = i} |-> lvls[k]]

\* A message changes no book but the one it reports as touched, unless it
\* re-adds a live order (or the venue resets): republishing the touched book
\* is enough to keep every quote current.
OnlyTouchedChanges ==
  [][\A i \in Instrument :
       BookOf(levels', i) # BookOf(levels, i)
         => \/ touched' = i
            \/ anomalies'.duplicate_order > anomalies.duplicate_order
            \/ Reset]_vars

\* The same without the exception: "Returns the instrument the message
\* touched, so a caller can republish just that book".
TouchedIsReported ==
  [][\A i \in Instrument :
       BookOf(levels', i) # BookOf(levels, i) => touched' = i \/ Reset]_vars
====
