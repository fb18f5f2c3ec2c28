---- MODULE OrderBookProofs ----
(***************************************************************************)
(* Theorems about the order book, for any orders, instruments, prices and  *)
(* sizes: the pool and the levels stay two views of the same orders.       *)
(***************************************************************************)
EXTENDS OrderBook, FoldLemmas, SequenceTheorems

----
(* Queues. *)

\* a stands before b in the queue q.
Before(q, a, b) == \E m, n \in DOMAIN q : m < n /\ q[m] = a /\ q[n] = b

\* Taking the only occurrence of e out of a queue leaves the rest, in order.
LEMMA RemoveFirstIsTheRest ==
  ASSUME NEW S, NEW q \in Seq(S), IsInjective(q), NEW e, Contains(q, e)
  PROVE  /\ RemoveFirst(q, e) \in Seq(S)
         /\ IsInjective(RemoveFirst(q, e))
         /\ \A x : Contains(RemoveFirst(q, e), x) <=> Contains(q, x) /\ x # e
         /\ \A a, b : Before(RemoveFirst(q, e), a, b) => Before(q, a, b)
<1>0. DOMAIN q = 1 .. Len(q) /\ \A i, j \in 1 .. Len(q) : q[i] = q[j] => i = j
  BY DEF IsInjective
<1>1. PICK at \in 1 .. Len(q) : q[at] = e
  BY DEF Contains
<1>2. {i \in 1 .. Len(q) : q[i] = e} = {at}
  BY <1>1 DEF IsInjective
<1>3. Min({at}) = at
  BY <1>1 DEF Min
<1>4. RemoveFirst(q, e) = SubSeq(q, 1, at - 1) \o SubSeq(q, at + 1, Len(q))
  BY <1>1, <1>2, <1>3 DEF RemoveFirst, RemoveAt, SelectInSeq
<1> DEFINE front == SubSeq(q, 1, at - 1)
           back == SubSeq(q, at + 1, Len(q))
           rest == front \o back
<1>5. /\ front \in Seq(S) /\ Len(front) = at - 1
      /\ \A i \in 1 .. at - 1 : front[i] = q[i]
  BY <1>1
<1>6. /\ back \in Seq(S) /\ Len(back) = Len(q) - at
      /\ \A i \in 1 .. Len(q) - at : back[i] = q[i + at]
  BY <1>1
<1> HIDE DEF front, back
<1>7. /\ rest \in Seq(S) /\ Len(rest) = Len(q) - 1
      /\ \A i \in 1 .. Len(q) - 1 : rest[i] = IF i < at THEN q[i] ELSE q[i + 1]
  <2>1. /\ rest \in Seq(S)
        /\ Len(rest) = Len(front) + Len(back)
        /\ \A i \in 1 .. Len(front) + Len(back) :
             rest[i] = IF i <= Len(front) THEN front[i] ELSE back[i - Len(front)]
    BY <1>5, <1>6, ConcatProperties, Zenon
  <2> HIDE DEF rest
  <2>2. Len(rest) = Len(q) - 1
    BY <1>1, <1>5, <1>6, <2>1
  <2>3. ASSUME NEW i \in 1 .. Len(q) - 1
        PROVE  rest[i] = IF i < at THEN q[i] ELSE q[i + 1]
    <3>0. at \in 1 .. Len(q) /\ rest[i] = IF i <= at - 1 THEN front[i] ELSE back[i - (at - 1)]
      <4>1. i \in 1 .. Len(front) + Len(back)
        BY <1>1, <1>5, <1>6
      <4> QED
        BY <1>1, <1>5, <2>1, <4>1
    <3>1. CASE i < at
      BY <1>5, <3>0, <3>1
    <3>2. CASE i >= at
      <4>1. i - (at - 1) \in 1 .. Len(q) - at /\ (i - (at - 1)) + at = i + 1
        BY <1>1, <3>2
      <4>2. rest[i] = back[i - (at - 1)]
        BY <3>0, <3>2
      <4> QED
        BY <1>1, <1>6, <3>2, <4>1, <4>2
    <3> QED
      BY <1>1, <3>1, <3>2
  <2> QED
    BY <2>1, <2>2, <2>3
<1> HIDE DEF rest
<1>8. IsInjective(rest)
  <2> SUFFICES ASSUME NEW i \in 1 .. Len(q) - 1, NEW j \in 1 .. Len(q) - 1, rest[i] = rest[j]
               PROVE  i = j
    BY <1>7 DEF IsInjective
  <2>1. PICK m \in 1 .. Len(q) : m = (IF i < at THEN i ELSE i + 1) /\ rest[i] = q[m]
    BY <1>1, <1>7
  <2>2. PICK n \in 1 .. Len(q) : n = (IF j < at THEN j ELSE j + 1) /\ rest[j] = q[n]
    BY <1>1, <1>7
  <2>3. m = n
    BY <1>0, <2>1, <2>2
  <2> QED
    BY <1>1, <2>1, <2>2, <2>3
<1>9. ASSUME NEW x
      PROVE  Contains(rest, x) <=> Contains(q, x) /\ x # e
  <2>1. ASSUME Contains(rest, x) PROVE Contains(q, x) /\ x # e
    <3>1. PICK i \in 1 .. Len(q) - 1 : rest[i] = x
      BY <1>7, <2>1 DEF Contains
    <3>2. PICK m \in 1 .. Len(q) : m = (IF i < at THEN i ELSE i + 1) /\ rest[i] = q[m]
      BY <1>1, <1>7
    <3>3. m # at
      BY <1>1, <3>2
    <3> QED
      BY <1>1, <3>1, <3>2, <3>3 DEF Contains, IsInjective
  <2>2. ASSUME Contains(q, x), x # e PROVE Contains(rest, x)
    <3>1. PICK i \in 1 .. Len(q) : q[i] = x
      BY <2>2 DEF Contains
    <3>2. CASE i < at
      BY <1>1, <1>7, <3>1, <3>2 DEF Contains
    <3>3. CASE i > at
      <4>1. i - 1 \in 1 .. Len(q) - 1 /\ rest[i - 1] = q[i]
        BY <1>1, <1>7, <3>1, <3>3
      <4> QED
        BY <1>7, <3>1, <4>1 DEF Contains
    <3> QED
      BY <1>1, <2>2, <3>1, <3>2, <3>3
  <2> QED
    BY <2>1, <2>2
<1>10. ASSUME NEW a, NEW b, Before(rest, a, b)
       PROVE  Before(q, a, b)
  <2>1. DOMAIN rest = 1 .. Len(q) - 1
    BY <1>7
  <2>2. PICK i, j \in 1 .. Len(q) - 1 : i < j /\ rest[i] = a /\ rest[j] = b
    BY <1>10, <2>1 DEF Before
  <2>3. PICK m \in 1 .. Len(q) : m = (IF i < at THEN i ELSE i + 1) /\ rest[i] = q[m]
    BY <1>1, <1>7
  <2>4. PICK n \in 1 .. Len(q) : n = (IF j < at THEN j ELSE j + 1) /\ rest[j] = q[n]
    BY <1>1, <1>7
  <2>5. m < n
    BY <1>1, <2>2, <2>3, <2>4
  <2> QED
    BY <1>0, <2>2, <2>3, <2>4, <2>5 DEF Before
<1> QED
  BY <1>4, <1>7, <1>8, <1>9, <1>10, Zenon DEF rest, front, back

\* A new order joins a queue behind everybody in it.
LEMMA AppendIsOneMore ==
  ASSUME NEW S, NEW q \in Seq(S), IsInjective(q), NEW e \in S, ~Contains(q, e)
  PROVE  /\ Append(q, e) \in Seq(S)
         /\ Append(q, e) # <<>>
         /\ IsInjective(Append(q, e))
         /\ \A x : Contains(Append(q, e), x) <=> Contains(q, x) \/ x = e
         /\ Append(q, e)[Len(Append(q, e))] = e
         /\ \A a, b : Before(Append(q, e), a, b) => Before(q, a, b) \/ b = e
<1>1. /\ Append(q, e) \in Seq(S) /\ Len(Append(q, e)) = Len(q) + 1
      /\ \A i \in 1 .. Len(q) : Append(q, e)[i] = q[i]
      /\ Append(q, e)[Len(q) + 1] = e
  OBVIOUS
<1>2. ASSUME NEW a, NEW b, Before(Append(q, e), a, b), b # e
      PROVE  Before(q, a, b)
  <2>1. PICK i, j \in 1 .. Len(q) + 1 : i < j /\ Append(q, e)[i] = a /\ Append(q, e)[j] = b
    BY <1>1, <1>2 DEF Before
  <2>2. i \in 1 .. Len(q) /\ j \in 1 .. Len(q)
    BY <1>1, <1>2, <2>1
  <2> QED
    BY <1>1, <2>1, <2>2 DEF Before
<1>3. Append(q, e)[Len(Append(q, e))] = e
  BY <1>1
<1>4. IsInjective(Append(q, e)) /\ \A x : Contains(Append(q, e), x) <=> Contains(q, x) \/ x = e
  BY <1>1 DEF IsInjective, Contains
<1>5. Append(q, e) # <<>>
  BY <1>1
<1> QED
  BY <1>1, <1>2, <1>3, <1>4, <1>5

----
(* The pool and the levels as values. *)

PoolType(p) == DOMAIN p \subseteq OrderId /\ \A id \in DOMAIN p : p[id] \in Order

LevelsType(lvls) == DOMAIN lvls \subseteq LevelKey /\ \A k \in DOMAIN lvls : lvls[k] \in Level

\* Both are of their types, and describe the same orders and sizes.
Sound(p, lvls) ==
  /\ PoolType(p) /\ IsFiniteSet(DOMAIN p)
  /\ LevelsType(lvls)
  /\ Agree(p, lvls)
  /\ AddUp(p, lvls)

\* What stands at a level is summed from natural numbers, and nothing stands
\* where there is no level.
LEMMA StandingSums ==
  ASSUME NEW p, NEW lvls, Sound(p, lvls), NEW k
  PROVE  /\ IsFiniteSet(Standing(p, k))
         /\ \A id \in DOMAIN p : Sizes(p)[id] \in Nat /\ Sizes(p)[id] = p[id].quantity
         /\ SumFunctionOnSet(Sizes(p), Standing(p, k)) \in Nat
         /\ SumFunctionOnSet(Sizes(p), Standing(p, k)) =
              IF k \in DOMAIN lvls THEN lvls[k].quantity ELSE 0
<1>1. \A id \in DOMAIN p : Sizes(p)[id] \in Nat /\ Sizes(p)[id] = p[id].quantity
  BY MaxQuantityAssumption DEF Sound, PoolType, Order, Quantity, Sizes
<1>2. IsFiniteSet(Standing(p, k)) /\ Standing(p, k) \subseteq DOMAIN p
  BY FS_Subset DEF Sound, Standing
<1>3. k \notin DOMAIN lvls => Standing(p, k) = {}
  BY DEF Sound, Agree, Standing
<1>4. SumFunctionOnSet(Sizes(p), Standing(p, k)) \in Nat
  BY <1>1, <1>2, SumIsNat
<1>5. k \notin DOMAIN lvls => SumFunctionOnSet(Sizes(p), Standing(p, k)) = 0
  BY <1>3, SumIsNat, FS_EmptySet
<1> QED
  BY <1>1, <1>2, <1>4, <1>5 DEF Sound, AddUp

\* Orders of one level that another pool holds with the same sizes add up
\* there to the same.
LEMMA SameStanding ==
  ASSUME NEW p, NEW lvls, Sound(p, lvls), NEW k, NEW q,
         NEW T \in SUBSET Standing(p, k),
         \A id \in T : id \in DOMAIN q /\ q[id].quantity = p[id].quantity
  PROVE  SumFunctionOnSet(Sizes(q), T) = SumFunctionOnSet(Sizes(p), T)
<1>0. IsFiniteSet(Standing(p, k))
  BY StandingSums
<1>1. IsFiniteSet(T) /\ T \subseteq DOMAIN p
  BY <1>0, FS_Subset DEF Standing
<1>2. \A id \in T : Sizes(p)[id] \in Nat /\ Sizes(q)[id] = Sizes(p)[id]
  BY <1>1, StandingSums DEF Sizes
<1> QED
  BY <1>1, <1>2, SumSame

\* Sizes are subtracted without going below zero.
LEMMA SaturatingIsNat ==
  ASSUME NEW a \in Nat, NEW b \in Nat
  PROVE  SaturatingSub(a, b) \in Nat
BY DEF SaturatingSub

\* The key of an order is a key of levels.
LEMMA KeyIsKey ==
  ASSUME NEW o \in Order
  PROVE  KeyOf(o) \in LevelKey /\ o.quantity \in Nat
BY MaxQuantityAssumption DEF Order, KeyOf, LevelKey, Quantity

\* An order of the pool is where the pool says it is: no message ever finds
\* its level missing, or its level without it.
LEMMA NotDesynced ==
  ASSUME Agree(pool, levels), NEW id \in DOMAIN pool
  PROVE  ~Desynced(id, pool[id]) /\ KeyOf(pool[id]) \in DOMAIN levels
BY DEF Agree, Desynced

\* An order taken out of the pool and of its level leaves the two in step.
LEMMA RemovalAgrees ==
  ASSUME Sound(pool, levels), NEW id \in DOMAIN pool
  PROVE  Sound(Drop(pool, id), WithoutOrder(id, pool[id]))
<1> DEFINE o == pool[id]
           at == KeyOf(o)
           rest == TakeOut(levels[at], id, o.quantity)
           after == WithoutOrder(id, o)
<1>1. ~Desynced(id, o) /\ at \in DOMAIN levels
  BY NotDesynced DEF Sound
<1>2. levels[at].queue \in Seq(OrderId) /\ levels[at].quantity \in Nat /\ o.quantity \in Nat
  BY <1>1, KeyIsKey DEF Sound, PoolType, LevelsType, Level
<1>3. IsInjective(levels[at].queue) /\ Contains(levels[at].queue, id)
  BY <1>1 DEF Sound, Agree
<1>4. /\ rest.queue \in Seq(OrderId) /\ rest.quantity \in Nat /\ rest \in Level
      /\ IsInjective(rest.queue)
      /\ \A x : Contains(rest.queue, x) <=> Contains(levels[at].queue, x) /\ x # id
  <2>1. /\ RemoveFirst(levels[at].queue, id) \in Seq(OrderId)
        /\ IsInjective(RemoveFirst(levels[at].queue, id))
        /\ \A x : Contains(RemoveFirst(levels[at].queue, id), x)
                    <=> Contains(levels[at].queue, x) /\ x # id
    BY <1>2, <1>3, RemoveFirstIsTheRest
  <2>2. SaturatingSub(levels[at].quantity, o.quantity) \in Nat
    BY <1>2, SaturatingIsNat
  <2> QED
    BY <2>1, <2>2 DEF TakeOut, Level
<1>5. after = IF rest.queue = <<>> THEN Drop(levels, at) ELSE Put(levels, at, rest)
  BY <1>1 DEF WithoutOrder
<1>6. /\ DOMAIN after = IF rest.queue = <<>> THEN DOMAIN levels \ {at} ELSE DOMAIN levels
      /\ \A k \in DOMAIN levels \ {at} : after[k] = levels[k]
      /\ rest.queue # <<>> => after[at] = rest
  BY <1>1, <1>5 DEF Drop, Restrict, Put
<1> DEFINE less == Drop(pool, id)
<1>0. /\ DOMAIN less = DOMAIN pool \ {id}
      /\ \A x \in DOMAIN pool \ {id} : less[x] = pool[x]
  BY DEF Drop, Restrict
<1> HIDE DEF o, at, rest, after, less
<1>7. PoolType(less) /\ LevelsType(after)
  BY <1>0, <1>1, <1>4, <1>6 DEF Sound, PoolType, LevelsType
<1>8. Agree(less, after)
  <2>1. ASSUME NEW x \in DOMAIN less
        PROVE  /\ KeyOf(less[x]) \in DOMAIN after
               /\ Contains(after[KeyOf(less[x])].queue, x)
    <3>1. x \in DOMAIN pool /\ x # id /\ less[x] = pool[x]
      BY <1>0
    <3>2. KeyOf(pool[x]) \in DOMAIN levels /\ Contains(levels[KeyOf(pool[x])].queue, x)
      BY <3>1 DEF Sound, Agree
    <3>3. CASE KeyOf(pool[x]) # at
      BY <1>6, <3>1, <3>2, <3>3
    <3>4. CASE KeyOf(pool[x]) = at
      <4>1. Contains(rest.queue, x)
        BY <1>4, <3>1, <3>2, <3>4
      <4>2. rest.queue # <<>>
        BY <4>1 DEF Contains
      <4> QED
        BY <1>1, <1>6, <3>1, <3>4, <4>1, <4>2
    <3> QED
      BY <3>3, <3>4
  <2>2. ASSUME NEW k \in DOMAIN after
        PROVE  /\ after[k].queue # <<>>
               /\ IsInjective(after[k].queue)
               /\ \A n \in DOMAIN after[k].queue :
                    /\ after[k].queue[n] \in DOMAIN less
                    /\ KeyOf(less[after[k].queue[n]]) = k
    <3>1. k \in DOMAIN levels
      BY <1>6
    <3>2. /\ levels[k].queue # <<>> /\ IsInjective(levels[k].queue)
          /\ \A n \in DOMAIN levels[k].queue :
               levels[k].queue[n] \in DOMAIN pool /\ KeyOf(pool[levels[k].queue[n]]) = k
      BY <3>1 DEF Sound, Agree
    <3>3. CASE k # at
      <4>1. after[k] = levels[k]
        BY <1>6, <3>1, <3>3
      <4>2. \A n \in DOMAIN levels[k].queue : levels[k].queue[n] # id
        BY <3>2, <3>3 DEF at, o
      <4> QED
        BY <3>2, <4>1, <4>2, <1>0
    <3>4. CASE k = at
      <4>1. rest.queue # <<>> /\ after[k] = rest
        BY <1>6, <3>4
      <4>2. ASSUME NEW n \in DOMAIN rest.queue
            PROVE  rest.queue[n] \in DOMAIN pool \ {id} /\ KeyOf(pool[rest.queue[n]]) = k
        <5>1. Contains(rest.queue, rest.queue[n])
          BY <1>4 DEF Contains
        <5>2. Contains(levels[at].queue, rest.queue[n]) /\ rest.queue[n] # id
          BY <1>4, <5>1
        <5>3. PICK m \in DOMAIN levels[at].queue : levels[at].queue[m] = rest.queue[n]
          BY <1>2, <5>2 DEF Contains
        <5> QED
          BY <3>2, <3>4, <5>2, <5>3
      <4> QED
        BY <1>4, <4>1, <4>2, <1>0
    <3> QED
      BY <3>3, <3>4
  <2> QED
    BY <2>1, <2>2 DEF Agree
<1>9. AddUp(less, after)
  <2> SUFFICES ASSUME NEW k \in DOMAIN after
               PROVE  after[k].quantity = SumFunctionOnSet(Sizes(less), Standing(less, k))
    BY DEF AddUp
  <2>1. Standing(less, k) = Standing(pool, k) \ {id}
    BY <1>0 DEF Standing
  <2>2. \A x \in Standing(less, k) : x \in DOMAIN less /\ less[x].quantity = pool[x].quantity
    BY <1>0 DEF Standing
  <2>3. SumFunctionOnSet(Sizes(less), Standing(less, k)) =
          SumFunctionOnSet(Sizes(pool), Standing(pool, k) \ {id})
    BY <2>1, <2>2, SameStanding
  <2>4. levels[k].quantity = SumFunctionOnSet(Sizes(pool), Standing(pool, k))
    BY <1>6 DEF Sound, AddUp
  <2>5. CASE k # at
    <3>1. Standing(pool, k) \ {id} = Standing(pool, k) /\ after[k] = levels[k]
      BY <1>6, <2>5 DEF Standing, at, o
    <3> QED
      BY <2>3, <2>4, <3>1
  <2>6. CASE k = at
    <3>1. id \in Standing(pool, k)
      BY <2>6 DEF Standing, at, o
    <3>0. /\ IsFiniteSet(Standing(pool, k))
          /\ \A x \in DOMAIN pool : Sizes(pool)[x] \in Nat /\ Sizes(pool)[x] = pool[x].quantity
      BY StandingSums
    <3>2. /\ IsFiniteSet(Standing(pool, k))
          /\ \A x \in Standing(pool, k) : Sizes(pool)[x] \in Nat
          /\ Sizes(pool)[id] = o.quantity
      BY <3>0 DEF Standing, o
    <3> DEFINE others == SumFunctionOnSet(Sizes(pool), Standing(pool, k) \ {id})
    <3>3. SumFunctionOnSet(Sizes(pool), Standing(pool, k)) = o.quantity + others
      BY <3>1, <3>2, SumTake
    <3>4. IsFiniteSet(Standing(pool, k) \ {id})
      BY <3>2, FS_Subset
    <3>5. others \in Nat
      BY <3>2, <3>4, SumIsNat
    <3> HIDE DEF others
    <3>6. after[k].quantity = SaturatingSub(levels[at].quantity, o.quantity)
      BY <1>6, <2>6 DEF rest, TakeOut
    <3>7. after[k].quantity = others
      BY <1>2, <2>4, <2>6, <3>3, <3>5, <3>6 DEF SaturatingSub
    <3> QED
      BY <2>3, <3>7 DEF others
  <2> QED
    BY <2>5, <2>6
<1>10. IsFiniteSet(DOMAIN less)
  BY <1>0, FS_Subset DEF Sound
<1> QED
  BY <1>7, <1>8, <1>9, <1>10 DEF Sound, after, o, less

\* A new order put in the pool and at the back of its level keeps them so.
LEMMA AdditionAgrees ==
  ASSUME NEW p, NEW lvls, Sound(p, lvls), NEW id \in OrderId, id \notin DOMAIN p, NEW o \in Order
  PROVE  Sound(Put(p, id, o), WithOrder(lvls, id, KeyOf(o), o.quantity))
<1> DEFINE at == KeyOf(o)
           old == IF at \in DOMAIN lvls THEN lvls[at] ELSE [quantity |-> 0, queue |-> <<>>]
           new == PushBack(old, id, o.quantity)
           after == WithOrder(lvls, id, at, o.quantity)
           more == Put(p, id, o)
<1>1. at \in LevelKey /\ o.quantity \in Nat
  BY KeyIsKey
<1>2. old \in Level /\ old.queue \in Seq(OrderId) /\ IsInjective(old.queue)
  <2>1. CASE at \in DOMAIN lvls
    BY <2>1 DEF Sound, LevelsType, Level, Agree
  <2>2. CASE at \notin DOMAIN lvls
    BY <2>2 DEF Level, IsInjective
  <2> QED
    BY <2>1, <2>2
<1>3. \A n \in DOMAIN old.queue : old.queue[n] \in DOMAIN p /\ KeyOf(p[old.queue[n]]) = at
  <2>1. CASE at \in DOMAIN lvls
    BY <2>1 DEF Sound, Agree
  <2>2. CASE at \notin DOMAIN lvls
    BY <2>2
  <2> QED
    BY <2>1, <2>2
<1>4. at \in DOMAIN lvls => old = lvls[at]
  OBVIOUS
<1> HIDE DEF old
<1>5. ~Contains(old.queue, id)
  BY <1>2, <1>3 DEF Contains
<1>6. /\ new \in Level /\ new.queue \in Seq(OrderId) /\ new.queue # <<>> /\ IsInjective(new.queue)
      /\ \A x : Contains(new.queue, x) <=> Contains(old.queue, x) \/ x = id
  BY <1>1, <1>2, <1>5, AppendIsOneMore DEF PushBack, Level
<1>7. /\ DOMAIN after = DOMAIN lvls \union {at}
      /\ after[at] = new
      /\ \A k \in DOMAIN lvls \ {at} : after[k] = lvls[k]
  BY DEF WithOrder, old, Put
<1>8. /\ DOMAIN more = DOMAIN p \union {id} /\ more[id] = o
      /\ \A x \in DOMAIN p : x # id /\ more[x] = p[x]
  BY DEF Put
<1> HIDE DEF at, new, after, more
<1>9. PoolType(more) /\ LevelsType(after)
  BY <1>1, <1>6, <1>7, <1>8 DEF Sound, PoolType, LevelsType
<1>10. ASSUME NEW x \in DOMAIN more
       PROVE  KeyOf(more[x]) \in DOMAIN after /\ Contains(after[KeyOf(more[x])].queue, x)
  <2>1. CASE x = id
    BY <1>6, <1>7, <1>8, <2>1 DEF at
  <2>2. CASE x # id
    <3>1. x \in DOMAIN p /\ more[x] = p[x]
      BY <1>8, <2>2
    <3>2. KeyOf(p[x]) \in DOMAIN lvls /\ Contains(lvls[KeyOf(p[x])].queue, x)
      BY <3>1 DEF Sound, Agree
    <3>3. CASE KeyOf(p[x]) = at
      BY <1>4, <1>6, <1>7, <3>1, <3>2, <3>3
    <3>4. CASE KeyOf(p[x]) # at
      BY <1>7, <3>1, <3>2, <3>4
    <3> QED
      BY <3>3, <3>4
  <2> QED
    BY <2>1, <2>2
<1>11. ASSUME NEW k \in DOMAIN after
       PROVE  /\ after[k].queue # <<>>
              /\ IsInjective(after[k].queue)
              /\ \A n \in DOMAIN after[k].queue :
                   after[k].queue[n] \in DOMAIN more /\ KeyOf(more[after[k].queue[n]]) = k
  <2>1. CASE k = at
    <3>1. ASSUME NEW n \in DOMAIN new.queue
          PROVE  new.queue[n] \in DOMAIN more /\ KeyOf(more[new.queue[n]]) = at
      <4>1. Contains(new.queue, new.queue[n])
        BY <1>6 DEF Contains
      <4>2. CASE new.queue[n] = id
        BY <1>8, <4>2 DEF at
      <4>3. CASE new.queue[n] # id
        <5>0. Contains(old.queue, new.queue[n])
          BY <1>6, <4>1, <4>3
        <5>1. PICK m \in DOMAIN old.queue : old.queue[m] = new.queue[n]
          BY <1>2, <5>0 DEF Contains
        <5> QED
          BY <1>3, <1>8, <5>1
      <4> QED
        BY <4>2, <4>3
    <3> QED
      BY <1>6, <1>7, <2>1, <3>1
  <2>2. CASE k # at
    <3>1. k \in DOMAIN lvls /\ after[k] = lvls[k]
      BY <1>7, <2>2
    <3>2. /\ lvls[k].queue # <<>> /\ IsInjective(lvls[k].queue)
          /\ \A n \in DOMAIN lvls[k].queue :
               lvls[k].queue[n] \in DOMAIN p /\ KeyOf(p[lvls[k].queue[n]]) = k
      BY <3>1 DEF Sound, Agree
    <3> QED
      BY <1>8, <3>1, <3>2
  <2> QED
    BY <2>1, <2>2
<1>12. Agree(more, after)
  BY <1>10, <1>11 DEF Agree
<1>13. AddUp(more, after)
  <2> SUFFICES ASSUME NEW k \in DOMAIN after
               PROVE  after[k].quantity = SumFunctionOnSet(Sizes(more), Standing(more, k))
    BY DEF AddUp
  <2>1. SumFunctionOnSet(Sizes(more), Standing(p, k)) = SumFunctionOnSet(Sizes(p), Standing(p, k))
    <3>1. Standing(p, k) \in SUBSET Standing(p, k)
      OBVIOUS
    <3>2. \A x \in Standing(p, k) : x \in DOMAIN more /\ more[x].quantity = p[x].quantity
      BY <1>8 DEF Standing
    <3> QED
      BY <3>1, <3>2, SameStanding
  <2>2. /\ SumFunctionOnSet(Sizes(p), Standing(p, k)) =
             IF k \in DOMAIN lvls THEN lvls[k].quantity ELSE 0
        /\ IsFiniteSet(Standing(p, k))
        /\ \A x \in DOMAIN p : Sizes(p)[x] \in Nat /\ Sizes(p)[x] = p[x].quantity
    BY StandingSums
  <2>3. CASE k # at
    <3>1. Standing(more, k) = Standing(p, k) /\ k \in DOMAIN lvls /\ after[k] = lvls[k]
      BY <1>7, <1>8, <2>3 DEF Standing, at
    <3> QED
      BY <2>1, <2>2, <3>1
  <2>4. CASE k = at
    <3>1. Standing(more, k) = Standing(p, k) \union {id} /\ id \notin Standing(p, k)
      BY <1>8, <2>4 DEF Standing, at
    <3>2. \A x \in Standing(p, k) \union {id} : Sizes(more)[x] \in Nat
      BY <1>1, <1>8, <2>2 DEF Sizes, Standing
    <3>3. Sizes(more)[id] = o.quantity
      BY <1>8 DEF Sizes
    <3>4. SumFunctionOnSet(Sizes(more), Standing(more, k)) =
            o.quantity + SumFunctionOnSet(Sizes(more), Standing(p, k))
      <4> DEFINE T == Standing(p, k)
                 w == Sizes(more)
      <4>1. IsFiniteSet(T) /\ id \notin T /\ \A x \in T \union {id} : w[x] \in Nat
        BY <2>2, <3>1, <3>2
      <4> HIDE DEF T, w
      <4>2. SumFunctionOnSet(w, T \union {id}) = w[id] + SumFunctionOnSet(w, T)
        BY <4>1, SumPut
      <4> QED
        BY <3>1, <3>3, <4>2 DEF T, w
    <3>5. after[k].quantity = old.quantity + o.quantity
      BY <1>7, <2>4 DEF new, PushBack
    <3>6. old.quantity = SumFunctionOnSet(Sizes(p), Standing(p, k)) /\ old.quantity \in Nat
      BY <1>2, <2>2, <2>4 DEF old, Level
    <3> QED
      BY <1>1, <2>1, <3>4, <3>5, <3>6
  <2> QED
    BY <2>3, <2>4
<1>14. IsFiniteSet(DOMAIN more)
  BY <1>8, FS_AddElement DEF Sound
<1> QED
  BY <1>9, <1>12, <1>13, <1>14 DEF Sound, after, more, at

\* An order resized where it stands keeps them so.
LEMMA ResizingAgrees ==
  ASSUME Sound(pool, levels), NEW id \in DOMAIN pool, NEW q \in Quantity
  PROVE  Sound([pool EXCEPT ![id].quantity = q], WithSize(pool[id], q))
<1> DEFINE at == KeyOf(pool[id])
           after == WithSize(pool[id], q)
           other == [pool EXCEPT ![id].quantity = q]
<1>1. /\ at \in DOMAIN levels /\ levels[at] \in Level /\ pool[id] \in Order
      /\ levels[at].quantity \in Nat /\ pool[id].quantity \in Nat /\ q \in Nat
  BY NotDesynced, KeyIsKey, MaxQuantityAssumption
     DEF Sound, LevelsType, PoolType, Level, Quantity
<1>2. SaturatingSub(levels[at].quantity, pool[id].quantity) + q \in Nat
  BY <1>1 DEF SaturatingSub
<1>3. /\ DOMAIN after = DOMAIN levels
      /\ \A k \in DOMAIN levels : after[k].queue = levels[k].queue /\ after[k] \in Level
  BY <1>1, <1>2 DEF WithSize, Put, Resize, Sound, LevelsType, Level
<1>4. /\ DOMAIN other = DOMAIN pool
      /\ \A x \in DOMAIN pool : other[x] \in Order /\ KeyOf(other[x]) = KeyOf(pool[x])
  BY <1>1 DEF Sound, PoolType, Order, KeyOf
<1>7. /\ after[at].quantity = SaturatingSub(levels[at].quantity, pool[id].quantity) + q
      /\ \A k \in DOMAIN levels \ {at} : after[k] = levels[k]
  BY <1>1 DEF WithSize, Put, Resize, Level
<1>8. other[id].quantity = q /\ \A x \in DOMAIN pool \ {id} : other[x] = pool[x]
  BY <1>1 DEF Order
<1> HIDE DEF at, after, other
<1>5. PoolType(other) /\ LevelsType(after)
  BY <1>3, <1>4 DEF Sound, PoolType, LevelsType
<1>6. Agree(other, after)
  BY <1>3, <1>4 DEF Sound, Agree
<1>9. AddUp(other, after)
  <2> SUFFICES ASSUME NEW k \in DOMAIN after
               PROVE  after[k].quantity = SumFunctionOnSet(Sizes(other), Standing(other, k))
    BY DEF AddUp
  <2>1. Standing(other, k) = Standing(pool, k)
    BY <1>4 DEF Standing
  <2> DEFINE T == Standing(pool, k) \ {id}
  <2>2. SumFunctionOnSet(Sizes(other), T) = SumFunctionOnSet(Sizes(pool), T)
    <3>1. \A x \in T : x \in DOMAIN other /\ other[x].quantity = pool[x].quantity
      BY <1>4, <1>8 DEF Standing
    <3>2. T \in SUBSET Standing(pool, k)
      OBVIOUS
    <3> QED
      BY <3>1, <3>2, SameStanding
  <2>3. /\ IsFiniteSet(Standing(pool, k))
        /\ \A x \in DOMAIN pool : Sizes(pool)[x] \in Nat /\ Sizes(pool)[x] = pool[x].quantity
        /\ SumFunctionOnSet(Sizes(pool), Standing(pool, k)) = levels[k].quantity
    BY <1>3, StandingSums
  <2>4. CASE k # at
    <3>1. T = Standing(pool, k) /\ after[k] = levels[k]
      BY <1>3, <1>7, <2>4 DEF Standing, at
    <3> QED
      BY <2>1, <2>2, <2>3, <3>1
  <2>5. CASE k = at
    <3>1. id \in Standing(pool, k) /\ IsFiniteSet(T)
      BY <2>3, <2>5, FS_Subset DEF Standing, at
    <3>2. /\ \A x \in Standing(pool, k) : Sizes(pool)[x] \in Nat /\ Sizes(other)[x] \in Nat
          /\ Sizes(pool)[id] = pool[id].quantity
          /\ Sizes(other)[id] = q
      BY <1>1, <1>4, <1>8, <2>3 DEF Sizes, Standing
    <3> DEFINE others == SumFunctionOnSet(Sizes(pool), T)
    <3>3. levels[k].quantity = pool[id].quantity + others
      BY <2>3, <3>1, <3>2, SumTake
    <3>4. SumFunctionOnSet(Sizes(other), Standing(other, k)) = q + others
      <4>1. SumFunctionOnSet(Sizes(other), Standing(pool, k)) = q + SumFunctionOnSet(Sizes(other), T)
        BY <2>3, <3>1, <3>2, SumTake
      <4> QED
        BY <2>1, <2>2, <4>1
    <3>5. others \in Nat
      BY <3>1, <3>2, SumIsNat
    <3> HIDE DEF others, T
    <3> QED
      BY <1>1, <1>7, <2>5, <3>3, <3>4, <3>5 DEF SaturatingSub
  <2> QED
    BY <2>4, <2>5
<1>10. IsFiniteSet(DOMAIN other)
  BY <1>4 DEF Sound
<1> QED
  BY <1>5, <1>6, <1>9, <1>10 DEF Sound, other, after

\* A book cleared with its orders, and the books emptied, keep them so.
LEMMA ClearingAgrees ==
  ASSUME Sound(pool, levels), NEW i
  PROVE  Sound(Restrict(pool, {id \in DOMAIN pool : pool[id].instrument # i}),
               Restrict(levels, {k \in DOMAIN levels : k[1] # i}))
<1> DEFINE less == Restrict(pool, {id \in DOMAIN pool : pool[id].instrument # i})
           after == Restrict(levels, {k \in DOMAIN levels : k[1] # i})
<1>1. /\ DOMAIN less = {id \in DOMAIN pool : KeyOf(pool[id])[1] # i}
      /\ \A id \in DOMAIN less : less[id] = pool[id]
  BY DEF Restrict, KeyOf
<1>2. /\ DOMAIN after = {k \in DOMAIN levels : k[1] # i}
      /\ \A k \in DOMAIN after : after[k] = levels[k]
  BY DEF Restrict
<1> HIDE DEF less, after
<1>3. PoolType(less) /\ LevelsType(after)
  BY <1>1, <1>2 DEF Sound, PoolType, LevelsType
<1>4. Agree(less, after)
  BY <1>1, <1>2 DEF Sound, Agree
<1>5. AddUp(less, after)
  <2> SUFFICES ASSUME NEW k \in DOMAIN after
               PROVE  after[k].quantity = SumFunctionOnSet(Sizes(less), Standing(less, k))
    BY DEF AddUp
  <2>1. Standing(less, k) = Standing(pool, k)
    BY <1>1, <1>2 DEF Standing
  <2>2. \A x \in Standing(pool, k) : x \in DOMAIN less /\ less[x].quantity = pool[x].quantity
    BY <1>1, <1>2 DEF Standing
  <2>3. Standing(pool, k) \in SUBSET Standing(pool, k)
    OBVIOUS
  <2>4. SumFunctionOnSet(Sizes(less), Standing(less, k)) =
          SumFunctionOnSet(Sizes(pool), Standing(pool, k))
    BY <2>1, <2>2, <2>3, SameStanding
  <2> QED
    BY <1>2, <2>4 DEF Sound, AddUp
<1>6. IsFiniteSet(DOMAIN less)
  BY <1>1, FS_Subset DEF Sound
<1> QED
  BY <1>3, <1>4, <1>5, <1>6 DEF Sound, less, after

\* Empty books are in step.
LEMMA EmptyAgrees == Sound(EmptyMap, EmptyMap)
BY FS_EmptySet DEF Sound, PoolType, LevelsType, Agree, AddUp, EmptyMap

----
(* The steps. *)

\* The tape, the counters and the report are of their types, and the anomaly
\* of a level out of step was never counted.
TapeType == DOMAIN tape \subseteq Instrument /\ \A i \in DOMAIN tape : tape[i] \in Tape

CountsOK == anomalies \in [Anomaly -> Nat] /\ anomalies.desynced_level = 0

BookInv ==
  /\ Sound(pool, levels)
  /\ TapeType
  /\ CountsOK
  /\ touched \in Instrument \union {None}

\* Counting other anomalies.
LEMMA TallyCounts ==
  ASSUME CountsOK, NEW names, "desynced_level" \notin names, Tally(names)
  PROVE  CountsOK'
BY DEF CountsOK, Tally, Anomaly

\* The tape of a book, printed on or created.
LEMMA TapeKept ==
  ASSUME TapeType, NEW i \in Instrument
  PROVE  /\ TapeOf(i) \in Tape
         /\ tape' = Put(tape, i, TapeOf(i)) => TapeType'
         /\ \A p \in Price, executed \in Quantity : RecordTrade(i, p, executed) => TapeType'
<1>1. TapeOf(i) \in Tape
  BY DEF TapeOf, Tape, TapeType
<1>2. ASSUME NEW t \in Tape, tape' = Put(tape, i, t) PROVE TapeType'
  BY <1>2 DEF TapeType, Put
<1>3. ASSUME NEW p \in Price, NEW executed \in Quantity, RecordTrade(i, p, executed)
      PROVE  TapeType'
  <2>1. /\ TapeOf(i).volume \in Nat /\ TapeOf(i).trades \in Nat
        /\ executed \in Nat
    BY <1>1, MaxQuantityAssumption DEF Tape, Quantity
  <2>2. [last |-> <<p, executed>>, volume |-> TapeOf(i).volume + executed,
         trades |-> TapeOf(i).trades + 1] \in Tape
    BY <2>1 DEF Tape
  <2> QED
    BY <1>2, <1>3, <2>2 DEF RecordTrade
<1> QED
  BY <1>1, <1>2, <1>3

\* Orders added, to a fresh reference or over a live one.
LEMMA AddingKeeps ==
  ASSUME BookInv, NEW id \in OrderId, NEW i \in Instrument, NEW s \in Side, NEW p \in Price,
         NEW q \in Quantity, AddOrder(id, i, s, p, q) \/ ReAddOrder(id, i, s, p, q)
  PROVE  BookInv'
<1> DEFINE o == [instrument |-> i, side |-> s, price |-> p, quantity |-> q]
<1>1. o \in Order /\ KeyOf(o) = <<i, s, p>> /\ o.quantity = q
  BY DEF Order, KeyOf
<1> HIDE DEF o
<1>2. TapeType' /\ touched' \in Instrument \union {None}
  BY TapeKept DEF BookInv, AddOrder, ReAddOrder
<1>3. CASE AddOrder(id, i, s, p, q)
  <2>1. Sound(pool', levels')
    <3>1. pool' = Put(pool, id, o) /\ levels' = WithOrder(levels, id, KeyOf(o), o.quantity)
      BY <1>1, <1>3 DEF AddOrder, o
    <3> QED
      BY <1>1, <1>3, <3>1, AdditionAgrees DEF BookInv, AddOrder
  <2> QED
    BY <1>2, <1>3, <2>1 DEF BookInv, AddOrder, CountsOK
<1>4. CASE ReAddOrder(id, i, s, p, q)
  <2>1. id \in DOMAIN pool
    BY <1>4 DEF ReAddOrder
  <2>2. Sound(Drop(pool, id), WithoutOrder(id, pool[id])) /\ id \notin DOMAIN Drop(pool, id)
    BY <2>1, RemovalAgrees DEF BookInv, Drop, Restrict
  <2>3. pool' = Put(Drop(pool, id), id, o)
    <3>1. pool' = Put(pool, id, o)
      BY <1>4 DEF ReAddOrder, o
    <3> QED
      BY <2>1, <3>1 DEF Put, Drop, Restrict
  <2>4. levels' = WithOrder(WithoutOrder(id, pool[id]), id, KeyOf(o), o.quantity)
    BY <1>1, <1>4 DEF ReAddOrder
  <2>5. Sound(pool', levels')
    BY <1>1, <2>2, <2>3, <2>4, AdditionAgrees
  <2>6. CountsOK'
    BY <1>4, <2>1, NotDesynced, TallyCounts DEF BookInv, Sound, ReAddOrder, DesyncTally
  <2> QED
    BY <1>2, <2>5, <2>6 DEF BookInv
<1> QED
  BY <1>3, <1>4

\* Orders modified, in place or behind the others.
LEMMA ModifyingKeeps ==
  ASSUME BookInv, NEW id \in DOMAIN pool, NEW q \in Quantity, NEW p \in Price,
         NEW retained \in BOOLEAN,
         ModifyInPlace(id, q, p, retained) \/ ModifyToBack(id, q, p, retained)
  PROVE  BookInv'
<1>1. pool[id] \in Order /\ id \in OrderId /\ pool[id].instrument \in Instrument
  BY DEF BookInv, Sound, PoolType, Order
<1>2. ~Desynced(id, pool[id]) /\ KeyOf(pool[id]) \in DOMAIN levels
  BY NotDesynced DEF BookInv, Sound
<1>3. TapeType' /\ touched' \in Instrument \union {None}
  BY <1>1 DEF BookInv, ModifyInPlace, ModifyToBack, TapeType
<1>4. CountsOK'
  BY <1>2, TallyCounts DEF BookInv, ModifyInPlace, ModifyToBack, DesyncTally
<1>5. CASE ModifyInPlace(id, q, p, retained)
  BY <1>3, <1>4, <1>5, ResizingAgrees DEF BookInv, ModifyInPlace
<1>6. CASE ModifyToBack(id, q, p, retained)
  <2> DEFINE o == [pool[id] EXCEPT !.quantity = q, !.price = p]
  <2>1. o \in Order /\ KeyOf(o) = <<pool[id].instrument, pool[id].side, p>> /\ o.quantity = q
    BY <1>1 DEF Order, KeyOf
  <2>2. Sound(Drop(pool, id), WithoutOrder(id, pool[id])) /\ id \notin DOMAIN Drop(pool, id)
    BY RemovalAgrees DEF BookInv, Drop, Restrict
  <2>3. pool' = Put(Drop(pool, id), id, o)
    BY <1>6 DEF ModifyToBack, Put, Drop, Restrict
  <2>4. levels' = WithOrder(WithoutOrder(id, pool[id]), id, KeyOf(o), o.quantity)
    BY <1>6, <2>1 DEF ModifyToBack
  <2> HIDE DEF o
  <2>5. Sound(pool', levels')
    BY <1>1, <2>1, <2>2, <2>3, <2>4, AdditionAgrees
  <2> QED
    BY <1>3, <1>4, <2>5 DEF BookInv
<1> QED
  BY <1>5, <1>6

\* An order filled, in part or wholly.
LEMMA FillingAgrees ==
  ASSUME BookInv, NEW id \in DOMAIN pool, NEW executed \in Quantity, NEW remaining \in Quantity,
         ResizeOrRemove(id, executed, remaining)
  PROVE  Sound(pool', levels') /\ CountsOK' /\ touched' \in Instrument
<1>1. pool[id].instrument \in Instrument
  BY DEF BookInv, Sound, PoolType, Order
<1>2. ~Desynced(id, pool[id]) /\ KeyOf(pool[id]) \in DOMAIN levels
  BY NotDesynced DEF BookInv, Sound
<1>3. Sound(pool', levels')
  BY RemovalAgrees, ResizingAgrees DEF BookInv, ResizeOrRemove
<1>4. CountsOK'
  BY <1>2, TallyCounts DEF BookInv, ResizeOrRemove, DesyncTally
<1> QED
  BY <1>1, <1>3, <1>4 DEF ResizeOrRemove

\* Executions, told by the venue or computed, keep the invariant.
LEMMA FillingKeeps ==
  ASSUME BookInv, NEW id \in DOMAIN pool, NEW executed \in Quantity,
         \/ OrderExecuted(id, executed)
         \/ \E display \in Quantity, p \in Price, printable \in BOOLEAN :
              OrderExecutedWithPriceSize(id, executed, display, p, printable)
  PROVE  BookInv'
<1>1. pool[id].instrument \in Instrument /\ pool[id].price \in Price /\ pool[id].quantity \in Quantity
  BY DEF BookInv, Sound, PoolType, Order
<1>2. SaturatingSub(pool[id].quantity, executed) \in Quantity
  BY <1>1, MaxQuantityAssumption DEF SaturatingSub, Quantity
<1>3. CASE OrderExecuted(id, executed)
  BY <1>1, <1>2, <1>3, FillingAgrees, TapeKept DEF BookInv, OrderExecuted
<1>4. ASSUME NEW display \in Quantity, NEW p \in Price, NEW printable \in BOOLEAN,
             OrderExecutedWithPriceSize(id, executed, display, p, printable)
      PROVE  BookInv'
  <2>1. TapeType'
    BY <1>1, <1>4, TapeKept DEF BookInv, OrderExecutedWithPriceSize, TapeType
  <2> QED
    BY <1>4, <2>1, FillingAgrees DEF BookInv, OrderExecutedWithPriceSize
<1> QED
  BY <1>3, <1>4

\* Every message and every reset keeps the invariant.
LEMMA BookStep == BookInv /\ [BookNext]_vars => BookInv'
<1> SUFFICES ASSUME BookInv, [BookNext]_vars PROVE BookInv'
  OBVIOUS
<1>1. CASE UNCHANGED vars
  BY <1>1 DEF vars, BookInv, TapeType, CountsOK
<1>2. CASE NoBookMessage
  BY <1>2 DEF NoBookMessage, BookInv, TapeType, CountsOK
<1>3. CASE Reset
  <2>1. Sound(pool', levels')
    BY <1>3, EmptyAgrees DEF Reset
  <2>2. TapeType'
    BY <1>3 DEF Reset, TapeType, EmptyMap
  <2> QED
    BY <1>3, <2>1, <2>2 DEF Reset, BookInv, CountsOK
<1>4. ASSUME NEW id \in OrderId, UnknownOrder(id)
      PROVE  BookInv'
  BY <1>4, TallyCounts DEF UnknownOrder, BookInv, TapeType
<1>5. ASSUME NEW id \in OrderId, OrderDeleted(id)
      PROVE  BookInv'
  <2>1. id \in DOMAIN pool
    BY <1>5 DEF OrderDeleted
  <2>2. ~Desynced(id, pool[id]) /\ pool[id].instrument \in Instrument
    BY <2>1, NotDesynced DEF BookInv, Sound, PoolType, Order
  <2>3. Sound(pool', levels')
    BY <1>5, <2>1, RemovalAgrees DEF BookInv, OrderDeleted
  <2>4. CountsOK'
    BY <1>5, <2>2, TallyCounts DEF BookInv, OrderDeleted, DesyncTally
  <2> QED
    BY <1>5, <2>2, <2>3, <2>4 DEF BookInv, OrderDeleted, TapeType
<1>6. ASSUME NEW i \in Instrument, NEW p \in Price, NEW executed \in Quantity,
             Trade(i, p, executed)
      PROVE  BookInv'
  BY <1>6, TapeKept DEF Trade, BookInv, CountsOK
<1>7. ASSUME NEW i \in Instrument, OrderBookClear(i)
      PROVE  BookInv'
  BY <1>7, ClearingAgrees DEF OrderBookClear, BookInv, TapeType, CountsOK
<1> QED
  BY <1>1, <1>2, <1>3, <1>4, <1>5, <1>6, <1>7, AddingKeeps, ModifyingKeeps, FillingKeeps
     DEF BookNext, OrderModified

\* The books start empty.
LEMMA BookStart == BookInit => BookInv
<1> SUFFICES ASSUME BookInit PROVE BookInv
  OBVIOUS
<1>1. Sound(pool, levels)
  BY EmptyAgrees DEF BookInit
<1> QED
  BY <1>1 DEF BookInit, BookInv, TapeType, CountsOK, EmptyMap, Anomaly

\* The invariant holds in every state.
LEMMA BookInvAlways == BookSpec => []BookInv
BY BookStart, BookStep, PTL DEF BookSpec

----
(* The theorems. *)

\* Every live order stands in one place, where the pool says; nothing else is
\* queued; no level is empty.
THEOREM PoolAndLevelsAgree == BookSpec => []PoolMatchesLevels
<1>1. BookInv => PoolMatchesLevels
  BY DEF BookInv, Sound, PoolMatchesLevels
<1> QED
  BY <1>1, BookInvAlways, PTL

\* The size shown at every level is what its orders add up to.
THEOREM SizesAddUp == BookSpec => []LevelsAddUp
<1>1. BookInv => LevelsAddUp
  BY DEF BookInv, Sound, LevelsAddUp
<1> QED
  BY <1>1, BookInvAlways, PTL

\* The anomaly of a level out of step with the pool is never counted.
THEOREM BooksNeverDesync == BookSpec => []NeverDesynced
<1>1. BookInv => NeverDesynced
  BY DEF BookInv, CountsOK, NeverDesynced
<1> QED
  BY <1>1, BookInvAlways, PTL

----
(***************************************************************************)
(* Time priority.  A queue is ranked by a set of pairs when the pairs of   *)
(* its orders are those of its order.                                      *)
(***************************************************************************)

Ranked(q, e) ==
  \A a, b : Contains(q, a) /\ Contains(q, b) => (<<a, b>> \in e <=> Before(q, a, b))

\* Of two orders of a queue one stands before the other.
LEMMA OneIsFirst ==
  ASSUME NEW S, NEW q \in Seq(S), NEW a, NEW b, Contains(q, a), Contains(q, b), a # b
  PROVE  Before(q, a, b) \/ Before(q, b, a)
<1>1. PICK m, n \in 1 .. Len(q) : q[m] = a /\ q[n] = b
  BY DEF Contains
<1>2. m < n \/ n < m
  BY <1>1
<1> QED
  BY <1>1, <1>2 DEF Before

\* Nobody in a queue is both before and behind another, or before itself.
LEMMA OneOrder ==
  ASSUME NEW S, NEW q \in Seq(S), IsInjective(q), NEW a, NEW b, Before(q, a, b)
  PROVE  ~Before(q, b, a)
<1>1. PICK m, n \in DOMAIN q : m < n /\ q[m] = a /\ q[n] = b
  BY DEF Before
<1>2. ASSUME NEW i \in DOMAIN q, NEW j \in DOMAIN q, i < j, q[i] = b, q[j] = a
      PROVE  FALSE
  <2>1. i = n /\ j = m
    BY <1>1, <1>2 DEF IsInjective
  <2> QED
    BY <1>1, <1>2, <2>1
<1> QED
  BY <1>2 DEF Before

\* To be ranked is to have the pairs of every two positions.
LEMMA RankedByPosition ==
  ASSUME NEW S, NEW q \in Seq(S), IsInjective(q), NEW e
  PROVE  Ranked(q, e) <=> \A m, n \in DOMAIN q : <<q[m], q[n]>> \in e <=> m < n
<1>0. DOMAIN q = 1 .. Len(q)
  OBVIOUS
<1>1. ASSUME NEW m \in DOMAIN q, NEW n \in DOMAIN q
      PROVE  /\ Before(q, q[m], q[n]) <=> m < n
             /\ Contains(q, q[m]) /\ Contains(q, q[n])
  BY <1>0 DEF Before, Contains, IsInjective
<1>2. ASSUME NEW a, NEW b, Contains(q, a), Contains(q, b)
      PROVE  \E m, n \in DOMAIN q : a = q[m] /\ b = q[n]
  BY <1>0, <1>2 DEF Contains
<1>3. ASSUME Ranked(q, e), NEW m \in DOMAIN q, NEW n \in DOMAIN q
      PROVE  <<q[m], q[n]>> \in e <=> m < n
  <2>1. <<q[m], q[n]>> \in e <=> Before(q, q[m], q[n])
    BY <1>1, <1>3, Zenon DEF Ranked
  <2> QED
    BY <1>1, <2>1
<1>4. ASSUME \A m, n \in DOMAIN q : <<q[m], q[n]>> \in e <=> m < n,
             NEW a, NEW b, Contains(q, a), Contains(q, b)
      PROVE  <<a, b>> \in e <=> Before(q, a, b)
  <2>1. PICK m, n \in DOMAIN q : a = q[m] /\ b = q[n]
    BY <1>2, <1>4
  <2>2. (<<a, b>> \in e <=> m < n) /\ (Before(q, a, b) <=> m < n)
    BY <1>1, <1>4, <2>1
  <2> QED
    BY <2>2
<1> QED
  BY <1>3, <1>4, Zenon DEF Ranked

\* A queue stays ranked when an order leaves it, by any pairs that agree on
\* the orders that stay.
LEMMA RemovalRanks ==
  ASSUME NEW S, NEW q \in Seq(S), IsInjective(q), NEW id, Contains(q, id),
         NEW e, Ranked(q, e),
         NEW f, \A a, b : a # id /\ b # id => (<<a, b>> \in f <=> <<a, b>> \in e)
  PROVE  Ranked(RemoveFirst(q, id), f)
<1> DEFINE rest == RemoveFirst(q, id)
<1>1. /\ rest \in Seq(S) /\ IsInjective(rest)
      /\ \A x : Contains(rest, x) <=> Contains(q, x) /\ x # id
      /\ \A a, b : Before(rest, a, b) => Before(q, a, b)
  BY RemoveFirstIsTheRest
<1> HIDE DEF rest
<1> SUFFICES ASSUME NEW a, NEW b, Contains(rest, a), Contains(rest, b)
             PROVE  <<a, b>> \in f <=> Before(rest, a, b)
  BY DEF Ranked, rest
<1>2. <<a, b>> \in f <=> Before(q, a, b)
  BY <1>1 DEF Ranked
<1>3. ASSUME Before(q, a, b) PROVE Before(rest, a, b)
  <2>1. ~Before(q, b, a)
    BY <1>3, OneOrder
  <2>2. a # b
    BY <1>3, <2>1
  <2> QED
    BY <1>1, <2>1, <2>2, OneIsFirst
<1> QED
  BY <1>1, <1>2, <1>3

\* A queue stays ranked when an order joins at the back, by any pairs that
\* agree on the others and put the order behind them.
LEMMA AppendRanks ==
  ASSUME NEW S, NEW q \in Seq(S), IsInjective(q), NEW id \in S, ~Contains(q, id),
         NEW e, Ranked(q, e),
         NEW f, \A a, b : a # id /\ b # id => (<<a, b>> \in f <=> <<a, b>> \in e),
         \A a : Contains(q, a) => <<a, id>> \in f,
         \A a : <<id, a>> \notin f
  PROVE  Ranked(Append(q, id), f)
<1> DEFINE more == Append(q, id)
<1>0. /\ Len(more) = Len(q) + 1 /\ DOMAIN more = 1 .. Len(q) + 1 /\ DOMAIN q = 1 .. Len(q)
      /\ \A i \in 1 .. Len(q) : more[i] = q[i]
      /\ more[Len(q) + 1] = id
      /\ more \in Seq(S)
  OBVIOUS
<1>1. IsInjective(more)
  BY AppendIsOneMore
<1> HIDE DEF more
<1> SUFFICES ASSUME NEW m \in 1 .. Len(q) + 1, NEW n \in 1 .. Len(q) + 1
             PROVE  <<more[m], more[n]>> \in f <=> m < n
  BY <1>0, <1>1, RankedByPosition DEF more
<1>2. CASE m = Len(q) + 1
  BY <1>0, <1>2
<1>3. CASE m # Len(q) + 1 /\ n = Len(q) + 1
  <2>1. Contains(q, more[m])
    BY <1>0, <1>3 DEF Contains
  <2> QED
    BY <1>0, <1>3, <2>1
<1>4. CASE m # Len(q) + 1 /\ n # Len(q) + 1
  <2>1. m \in DOMAIN q /\ n \in DOMAIN q /\ more[m] = q[m] /\ more[n] = q[n]
    BY <1>0, <1>4
  <2>2. q[m] # id /\ q[n] # id
    BY <2>1, <1>0 DEF Contains
  <2>3. <<q[m], q[n]>> \in e <=> m < n
    BY <2>1, RankedByPosition
  <2> QED
    BY <2>1, <2>2, <2>3
<1> QED
  BY <1>2, <1>3, <1>4

\* The queues of sound levels are in order when each is ranked.
LEMMA InOrderIsRanked ==
  ASSUME NEW p, NEW lvls, Sound(p, lvls), NEW e
  PROVE  /\ \A k \in DOMAIN lvls : lvls[k].queue \in Seq(OrderId) /\ IsInjective(lvls[k].queue)
         /\ InOrderOf(lvls, e) <=> \A k \in DOMAIN lvls : Ranked(lvls[k].queue, e)
<1>1. \A k \in DOMAIN lvls : lvls[k].queue \in Seq(OrderId) /\ IsInjective(lvls[k].queue)
  BY DEF Sound, Agree, LevelsType, Level
<1> QED
  BY <1>1, RankedByPosition DEF InOrderOf

\* An order that leaves, leaves the others in order.
LEMMA RemovalInOrder ==
  ASSUME Sound(pool, levels), InOrderOf(levels, earlier), NEW id \in DOMAIN pool
  PROVE  InOrderOf(WithoutOrder(id, pool[id]), Without({id}))
<1> DEFINE at == KeyOf(pool[id])
           rest == TakeOut(levels[at], id, pool[id].quantity)
           after == WithoutOrder(id, pool[id])
           e == Without({id})
<1>1. ~Desynced(id, pool[id]) /\ at \in DOMAIN levels
  BY NotDesynced DEF Sound
<1>2. Sound(Drop(pool, id), after)
  BY RemovalAgrees
<1>3. \A a, b : a # id /\ b # id => (<<a, b>> \in e <=> <<a, b>> \in earlier)
  BY DEF Without
<1>4. /\ DOMAIN after \subseteq DOMAIN levels
      /\ \A k \in DOMAIN after \ {at} : after[k] = levels[k]
      /\ at \in DOMAIN after => after[at] = rest
  <2>1. after = IF rest.queue = <<>> THEN Drop(levels, at) ELSE Put(levels, at, rest)
    BY <1>1 DEF WithoutOrder
  <2> QED
    BY <1>1, <2>1 DEF Drop, Restrict, Put
<1>5. rest.queue = RemoveFirst(levels[at].queue, id) /\ Contains(levels[at].queue, id)
  BY <1>1 DEF TakeOut, Desynced
<1> HIDE DEF after, e, rest
<1>6. ASSUME NEW k \in DOMAIN after PROVE Ranked(after[k].queue, e)
  <2>1. /\ k \in DOMAIN levels /\ levels[k].queue \in Seq(OrderId)
        /\ IsInjective(levels[k].queue) /\ Ranked(levels[k].queue, earlier)
    BY <1>4, InOrderIsRanked
  <2>2. CASE k = at
    BY <1>3, <1>4, <1>5, <2>1, <2>2, RemovalRanks
  <2>3. CASE k # at
    <3>1. \A n \in DOMAIN levels[k].queue : KeyOf(pool[levels[k].queue[n]]) = k
      BY <2>1 DEF Sound, Agree
    <3>2. ~Contains(levels[k].queue, id)
      BY <2>1, <2>3, <3>1 DEF Contains, at
    <3> QED
      BY <1>3, <1>4, <2>1, <2>3, <3>2 DEF Ranked
  <2> QED
    BY <2>2, <2>3
<1> QED
  BY <1>2, <1>6, InOrderIsRanked DEF after, e

\* An order that joins behind all others leaves the queues in order.
LEMMA AdditionInOrder ==
  ASSUME NEW p, NEW lvls, Sound(p, lvls), NEW id \in OrderId, id \notin DOMAIN p, NEW o \in Order,
         NEW e, InOrderOf(lvls, e),
         NEW f, \A a, b : a # id /\ b # id => (<<a, b>> \in f <=> <<a, b>> \in e),
         \A a \in DOMAIN p : <<a, id>> \in f,
         \A a : <<id, a>> \notin f
  PROVE  InOrderOf(WithOrder(lvls, id, KeyOf(o), o.quantity), f)
<1> DEFINE at == KeyOf(o)
           old == IF at \in DOMAIN lvls THEN lvls[at] ELSE [quantity |-> 0, queue |-> <<>>]
           after == WithOrder(lvls, id, at, o.quantity)
<1>1. /\ DOMAIN after = DOMAIN lvls \union {at}
      /\ after[at].queue = Append(old.queue, id)
      /\ \A k \in DOMAIN lvls \ {at} : after[k] = lvls[k]
  BY DEF WithOrder, Put, PushBack
<1>2. Sound(Put(p, id, o), after)
  BY AdditionAgrees
<1>3. ASSUME NEW k \in DOMAIN lvls
      PROVE  /\ lvls[k].queue \in Seq(OrderId) /\ IsInjective(lvls[k].queue)
             /\ Ranked(lvls[k].queue, e)
             /\ \A a : Contains(lvls[k].queue, a) => a \in DOMAIN p /\ a # id
  BY InOrderIsRanked DEF Sound, Agree, Contains
<1>4. /\ old.queue \in Seq(OrderId) /\ IsInjective(old.queue)
      /\ Ranked(old.queue, e)
      /\ \A a : Contains(old.queue, a) => a \in DOMAIN p /\ a # id
  <2>1. CASE at \in DOMAIN lvls
    BY <1>3, <2>1
  <2>2. CASE at \notin DOMAIN lvls
    <3>1. old.queue = <<>> /\ \A a : ~Contains(<<>>, a)
      BY <2>2 DEF Contains
    <3>2. <<>> \in Seq(OrderId) /\ IsInjective(<<>>)
      BY DEF IsInjective
    <3> QED
      BY <3>1, <3>2, Zenon DEF Ranked
  <2> QED
    BY <2>1, <2>2
<1> HIDE DEF at, old, after
<1>5. ASSUME NEW k \in DOMAIN after PROVE Ranked(after[k].queue, f)
  <2>1. CASE k = at
    <3>1. ~Contains(old.queue, id) /\ \A a : Contains(old.queue, a) => <<a, id>> \in f
      BY <1>4
    <3>2. Ranked(Append(old.queue, id), f)
      BY <1>4, <3>1, AppendRanks
    <3> QED
      BY <1>1, <2>1, <3>2
  <2>2. CASE k # at
    BY <1>1, <1>3, <2>2 DEF Ranked
  <2> QED
    BY <2>1, <2>2
<1> QED
  BY <1>2, <1>5, InOrderIsRanked DEF after, at

\* Each order stands behind those that had their places before it.
PriorityInv == earlier \subseteq OrderId \X OrderId /\ InOrderOf(levels, earlier)

\* An order that takes a new place takes it behind the others.
LEMMA PlaceIsLast ==
  ASSUME earlier \subseteq OrderId \X OrderId, DOMAIN pool \subseteq OrderId,
         NEW id \in OrderId, TakePlace(id)
  PROVE  /\ earlier' \subseteq OrderId \X OrderId
         /\ \A a, b : a # id /\ b # id => (<<a, b>> \in earlier' <=> <<a, b>> \in earlier)
         /\ \A a, b : a # id /\ b # id => (<<a, b>> \in earlier' <=> <<a, b>> \in Without({id}))
         /\ \A a \in DOMAIN pool \ {id} : <<a, id>> \in earlier'
         /\ \A a : <<id, a>> \notin earlier'
BY DEF TakePlace, Without

\* An order that leaves its level and joins another, or the same.
LEMMA MoveInOrder ==
  ASSUME Sound(pool, levels), PriorityInv, NEW id \in DOMAIN pool, NEW o \in Order,
         levels' = WithOrder(WithoutOrder(id, pool[id]), id, KeyOf(o), o.quantity),
         TakePlace(id)
  PROVE  PriorityInv'
<1>1. id \in OrderId /\ DOMAIN pool \subseteq OrderId
  BY DEF Sound, PoolType
<1>2. /\ Sound(Drop(pool, id), WithoutOrder(id, pool[id]))
      /\ InOrderOf(WithoutOrder(id, pool[id]), Without({id}))
  BY RemovalAgrees, RemovalInOrder DEF PriorityInv
<1>3. DOMAIN Drop(pool, id) = DOMAIN pool \ {id}
  BY DEF Drop, Restrict
<1>4. /\ earlier' \subseteq OrderId \X OrderId
      /\ \A a, b : a # id /\ b # id => (<<a, b>> \in earlier' <=> <<a, b>> \in Without({id}))
      /\ \A a \in DOMAIN pool \ {id} : <<a, id>> \in earlier'
      /\ \A a : <<id, a>> \notin earlier'
  BY <1>1, PlaceIsLast DEF PriorityInv
<1>5. InOrderOf(levels', earlier')
  BY <1>1, <1>2, <1>3, <1>4, AdditionInOrder
<1> QED
  BY <1>4, <1>5 DEF PriorityInv

\* An order added, or added again, joins behind the others.
LEMMA AddingInOrder ==
  ASSUME BookInv, PriorityInv, NEW id \in OrderId, NEW i \in Instrument, NEW s \in Side,
         NEW p \in Price, NEW q \in Quantity,
         AddOrder(id, i, s, p, q) \/ ReAddOrder(id, i, s, p, q)
  PROVE  PriorityInv'
<1> DEFINE o == [instrument |-> i, side |-> s, price |-> p, quantity |-> q]
<1>1. o \in Order /\ KeyOf(o) = <<i, s, p>> /\ o.quantity = q
  BY DEF Order, KeyOf
<1> HIDE DEF o
<1>2. CASE AddOrder(id, i, s, p, q)
  <2>1. /\ id \notin DOMAIN pool /\ TakePlace(id)
        /\ levels' = WithOrder(levels, id, KeyOf(o), o.quantity)
    BY <1>1, <1>2 DEF AddOrder
  <2>2. /\ earlier' \subseteq OrderId \X OrderId
        /\ \A a, b : a # id /\ b # id => (<<a, b>> \in earlier' <=> <<a, b>> \in earlier)
        /\ \A a \in DOMAIN pool : <<a, id>> \in earlier'
        /\ \A a : <<id, a>> \notin earlier'
    <3>1. DOMAIN pool \subseteq OrderId
      BY DEF BookInv, Sound, PoolType
    <3> QED
      BY <2>1, <3>1, PlaceIsLast DEF PriorityInv
  <2>3. InOrderOf(levels', earlier')
    BY <1>1, <2>1, <2>2, AdditionInOrder DEF BookInv, PriorityInv
  <2> QED
    BY <2>2, <2>3 DEF PriorityInv
<1>3. CASE ReAddOrder(id, i, s, p, q)
  BY <1>1, <1>3, MoveInOrder DEF BookInv, ReAddOrder
<1> QED
  BY <1>2, <1>3

\* A change of size in place moves nobody.
LEMMA ResizingInOrder ==
  ASSUME Sound(pool, levels), PriorityInv, NEW id \in DOMAIN pool, NEW q \in Quantity,
         levels' = WithSize(pool[id], q), UNCHANGED earlier
  PROVE  PriorityInv'
<1>1. KeyOf(pool[id]) \in DOMAIN levels /\ levels[KeyOf(pool[id])] \in Level
  BY NotDesynced DEF Sound, LevelsType
<1>2. DOMAIN levels' = DOMAIN levels /\ \A k \in DOMAIN levels : levels'[k].queue = levels[k].queue
  BY <1>1 DEF WithSize, Put, Resize, Level
<1> QED
  BY <1>2 DEF PriorityInv, InOrderOf

\* An order that departs leaves the others in order.
LEMMA LeavingInOrder ==
  ASSUME Sound(pool, levels), PriorityInv, NEW id \in DOMAIN pool,
         levels' = WithoutOrder(id, pool[id]), Leave({id})
  PROVE  PriorityInv'
BY RemovalInOrder DEF PriorityInv, Leave, Without

\* An order modified keeps its place or joins behind the others, as the
\* message has it.
LEMMA ModifyingInOrder ==
  ASSUME BookInv, PriorityInv, NEW id \in DOMAIN pool, NEW q \in Quantity, NEW p \in Price,
         NEW retained \in BOOLEAN, OrderModified(id, q, p, retained)
  PROVE  PriorityInv'
<1>1. CASE ModifyInPlace(id, q, p, retained)
  BY <1>1, ResizingInOrder DEF BookInv, OrderModified, ModifyInPlace
<1>2. CASE ModifyToBack(id, q, p, retained)
  <2> DEFINE o == [pool[id] EXCEPT !.quantity = q, !.price = p]
  <2>1. o \in Order /\ KeyOf(o) = <<pool[id].instrument, pool[id].side, p>> /\ o.quantity = q
    BY DEF Order, KeyOf, BookInv, Sound, PoolType
  <2> HIDE DEF o
  <2>2. TakePlace(id) /\ levels' = WithOrder(WithoutOrder(id, pool[id]), id, KeyOf(o), o.quantity)
    BY <1>2, <2>1 DEF OrderModified, ModifyToBack
  <2> QED
    BY <2>1, <2>2, MoveInOrder DEF BookInv
<1> QED
  BY <1>1, <1>2 DEF OrderModified

\* An order filled in part keeps its place.
LEMMA FillingInOrder ==
  ASSUME BookInv, PriorityInv, NEW id \in DOMAIN pool, NEW executed \in Quantity,
         NEW remaining \in Quantity, ResizeOrRemove(id, executed, remaining)
  PROVE  PriorityInv'
BY LeavingInOrder, ResizingInOrder DEF BookInv, ResizeOrRemove

\* A book cleared takes its own orders away and no other.
LEMMA ClearingInOrder ==
  ASSUME BookInv, PriorityInv, NEW i \in Instrument, OrderBookClear(i)
  PROVE  PriorityInv'
<1> DEFINE gone == {id \in DOMAIN pool : pool[id].instrument = i}
<1>1. /\ DOMAIN levels' = {k \in DOMAIN levels : k[1] # i}
      /\ \A k \in DOMAIN levels' : levels'[k] = levels[k]
      /\ earlier' = Without(gone)
  BY DEF OrderBookClear, Restrict, Leave
<1>2. ASSUME NEW k \in DOMAIN levels', NEW n \in DOMAIN levels[k].queue
      PROVE  levels[k].queue[n] \notin gone
  <2>1. KeyOf(pool[levels[k].queue[n]]) = k /\ k[1] # i
    BY <1>1 DEF BookInv, Sound, Agree
  <2> QED
    BY <2>1 DEF KeyOf
<1> HIDE DEF gone
<1> QED
  BY <1>1, <1>2 DEF PriorityInv, InOrderOf, Without

\* Every message and every reset keeps the queues in order.
LEMMA PriorityStep == BookInv /\ PriorityInv /\ [BookNext]_vars => PriorityInv'
<1> SUFFICES ASSUME BookInv, PriorityInv, [BookNext]_vars PROVE PriorityInv'
  OBVIOUS
<1>1. CASE UNCHANGED <<levels, earlier>>
  BY <1>1 DEF PriorityInv
<1>2. CASE Reset
  BY <1>2 DEF Reset, PriorityInv, InOrderOf, EmptyMap
<1>3. ASSUME NEW id \in OrderId, OrderDeleted(id)
      PROVE  PriorityInv'
  BY <1>3, LeavingInOrder DEF BookInv, OrderDeleted
<1>4. ASSUME NEW id \in DOMAIN pool, NEW executed \in Quantity, OrderExecuted(id, executed)
      PROVE  PriorityInv'
  <2>1. SaturatingSub(pool[id].quantity, executed) \in Quantity
    BY MaxQuantityAssumption DEF BookInv, Sound, PoolType, Order, SaturatingSub, Quantity
  <2> QED
    BY <1>4, <2>1, FillingInOrder DEF OrderExecuted
<1>5. ASSUME NEW id \in DOMAIN pool, NEW executed \in Quantity, NEW display \in Quantity,
             NEW p \in Price, NEW printable \in BOOLEAN,
             OrderExecutedWithPriceSize(id, executed, display, p, printable)
      PROVE  PriorityInv'
  BY <1>5, FillingInOrder DEF OrderExecutedWithPriceSize
<1>6. CASE \/ NoBookMessage
           \/ \E id \in OrderId : UnknownOrder(id)
           \/ \E i \in Instrument, p \in Price, executed \in Quantity : Trade(i, p, executed)
           \/ UNCHANGED vars
  BY <1>1, <1>6 DEF NoBookMessage, UnknownOrder, Trade, vars
<1> QED
  BY <1>2, <1>3, <1>4, <1>5, <1>6, AddingInOrder, ModifyingInOrder, ClearingInOrder DEF BookNext

\* The history starts empty, and the queues are in order ever after.
LEMMA PriorityAlways == BookSpec => []PriorityInv
<1>1. BookInit => PriorityInv
  BY DEF BookInit, PriorityInv, InOrderOf, EmptyMap
<1> QED
  BY <1>1, PriorityStep, BookInvAlways, PTL DEF BookSpec

\* Whatever the venue sends, the orders of a level stand in the order in which
\* they were given their places.
THEOREM QueuesKeepPriority == BookSpec => []TimePriorityKept
<1>1. PriorityInv => TimePriorityKept
  BY DEF PriorityInv, TimePriorityKept
<1> QED
  BY <1>1, PriorityAlways, PTL

\* Every stream of messages leaves the books of their types.
THEOREM BookTypeCorrect == BookSpec => []BookTypeOK
<1>1. BookInv /\ PriorityInv => BookTypeOK
  BY DEF BookInv, Sound, PoolType, LevelsType, TapeType, CountsOK, PriorityInv, BookTypeOK
<1> QED
  BY <1>1, BookInvAlways, PriorityAlways, PTL

----
(***************************************************************************)
(* What a message may do to other books.                                   *)
(***************************************************************************)

\* Levels as they were, but for those of instrument i.
SameElsewhere(lvls, after, i) ==
  \A j \in Instrument \ {i} :
    \A k \in LevelKey : k[1] = j =>
      /\ k \in DOMAIN after <=> k \in DOMAIN lvls
      /\ k \in DOMAIN lvls => after[k] = lvls[k]

\* Taking an order out touches no other book.
LEMMA RemovalIsLocal ==
  ASSUME Sound(pool, levels), NEW id \in DOMAIN pool
  PROVE  SameElsewhere(levels, WithoutOrder(id, pool[id]), pool[id].instrument)
<1>1. KeyOf(pool[id]) \in DOMAIN levels /\ KeyOf(pool[id])[1] = pool[id].instrument
  BY NotDesynced DEF Sound, KeyOf
<1> QED
  BY <1>1 DEF SameElsewhere, WithoutOrder, Drop, Restrict, Put

\* Adding an order touches no other book.
LEMMA AdditionIsLocal ==
  ASSUME NEW lvls, NEW id, NEW o \in Order
  PROVE  SameElsewhere(lvls, WithOrder(lvls, id, KeyOf(o), o.quantity), o.instrument)
<1>1. KeyOf(o)[1] = o.instrument
  BY DEF KeyOf
<1> QED
  BY <1>1 DEF SameElsewhere, WithOrder, Put

\* Resizing an order touches no other book.
LEMMA ResizingIsLocal ==
  ASSUME Sound(pool, levels), NEW id \in DOMAIN pool, NEW q \in Quantity
  PROVE  SameElsewhere(levels, WithSize(pool[id], q), pool[id].instrument)
<1>1. KeyOf(pool[id]) \in DOMAIN levels /\ KeyOf(pool[id])[1] = pool[id].instrument
  BY NotDesynced DEF Sound, KeyOf
<1> QED
  BY <1>1 DEF SameElsewhere, WithSize, Put

\* What a message changes is in the book it reports, or it re-adds an order.
Reported ==
  \/ SameElsewhere(levels, levels', touched')
  \/ anomalies'.duplicate_order > anomalies.duplicate_order
  \/ Reset

\* An order added, or added again.
LEMMA AddingReports ==
  ASSUME BookInv, NEW id \in OrderId, NEW i \in Instrument, NEW s \in Side, NEW p \in Price,
         NEW q \in Quantity, AddOrder(id, i, s, p, q) \/ ReAddOrder(id, i, s, p, q)
  PROVE  Reported
<1> DEFINE o == [instrument |-> i, side |-> s, price |-> p, quantity |-> q]
<1>1. o \in Order /\ KeyOf(o) = <<i, s, p>> /\ o.quantity = q /\ o.instrument = i
  BY DEF Order, KeyOf
<1> HIDE DEF o
<1>2. CASE AddOrder(id, i, s, p, q)
  <2>1. touched' = o.instrument /\ levels' = WithOrder(levels, id, KeyOf(o), o.quantity)
    BY <1>1, <1>2 DEF AddOrder
  <2> QED
    BY <1>1, <2>1, AdditionIsLocal DEF Reported
<1>3. CASE ReAddOrder(id, i, s, p, q)
  BY <1>3 DEF ReAddOrder, Tally, BookInv, CountsOK, Anomaly, Reported
<1> QED
  BY <1>2, <1>3

\* An order modified.
LEMMA ModifyingReports ==
  ASSUME BookInv, NEW id \in DOMAIN pool, NEW q \in Quantity, NEW p \in Price,
         NEW retained \in BOOLEAN, OrderModified(id, q, p, retained)
  PROVE  Reported
<1>1. CASE ModifyInPlace(id, q, p, retained)
  BY <1>1, ResizingIsLocal DEF BookInv, ModifyInPlace, Reported
<1>2. CASE ModifyToBack(id, q, p, retained)
  <2> DEFINE o == [pool[id] EXCEPT !.quantity = q, !.price = p]
             mid == WithoutOrder(id, pool[id])
  <2>1. /\ o \in Order /\ KeyOf(o) = <<pool[id].instrument, pool[id].side, p>>
        /\ o.quantity = q /\ o.instrument = pool[id].instrument
    BY DEF Order, KeyOf, BookInv, Sound, PoolType
  <2>2. levels' = WithOrder(mid, id, KeyOf(o), o.quantity) /\ touched' = o.instrument
    BY <1>2, <2>1 DEF ModifyToBack
  <2>3. SameElsewhere(levels, mid, o.instrument)
    BY <2>1, RemovalIsLocal DEF BookInv
  <2> HIDE DEF o, mid
  <2>4. SameElsewhere(mid, levels', o.instrument)
    BY <2>1, <2>2, AdditionIsLocal
  <2> QED
    BY <2>2, <2>3, <2>4 DEF SameElsewhere, Reported
<1> QED
  BY <1>1, <1>2 DEF OrderModified

\* An order filled.
LEMMA FillingReports ==
  ASSUME BookInv, NEW id \in DOMAIN pool, NEW executed \in Quantity, NEW remaining \in Quantity,
         ResizeOrRemove(id, executed, remaining)
  PROVE  Reported
BY RemovalIsLocal, ResizingIsLocal DEF BookInv, ResizeOrRemove, Reported

\* Every message reports what it changed.
LEMMA StepReports == BookInv /\ BookNext => Reported
<1> SUFFICES ASSUME BookInv, BookNext PROVE Reported
  OBVIOUS
<1>1. CASE Reset
  BY <1>1 DEF Reported
<1>2. ASSUME NEW id \in OrderId, OrderDeleted(id)
      PROVE  Reported
  BY <1>2, RemovalIsLocal DEF BookInv, OrderDeleted, Reported
<1>3. ASSUME NEW id \in DOMAIN pool, NEW executed \in Quantity, OrderExecuted(id, executed)
      PROVE  Reported
  <2>1. SaturatingSub(pool[id].quantity, executed) \in Quantity
    BY MaxQuantityAssumption DEF BookInv, Sound, PoolType, Order, SaturatingSub, Quantity
  <2> QED
    BY <1>3, <2>1, FillingReports DEF OrderExecuted
<1>4. ASSUME NEW id \in DOMAIN pool, NEW executed \in Quantity, NEW display \in Quantity,
             NEW p \in Price, NEW printable \in BOOLEAN,
             OrderExecutedWithPriceSize(id, executed, display, p, printable)
      PROVE  Reported
  BY <1>4, FillingReports DEF OrderExecutedWithPriceSize
<1>5. CASE \/ NoBookMessage
           \/ \E id \in OrderId : UnknownOrder(id)
           \/ \E i \in Instrument, p \in Price, executed \in Quantity : Trade(i, p, executed)
  BY <1>5 DEF NoBookMessage, UnknownOrder, Trade, Reported, SameElsewhere
<1>6. ASSUME NEW i \in Instrument, OrderBookClear(i)
      PROVE  Reported
  BY <1>6 DEF OrderBookClear, Restrict, Reported, SameElsewhere
<1> QED
  BY <1>1, <1>2, <1>3, <1>4, <1>5, <1>6, AddingReports, ModifyingReports DEF BookNext

\* Republishing the book a message reports keeps every quote current, but for
\* the stale order of a re-add.
THEOREM OnlyReportedChanges == BookSpec => OnlyTouchedChanges
<1> DEFINE Told == \A i \in Instrument :
       BookOf(levels', i) # BookOf(levels, i)
         => \/ touched' = i
            \/ anomalies'.duplicate_order > anomalies.duplicate_order
            \/ Reset
<1>1. BookInv /\ BookInv' /\ [BookNext]_vars => [Told]_vars
  <2> SUFFICES ASSUME BookInv, BookInv', BookNext, NEW i \in Instrument, touched' # i,
                      SameElsewhere(levels, levels', touched')
               PROVE  BookOf(levels', i) = BookOf(levels, i)
    BY StepReports DEF Reported, Told
  <2>1. DOMAIN levels \subseteq LevelKey /\ DOMAIN levels' \subseteq LevelKey
    BY DEF BookInv, Sound, LevelsType
  <2>2. {k \in DOMAIN levels' : k[1] = i} = {k \in DOMAIN levels : k[1] = i}
    BY <2>1 DEF SameElsewhere
  <2>3. \A k \in DOMAIN levels : k[1] = i => levels'[k] = levels[k]
    BY <2>1 DEF SameElsewhere
  <2> QED
    BY <2>2, <2>3 DEF BookOf
<1> QED
  BY <1>1, BookInvAlways, PTL DEF BookSpec, OnlyTouchedChanges
====
