---- MODULE FoldLemmas ----
(***************************************************************************)
(* What the folds of the community modules compute, for any finite set and *)
(* any sequence.  They are recursive functions on the subsets of a set; a  *)
(* function that satisfies such a recursion exists and is the only one,    *)
(* and both follow from the least counterexample, as the provers know no   *)
(* induction.  Operators are replaced by functions, which a lemma may be   *)
(* instantiated with.                                                      *)
(***************************************************************************)
EXTENDS SequencesExt, Integers, FiniteSetTheorems, WellFoundedInduction, TLAPS

----
(* Least counterexamples. *)

\* Of the finite sets of a collection one has no smaller one in it.
LEMMA LeastSet ==
  ASSUME NEW S, IsFiniteSet(S), NEW C, C \subseteq SUBSET S, C # {}
  PROVE  \E s \in C : \A t \in C : t \subseteq s => t = s
<1>1. IsWellFoundedOn(StrictSubsetOrdering(S), FiniteSubsetsOf(S))
  BY FS_StrictSubsetOrderingWellFounded, Zenon
<1>2. C \subseteq FiniteSubsetsOf(S)
  BY FS_FiniteSubsetsOfFinite, Zenon
<1>3. \E s \in C : \A t \in C : ~(<<t, s>> \in StrictSubsetOrdering(S))
  BY <1>1, <1>2, WFMin, Zenon
<1>4. PICK s \in C : \A t \in C : ~(<<t, s>> \in StrictSubsetOrdering(S))
  BY <1>3
<1>5. \A t \in C : t \subseteq s => t = s
  BY <1>4 DEF StrictSubsetOrdering
<1> QED
  BY <1>5

\* A set of natural numbers has a least one.
LEMMA LeastNumber ==
  ASSUME NEW C \in SUBSET Nat, C # {}
  PROVE  \E n \in C : \A m \in C : n <= m
<1> DEFINE less == OpToRel(<, Nat)
<1>1. \E n \in C : \A m \in C : ~(<<m, n>> \in less)
  BY NatLessThanWellFounded, WFMin, Zenon
<1>2. \A m, n \in C : <<m, n>> \in less <=> m < n
  BY DEF OpToRel
<1> HIDE DEF less
<1>3. \A m, n \in C : ~(m < n) => n <= m
  OBVIOUS
<1> QED
  BY <1>1, <1>2, <1>3

----
(* Recursion on the subsets of a finite set. *)

\* g is computed from base by taking the elements of a set in turn, the one
\* that ch chooses last; step says what an element makes of the result so far.
Folds(g, base, ch, step, S) ==
  \A s \in SUBSET S : g[s] = IF s = {} THEN base ELSE step[<<ch[s], g[s \ {ch[s]}]>>]

Chooses(ch, S) == \A s \in SUBSET S : s # {} => ch[s] \in s

\* Two such functions are the same on the sets they are both defined for.
LEMMA FoldIsUnique ==
  ASSUME NEW S, IsFiniteSet(S), NEW base, NEW ch, NEW step, Chooses(ch, S),
         NEW T, S \in SUBSET T, NEW U, S \in SUBSET U,
         NEW g, Folds(g, base, ch, step, T), NEW h, Folds(h, base, ch, step, U)
  PROVE  \A s \in SUBSET S : g[s] = h[s]
<1> DEFINE C == {s \in SUBSET S : g[s] # h[s]}
<1>1. C \subseteq SUBSET S
  OBVIOUS
<1> SUFFICES ASSUME C # {} PROVE FALSE
  OBVIOUS
<1> HIDE DEF C
<1>2. PICK s \in C : \A t \in C : t \subseteq s => t = s
  BY <1>1, LeastSet
<1> USE DEF C
<1>3. s \in SUBSET T /\ s \in SUBSET U /\ g[s] # h[s]
  OBVIOUS
<1>4. s # {}
  BY <1>3 DEF Folds
<1>5. ch[s] \in s
  BY <1>4 DEF Chooses
<1>6. g[s \ {ch[s]}] = h[s \ {ch[s]}]
  BY <1>2, <1>5
<1> QED
  BY <1>3, <1>4, <1>6 DEF Folds

\* There is one.
LEMMA FoldExists ==
  ASSUME NEW S, IsFiniteSet(S), NEW base, NEW ch, NEW step, Chooses(ch, S)
  PROVE  \E g : Folds(g, base, ch, step, S)
<1> DEFINE Has(T) == \E g : Folds(g, base, ch, step, T)
           C == {T \in SUBSET S : ~Has(T)}
<1>1. C \subseteq SUBSET S
  OBVIOUS
<1> SUFFICES ASSUME C # {} PROVE FALSE
  OBVIOUS
<1> HIDE DEF C
<1>2. PICK T \in C : \A U \in C : U \subseteq T => U = T
  BY <1>1, LeastSet
<1> USE DEF C
<1> DEFINE Of(U) == CHOOSE g : Folds(g, base, ch, step, U)
<1>3. T \in SUBSET S /\ ~Has(T)
  OBVIOUS
<1>4. ASSUME NEW U \in SUBSET T, U # T
      PROVE  Folds(Of(U), base, ch, step, U)
  <2>1. Has(U)
    BY <1>2, <1>3, <1>4
  <2> QED
    BY <2>1
<1> DEFINE Less(s) == s \ {ch[s]}
           f == [s \in SUBSET T |-> IF s = {} THEN base
                                    ELSE step[<<ch[s], Of(Less(s))[Less(s)]>>]]
<1> HIDE DEF Of, Has, C
<1>5. ASSUME NEW s \in SUBSET T, s # {}
      PROVE  Less(s) \in SUBSET T /\ Less(s) # T /\ Less(s) \subseteq s
  BY <1>3, <1>5 DEF Chooses
<1>6. ASSUME NEW s \in SUBSET T, s # T
      PROVE  f[s] = Of(s)[s]
  <2>1. Folds(Of(s), base, ch, step, s)
    BY <1>4, <1>6
  <2>2. CASE s = {}
    BY <2>1, <2>2 DEF Folds
  <2>3. CASE s # {}
    <3> DEFINE r == Less(s)
    <3>1. r \in SUBSET T /\ r # T /\ r \subseteq s
      BY <1>5, <2>3
    <3>2. Folds(Of(r), base, ch, step, r)
      BY <1>4, <3>1
    <3>3. IsFiniteSet(r)
      BY <1>3, <3>1, FS_Subset
    <3>4. Chooses(ch, r)
      BY <1>3, <3>1 DEF Chooses
    <3> HIDE DEF r
    <3> DEFINE a == Of(s)
               b == Of(r)
    <3>5. Folds(a, base, ch, step, s) /\ Folds(b, base, ch, step, r) /\ r \in SUBSET r /\ r \in SUBSET s
      BY <2>1, <3>1, <3>2
    <3> HIDE DEF a, b
    <3>6. \A t \in SUBSET r : a[t] = b[t]
      BY ONLY <3>3, <3>4, <3>5, FoldIsUnique, SMT
    <3>8. Of(s)[r] = Of(r)[r]
      BY <3>6 DEF a, b
    <3>7. Of(s)[s] = step[<<ch[s], Of(s)[r]>>]
      BY <2>1, <2>3 DEF Folds, r
    <3> QED
      BY <2>3, <3>8, <3>7 DEF r
  <2> QED
    BY <2>2, <2>3
<1>7. Folds(f, base, ch, step, T)
  <2>1. ASSUME NEW s \in SUBSET T, s # {}
        PROVE  f[s] = step[<<ch[s], f[Less(s)]>>]
    <3>1. f[Less(s)] = Of(Less(s))[Less(s)]
      BY <1>5, <1>6, <2>1
    <3> QED
      BY <2>1, <3>1
  <2>2. f[{}] = base
    OBVIOUS
  <2> QED
    BY <2>1, <2>2 DEF Folds
<1> HIDE DEF f
<1> QED
  BY <1>3, <1>7 DEF Has

----
(* Sums. *)

Choice(s) == CHOOSE x \in s : TRUE

\* g is the sum of w over the subsets of S, as SumFunctionOnSet computes it.
Sums(g, w, S) ==
  /\ \A s \in SUBSET S : g[s] = IF s = {} THEN 0 ELSE w[Choice(s)] + g[s \ {Choice(s)}]
  /\ \A s \in SUBSET S : g[s] \in Nat

\* What satisfies the recursion is a natural number.
LEMMA SumsAreNat ==
  ASSUME NEW S, IsFiniteSet(S), NEW w, \A x \in S : w[x] \in Nat, NEW g,
         \A s \in SUBSET S : g[s] = IF s = {} THEN 0 ELSE w[Choice(s)] + g[s \ {Choice(s)}]
  PROVE  Sums(g, w, S)
<1> DEFINE C == {s \in SUBSET S : g[s] \notin Nat}
<1>1. C \subseteq SUBSET S
  OBVIOUS
<1>2. ASSUME C # {} PROVE FALSE
  <2> HIDE DEF C
  <2>1. PICK s \in C : \A t \in C : t \subseteq s => t = s
    BY <1>1, <1>2, LeastSet
  <2> USE DEF C
  <2>0. s \in SUBSET S /\ g[s] \notin Nat
    OBVIOUS
  <2>2. s # {} /\ s \in SUBSET S /\ g[s] \notin Nat
    <3>1. g[s] = IF s = {} THEN 0 ELSE w[Choice(s)] + g[s \ {Choice(s)}]
      BY <2>0
    <3> QED
      BY ONLY <2>0, <3>1, SMT
  <2>3. Choice(s) \in s
    BY <2>2 DEF Choice
  <2>4. g[s \ {Choice(s)}] \in Nat /\ w[Choice(s)] \in Nat
    BY <2>1, <2>2, <2>3
  <2>5. g[s] = w[Choice(s)] + g[s \ {Choice(s)}]
    BY <2>2
  <2> QED
    BY <2>2, <2>4, <2>5
<1> QED
  BY <1>2 DEF Sums

\* The recursion SumFunctionOnSet chooses its function by.
SumRule(g, w, S) ==
  g = [s \in SUBSET S |-> IF s = {} THEN 0 ELSE w[Choice(s)] + g[s \ {Choice(s)}]]

\* A function satisfies it.
LEMMA SumsExist ==
  ASSUME NEW S, IsFiniteSet(S), NEW w, \A x \in S : w[x] \in Nat
  PROVE  \E g : SumRule(g, w, S)
<1> DEFINE ch == [s \in SUBSET S |-> Choice(s)]
           step == [p \in S \X Nat |-> w[p[1]] + p[2]]
<1>1. Chooses(ch, S)
  BY DEF Chooses, Choice
<1>2. \A x \in S, n \in Nat : step[<<x, n>>] = w[x] + n
  OBVIOUS
<1> HIDE DEF ch, step
<1>3. PICK f : Folds(f, 0, ch, step, S)
  BY <1>1, FoldExists
<1> DEFINE C == {s \in SUBSET S : f[s] \notin Nat}
<1>4. C \subseteq SUBSET S
  OBVIOUS
<1>5. ASSUME NEW s \in SUBSET S, s # {}, f[s \ {ch[s]}] \in Nat
      PROVE  f[s] = w[ch[s]] + f[s \ {ch[s]}] /\ f[s] \in Nat
  <2>1. ch[s] \in S
    BY <1>1, <1>5 DEF Chooses
  <2>2. f[s] = step[<<ch[s], f[s \ {ch[s]}]>>]
    BY <1>3, <1>5 DEF Folds
  <2>3. f[s] = w[ch[s]] + f[s \ {ch[s]}]
    BY <1>2, <1>5, <2>1, <2>2
  <2>4. w[ch[s]] \in Nat
    BY <2>1
  <2> QED
    BY <1>5, <2>3, <2>4
<1>6. ASSUME C # {} PROVE FALSE
  <2> HIDE DEF C
  <2>1. PICK s \in C : \A t \in C : t \subseteq s => t = s
    BY <1>4, <1>6, LeastSet
  <2> USE DEF C
  <2>0. s \in SUBSET S /\ f[s] \notin Nat
    OBVIOUS
  <2>2. s # {} /\ s \in SUBSET S /\ f[s] \notin Nat
    <3>1. s = {} => f[s] = 0
      BY <1>3, <2>0 DEF Folds
    <3> QED
      BY <2>0, <3>1
  <2>3. ch[s] \in s
    BY <1>1, <2>2 DEF Chooses
  <2>4. f[s \ {ch[s]}] \in Nat
    BY <2>1, <2>2, <2>3
  <2> QED
    BY <1>5, <2>2, <2>4
<1>7. \A s \in SUBSET S : f[s] \in Nat
  BY <1>6
<1> HIDE DEF C
<1> DEFINE g == [s \in SUBSET S |-> f[s]]
<1>8. f[{}] = 0 /\ \A s \in SUBSET S : s # {} => f[s] = w[ch[s]] + f[s \ {ch[s]}]
  BY <1>3, <1>5, <1>7 DEF Folds
<1>9. \A s \in SUBSET S : ch[s] = Choice(s)
  BY DEF ch
<1>10. \A s \in SUBSET S : g[s] = IF s = {} THEN 0 ELSE w[Choice(s)] + g[s \ {Choice(s)}]
  BY <1>8, <1>9
<1>11. g = [s \in SUBSET S |-> IF s = {} THEN 0 ELSE w[Choice(s)] + g[s \ {Choice(s)}]]
  BY <1>10
<1> HIDE DEF g
<1> QED
  BY <1>11 DEF SumRule

\* The sum over a subset does not depend on the set it is a subset of, nor on
\* what w is elsewhere.
LEMMA SumsAgree ==
  ASSUME NEW S, IsFiniteSet(S), NEW T, S \subseteq T, NEW U, S \subseteq U,
         NEW v, NEW w, \A x \in S : v[x] = w[x],
         NEW g, Sums(g, v, T), NEW h, Sums(h, w, U)
  PROVE  g[S] = h[S]
<1> DEFINE C == {s \in SUBSET S : g[s] # h[s]}
<1>1. C \subseteq SUBSET S
  OBVIOUS
<1>2. ASSUME C # {} PROVE FALSE
  <2> HIDE DEF C
  <2>1. PICK s \in C : \A t \in C : t \subseteq s => t = s
    BY <1>1, <1>2, LeastSet
  <2> USE DEF C
  <2>2. s \in SUBSET S /\ s \in SUBSET T /\ s \in SUBSET U /\ g[s] # h[s]
    OBVIOUS
  <2>3. s # {}
    BY <2>2 DEF Sums
  <2>4. Choice(s) \in s
    BY <2>3 DEF Choice
  <2>5. g[s \ {Choice(s)}] = h[s \ {Choice(s)}] /\ v[Choice(s)] = w[Choice(s)]
    BY <2>1, <2>2, <2>4
  <2> QED
    BY <2>2, <2>3, <2>5 DEF Sums
<1>3. S \in SUBSET S
  OBVIOUS
<1> QED
  BY <1>2, <1>3

\* The function of the subsets of S that SumFunctionOnSet chooses.
SumsOf(w, S) == CHOOSE g : SumRule(g, w, S)

\* SumFunctionOnSet is that function's value.
LEMMA SumIsSums ==
  ASSUME NEW S, IsFiniteSet(S), NEW w, \A x \in S : w[x] \in Nat
  PROVE  Sums(SumsOf(w, S), w, S) /\ SumFunctionOnSet(w, S) = SumsOf(w, S)[S]
<1> DEFINE g == SumsOf(w, S)
<1>1. g = [s \in SUBSET S |-> IF s = {} THEN 0 ELSE w[Choice(s)] + g[s \ {Choice(s)}]]
  <2>1. \E h : SumRule(h, w, S)
    BY SumsExist
  <2> QED
    BY <2>1, Zenon DEF SumsOf, SumRule
<1>2. SumFunctionOnSet(w, S) = g[S]
  BY Zenon DEF SumFunctionOnSet, FoldFunctionOnSet, MapThenFoldSet, SumsOf, SumRule, Choice
<1> HIDE DEF g
<1>3. \A s \in SUBSET S : g[s] = IF s = {} THEN 0 ELSE w[Choice(s)] + g[s \ {Choice(s)}]
  BY <1>1
<1>4. Sums(g, w, S)
  BY <1>3, SumsAreNat
<1> QED
  BY <1>2, <1>4 DEF g

\* A sum of natural numbers is one, and that of nothing is zero.
LEMMA SumIsNat ==
  ASSUME NEW S, IsFiniteSet(S), NEW w, \A x \in S : w[x] \in Nat
  PROVE  SumFunctionOnSet(w, S) \in Nat /\ (S = {} => SumFunctionOnSet(w, S) = 0)
<1> DEFINE g == SumsOf(w, S)
<1>1. Sums(g, w, S) /\ SumFunctionOnSet(w, S) = g[S]
  BY SumIsSums
<1> HIDE DEF g
<1> QED
  BY <1>1 DEF Sums

\* A sum depends only on what is summed.
LEMMA SumSame ==
  ASSUME NEW S, IsFiniteSet(S), NEW v, NEW w, \A x \in S : w[x] \in Nat /\ v[x] = w[x]
  PROVE  SumFunctionOnSet(v, S) = SumFunctionOnSet(w, S)
<1> DEFINE g == SumsOf(v, S)
           h == SumsOf(w, S)
<1>1. Sums(g, v, S) /\ SumFunctionOnSet(v, S) = g[S]
  BY SumIsSums
<1>2. Sums(h, w, S) /\ SumFunctionOnSet(w, S) = h[S]
  BY SumIsSums
<1> HIDE DEF g, h
<1>3. g[S] = h[S]
  BY <1>1, <1>2, SumsAgree
<1> QED
  BY <1>1, <1>2, <1>3

\* The sum over a subset, in the function of a set.
LEMMA SumsAtSubset ==
  ASSUME NEW S, IsFiniteSet(S), NEW w, \A x \in S : w[x] \in Nat, NEW s \in SUBSET S,
         NEW g, Sums(g, w, S)
  PROVE  SumFunctionOnSet(w, s) = g[s]
<1>1. IsFiniteSet(s)
  BY FS_Subset
<1> DEFINE h == SumsOf(w, s)
<1>2. Sums(h, w, s) /\ SumFunctionOnSet(w, s) = h[s]
  BY <1>1, SumIsSums
<1> HIDE DEF h
<1>3. h[s] = g[s]
  BY <1>1, <1>2, SumsAgree
<1> QED
  BY <1>2, <1>3

\* Whichever element is taken out of a set, its sum is that of the rest and
\* the element.
LEMMA SumTake ==
  ASSUME NEW S, IsFiniteSet(S), NEW w, \A x \in S : w[x] \in Nat, NEW x \in S
  PROVE  SumFunctionOnSet(w, S) = w[x] + SumFunctionOnSet(w, S \ {x})
<1> DEFINE g == SumsOf(w, S)
<1>1. Sums(g, w, S) /\ SumFunctionOnSet(w, S) = g[S]
  BY SumIsSums
<1> HIDE DEF g
<1> DEFINE C == {s \in SUBSET S : \E y \in s : g[s] # w[y] + g[s \ {y}]}
<1>2. C \subseteq SUBSET S
  OBVIOUS
<1>3. ASSUME C # {} PROVE FALSE
  <2> HIDE DEF C
  <2>1. PICK s \in C : \A t \in C : t \subseteq s => t = s
    BY <1>2, <1>3, LeastSet
  <2> USE DEF C
  <2>2. PICK y \in s : s \in SUBSET S /\ g[s] # w[y] + g[s \ {y}]
    OBVIOUS
  <2> DEFINE a == Choice(s)
  <2>3. a \in s /\ g[s] = w[a] + g[s \ {a}]
    BY <1>1, <2>2 DEF Choice, Sums
  <2> HIDE DEF a
  <2>4. a # y
    BY <2>2, <2>3
  <2>5. ASSUME NEW b \in s
        PROVE  s \ {b} \in SUBSET S /\ s \ {b} \notin C
    BY <2>1, <2>2, <2>5
  <2>6. \A b, c \in s : b # c => g[s \ {b}] = w[c] + g[(s \ {b}) \ {c}]
    BY <2>5
  <2>7. (s \ {a}) \ {y} = (s \ {y}) \ {a}
    OBVIOUS
  <2> DEFINE both == (s \ {a}) \ {y}
  <2>8. g[s \ {a}] = w[y] + g[both] /\ g[s \ {y}] = w[a] + g[both]
    BY <2>3, <2>4, <2>6, <2>7
  <2>9. w[a] \in Nat /\ w[y] \in Nat /\ g[both] \in Nat
    BY <1>1, <2>2, <2>3 DEF Sums
  <2> HIDE DEF both
  <2> QED
    BY <2>2, <2>3, <2>8, <2>9
<1>4. g[S] = w[x] + g[S \ {x}]
  BY <1>3
<1>5. SumFunctionOnSet(w, S \ {x}) = g[S \ {x}]
  BY <1>1, SumsAtSubset
<1> QED
  BY <1>1, <1>4, <1>5

\* An element more adds what it weighs.
LEMMA SumPut ==
  ASSUME NEW S, IsFiniteSet(S), NEW x, x \notin S,
         NEW w, \A y \in S \union {x} : w[y] \in Nat
  PROVE  SumFunctionOnSet(w, S \union {x}) = w[x] + SumFunctionOnSet(w, S)
<1> DEFINE more == S \union {x}
<1>1. IsFiniteSet(more) /\ more \ {x} = S /\ x \in more
  BY FS_AddElement
<1> HIDE DEF more
<1>2. \A y \in more : w[y] \in Nat
  BY DEF more
<1> QED
  BY <1>1, <1>2, SumTake DEF more

----
(* Folds of sequences, from the left. *)

\* What holds of the empty set, and of a set when it holds of the set without
\* some element of it, holds of every finite set.
LEMMA SetInduction ==
  ASSUME NEW S, IsFiniteSet(S), NEW P, {} \in P,
         \A s \in SUBSET S : s # {} => \E x \in s : s \ {x} \in P => s \in P
  PROVE  (SUBSET S) \subseteq P
<1> DEFINE C == (SUBSET S) \ P
<1>1. C \subseteq SUBSET S
  OBVIOUS
<1>2. ASSUME C # {} PROVE FALSE
  <2> HIDE DEF C
  <2>1. PICK s \in C : \A t \in C : t \subseteq s => t = s
    BY <1>1, <1>2, LeastSet
  <2>2. s \in SUBSET S /\ s \notin P
    BY DEF C
  <2>3. PICK x \in s : s \ {x} \in P => s \in P
    BY <2>2
  <2>4. s \ {x} \notin C
    BY <2>1, <2>3
  <2> QED
    BY <2>2, <2>3, <2>4 DEF C
<1> QED
  BY <1>2

\* What holds of zero, and of a number's successor when it holds of the
\* number, holds of every natural number.
LEMMA NumberInduction ==
  ASSUME NEW P, 0 \in P, \A n \in Nat : n \in P => n + 1 \in P
  PROVE  Nat \subseteq P
<1> DEFINE C == Nat \ P
<1>1. ASSUME C # {} PROVE FALSE
  <2>0. C \in SUBSET Nat
    OBVIOUS
  <2> HIDE DEF C
  <2>1. PICK n \in C : \A m \in C : n <= m
    BY <1>1, <2>0, LeastNumber
  <2>2. n \in Nat /\ n \notin P /\ n # 0
    BY DEF C
  <2>3. n - 1 \in Nat /\ (n - 1) + 1 = n /\ ~(n <= n - 1)
    BY <2>2
  <2>4. n - 1 \notin C
    BY <2>1, <2>3
  <2> QED
    BY <2>2, <2>3, <2>4 DEF C
<1> QED
  BY <1>1

\* What rises from each index to the next is not the same at any two.
LEMMA RisingIsApart ==
  ASSUME NEW top \in Nat, NEW f, \A i \in 1 .. top : f[i] \in Nat,
         \A i \in 1 .. top - 1 : f[i] < f[i + 1]
  PROVE  \A i, j \in 1 .. top : f[i] = f[j] => i = j
<1> DEFINE P == {k \in Nat : \A i, j \in 1 .. top : i < j /\ j <= k => f[i] < f[j]}
<1>1. 0 \in P
  OBVIOUS
<1>2. ASSUME NEW k \in Nat, k \in P
      PROVE  k + 1 \in P
  <2> SUFFICES ASSUME NEW i \in 1 .. top, NEW j \in 1 .. top, i < j, j <= k + 1
               PROVE  f[i] < f[j]
    OBVIOUS
  <2>1. CASE j <= k
    BY <1>2, <2>1
  <2>2. CASE j = k + 1
    <3>1. k \in 1 .. top - 1 /\ k \in 1 .. top /\ i <= k
      BY <2>2
    <3>2. f[k] < f[j]
      BY <2>2, <3>1
    <3>3. i < k => f[i] < f[k]
      BY <1>2, <3>1
    <3>4. i = k \/ i < k
      BY <3>1
    <3> QED
      BY <3>1, <3>2, <3>3, <3>4
  <2> QED
    BY <2>1, <2>2
<1> HIDE DEF P
<1>3. Nat \subseteq P
  BY <1>1, <1>2, NumberInduction
<1>4. ASSUME NEW i \in 1 .. top, NEW j \in 1 .. top, i < j
      PROVE  f[i] < f[j]
  <2>1. j \in P /\ j <= j
    BY <1>3
  <2> QED
    BY <1>4, <2>1 DEF P
<1> QED
  BY <1>4

\* The largest index of a part of a sequence.
LEMMA LargestIndex ==
  ASSUME NEW n \in Nat, NEW s \in SUBSET (1 .. n), s # {}
  PROVE  Max(s) \in s /\ \A i \in s : i <= Max(s)
<1> DEFINE C == {n - i : i \in s}
<1>0. \A i \in s : i \in 1 .. n /\ n - i \in Nat
  OBVIOUS
<1>1. C \in SUBSET Nat /\ C # {}
  BY <1>0
<1>2. PICK m \in C : \A k \in C : m <= k
  BY <1>1, LeastNumber
<1>3. PICK j \in s : m = n - j
  OBVIOUS
<1>4. \A i \in s : i <= j
  BY <1>0, <1>2, <1>3
<1> QED
  BY <1>0, <1>3, <1>4 DEF Max

\* The sum of the first m weights is one more weight than that of the first
\* m - 1, and none at first.
LEMMA PrefixSum ==
  ASSUME NEW n \in Nat, NEW w, \A i \in 1 .. n : w[i] \in Nat, NEW m \in 0 .. n
  PROVE  /\ SumFunctionOnSet(w, 1 .. m) \in Nat
         /\ m = 0 => SumFunctionOnSet(w, 1 .. m) = 0
         /\ m > 0 => SumFunctionOnSet(w, 1 .. m) = w[m] + SumFunctionOnSet(w, 1 .. m - 1)
<1>1. IsFiniteSet(1 .. m)
  BY FS_Interval
<1>2. \A i \in 1 .. m : w[i] \in Nat
  OBVIOUS
<1>3. m = 0 => 1 .. m = {}
  OBVIOUS
<1>4. ASSUME m > 0
      PROVE  SumFunctionOnSet(w, 1 .. m) = w[m] + SumFunctionOnSet(w, 1 .. m - 1)
  <2>1. m \in 1 .. m /\ (1 .. m) \ {m} = 1 .. m - 1
    BY <1>4
  <2> QED
    BY <1>1, <1>2, <2>1, SumTake
<1> QED
  BY <1>1, <1>2, <1>3, <1>4, SumIsNat

\* The recursion FoldLeft chooses its function by, when it adds up weights.
LeftRule(f, base, w, n) ==
  f = [s \in SUBSET (1 .. n) |-> IF s = {} THEN base ELSE f[s \ {Max(s)}] + w[Max(s)]]

\* There is such a function, and it adds the weights to the base.
LEMMA LeftSum ==
  ASSUME NEW base \in Nat, NEW n \in Nat, NEW w, \A i \in 1 .. n : w[i] \in Nat
  PROVE  /\ \E f : LeftRule(f, base, w, n)
         /\ \A f : LeftRule(f, base, w, n) => f[1 .. n] = base + SumFunctionOnSet(w, 1 .. n)
<1> DEFINE S == 1 .. n
           sums == [s \in SUBSET S |-> base + SumFunctionOnSet(w, s)]
<1>1. IsFiniteSet(S)
  BY FS_Interval
<1>2. ASSUME NEW s \in SUBSET S, s # {}
      PROVE  Max(s) \in s /\ sums[s] = sums[s \ {Max(s)}] + w[Max(s)]
  <2>1. Max(s) \in s
    BY <1>2, LargestIndex
  <2> DEFINE x == Max(s)
             r == s \ {x}
             a == SumFunctionOnSet(w, r)
  <2>2. IsFiniteSet(s) /\ IsFiniteSet(r) /\ \A i \in s : w[i] \in Nat
    BY <1>1, FS_Subset
  <2>3. a \in Nat /\ w[x] \in Nat
    BY <2>1, <2>2, SumIsNat
  <2>4. SumFunctionOnSet(w, s) = w[x] + a
    BY <2>1, <2>2, SumTake
  <2>5. sums[s] = base + (w[x] + a) /\ sums[r] = base + a
    BY <2>4
  <2> HIDE DEF x, a, sums
  <2>6. sums[s] = sums[r] + w[x]
    BY <2>3, <2>5
  <2> QED
    BY <2>1, <2>6 DEF x
<1>3. sums[{}] = base
  BY SumIsNat, FS_EmptySet
<1>4. LeftRule(sums, base, w, n)
  <2>1. sums = [s \in SUBSET S |-> sums[s]]
    OBVIOUS
  <2> HIDE DEF sums
  <2> QED
    BY <1>2, <1>3, <2>1 DEF LeftRule
<1>5. ASSUME NEW f, LeftRule(f, base, w, n)
      PROVE  f[S] = sums[S]
  <2> DEFINE P == {s \in SUBSET S : f[s] = sums[s]}
  <2>1. f[{}] = base /\ \A s \in SUBSET S : s # {} => f[s] = f[s \ {Max(s)}] + w[Max(s)]
    BY <1>5 DEF LeftRule
  <2> HIDE DEF S, sums
  <2>2. {} \in P
    BY <1>3, <2>1
  <2>3. ASSUME NEW s \in SUBSET S, s # {}
        PROVE  \E x \in s : s \ {x} \in P => s \in P
    BY <1>2, <2>1, <2>3
  <2> HIDE DEF P
  <2>4. (SUBSET S) \subseteq P
    BY <1>1, <2>2, <2>3, SetInduction
  <2>5. S \in P
    BY <2>4
  <2> QED
    BY <2>5 DEF P
<1>6. sums[S] = base + SumFunctionOnSet(w, S)
  OBVIOUS
<1> HIDE DEF sums
<1> QED
  BY <1>4, <1>5, <1>6

----
(* Remainders. *)

\* A number is a multiple and its remainder, and nothing else is.
LEMMA Remainder ==
  ASSUME NEW m \in Nat \ {0}
  PROVE  /\ \A a \in Nat : \E q \in Nat, r \in 0 .. m - 1 : a = m * q + r /\ a % m = r
         /\ \A q \in Nat, r \in 0 .. m - 1 : (m * q + r) % m = r
<1>1. ASSUME NEW a \in Nat
      PROVE  \E q \in Nat, r \in 0 .. m - 1 : a = m * q + r /\ a % m = r
  BY Z3
<1>2. ASSUME NEW q \in Nat, NEW r \in 0 .. m - 1
      PROVE  (m * q + r) % m = r
  BY Z3
<1> QED
  BY <1>1, <1>2

\* Counting on in a circle.
LEMMA NextInCircle ==
  ASSUME NEW m \in Nat \ {0}, NEW a \in Nat
  PROVE  /\ a % m \in 0 .. m - 1
         /\ ((a % m) + 1) % m = (a + 1) % m
<1>1. PICK q \in Nat, r \in 0 .. m - 1 : a = m * q + r /\ a % m = r
  BY Remainder
<1>2. CASE r + 1 < m
  <2>1. r + 1 \in 0 .. m - 1 /\ m * q \in Nat
    BY <1>2
  <2>2. (m * q + (r + 1)) % m = r + 1
    BY <2>1, Remainder
  <2>3. (m * 0 + (r + 1)) % m = r + 1
    BY <2>1, Remainder
  <2>4. a + 1 = m * q + (r + 1) /\ r + 1 = m * 0 + (r + 1)
    BY <1>1, <2>1
  <2> QED
    BY <1>1, <2>2, <2>3, <2>4
<1>3. CASE r + 1 = m
  <2>1. (m * (q + 1) + 0) % m = 0 /\ (m * 1 + 0) % m = 0
    BY Remainder
  <2>2. m * q \in Nat /\ m * (q + 1) = m * q + m
    OBVIOUS
  <2>3. a + 1 = m * (q + 1) + 0 /\ r + 1 = m * 1 + 0
    BY <1>1, <1>3, <2>2
  <2> QED
    BY <1>1, <2>1, <2>3
<1> QED
  BY <1>1, <1>2, <1>3
====
