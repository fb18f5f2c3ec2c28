---- MODULE FunctionProofs ----
(***************************************************************************)
(* Theorems about the parts that share no state (MCFunctions): the texts   *)
(* that identify instruments and the tables they key, the prices, the      *)
(* boards, the retries and the days of venues, and what the SDK makes of   *)
(* each.                                                                   *)
(***************************************************************************)
EXTENDS MCFunctions, PacketProofs, SequenceTheorems

----
(* Texts. *)

\* The characters of every text, the separator included.
Char == STRING \union {":"}

Ink(text) == {k \in DOMAIN text : text[k] # " "}

\* A text that Trim and Upper leave as it is.
Neat(text) ==
  /\ text \in Seq(Char)
  /\ Len(text) > 0 => text[1] # " " /\ text[Len(text)] # " "
  /\ \A k \in DOMAIN text : text[k] \notin DOMAIN Letter

\* The least member of a set of indices.
LEMMA LeastIndex ==
  ASSUME NEW n \in Nat, NEW s \in SUBSET (1 .. n), s # {}
  PROVE  Min(s) \in s /\ \A i \in s : Min(s) <= i
<1>1. s \in SUBSET Nat
  OBVIOUS
<1>2. \E m \in s : \A i \in s : m <= i
  BY <1>1, LeastNumber
<1> QED
  BY <1>2, Zenon DEF Min

\* Trim keeps the characters and leaves no blank at either end.
LEMMA TrimKeeps ==
  ASSUME NEW text \in Seq(Char)
  PROVE  /\ Trim(text) \in Seq(Char)
         /\ Len(Trim(text)) > 0 => Trim(text)[1] # " " /\ Trim(text)[Len(Trim(text))] # " "
<1> DEFINE ink == Ink(text)
<1>1. DOMAIN text = 1 .. Len(text) /\ Len(text) \in Nat
  OBVIOUS
<1>2. CASE ink = {}
  <2>1. Trim(text) = <<>>
    BY <1>2 DEF Trim, Ink
  <2> QED
    BY <2>1
<1>3. CASE ink # {}
  <2>1. ink \in SUBSET (1 .. Len(text))
    BY <1>1 DEF Ink
  <2>2. Trim(text) = SubSeq(text, Min(ink), Max(ink))
    BY <1>3 DEF Trim, Ink
  <2>3. Min(ink) \in ink /\ Max(ink) \in ink /\ Min(ink) <= Max(ink)
    BY <1>1, <1>3, <2>1, LeastIndex, LargestIndex
  <2>4. text[Min(ink)] # " " /\ text[Max(ink)] # " "
    BY <2>3 DEF Ink
  <2> DEFINE a == Min(ink)
             b == Max(ink)
  <2>5. a \in 1 .. Len(text) /\ b \in 1 .. Len(text) /\ a <= b
    BY <2>1, <2>3
  <2> HIDE DEF ink, a, b
  <2> DEFINE r == SubSeq(text, a, b)
  <2>6. /\ r \in Seq(Char) /\ Len(r) = b - a + 1
        /\ \A i \in 1 .. b - a + 1 : r[i] = text[a + i - 1]
    BY <1>1, <2>5, SubSeqProperties
  <2> HIDE DEF r
  <2>7. /\ 1 \in 1 .. b - a + 1 /\ b - a + 1 \in 1 .. b - a + 1
        /\ a + 1 - 1 = a /\ a + (b - a + 1) - 1 = b
    BY <2>5
  <2>8. r[1] = text[a] /\ r[b - a + 1] = text[b]
    BY ONLY <2>6, <2>7
  <2>9. Trim(text) = r
    BY <2>2 DEF a, b, r
  <2>10. text[a] # " " /\ text[b] # " "
    BY <2>4 DEF a, b
  <2> QED
    BY <2>6, <2>8, <2>9, <2>10, Zenon
<1> QED
  BY <1>2, <1>3

\* Upper keeps the blanks where they are and leaves no small letter.
LEMMA UpperKeeps ==
  ASSUME NEW text \in Seq(Char)
  PROVE  /\ Upper(text) \in Seq(Char) /\ Len(Upper(text)) = Len(text)
         /\ \A k \in 1 .. Len(text) :
              /\ Upper(text)[k] \notin DOMAIN Letter
              /\ Upper(text)[k] = " " <=> text[k] = " "
<1>1. DOMAIN text = 1 .. Len(text) /\ Len(text) \in Nat
  OBVIOUS
<1>2. \A c \in Char : (IF c \in DOMAIN Letter THEN Letter[c] ELSE c) \in Char
  BY CharacterAssumption DEF Char
<1>3. \A c \in Char :
        LET u == IF c \in DOMAIN Letter THEN Letter[c] ELSE c
        IN  u \notin DOMAIN Letter /\ (u = " " <=> c = " ")
  BY LetterAssumption
<1>4. \A k \in 1 .. Len(text) : text[k] \in Char
  OBVIOUS
<1> HIDE DEF Char
<1>5. Upper(text) = [k \in 1 .. Len(text) |->
                       IF text[k] \in DOMAIN Letter THEN Letter[text[k]] ELSE text[k]]
  BY <1>1 DEF Upper
<1>6. Upper(text) \in [1 .. Len(text) -> Char]
  BY <1>2, <1>4, <1>5
<1>7. Upper(text) \in Seq(Char) /\ Len(Upper(text)) = Len(text)
  BY <1>1, <1>6
<1> QED
  BY <1>3, <1>4, <1>5, <1>7

\* What is already neat is left as it is.
LEMMA NeatIsKept ==
  ASSUME NEW text, Neat(text)
  PROVE  Upper(Trim(text)) = text
<1>0. text \in Seq(Char)
  BY Zenon DEF Neat
<1>1. text \in Seq(Char) /\ DOMAIN text = 1 .. Len(text) /\ Len(text) \in Nat
  BY ONLY <1>0
<1>2. Trim(text) = text
  <2>1. CASE Len(text) = 0
    BY <1>1, <2>1 DEF Trim
  <2>2. CASE Len(text) > 0
    <3> DEFINE ink == Ink(text)
    <3>0. 1 \in 1 .. Len(text) /\ Len(text) \in 1 .. Len(text)
      BY <1>1, <2>2
    <3>1. ink \in SUBSET (1 .. Len(text)) /\ 1 \in ink /\ Len(text) \in ink /\ ink # {}
      BY <1>1, <2>2, <3>0, Zenon DEF Ink, Neat
    <3> HIDE DEF ink
    <3>2. Min(ink) \in ink /\ \A i \in ink : Min(ink) <= i
      BY <1>1, <3>1, LeastIndex, Zenon
    <3>3. Max(ink) \in ink /\ \A i \in ink : i <= Max(ink)
      BY <1>1, <3>1, LargestIndex, Zenon
    <3> DEFINE n == Len(text)
               low == Min(ink)
               high == Max(ink)
    <3>4. n \in Nat /\ low \in 1 .. n /\ low <= 1 /\ high \in 1 .. n /\ n <= high
      BY <1>1, <3>1, <3>2, <3>3, Zenon
    <3> HIDE DEF n, low, high
    <3>5. low = 1 /\ high = n
      BY ONLY <3>4
    <3>6. Min(ink) = 1
      BY <3>5, Zenon DEF low
    <3>7. Max(ink) = Len(text)
      BY <3>5, Zenon DEF high, n
    <3>8. Trim(text) = SubSeq(text, 1, Len(text))
      BY <3>1, <3>6, <3>7, Zenon DEF Trim, Ink, ink
    <3> QED
      BY <1>1, <3>8, SubSeqFull
  <2> QED
    BY <1>1, <2>1, <2>2
<1>3. Upper(text) = text
  <2>1. Upper(text) = [k \in 1 .. Len(text) |-> text[k]]
    BY <1>1 DEF Upper, Neat
  <2> QED
    BY <1>1, <2>1
<1> QED
  BY <1>2, <1>3

\* The key of an instrument is neat, whatever text a source gave.
LEMMA KeyIsNeat ==
  ASSUME NEW e, NEW s \in Seq(Char)
  PROVE  Neat(Id(e, s).symbol)
<1>1. /\ Trim(s) \in Seq(Char)
      /\ Len(Trim(s)) > 0 => Trim(s)[1] # " " /\ Trim(s)[Len(Trim(s))] # " "
  BY TrimKeeps
<1> DEFINE t == Trim(s)
<1> HIDE DEF t
<1>0. t \in Seq(Char) /\ (Len(t) > 0 => t[1] # " " /\ t[Len(t)] # " ")
  BY <1>1, Zenon DEF t
<1>8. t \in Seq(Char)
  BY <1>0, Zenon
<1>2. Len(t) \in Nat /\ DOMAIN t = 1 .. Len(t)
  BY ONLY <1>8
<1>3. /\ Upper(t) \in Seq(Char) /\ Len(Upper(t)) = Len(t)
      /\ \A k \in 1 .. Len(t) :
           Upper(t)[k] \notin DOMAIN Letter /\ (Upper(t)[k] = " " <=> t[k] = " ")
  BY <1>8, UpperKeeps, Zenon
<1> DEFINE u == Upper(t)
<1>4. u \in Seq(Char) /\ Len(u) = Len(t)
  BY <1>3, Zenon
<1>5. DOMAIN u = 1 .. Len(t)
  BY ONLY <1>4
<1>6. ASSUME Len(u) > 0 PROVE u[1] # " " /\ u[Len(u)] # " "
  <2>1. 1 \in 1 .. Len(t) /\ Len(t) \in 1 .. Len(t)
    BY ONLY <1>2, <1>4, <1>6
  <2> QED
    BY <1>0, <1>3, <1>4, <1>6, <2>1, Zenon
<1>7. Neat(u)
  BY <1>3, <1>4, <1>5, <1>6, Zenon DEF Neat
<1> QED
  BY <1>7, Zenon DEF Id, t

\* It does not matter whether a ticker is folded before its key is made.
LEMMA FoldedBefore ==
  ASSUME NEW e, NEW s \in Seq(Char)
  PROVE  Id(e, Upper(s)) = Id(e, s)
<1> DEFINE u == Upper(s)
           big(c) == IF c \in DOMAIN Letter THEN Letter[c] ELSE c
<1>1. /\ u \in Seq(Char) /\ Len(u) = Len(s) /\ Len(s) \in Nat
      /\ DOMAIN s = 1 .. Len(s) /\ DOMAIN u = 1 .. Len(s)
      /\ \A k \in 1 .. Len(s) : u[k] \notin DOMAIN Letter /\ (u[k] = " " <=> s[k] = " ")
  <2>1. /\ u \in Seq(Char) /\ Len(u) = Len(s)
        /\ \A k \in 1 .. Len(s) : u[k] \notin DOMAIN Letter /\ (u[k] = " " <=> s[k] = " ")
    BY UpperKeeps, Zenon
  <2> HIDE DEF u
  <2>2. \A x \in Seq(Char) : DOMAIN x = 1 .. Len(x) /\ Len(x) \in Nat
    OBVIOUS
  <2> QED
    BY <2>1, <2>2, Zenon
<1>2. u = [k \in DOMAIN s |-> big(s[k])]
  BY DEF Upper
<1>3. \A k \in 1 .. Len(s) : u[k] = big(s[k]) /\ big(u[k]) = u[k]
  BY <1>1, <1>2
<1> HIDE DEF u, big
<1>4. Ink(u) = Ink(s)
  BY <1>1 DEF Ink
<1>5. CASE Ink(s) = {}
  <2>1. Trim(u) = <<>> /\ Trim(s) = <<>>
    BY <1>4, <1>5 DEF Trim, Ink
  <2> QED
    BY <2>1, Zenon DEF Id, u
<1>6. CASE Ink(s) # {}
  <2> DEFINE a == Min(Ink(s))
             b == Max(Ink(s))
  <2>1. Trim(u) = SubSeq(u, a, b) /\ Trim(s) = SubSeq(s, a, b)
    BY <1>4, <1>6, Zenon DEF Trim, Ink
  <2>2. Ink(s) \in SUBSET (1 .. Len(s))
    BY <1>1 DEF Ink
  <2>3. a \in 1 .. Len(s) /\ b \in 1 .. Len(s) /\ a <= b
    <3>1. a \in Ink(s) /\ \A i \in Ink(s) : a <= i
      BY <1>1, <1>6, <2>2, LeastIndex, Zenon
    <3>2. b \in Ink(s)
      BY <1>1, <1>6, <2>2, LargestIndex, Zenon
    <3> QED
      BY <2>2, <3>1, <3>2, Zenon
  <2> HIDE DEF a, b
  <2> DEFINE n == b - a + 1
             len == Len(s)
  <2>0. /\ a \in Int /\ b \in Int /\ a <= b /\ n \in Nat
        /\ \A i \in a .. b : i \in 1 .. Len(s)
        /\ \A i \in 1 .. n : a + i - 1 \in 1 .. Len(s)
    <3>1. len \in Nat /\ a \in 1 .. len /\ b \in 1 .. len /\ a <= b
      BY <1>1, <2>3, Zenon
    <3> HIDE DEF len
    <3>2. /\ a \in Int /\ b \in Int /\ a <= b /\ n \in Nat
          /\ \A i \in a .. b : i \in 1 .. len
          /\ \A i \in 1 .. n : a + i - 1 \in 1 .. len
      BY ONLY <3>1
    <3> QED
      BY <3>2, Zenon DEF len
  <2>4. ASSUME NEW x \in Seq(Char), Len(x) = Len(s), DOMAIN x = 1 .. Len(s)
        PROVE  /\ SubSeq(x, a, b) \in Seq(Char) /\ Len(SubSeq(x, a, b)) = n
               /\ \A i \in 1 .. n : SubSeq(x, a, b)[i] = x[a + i - 1]
    <3>1. a \in Int /\ b \in Int /\ a <= b /\ \A i \in a .. b : i \in 1 .. Len(s)
      BY <2>0, Zenon
    <3>2. \A i \in a .. b : x[i] \in Char
      BY ONLY <2>4, <3>1
    <3>3. /\ SubSeq(x, a, b) \in Seq(Char)
          /\ Len(SubSeq(x, a, b)) = IF a <= b THEN b - a + 1 ELSE 0
          /\ \A i \in 1 .. b - a + 1 : SubSeq(x, a, b)[i] = x[a + i - 1]
      <4>1. a \in Int /\ b \in Int
        BY <3>1, Zenon
      <4> QED
        BY ONLY <3>2, <4>1, SubSeqProperties, SMT
    <3>4. (IF a <= b THEN b - a + 1 ELSE 0) = n
      BY <2>0
    <3> QED
      BY <3>3, <3>4, Zenon
  <2>5. /\ SubSeq(u, a, b) \in Seq(Char) /\ Len(SubSeq(u, a, b)) = n
        /\ \A i \in 1 .. n : SubSeq(u, a, b)[i] = u[a + i - 1]
        /\ SubSeq(s, a, b) \in Seq(Char) /\ Len(SubSeq(s, a, b)) = n
        /\ \A i \in 1 .. n : SubSeq(s, a, b)[i] = s[a + i - 1]
    BY <1>1, <2>4
  <2>6. n \in Nat /\ \A i \in 1 .. n : a + i - 1 \in 1 .. Len(s)
    BY <2>0, Zenon
  <2> DEFINE t == SubSeq(u, a, b)
             r == SubSeq(s, a, b)
  <2> HIDE DEF n, t, r
  <2>7. DOMAIN t = 1 .. n /\ DOMAIN r = 1 .. n
    BY <2>5, <2>6 DEF t, r
  <2>8. \A i \in 1 .. n : big(t[i]) = big(r[i])
    <3> SUFFICES ASSUME NEW i \in 1 .. n PROVE big(t[i]) = big(r[i])
      OBVIOUS
    <3>1. t[i] = u[a + i - 1] /\ r[i] = s[a + i - 1]
      BY <2>5, Zenon DEF t, r
    <3> QED
      BY <1>3, <2>6, <3>1, Zenon
  <2>9. Upper(t) = [i \in 1 .. n |-> big(t[i])] /\ Upper(r) = [i \in 1 .. n |-> big(r[i])]
    BY <2>7, Zenon DEF Upper, big
  <2>10. [i \in 1 .. n |-> big(t[i])] = [i \in 1 .. n |-> big(r[i])]
    BY <2>8, Zenon
  <2> QED
    BY <2>1, <2>9, <2>10, Zenon DEF Id, t, r, u
<1> QED
  BY <1>5, <1>6

\* The text of an id is read back as that id, or refused if its symbol is empty.
LEMMA ParsedBack ==
  ASSUME NEW e \in Listing, NEW sym, Neat(sym)
  PROVE  LET id == [exchange |-> e, symbol |-> sym]
         IN  ParsedId(Text(id)) = IF sym = <<>> THEN {} ELSE {id}
<1> DEFINE id == [exchange |-> e, symbol |-> sym]
           text == Text(id)
           pair == <<e, ":">>
           colons == {k \in DOMAIN text : text[k] = ":"}
<1>1. e \in Char /\ ":" \in Char /\ e # ":"
  <2>1. e \in Char
    BY CharacterAssumption DEF Char
  <2>2. ":" \in Char
    BY DEF Char
  <2>3. e # ":"
    BY LetterAssumption, Zenon
  <2> QED
    BY <2>1, <2>2, <2>3
<1>2. sym \in Seq(Char)
  BY Zenon DEF Neat
<1>3. text = pair \o sym
  BY DEF Text
<1> HIDE DEF Char
<1>4. pair \in Seq(Char) /\ Len(pair) = 2 /\ pair[1] = e /\ pair[2] = ":"
  BY <1>1
<1> HIDE DEF pair, text
<1>5. /\ text \in Seq(Char) /\ Len(text) = Len(sym) + 2 /\ Len(sym) \in Nat
      /\ text[1] = e /\ text[2] = ":"
      /\ \A i \in 1 .. Len(sym) : text[i + 2] = sym[i]
  <2>1. Len(sym) \in Nat
    BY ONLY <1>2
  <2>2. /\ pair \o sym \in Seq(Char) /\ Len(pair \o sym) = Len(pair) + Len(sym)
        /\ \A i \in 1 .. Len(pair) + Len(sym) :
             (pair \o sym)[i] = IF i <= Len(pair) THEN pair[i] ELSE sym[i - Len(pair)]
    BY <1>2, <1>4, ConcatProperties, Zenon
  <2> DEFINE n == Len(sym)
  <2> HIDE DEF n
  <2>3. /\ Len(text) = 2 + n
        /\ \A i \in 1 .. 2 + n : text[i] = IF i <= 2 THEN pair[i] ELSE sym[i - 2]
    BY <1>3, <1>4, <2>2, Zenon DEF n
  <2>4. n \in Nat
    BY <2>1 DEF n
  <2>5. /\ 2 + n = n + 2 /\ 1 \in 1 .. 2 + n /\ 2 \in 1 .. 2 + n /\ 1 <= 2 /\ 2 <= 2
        /\ \A i \in 1 .. n : i + 2 \in 1 .. 2 + n /\ ~(i + 2 <= 2) /\ (i + 2) - 2 = i
    BY ONLY <2>4
  <2> QED
    BY <1>3, <1>4, <2>1, <2>2, <2>3, <2>5, Zenon DEF n
<1>6. DOMAIN text = 1 .. Len(sym) + 2
  BY ONLY <1>5
<1>7. Min(colons) = 2
  <2>1. colons \in SUBSET (1 .. Len(sym) + 2) /\ 2 \in colons /\ 1 \notin colons
    <3>1. 2 \in 1 .. Len(sym) + 2
      BY ONLY <1>5
    <3> QED
      BY <1>1, <1>5, <1>6, <3>1, Zenon
  <2> HIDE DEF colons
  <2>2. Len(sym) + 2 \in Nat
    BY ONLY <1>5
  <2>3. Min(colons) \in colons /\ Min(colons) <= 2
    BY <2>1, <2>2, LeastIndex, Zenon
  <2> DEFINE low == Min(colons)
             n == Len(sym) + 2
  <2>4. n \in Nat /\ low \in 1 .. n /\ low <= 2 /\ low # 1
    BY <2>1, <2>2, <2>3, Zenon
  <2> HIDE DEF low, n
  <2>5. low = 2
    BY ONLY <2>4
  <2> QED
    BY <2>5 DEF low
<1>8. colons # {}
  BY <1>5, <1>6
<1>9. SubSeq(text, Min(colons) + 1, Len(text)) = sym
  <2> DEFINE rest == SubSeq(text, 3, Len(text))
  <2>1. /\ rest \in Seq(Char) /\ Len(rest) = Len(sym)
        /\ \A i \in 1 .. Len(sym) : rest[i] = text[3 + i - 1]
    <3>1. \A i \in 3 .. Len(text) : text[i] \in Char
      BY ONLY <1>5
    <3>2. /\ rest \in Seq(Char) /\ Len(rest) = (IF 3 <= Len(text) THEN Len(text) - 3 + 1 ELSE 0)
          /\ \A i \in 1 .. Len(text) - 3 + 1 : rest[i] = text[3 + i - 1]
      <4>1. 3 \in Int /\ Len(text) \in Int
        BY ONLY <1>5
      <4> QED
        BY ONLY <3>1, <4>1, SubSeqProperties, SMT
    <3> HIDE DEF rest
    <3>3. /\ Len(text) - 3 + 1 = Len(sym)
          /\ (IF 3 <= Len(text) THEN Len(text) - 3 + 1 ELSE 0) = Len(sym)
      BY ONLY <1>5
    <3> QED
      BY ONLY <3>2, <3>3, Zenon
  <2> HIDE DEF rest
  <2>2. \A i \in 1 .. Len(sym) : rest[i] = sym[i]
    BY ONLY <1>5, <2>1
  <2>3. rest = sym
    BY ONLY <1>2, <2>1, <2>2
  <2>4. Min(colons) + 1 = 3
    BY <1>7
  <2> QED
    BY <2>3, <2>4, Zenon DEF rest
<1>10. SubSeq(text, 1, Min(colons) - 1) = <<e>>
  <2> DEFINE first == SubSeq(text, 1, 1)
  <2>1. first \in Seq(Char) /\ Len(first) = 1 /\ first[1] = e
    BY ONLY <1>1, <1>5
  <2> HIDE DEF first
  <2>2. first = <<e>>
    BY ONLY <1>1, <2>1
  <2>3. Min(colons) - 1 = 1
    BY <1>7
  <2> QED
    BY <2>2, <2>3, Zenon DEF first
<1>11. <<e>> \in {<<x>> : x \in Listing} /\ <<e>>[1] = e
  OBVIOUS
<1>12. Id(e, sym) = id
  BY NeatIsKept DEF Id
<1> DEFINE symbol == SubSeq(text, Min(colons) + 1, Len(text))
           exchange == SubSeq(text, 1, Min(colons) - 1)
<1>13. ParsedId(text) =
         IF colons = {} THEN {}
         ELSE IF symbol = <<>> \/ exchange \notin {<<x>> : x \in Listing} THEN {}
         ELSE {Id(exchange[1], symbol)}
  BY Zenon DEF ParsedId
<1>14. symbol = sym /\ exchange = <<e>>
  BY <1>9, <1>10, Zenon
<1> HIDE DEF symbol, exchange, colons
<1>15. ParsedId(text) = IF sym = <<>> THEN {} ELSE {Id(e, sym)}
  BY ONLY <1>8, <1>11, <1>13, <1>14, Zenon
<1> QED
  BY <1>12, <1>15, Zenon DEF text

\* What sources give is text.
LEMMA SymbolsAreTexts == Symbol \subseteq Seq(Char)
<1> SUFFICES ASSUME NEW s \in Symbol PROVE s \in Seq(Char)
  OBVIOUS
<1>1. s \in Seq(STRING)
  BY TextAssumption
<1>2. STRING \subseteq Char
  BY DEF Char
<1> HIDE DEF Char
<1> QED
  BY <1>1, <1>2, SeqMonotonic

----
(* The tables. *)

KeyOf(row) == [exchange |-> row.exchange, symbol |-> row.symbol]

Row == [exchange : Listing, symbol : {text \in Seq(Char) : Neat(text)},
        currency : Money, known : Known]

\* Every row is under the text of its own id, which is neat, and every alias
\* names a row.
TablesInv ==
  /\ \A t \in DOMAIN instruments :
       instruments[t] \in Row /\ Text(KeyOf(instruments[t])) = t
  /\ \A s \in DOMAIN aliases : s \in Source \X Symbol /\ aliases[s] \in DOMAIN instruments

\* The id of a row is the one list makes of it.
LEMMA RowsId ==
  ASSUME NEW row \in Row
  PROVE  /\ Id(row.exchange, row.symbol) = KeyOf(row)
         /\ row.exchange \in Listing /\ Neat(row.symbol)
<1>1. row.exchange \in Listing /\ Neat(row.symbol)
  BY DEF Row
<1> QED
  BY <1>1, NeatIsKept DEF Id, KeyOf

\* An upsert adds a row or completes one, and forgets nothing.
LEMMA UpsertKeeps ==
  ASSUME TablesInv, NEW e \in Listing, NEW s \in Symbol, NEW c \in Money, NEW known \in Known,
         Upsert(Id(e, s), c, known)
  PROVE  /\ TablesInv'
         /\ \A t \in DOMAIN instruments :
              /\ t \in DOMAIN instruments'
              /\ instruments'[t].currency = instruments[t].currency
              /\ \A a \in Attribute :
                   instruments[t].known[a] # {} => instruments'[t].known[a] # {}
         /\ \A r \in DOMAIN aliases : r \in DOMAIN aliases'
<1> DEFINE id == Id(e, s)
           key == Text(id)
<1>1. Neat(id.symbol) /\ id.exchange = e /\ id.symbol \in Seq(Char)
  BY SymbolsAreTexts, KeyIsNeat DEF Id, Neat
<1>2. KeyOf(id) = id
  BY DEF Id, KeyOf
<1>3. aliases' = aliases
  BY DEF Upsert
<1>4. CASE key \in DOMAIN instruments
  <2> DEFINE merged == [a \in Attribute |-> Coalesced(known[a], instruments[key].known[a])]
  <2>1. instruments' = [instruments EXCEPT ![key].known =
                          [a \in Attribute |-> Coalesced(known[a], @[a])]]
    BY <1>4 DEF Upsert
  <2>2. instruments' = [instruments EXCEPT ![key] = [instruments[key] EXCEPT !.known = merged]]
    BY <2>1, <1>4
  <2>3. merged \in Known
    BY <1>4 DEF Coalesced, Known, TablesInv, Row
  <2>4. \A a \in Attribute : instruments[key].known[a] # {} => merged[a] # {}
    BY DEF Coalesced
  <2> HIDE DEF merged, key
  <2>5. DOMAIN instruments' = DOMAIN instruments
    BY <2>2
  <2> DEFINE row == [instruments[key] EXCEPT !.known = merged]
  <2>6. /\ row \in Row /\ KeyOf(row) = KeyOf(instruments[key])
        /\ row.currency = instruments[key].currency /\ row.known = merged
    BY <1>4, <2>3 DEF TablesInv, Row, KeyOf
  <2> HIDE DEF row
  <2>7. \A t \in DOMAIN instruments : instruments'[t] = IF t = key THEN row ELSE instruments[t]
    BY <2>2 DEF row
  <2>8. TablesInv'
    BY <1>3, <2>5, <2>6, <2>7, Zenon DEF TablesInv
  <2> QED
    BY <1>3, <2>4, <2>5, <2>6, <2>7, <2>8, Zenon
<1>5. CASE key \notin DOMAIN instruments
  <2> DEFINE row == [exchange |-> id.exchange, symbol |-> id.symbol, currency |-> c, known |-> known]
  <2>1. instruments' = [t \in DOMAIN instruments \union {key} |->
                          IF t = key THEN row ELSE instruments[t]]
    BY <1>5 DEF Upsert
  <2>2. row \in Row /\ KeyOf(row) = id
    BY <1>1, <1>2 DEF Row, KeyOf
  <2> HIDE DEF row, id
  <2>3. Text(KeyOf(row)) = key
    BY <2>2
  <2> HIDE DEF key
  <2>4. DOMAIN instruments' = DOMAIN instruments \union {key}
    BY <2>1
  <2>5. \A t \in DOMAIN instruments' : instruments'[t] = IF t = key THEN row ELSE instruments[t]
    BY <2>1
  <2>6. \A t \in DOMAIN instruments : t # key /\ instruments'[t] = instruments[t]
    BY <1>5, <2>4, <2>5
  <2>7. TablesInv'
    BY <1>3, <2>2, <2>3, <2>4, <2>5, Zenon DEF TablesInv
  <2> QED
    BY <1>3, <2>4, <2>6, <2>7, Zenon
<1> QED
  BY <1>4, <1>5

\* An alias is added or directed to another row.
LEMMA AliasKeeps ==
  ASSUME TablesInv, NEW source \in Source, NEW ticker \in Symbol,
         NEW e \in Listing, NEW s \in Symbol, RecordAlias(source, ticker, Id(e, s))
  PROVE  /\ TablesInv' /\ instruments' = instruments
         /\ \A r \in DOMAIN aliases : r \in DOMAIN aliases'
<1> DEFINE key == Text(Id(e, s))
           place == <<source, ticker>>
<1>1. /\ key \in DOMAIN instruments /\ instruments' = instruments
      /\ aliases' = [r \in DOMAIN aliases \union {place} |-> IF r = place THEN key ELSE aliases[r]]
  BY DEF RecordAlias
<1>2. place \in Source \X Symbol
  OBVIOUS
<1> HIDE DEF key, place
<1> QED
  BY <1>1, <1>2 DEF TablesInv

\* What list returns for a row.
Entry(t) == [id |-> KeyOf(instruments[t]), currency |-> instruments[t].currency,
             known |-> instruments[t].known]

\* list returns the rows of its exchange and no other.
LEMMA ListsRows ==
  ASSUME TablesInv, NEW x
  PROVE  /\ \A t \in DOMAIN instruments : instruments[t].exchange = x => Entry(t) \in ListOf(x)
         /\ \A i \in ListOf(x) :
              \E t \in DOMAIN instruments : instruments[t].exchange = x /\ i = Entry(t)
<1> DEFINE Rows == {instruments[t] : t \in {u \in DOMAIN instruments : instruments[u].exchange = x}}
           Listed(row) == [id |-> Id(row.exchange, row.symbol), currency |-> row.currency,
                           known |-> row.known]
<1>1. ListOf(x) = {Listed(row) : row \in Rows}
  BY DEF ListOf
<1>2. \A t \in DOMAIN instruments : Listed(instruments[t]) = Entry(t)
  <2> SUFFICES ASSUME NEW t \in DOMAIN instruments PROVE Listed(instruments[t]) = Entry(t)
    OBVIOUS
  <2>1. Id(instruments[t].exchange, instruments[t].symbol) = KeyOf(instruments[t])
    BY RowsId DEF TablesInv
  <2> QED
    BY <2>1 DEF Entry
<1> HIDE DEF Listed
<1> QED
  BY <1>1, <1>2

\* The tables read back.
LEMMA TablesReadBack == TablesInv => ReadsBack
<1> SUFFICES ASSUME TablesInv PROVE ReadsBack
  OBVIOUS
<1>1. ASSUME NEW t \in DOMAIN instruments
      PROVE  Cardinality({i \in ListOf(instruments[t].exchange) : Text(i.id) = t}) = 1
  <2> DEFINE X == {i \in ListOf(instruments[t].exchange) : Text(i.id) = t}
  <2>1. \A u \in DOMAIN instruments : Text(Entry(u).id) = u
    BY DEF TablesInv, Entry
  <2>2. Entry(t) \in X
    BY <2>1, ListsRows
  <2>3. \A i \in X : i = Entry(t)
    BY <2>1, ListsRows
  <2> HIDE DEF X
  <2>4. X = {Entry(t)}
    BY <2>2, <2>3
  <2>5. Cardinality(X) = 1
    BY <2>4, FS_Singleton
  <2> QED
    BY <2>5 DEF X
<1>2. ASSUME NEW s \in DOMAIN aliases
      PROVE  LET found == Resolve(s[1], s[2]) IN
             /\ \A id \in found :
                  Text(id) = aliases[s] /\ \E i \in ListOf(id.exchange) : i.id = id
             /\ found = {} => instruments[aliases[s]].symbol = <<>>
  <2> DEFINE t == aliases[s]
             row == instruments[t]
             found == Resolve(s[1], s[2])
  <2>1. s = <<s[1], s[2]>> /\ t \in DOMAIN instruments
    BY DEF TablesInv
  <2>2. found = ParsedId(t)
    BY <2>1 DEF Resolve
  <2>3. row \in Row /\ Text(KeyOf(row)) = t
    BY <2>1 DEF TablesInv
  <2>4. row.exchange \in Listing /\ Neat(row.symbol)
    BY <2>3, RowsId
  <2>5. found = IF row.symbol = <<>> THEN {} ELSE {KeyOf(row)}
    BY <2>2, <2>3, <2>4, ParsedBack DEF KeyOf
  <2>6. KeyOf(row).exchange = row.exchange
    BY DEF KeyOf
  <2>7. Entry(t) \in ListOf(row.exchange) /\ Entry(t).id = KeyOf(row)
    BY <2>1, ListsRows DEF Entry
  <2> HIDE DEF t, row, found
  <2>8. /\ \A id \in found : Text(id) = t /\ \E i \in ListOf(id.exchange) : i.id = id
        /\ found = {} => row.symbol = <<>>
    BY <2>3, <2>5, <2>6, <2>7
  <2> QED
    BY <2>8 DEF t, row, found
<1> QED
  BY <1>1, <1>2 DEF ReadsBack

\* Statement by statement, the tables keep what they know of every instrument,
\* its currency and its aliases, and an alias or a row is read back as it was
\* written.
THEOREM ReferenceDataIsKept == RefSpec => NothingIsForgotten
<1> DEFINE Kept == /\ \A t \in DOMAIN instruments :
                        /\ t \in DOMAIN instruments'
                        /\ instruments'[t].currency = instruments[t].currency
                        /\ \A a \in Attribute :
                             instruments[t].known[a] # {} => instruments'[t].known[a] # {}
                   /\ \A s \in DOMAIN aliases : s \in DOMAIN aliases'
                   /\ ReadsBack'
<1>1. RefInit => TablesInv
  BY DEF RefInit, TablesInv
<1>2. TablesInv /\ RefNext => TablesInv' /\ Kept
  <2> SUFFICES ASSUME TablesInv, RefNext PROVE TablesInv' /\ Kept
    OBVIOUS
  <2>1. CASE \E e \in Listing, s \in Symbol, c \in Money, known \in Known :
               Upsert(Id(e, s), c, known)
    <3>1. PICK e \in Listing, s \in Symbol, c \in Money, known \in Known :
                 Upsert(Id(e, s), c, known)
      BY <2>1
    <3>2. TablesInv'
      BY <3>1, UpsertKeeps
    <3>3. ReadsBack'
      BY <3>2, TablesReadBack, PTL
    <3> QED
      BY <3>1, <3>2, <3>3, UpsertKeeps
  <2>2. CASE \E source \in Source, ticker \in Symbol, e \in Listing, s \in Symbol :
               RecordAlias(source, ticker, Id(e, s))
    <3>1. PICK source \in Source, ticker \in Symbol, e \in Listing, s \in Symbol :
                 RecordAlias(source, ticker, Id(e, s))
      BY <2>2
    <3>2. /\ TablesInv' /\ instruments' = instruments
          /\ \A r \in DOMAIN aliases : r \in DOMAIN aliases'
      BY <3>1, AliasKeeps
    <3>3. ReadsBack'
      BY <3>2, TablesReadBack, PTL
    <3> QED
      BY <3>2, <3>3
  <2> QED
    BY <2>1, <2>2 DEF RefNext
<1>3. TablesInv /\ UNCHANGED refVars => TablesInv'
  BY DEF refVars, TablesInv
<1>4. TablesInv /\ [RefNext]_refVars => TablesInv' /\ [Kept]_refVars
  BY <1>2, <1>3
<1> QED
  BY <1>1, <1>4, PTL DEF RefSpec, NothingIsForgotten

----
(* Powers of ten. *)

\* What the definition of Pow10 says of a function on T.
Powers(f, T) == \A n \in T : f[n] = IF n = 0 THEN 1 ELSE 10 * f[n - 1]

\* There is such a function up to every number.
LEMMA PowersUpTo == \A n \in Nat : \E f : Powers(f, 0 .. n)
<1> DEFINE P == {n \in Nat : \E f : Powers(f, 0 .. n)}
<1>1. 0 \in P
  <2> DEFINE f == [m \in 0 .. 0 |-> 1]
  <2>1. Powers(f, 0 .. 0)
    BY DEF Powers
  <2> QED
    BY <2>1
<1>2. ASSUME NEW n \in Nat, n \in P PROVE n + 1 \in P
  <2>1. PICK f : Powers(f, 0 .. n)
    BY <1>2
  <2> DEFINE g == [m \in 0 .. n + 1 |-> IF m = n + 1 THEN 10 * f[n] ELSE f[m]]
  <2>2. \A m \in 0 .. n : g[m] = f[m]
    OBVIOUS
  <2>3. g[n + 1] = 10 * f[n] /\ g[n] = f[n]
    OBVIOUS
  <2> HIDE DEF g
  <2>4. ASSUME NEW m \in 0 .. n + 1 PROVE g[m] = IF m = 0 THEN 1 ELSE 10 * g[m - 1]
    <3>1. CASE m = n + 1
      <4>1. m # 0 /\ m - 1 = n
        BY <3>1
      <4> QED
        BY ONLY <2>3, <3>1, <4>1, Zenon
    <3>2. CASE m \in 0 .. n
      <4>1. m # 0 => m - 1 \in 0 .. n
        BY <3>2
      <4>2. f[m] = IF m = 0 THEN 1 ELSE 10 * f[m - 1]
        BY <2>1, <3>2, Zenon DEF Powers
      <4> QED
        BY <2>2, <3>2, <4>1, <4>2, Zenon
    <3> QED
      BY <3>1, <3>2
  <2>5. Powers(g, 0 .. n + 1)
    BY <2>4, Zenon DEF Powers
  <2> QED
    BY <2>5
<1> HIDE DEF P
<1>3. Nat \subseteq P
  BY <1>1, <1>2, NumberInduction
<1> QED
  BY <1>3 DEF P

\* Two such functions agree where both are defined.
LEMMA PowersAgree ==
  ASSUME NEW m \in Nat, NEW n \in Nat, m <= n, NEW f, Powers(f, 0 .. m), NEW g, Powers(g, 0 .. n)
  PROVE  f[m] = g[m]
<1> DEFINE P == {k \in Nat : k <= m => f[k] = g[k]}
<1>1. 0 \in P
  <2>1. f[0] = 1 /\ g[0] = 1
    BY DEF Powers
  <2> QED
    BY <2>1
<1>2. ASSUME NEW k \in Nat, k \in P PROVE k + 1 \in P
  <2> SUFFICES ASSUME k + 1 <= m PROVE f[k + 1] = g[k + 1]
    OBVIOUS
  <2>1. f[k] = g[k]
    BY <1>2
  <2>2. k + 1 \in 0 .. m /\ k + 1 \in 0 .. n /\ k + 1 # 0 /\ (k + 1) - 1 = k
    OBVIOUS
  <2>3. f[k + 1] = 10 * f[k] /\ g[k + 1] = 10 * g[k]
    BY <2>2, Zenon DEF Powers
  <2> QED
    BY <2>1, <2>3
<1> HIDE DEF P
<1>3. m \in P
  BY <1>1, <1>2, NumberInduction
<1> QED
  BY <1>3 DEF P

\* The recursion that defines Pow10 has a solution, and Pow10 is one.
LEMMA PowersOfTen == Powers(Pow10, Nat)
<1> DEFINE Rule(f) == f = [n \in Nat |-> IF n = 0 THEN 1 ELSE 10 * f[n - 1]]
           g == [n \in Nat |-> (CHOOSE f : Powers(f, 0 .. n))[n]]
<1>1. ASSUME NEW n \in Nat PROVE Powers(CHOOSE f : Powers(f, 0 .. n), 0 .. n)
  BY PowersUpTo
<1>2. ASSUME NEW n \in Nat PROVE g[n] = IF n = 0 THEN 1 ELSE 10 * g[n - 1]
  <2> DEFINE f == CHOOSE f : Powers(f, 0 .. n)
             h == CHOOSE h : Powers(h, 0 .. n - 1)
  <2>1. Powers(f, 0 .. n) /\ g[n] = f[n]
    BY <1>1
  <2>2. f[n] = IF n = 0 THEN 1 ELSE 10 * f[n - 1]
    <3>1. n \in 0 .. n
      OBVIOUS
    <3> QED
      BY <2>1, <3>1, Zenon DEF Powers
  <2>3. ASSUME n # 0 PROVE g[n - 1] = f[n - 1]
    <3>1. n - 1 \in Nat /\ n - 1 <= n
      BY <2>3
    <3>2. Powers(h, 0 .. n - 1) /\ g[n - 1] = h[n - 1]
      BY <1>1, <3>1
    <3> HIDE DEF f, g, h
    <3> QED
      BY <2>1, <3>1, <3>2, PowersAgree
  <2> HIDE DEF f, g
  <2> QED
    BY <2>1, <2>2, <2>3
<1>3. Rule(g)
  <2>1. g = [n \in Nat |-> g[n]]
    OBVIOUS
  <2> HIDE DEF g
  <2> QED
    BY <1>2, <2>1
<1> HIDE DEF g
<1>4. Pow10 = CHOOSE f : Rule(f)
  BY Zenon DEF Pow10
<1>5. Rule(Pow10)
  BY <1>3, <1>4, Zenon
<1> QED
  BY <1>5 DEF Powers

\* Each power is ten times the one before it, and positive.
LEMMA PowerSteps ==
  /\ Pow10[0] = 1
  /\ \A n \in Nat : Pow10[n] \in Nat \ {0} /\ Pow10[n + 1] = 10 * Pow10[n]
<1>1. Pow10[0] = 1
  BY PowersOfTen DEF Powers
<1>2. \A n \in Nat : Pow10[n + 1] = 10 * Pow10[n]
  BY PowersOfTen DEF Powers
<1> DEFINE P == {n \in Nat : Pow10[n] \in Nat \ {0}}
<1>3. 0 \in P
  BY <1>1
<1>4. \A n \in Nat : n \in P => n + 1 \in P
  BY <1>2
<1> HIDE DEF P
<1>5. Nat \subseteq P
  BY <1>3, <1>4, NumberInduction
<1> QED
  BY <1>1, <1>2, <1>5 DEF P

\* The law of exponents.
LEMMA PowerLaw == \A m, n \in Nat : Pow10[m + n] = Pow10[m] * Pow10[n]
<1> SUFFICES ASSUME NEW m \in Nat PROVE \A n \in Nat : Pow10[m + n] = Pow10[m] * Pow10[n]
  OBVIOUS
<1> DEFINE P == {n \in Nat : Pow10[m + n] = Pow10[m] * Pow10[n]}
<1>1. 0 \in P
  BY PowerSteps
<1>2. ASSUME NEW n \in Nat, n \in P PROVE n + 1 \in P
  <2> DEFINE x == Pow10[m]
             y == Pow10[n]
  <2>1. Pow10[m + n] = x * y
    BY <1>2
  <2>2. Pow10[n + 1] = 10 * y /\ x \in Nat /\ y \in Nat
    BY PowerSteps
  <2>3. Pow10[m + (n + 1)] = 10 * Pow10[m + n]
    <3>1. m + (n + 1) = (m + n) + 1 /\ m + n \in Nat
      OBVIOUS
    <3> QED
      BY <3>1, PowerSteps
  <2> HIDE DEF x, y
  <2>4. 10 * (x * y) = x * (10 * y)
    BY <2>2
  <2>5. Pow10[m + (n + 1)] = x * Pow10[n + 1]
    BY ONLY <2>1, <2>2, <2>3, <2>4, Zenon
  <2> QED
    BY <2>5 DEF x
<1> HIDE DEF P
<1>3. Nat \subseteq P
  BY <1>1, <1>2, NumberInduction
<1> QED
  BY <1>3 DEF P

----
(* Rescaling. *)

\* Division of natural numbers leaves a remainder smaller than the divisor.
LEMMA Division ==
  ASSUME NEW n \in Nat, NEW u \in Nat \ {0}
  PROVE  n \div u \in Nat /\ \E r \in 0 .. u - 1 : n = u * (n \div u) + r
BY Z3

\* A multiple of u smaller than u is zero.
LEMMA SmallMultiple ==
  ASSUME NEW u \in Nat \ {0}, NEW x \in Int, -u < u * x, u * x < u
  PROVE  x = 0
<1>1. CASE x >= 1
  <2>1. u * x >= u
    BY <1>1, Z3
  <2> QED
    BY <2>1
<1>2. CASE x <= -1
  <2>1. u * x <= -u
    BY <1>2, Z3
  <2> QED
    BY <2>1
<1> QED
  BY <1>1, <1>2

\* HalfAway is a nearest multiple, and the exact quotient where there is one.
LEMMA HalfAwayIsNearest ==
  ASSUME NEW m \in Int, NEW u \in Nat \ {0}
  PROVE  /\ HalfAway(m, u) \in Int
         /\ 2 * Abs(u * HalfAway(m, u) - m) <= u
         /\ \A k \in Int : m = u * k => HalfAway(m, u) = k
<1> DEFINE q == Abs(m) \div u
           h == HalfAway(m, u)
<1>1. Abs(m) \in Nat /\ Abs(u) = u /\ ~(u < 0)
  BY DEF Abs
<1>2. q \in Nat
  BY <1>1, Division
<1>3. PICK r \in 0 .. u - 1 : Abs(m) = u * q + r
  BY <1>1, Division
<1>4. Quotient(m, u) = IF m < 0 THEN -q ELSE q
  BY <1>1 DEF Quotient
<1> HIDE DEF q
<1> DEFINE x == u * q
<1>5. x \in Int /\ r \in Nat /\ r < u /\ Abs(m) = x + r
  BY <1>2, <1>3
<1>6. u * (-q) = -x /\ u * (q + 1) = x + u /\ u * (-q + -1) = -(x + u)
  BY <1>2, Z3
<1> HIDE DEF x
<1>7. Abs(m - u * Quotient(m, u)) = r
  <2>1. CASE m < 0
    <3>1. u * Quotient(m, u) = -x
      BY <1>4, <1>6, <2>1
    <3>2. m = -(x + r)
      BY <1>5, <2>1 DEF Abs
    <3>3. m - (-x) = -r
      BY <1>5, <3>2
    <3> QED
      BY <1>5, <3>1, <3>3 DEF Abs
  <2>2. CASE ~(m < 0)
    <3>1. u * Quotient(m, u) = x
      BY <1>4, <2>2 DEF x
    <3>2. m - x = r
      BY <1>5, <2>2 DEF Abs
    <3> QED
      BY <1>5, <3>1, <3>2 DEF Abs
  <2> QED
    BY <2>1, <2>2
<1>8. h = IF 2 * r < u THEN Quotient(m, u)
          ELSE Quotient(m, u) + (IF m < 0 THEN -1 ELSE 1)
  BY <1>7 DEF HalfAway
<1> HIDE DEF h
<1>9. h \in Int
  BY <1>2, <1>4, <1>8
<1>10. 2 * Abs(u * h - m) <= u
  <2>1. CASE m < 0
    <3>1. m = -(x + r)
      BY <1>5, <2>1 DEF Abs
    <3>2. u * h = IF 2 * r < u THEN -x ELSE -(x + u)
      BY <1>4, <1>6, <1>8, <2>1
    <3>3. u * h - m = IF 2 * r < u THEN r ELSE r - u
      BY <1>5, <3>1, <3>2
    <3> QED
      BY <1>5, <3>3 DEF Abs
  <2>2. CASE ~(m < 0)
    <3>1. m = x + r
      BY <1>5, <2>2 DEF Abs
    <3>2. u * h = IF 2 * r < u THEN x ELSE x + u
      BY <1>4, <1>6, <1>8, <2>2 DEF x
    <3>3. u * h - m = IF 2 * r < u THEN -r ELSE u - r
      BY <1>5, <3>1, <3>2
    <3> QED
      BY <1>5, <3>3 DEF Abs
  <2> QED
    BY <2>1, <2>2
<1>11. ASSUME NEW k \in Int, m = u * k PROVE h = k
  <2> DEFINE y == u * (h - k)
  <2>1. y = u * h - m /\ y \in Int
    BY <1>9, <1>11, Z3
  <2>2. -u < y /\ y < u
    <3> HIDE DEF y
    <3> QED
      BY <1>10, <2>1 DEF Abs
  <2>3. h - k = 0
    BY <1>9, <2>2, SmallMultiple
  <2> QED
    BY <1>9, <2>3
<1> QED
  BY <1>9, <1>10, <1>11 DEF h

\* The parts of a price.
LEMMA PriceParts ==
  ASSUME NEW p \in Price
  PROVE  /\ p.minor \in Int /\ Fits(p.minor) /\ p.scale \in Nat /\ p.scale <= MaxScale
         /\ p.currency \in Currency /\ ~Failed(p)
         /\ p = [minor |-> p.minor, scale |-> p.scale, currency |-> p.currency]
<1>1. p \in [minor : -MaxMinor - 1 .. MaxMinor, scale : 0 .. MaxScale, currency : Currency]
  BY DEF Price, Scale
<1>2. DOMAIN p = {"minor", "scale", "currency"}
  BY <1>1
<1> QED
  BY <1>1, <1>2, WidthAssumption, ScaleAssumption DEF Fits, Failed

\* Which results are errors.
LEMMA Results ==
  /\ \A kind : Failed(Error(kind))
  /\ \A m, s, c : ~Failed([minor |-> m, scale |-> s, currency |-> c])
  /\ \A m, s, c : InWidth(m, s, c) =
       IF Fits(m) THEN [minor |-> m, scale |-> s, currency |-> c] ELSE Error("overflow")
BY DEF Failed, Error, InWidth

\* What Rescale returns of a price, scale by scale.
LEMMA RescaleCases ==
  ASSUME NEW p \in Price, NEW scale \in Scale
  PROVE  /\ scale = p.scale => Rescale(p, scale) = p
         /\ scale > p.scale =>
              LET n == p.minor * Pow10[scale - p.scale] IN
              /\ n \in Int
              /\ Rescale(p, scale) =
                   IF Fits(n) THEN [minor |-> n, scale |-> scale, currency |-> p.currency]
                              ELSE Error("overflow")
         /\ scale < p.scale =>
              Rescale(p, scale) =
                [minor |-> HalfAway(p.minor, Pow10[p.scale - scale]), scale |-> scale,
                 currency |-> p.currency]
<1>1. /\ scale \in Nat /\ scale <= MaxScale /\ ~(scale > MaxScale)
      /\ p.scale \in Nat /\ p.minor \in Int
  BY PriceParts, ScaleAssumption DEF Scale
<1>2. p = [minor |-> p.minor, scale |-> p.scale, currency |-> p.currency]
  BY PriceParts
<1>3. CASE scale = p.scale
  BY <1>1, <1>3 DEF Rescale
<1>4. CASE scale > p.scale
  <2>1. Pow10[scale - p.scale] \in Int
    BY <1>1, <1>4, PowerSteps
  <2>2. Rescale(p, scale) = InWidth(p.minor * Pow10[scale - p.scale], scale, p.currency)
    BY <1>1, <1>4 DEF Rescale
  <2> QED
    BY <1>1, <1>4, <2>1, <2>2, Results
<1>5. CASE scale < p.scale
  <2>1. Rescale(p, scale) =
          [p EXCEPT !.minor = HalfAway(p.minor, Pow10[p.scale - scale]), !.scale = scale]
    BY <1>1, <1>5 DEF Rescale
  <2> DEFINE n == HalfAway(p.minor, Pow10[p.scale - scale])
  <2> HIDE DEF n
  <2>2. [p EXCEPT !.minor = n, !.scale = scale]
          = [minor |-> n, scale |-> scale, currency |-> p.currency]
    <3> DEFINE m == p.minor
               s == p.scale
               c == p.currency
    <3>1. p = [minor |-> m, scale |-> s, currency |-> c]
      BY <1>2, Zenon
    <3> HIDE DEF m, s, c
    <3> DEFINE r == [p EXCEPT !.minor = n, !.scale = scale]
    <3>2. p \in [minor : {m}, scale : {s}, currency : {c}]
      BY ONLY <3>1
    <3>3. r \in [minor : {n}, scale : {scale}, currency : {c}]
      BY ONLY <3>2
    <3> HIDE DEF r
    <3>4. r = [minor |-> n, scale |-> scale, currency |-> c]
      BY ONLY <3>3
    <3> QED
      BY <3>4, Zenon DEF c, r
  <2>3. ~(scale = p.scale) /\ ~(scale > p.scale)
    BY <1>1, <1>5
  <2> QED
    BY <2>1, <2>2, <2>3, Zenon DEF n
<1> QED
  BY <1>1, <1>3, <1>4, <1>5

\* The scales multiply.
LEMMA ScalesMultiply ==
  ASSUME NEW s \in Nat, NEW t \in Nat, s <= t, t <= MaxScale
  PROVE  Pow10[MaxScale - s] = Pow10[t - s] * Pow10[MaxScale - t]
<1>1. t - s \in Nat /\ MaxScale - t \in Nat /\ (t - s) + (MaxScale - t) = MaxScale - s
  BY ScaleAssumption
<1> QED
  BY <1>1, PowerLaw

\* What one unit of a scale is in another is a positive number.
LEMMA UnitIsPositive ==
  ASSUME NEW s \in Nat, NEW t \in Nat, s <= t
  PROVE  Pow10[t - s] \in Nat \ {0}
<1>1. t - s \in Nat
  OBVIOUS
<1> QED
  BY <1>1, PowerSteps

\* A price that is brought to a wider scale has the same value there.
LEMMA Widened ==
  ASSUME NEW p \in Price, NEW scale \in Scale, scale >= p.scale, ~Failed(Rescale(p, scale))
  PROVE  LET r == Rescale(p, scale) IN
         /\ r \in Price /\ r.scale = scale /\ r.currency = p.currency
         /\ r.minor \in Int /\ r.minor = p.minor * Pow10[scale - p.scale]
         /\ r.minor * Pow10[MaxScale - scale] = Wide(p)
<1> DEFINE r == Rescale(p, scale)
           u == Pow10[scale - p.scale]
           w == Pow10[MaxScale - scale]
<1>1. /\ scale \in Nat /\ scale <= MaxScale /\ MaxScale \in Nat
      /\ p.scale \in Nat /\ p.scale <= MaxScale /\ p.minor \in Int
  BY PriceParts, ScaleAssumption DEF Scale
<1>2. u \in Nat \ {0} /\ w \in Nat \ {0} /\ Pow10[MaxScale - p.scale] = u * w
  BY <1>1, ScalesMultiply, UnitIsPositive
<1>3. r \in Price /\ r.scale = scale /\ r.currency = p.currency /\ r.minor = p.minor * u
  <2>1. CASE scale = p.scale
    <3>1. scale - p.scale = 0
      BY <1>1, <2>1
    <3>2. u = 1
      BY <3>1, PowerSteps
    <3>3. r = p /\ r.scale = scale
      BY <2>1, RescaleCases
    <3>4. p.minor * 1 = p.minor
      BY <1>1
    <3> HIDE DEF r, u
    <3> QED
      BY <3>2, <3>3, <3>4
  <2>2. CASE scale > p.scale
    <3> DEFINE n == p.minor * u
    <3>1. n \in Int /\ r = IF Fits(n) THEN [minor |-> n, scale |-> scale, currency |-> p.currency]
                                      ELSE Error("overflow")
      BY <2>2, RescaleCases
    <3> HIDE DEF n
    <3>2. Fits(n)
      BY <3>1, Results
    <3>3. p.currency \in Currency
      BY PriceParts
    <3>4. n \in -MaxMinor - 1 .. MaxMinor
      BY <3>1, <3>2, WidthAssumption DEF Fits
    <3>5. r = [minor |-> n, scale |-> scale, currency |-> p.currency]
      BY <3>1, <3>2
    <3> HIDE DEF r
    <3> QED
      BY <3>3, <3>4, <3>5 DEF Price, n
  <2> QED
    BY <1>1, <2>1, <2>2
<1> HIDE DEF r, u, w
<1>4. r.minor \in Int
  BY <1>1, <1>2, <1>3
<1>5. (p.minor * u) * w = p.minor * (u * w)
  BY <1>1, <1>2, Z3
<1> QED
  BY <1>2, <1>3, <1>4, <1>5 DEF r, u, w, Wide

\* Halves of a unit, scaled.
LEMMA ScaledHalf ==
  ASSUME NEW x \in Int, NEW u \in Nat \ {0}, NEW v \in Nat \ {0}, 2 * Abs(x) <= u
  PROVE  2 * Abs(x * v) <= u * v
<1>1. Abs(x) \in Nat /\ Abs(x * v) = Abs(x) * v
  <2>1. CASE x < 0
    <3>1. x * v < 0 /\ -(x * v) = (-x) * v
      BY <2>1, Z3
    <3> QED
      BY <2>1, <3>1 DEF Abs
  <2>2. CASE ~(x < 0)
    <3>1. ~(x * v < 0)
      BY <2>2, Z3
    <3> QED
      BY <2>2, <3>1 DEF Abs
  <2> QED
    BY <2>1, <2>2
<1> DEFINE a == Abs(x)
<1>2. a \in Nat /\ 2 * a <= u
  BY <1>1
<1> HIDE DEF a
<1>3. 2 * (a * v) <= u * v
  BY <1>2, Z3
<1> QED
  BY <1>1, <1>3 DEF a

\* Rescaling gives the nearest value there is.
LEMMA NearestValue == \A p \in Price : RescaledIsNearest(p)
<1> SUFFICES ASSUME NEW p \in Price, NEW scale \in Scale
             PROVE  LET r == Rescale(p, scale) IN
                    /\ Failed(r) => scale > p.scale
                    /\ ~Failed(r) =>
                         /\ 2 * Abs(Wide(r) - Wide(p)) <= Pow10[MaxScale - scale]
                         /\ scale >= p.scale => Wide(r) = Wide(p) /\ Rescale(r, p.scale) = p
  BY DEF RescaledIsNearest
<1> DEFINE r == Rescale(p, scale)
           w == Pow10[MaxScale - scale]
<1>1. /\ scale \in Nat /\ scale <= MaxScale /\ MaxScale \in Nat
      /\ p.scale \in Nat /\ p.scale <= MaxScale /\ p.minor \in Int
  BY PriceParts, ScaleAssumption DEF Scale
<1>2. Wide(p) \in Int
  <2>1. Pow10[MaxScale - p.scale] \in Int
    BY <1>1, UnitIsPositive
  <2> QED
    BY <1>1, <2>1 DEF Wide
<1>3. CASE scale >= p.scale
  <2>1. Failed(r) => scale > p.scale
    <3>1. scale = p.scale => r = p
      BY RescaleCases
    <3> QED
      BY <1>1, <1>3, <3>1, PriceParts
  <2>2. ASSUME ~Failed(r)
        PROVE  Wide(r) = Wide(p) /\ Rescale(r, p.scale) = p /\ 2 * Abs(Wide(r) - Wide(p)) <= w
    <3>1. /\ r \in Price /\ r.scale = scale /\ r.currency = p.currency
          /\ r.minor = p.minor * Pow10[scale - p.scale] /\ r.minor * w = Wide(p)
      BY <1>3, <2>2, Widened
    <3> HIDE DEF r
    <3>2. Wide(r) = Wide(p)
      BY <3>1 DEF Wide
    <3>3. w \in Nat
      BY <1>1, UnitIsPositive
    <3>4. 2 * Abs(Wide(r) - Wide(p)) <= w
      BY <1>2, <3>2, <3>3 DEF Abs
    <3>5. Rescale(r, p.scale) = p
      <4>1. CASE scale = p.scale
        <5>1. r = p
          BY <4>1, RescaleCases DEF r
        <5> QED
          BY <4>1, <5>1, <3>1, RescaleCases
      <4>2. CASE scale > p.scale
        <5> DEFINE u == Pow10[scale - p.scale]
        <5>1. u \in Nat \ {0}
          BY <1>1, <4>2, UnitIsPositive
        <5>2. r.minor \in Int /\ r.minor = u * p.minor
          BY <1>1, <3>1, <5>1
        <5>3. HalfAway(r.minor, u) = p.minor
          BY <1>1, <5>1, <5>2, HalfAwayIsNearest
        <5>4. p.scale \in Scale /\ p.scale < r.scale
          BY <1>1, <3>1, <4>2 DEF Scale
        <5>5. Rescale(r, p.scale) = [minor |-> HalfAway(r.minor, Pow10[r.scale - p.scale]),
                                     scale |-> p.scale, currency |-> r.currency]
          BY <3>1, <5>4, RescaleCases
        <5> HIDE DEF u
        <5>6. Rescale(r, p.scale) = [minor |-> p.minor, scale |-> p.scale, currency |-> p.currency]
          BY <3>1, <5>3, <5>5, Zenon DEF u
        <5> QED
          BY <5>6, PriceParts, Zenon
      <4> QED
        BY <1>1, <1>3, <4>1, <4>2
    <3> QED
      BY <3>2, <3>4, <3>5
  <2> QED
    BY <2>1, <2>2
<1>4. CASE scale < p.scale
  <2> DEFINE u == Pow10[p.scale - scale]
             v == Pow10[MaxScale - p.scale]
             h == HalfAway(p.minor, u)
  <2>0. scale <= p.scale
    BY <1>1, <1>4
  <2>1. u \in Nat \ {0} /\ v \in Nat \ {0} /\ w = u * v
    <3>1. u \in Nat \ {0}
      BY <1>1, <2>0, UnitIsPositive
    <3>2. v \in Nat \ {0}
      BY <1>1, UnitIsPositive
    <3>3. w = u * v
      BY <1>1, <2>0, ScalesMultiply
    <3> QED
      BY <3>1, <3>2, <3>3
  <2>2. h \in Int /\ 2 * Abs(u * h - p.minor) <= u
    BY <1>1, <2>1, HalfAwayIsNearest
  <2>3. r = [minor |-> h, scale |-> scale, currency |-> p.currency]
    BY <1>4, RescaleCases
  <2> HIDE DEF r, u, v, w, h
  <2>4. ~Failed(r)
    BY <2>3, Results
  <2>5. Wide(r) = h * (u * v) /\ Wide(p) = p.minor * v
    BY <2>1, <2>3 DEF Wide, u, v, w
  <2> DEFINE x == u * h - p.minor
  <2>6. x \in Int /\ x * v = h * (u * v) - p.minor * v
    BY <1>1, <2>1, <2>2, Z3
  <2>7. 2 * Abs(x * v) <= u * v
    BY <2>1, <2>2, <2>6, ScaledHalf
  <2>8. 2 * Abs(Wide(r) - Wide(p)) <= w
    BY <2>1, <2>5, <2>6, <2>7
  <2>9. ~(scale >= p.scale)
    BY <1>1, <1>4
  <2> QED
    BY <2>4, <2>8, <2>9 DEF r, w
<1> QED
  BY <1>1, <1>3, <1>4

----
(* Two prices. *)

\* The wider scale of two prices.
WiderScale(p, q) == IF p.scale > q.scale THEN p.scale ELSE q.scale

\* What Align returns: both prices, at one scale, with the values they had.
LEMMA Aligned ==
  ASSUME NEW p \in Price, NEW q \in Price
  PROVE  LET x == Align(p, q)
             scale == WiderScale(p, q)
         IN  /\ Failed(x) <=> \/ p.currency # q.currency
                              \/ Failed(Rescale(p, scale)) \/ Failed(Rescale(q, scale))
             /\ ~Failed(x) =>
                  /\ p.currency = q.currency
                  /\ x.scale = scale /\ x.a \in Int /\ x.b \in Int
                  /\ x.a = Rescale(p, scale).minor /\ x.b = Rescale(q, scale).minor
                  /\ x.a * Pow10[MaxScale - scale] = Wide(p)
                  /\ x.b * Pow10[MaxScale - scale] = Wide(q)
<1> DEFINE x == Align(p, q)
           scale == WiderScale(p, q)
           a == Rescale(p, scale)
           b == Rescale(q, scale)
<1>1. scale \in Scale /\ scale >= p.scale /\ scale >= q.scale
  BY PriceParts, ScaleAssumption DEF WiderScale, Scale
<1>2. x = IF p.currency # q.currency THEN Error("currency mismatch")
          ELSE IF Failed(a) THEN a
          ELSE IF Failed(b) THEN b
          ELSE [a |-> a.minor, b |-> b.minor, scale |-> scale]
  BY Zenon DEF Align, WiderScale
<1> HIDE DEF x, scale, a, b
<1>3. \A m, n, s : ~Failed([a |-> m, b |-> n, scale |-> s])
  BY DEF Failed
<1>4. Failed(x) <=> p.currency # q.currency \/ Failed(a) \/ Failed(b)
  BY <1>2, <1>3, Results, Zenon
<1>5. ASSUME ~Failed(x)
      PROVE  /\ p.currency = q.currency
             /\ x.scale = scale /\ x.a \in Int /\ x.b \in Int
             /\ x.a = a.minor /\ x.b = b.minor
             /\ x.a * Pow10[MaxScale - scale] = Wide(p)
             /\ x.b * Pow10[MaxScale - scale] = Wide(q)
  <2>1. p.currency = q.currency /\ ~Failed(a) /\ ~Failed(b)
    BY <1>4, <1>5
  <2>2. x = [a |-> a.minor, b |-> b.minor, scale |-> scale]
    BY <1>2, <2>1, Zenon
  <2>3. a.minor \in Int /\ a.minor * Pow10[MaxScale - scale] = Wide(p)
    BY <1>1, <2>1, Widened DEF a
  <2>4. b.minor \in Int /\ b.minor * Pow10[MaxScale - scale] = Wide(q)
    BY <1>1, <2>1, Widened DEF b
  <2> QED
    BY <2>1, <2>2, <2>3, <2>4
<1> QED
  BY <1>4, <1>5 DEF x, scale, a, b

\* Multiples compare and add as what they are multiples of.
LEMMA MultiplesCompare ==
  ASSUME NEW a \in Int, NEW b \in Int, NEW w \in Nat \ {0}
  PROVE  /\ (a - b) * w = a * w - b * w
         /\ (a + b) * w = a * w + b * w
         /\ a > b <=> a * w > b * w
<1>1. (a - b) * w = a * w - b * w /\ (a + b) * w = a * w + b * w
  BY Z3
<1> DEFINE x == a * w
           y == b * w
<1>2. x \in Int /\ y \in Int
  OBVIOUS
<1>3. ASSUME a > b PROVE x > y
  <2>1. a - b >= 1
    BY <1>3
  <2>2. (a - b) * w >= 1
    BY <2>1, Z3
  <2>3. x - y >= 1
    BY <1>1, <2>2
  <2> HIDE DEF x, y
  <2> QED
    BY <1>2, <2>3
<1>4. ASSUME ~(a > b) PROVE ~(x > y)
  <2>1. b - a >= 0
    BY <1>4
  <2>2. (b - a) * w >= 0 /\ (b - a) * w = y - x
    BY <2>1, Z3
  <2> HIDE DEF x, y
  <2> QED
    BY <1>2, <2>2
<1> QED
  BY <1>1, <1>3, <1>4

\* Sums, differences and comparisons of prices are those of their values.
LEMMA ExactArithmetic == \A p, q \in Price : ArithmeticIsExact(p, q)
<1> SUFFICES ASSUME NEW p \in Price, NEW q \in Price PROVE ArithmeticIsExact(p, q)
  OBVIOUS
<1> DEFINE x == Align(p, q)
           scale == WiderScale(p, q)
           w == Pow10[MaxScale - scale]
<1>1. scale \in Nat /\ scale <= MaxScale /\ w \in Nat \ {0}
  <2>1. scale \in Nat /\ scale <= MaxScale /\ MaxScale \in Nat
    BY PriceParts, ScaleAssumption DEF WiderScale
  <2> QED
    BY <2>1, UnitIsPositive
<1>2. ~Failed(x) => /\ p.currency = q.currency /\ x.scale = scale /\ x.a \in Int /\ x.b \in Int
                    /\ x.a * w = Wide(p) /\ x.b * w = Wide(q)
  BY Aligned
<1>3. /\ Sub(p, q) = IF Failed(x) THEN x ELSE InWidth(x.a - x.b, x.scale, p.currency)
      /\ Add(p, q) = IF Failed(x) THEN x ELSE InWidth(x.a + x.b, x.scale, p.currency)
      /\ CmpValue(p, q) =
           IF Failed(x) THEN x
           ELSE [order |-> IF x.a < x.b THEN -1 ELSE IF x.a > x.b THEN 1 ELSE 0]
  BY Zenon DEF Sub, Add, CmpValue
<1>4. \A n : ~Failed([order |-> n])
  BY DEF Failed
<1> HIDE DEF x, w, scale
<1>5. ASSUME ~Failed(x)
      PROVE  /\ (x.a - x.b) * w = Wide(p) - Wide(q) /\ (x.a + x.b) * w = Wide(p) + Wide(q)
             /\ x.a > x.b <=> Wide(p) > Wide(q)
  BY <1>1, <1>2, <1>5, MultiplesCompare
<1>6. ~Failed(Sub(p, q)) => Wide(Sub(p, q)) = Wide(p) - Wide(q)
  <2> SUFFICES ASSUME ~Failed(Sub(p, q)) PROVE Wide(Sub(p, q)) = Wide(p) - Wide(q)
    OBVIOUS
  <2>1. ~Failed(x) /\ Sub(p, q) = InWidth(x.a - x.b, x.scale, p.currency)
    BY <1>3, Zenon
  <2>2. Sub(p, q) = [minor |-> x.a - x.b, scale |-> x.scale, currency |-> p.currency]
    BY <2>1, Results, Zenon
  <2>3. Wide(Sub(p, q)) = (x.a - x.b) * w
    BY <1>2, <2>1, <2>2 DEF Wide, w
  <2> QED
    BY <1>5, <2>1, <2>3
<1>7. ~Failed(Add(p, q)) => Wide(Add(p, q)) = Wide(p) + Wide(q)
  <2> SUFFICES ASSUME ~Failed(Add(p, q)) PROVE Wide(Add(p, q)) = Wide(p) + Wide(q)
    OBVIOUS
  <2>1. ~Failed(x) /\ Add(p, q) = InWidth(x.a + x.b, x.scale, p.currency)
    BY <1>3, Zenon
  <2>2. Add(p, q) = [minor |-> x.a + x.b, scale |-> x.scale, currency |-> p.currency]
    BY <2>1, Results, Zenon
  <2>3. Wide(Add(p, q)) = (x.a + x.b) * w
    BY <1>2, <2>1, <2>2 DEF Wide, w
  <2> QED
    BY <1>5, <2>1, <2>3
<1>8. ASSUME ~Failed(CmpValue(p, q))
      PROVE  /\ ~Failed(x) /\ (CmpValue(p, q).order > 0 <=> x.a > x.b)
             /\ CmpValue(p, q).order = 0 => x.a = x.b
  <2>1. ~Failed(x)
    BY <1>3, <1>8, Zenon
  <2>2. CmpValue(p, q).order = IF x.a < x.b THEN -1 ELSE IF x.a > x.b THEN 1 ELSE 0
    BY <1>3, <2>1
  <2> QED
    BY <1>2, <2>1, <2>2
<1>9. ~Failed(CmpValue(p, q)) => (IsCrossed(p, q) <=> Wide(p) > Wide(q))
  BY <1>5, <1>8 DEF IsCrossed
<1>10. ~PriceMoved(p, q) => p.currency = q.currency /\ Wide(p) = Wide(q)
  <2> SUFFICES ASSUME ~PriceMoved(p, q) PROVE p.currency = q.currency /\ Wide(p) = Wide(q)
    OBVIOUS
  <2>1. ~Failed(CmpValue(p, q)) /\ CmpValue(p, q).order = 0
    BY DEF PriceMoved
  <2>2. ~Failed(x) /\ x.a = x.b
    BY <1>8, <2>1
  <2> QED
    BY <1>2, <2>2
<1> QED
  BY <1>6, <1>7, <1>9, <1>10 DEF ArithmeticIsExact

\* A row of the archive holds the values of its prices.
LEMMA ExactRow == \A p, q \in Price : RowIsExact(p, q)
<1> SUFFICES ASSUME NEW p \in Price, NEW q \in Price PROVE RowIsExact(p, q)
  OBVIOUS
<1> DEFINE quote == [bid |-> p, ask |-> q]
           prices == {quote[f] : f \in DOMAIN quote}
           scale == WiderScale(p, q)
           a == Rescale(p, scale)
           b == Rescale(q, scale)
           row == QuoteRow(quote)
<1>1. DOMAIN quote = {"bid", "ask"} /\ quote["bid"] = p /\ quote["ask"] = q
  OBVIOUS
<1>2. prices = {p, q}
  BY <1>1
<1>3. RowScale(prices) = scale
  <2>1. p.scale \in Nat /\ q.scale \in Nat
    BY PriceParts
  <2>2. \E r \in prices : \A s \in prices : s.scale <= r.scale
    BY <1>2, <2>1
  <2> DEFINE top == CHOOSE r \in prices : \A s \in prices : s.scale <= r.scale
  <2>3. top \in prices /\ \A s \in prices : s.scale <= top.scale
    BY <2>2
  <2>4. RowScale(prices) = top.scale
    BY DEF RowScale
  <2> HIDE DEF top, prices
  <2> QED
    BY <1>2, <2>1, <2>3, <2>4 DEF WiderScale
<1> DEFINE scaled == [f \in DOMAIN quote |-> Rescale(quote[f], RowScale(prices))]
<1>4. scaled["bid"] = a /\ scaled["ask"] = b
  BY <1>1, <1>3
<1>5. row = CASE prices = {}                                     -> Error("no price")
              [] \E r, s \in prices : r.currency # s.currency    -> Error("mixed currencies")
              [] /\ prices # {}
                 /\ \A r, s \in prices : r.currency = s.currency ->
                   IF \E f \in DOMAIN quote : Failed(scaled[f])
                     THEN Error("overflow")
                     ELSE [scale |-> RowScale(prices),
                           currency |-> (CHOOSE r \in prices : TRUE).currency,
                           minors |-> [f \in DOMAIN quote |-> scaled[f].minor]]
  BY Zenon DEF QuoteRow
<1> HIDE DEF quote, prices, scaled, row
<1>6. ASSUME p.currency # q.currency PROVE Failed(row)
  <2>1. row = Error("mixed currencies")
    BY <1>2, <1>5, <1>6
  <2> QED
    BY <2>1, Results
<1>7. ASSUME p.currency = q.currency
      PROVE  /\ Failed(row) <=> Failed(a) \/ Failed(b)
             /\ ~Failed(row) => /\ row.scale = scale
                                /\ row.minors.bid = a.minor /\ row.minors.ask = b.minor
  <2> DEFINE full == [scale |-> RowScale(prices), currency |-> (CHOOSE r \in prices : TRUE).currency,
                      minors |-> [f \in DOMAIN quote |-> scaled[f].minor]]
  <2>1. /\ prices # {} /\ \A r, s \in prices : r.currency = s.currency
        /\ ~\E r, s \in prices : r.currency # s.currency
    BY <1>2, <1>7
  <2>2. row = IF \E f \in DOMAIN quote : Failed(scaled[f]) THEN Error("overflow") ELSE full
    BY <1>5, <2>1
  <2>3. (\E f \in DOMAIN quote : Failed(scaled[f])) <=> Failed(a) \/ Failed(b)
    BY <1>1, <1>4
  <2>4. ~Failed(full)
    BY DEF Failed
  <2>5. full.scale = scale /\ full.minors.bid = a.minor /\ full.minors.ask = b.minor
    BY <1>1, <1>3, <1>4
  <2> HIDE DEF full
  <2> QED
    BY <2>2, <2>3, <2>4, <2>5, Results
<1>8. ~Failed(row) =>
        /\ row.minors.bid * Pow10[MaxScale - row.scale] = Wide(p)
        /\ row.minors.ask * Pow10[MaxScale - row.scale] = Wide(q)
  <2> SUFFICES ASSUME ~Failed(row)
               PROVE  /\ row.minors.bid * Pow10[MaxScale - row.scale] = Wide(p)
                      /\ row.minors.ask * Pow10[MaxScale - row.scale] = Wide(q)
    OBVIOUS
  <2>1. scale \in Scale /\ scale >= p.scale /\ scale >= q.scale
    BY PriceParts, ScaleAssumption DEF WiderScale, Scale
  <2>2. /\ ~Failed(a) /\ ~Failed(b) /\ row.scale = scale
        /\ row.minors.bid = a.minor /\ row.minors.ask = b.minor
    BY <1>6, <1>7
  <2>3. a.minor * Pow10[MaxScale - scale] = Wide(p) /\ b.minor * Pow10[MaxScale - scale] = Wide(q)
    BY <2>1, <2>2, Widened
  <2> QED
    BY <2>2, <2>3
<1>9. Failed(row) => p.currency # q.currency \/ Failed(CmpValue(p, q))
  <2> SUFFICES ASSUME Failed(row), p.currency = q.currency PROVE Failed(CmpValue(p, q))
    OBVIOUS
  <2>1. Failed(a) \/ Failed(b)
    BY <1>7
  <2>2. Failed(Align(p, q))
    BY <2>1, Aligned
  <2> QED
    BY <2>2 DEF CmpValue
<1>10. \A d \in DOMAIN DelayCode : DelayFromCode(DelayCode[d]) = {d}
  BY DEF DelayCode, DelayFromCode
<1> QED
  BY <1>8, <1>9, <1>10 DEF RowIsExact, row, quote

----
(* What is read of a row of the feed. *)

\* What parse makes of a decimal that its scale can hold.
LEMMA Parsed ==
  ASSUME NEW neg \in BOOLEAN, NEW digits \in Nat, NEW frac \in Nat, NEW scale \in Scale,
         frac <= scale, NEW c,
         NEW r, r = PriceParse([neg |-> neg, digits |-> digits, frac |-> frac], c, scale), ~Failed(r)
  PROVE  LET n == digits * Pow10[scale - frac]
         IN  r = [minor |-> IF neg THEN -n ELSE n, scale |-> scale, currency |-> c]
             /\ Fits(r.minor) /\ n \in Nat
<1> DEFINE d == [neg |-> neg, digits |-> digits, frac |-> frac]
           n == digits * Pow10[scale - frac]
           m == IF neg THEN -n ELSE n
<1>1. scale \in Nat /\ scale <= MaxScale /\ ~(scale > MaxScale) /\ ~(frac > scale)
  BY ScaleAssumption DEF Scale
<1>2. d.neg = neg /\ d.digits = digits /\ d.frac = frac
  OBVIOUS
<1>3. PriceParse(d, c, scale) =
        CASE scale > MaxScale                      -> Error("bad scale")
          [] scale <= MaxScale /\ d.frac > scale   -> Error("precision loss")
          [] scale <= MaxScale /\ d.frac <= scale  ->
               IF d.digits * Pow10[scale - d.frac] > MaxMinor
                 THEN Error("overflow")
                 ELSE InWidth(IF d.neg THEN -(d.digits * Pow10[scale - d.frac])
                                       ELSE d.digits * Pow10[scale - d.frac], scale, c)
  BY Zenon DEF PriceParse
<1> HIDE DEF d
<1>4. PriceParse(d, c, scale) = IF n > MaxMinor THEN Error("overflow") ELSE InWidth(m, scale, c)
  BY <1>1, <1>2, <1>3
<1>5. r = IF n > MaxMinor THEN Error("overflow") ELSE InWidth(m, scale, c)
  BY <1>4, Zenon DEF d
<1>6. n \in Nat
  <2>1. Pow10[scale - frac] \in Nat
    BY <1>1, UnitIsPositive
  <2> QED
    BY <2>1
<1> HIDE DEF n, m
<1>7. Fits(m) /\ r = [minor |-> m, scale |-> scale, currency |-> c]
  BY <1>5, Results, Zenon
<1> QED
  BY <1>6, <1>7 DEF m, n

\* A number that the feed wrote as a price is read within half a unit of it.
LEMMA ReadIsNear ==
  ASSUME NEW p \in Price, NEW scale \in Scale, NEW c \in Currency,
         NEW r \in FromF64(AsDecimal(p), c, scale), ~Failed(r)
  PROVE  /\ r \in Price /\ r.scale = scale /\ r.currency = c
         /\ 2 * Abs(Wide(r) - Wide(p)) <= Pow10[MaxScale - scale]
<1> DEFINE d == AsDecimal(p)
           mag == Abs(p.minor)
           neg == p.minor < 0
           w == Pow10[MaxScale - scale]
<1>1. /\ scale \in Nat /\ scale <= MaxScale /\ MaxScale \in Nat
      /\ p.scale \in Nat /\ p.scale <= MaxScale /\ p.minor \in Int
  BY PriceParts, ScaleAssumption DEF Scale
<1>2. mag \in Nat /\ p.minor = (IF neg THEN -mag ELSE mag) /\ neg \in BOOLEAN
  BY <1>1 DEF Abs
<1>3. d = [neg |-> neg, digits |-> mag, frac |-> p.scale]
  BY DEF AsDecimal
<1>4. PICK e \in (IF d.frac > scale THEN RoundedTo(d, scale) ELSE {d}) : r = PriceParse(e, c, scale)
  BY DEF FromF64
<1>5. w \in Nat \ {0}
  BY <1>1, UnitIsPositive
<1>6. ASSUME NEW n \in Nat, r = [minor |-> IF neg THEN -n ELSE n, scale |-> scale, currency |-> c],
             Fits(r.minor)
      PROVE  /\ r \in Price /\ r.scale = scale /\ r.currency = c
             /\ Wide(r) = IF neg THEN -(n * w) ELSE n * w
  <2> DEFINE m == IF neg THEN -n ELSE n
  <2>1. m \in -MaxMinor - 1 .. MaxMinor /\ r.minor = m /\ r.scale = scale /\ r.currency = c
    BY <1>2, <1>6, WidthAssumption DEF Fits
  <2>2. r \in Price
    <3> HIDE DEF m
    <3> QED
      BY <1>6, <2>1 DEF Price, m
  <2>3. (-n) * w = -(n * w)
    BY <1>5, Z3
  <2>4. Wide(r) = m * w
    BY <2>1 DEF Wide
  <2> QED
    BY <2>1, <2>2, <2>3, <2>4
<1>7. CASE p.scale <= scale
  <2> DEFINE u == Pow10[scale - p.scale]
             n == mag * u
             v == Pow10[MaxScale - p.scale]
  <2>1. e = d
    BY <1>1, <1>3, <1>4, <1>7
  <2>2. /\ r = [minor |-> IF neg THEN -n ELSE n, scale |-> scale, currency |-> c]
        /\ Fits(r.minor) /\ n \in Nat
    <3>1. r = PriceParse([neg |-> neg, digits |-> mag, frac |-> p.scale], c, scale)
      BY <1>3, <1>4, <2>1, Zenon
    <3> HIDE DEF mag, neg
    <3> QED
      BY <1>1, <1>2, <1>7, <3>1, Parsed DEF u
  <2>3. u \in Nat \ {0} /\ v \in Nat \ {0} /\ v = u * w
    <3>1. u \in Nat \ {0}
      BY <1>1, <1>7, UnitIsPositive
    <3>2. v \in Nat \ {0}
      BY <1>1, UnitIsPositive
    <3>3. v = u * w
      BY <1>1, <1>7, ScalesMultiply
    <3> QED
      BY <3>1, <3>2, <3>3
  <2>4. Wide(p) = p.minor * v
    BY DEF Wide
  <2>5. n * w = mag * v
    <3> HIDE DEF u, v, w, mag
    <3> QED
      BY <1>2, <1>5, <2>3, Z3
  <2>6. (-mag) * v = -(mag * v)
    <3> HIDE DEF v, mag
    <3> QED
      BY <1>2, <2>3, Z3
  <2>7. /\ r \in Price /\ r.scale = scale /\ r.currency = c
        /\ Wide(r) = IF neg THEN -(n * w) ELSE n * w
    BY <1>6, <2>2
  <2> HIDE DEF u, n, v, w, mag, neg
  <2>8. Wide(r) = Wide(p) /\ Wide(p) \in Int
    BY <1>1, <1>2, <2>3, <2>4, <2>5, <2>6, <2>7
  <2>9. 2 * Abs(Wide(r) - Wide(p)) <= w
    BY <1>5, <2>8 DEF Abs
  <2> QED
    BY <2>7, <2>9 DEF w
<1>8. CASE p.scale > scale
  <2> DEFINE u == Pow10[p.scale - scale]
             v == Pow10[MaxScale - p.scale]
             low == mag \div u
             rest == mag % u
  <2>1. u \in Nat \ {0} /\ v \in Nat \ {0} /\ w = u * v
    <3>1. u \in Nat \ {0}
      BY <1>1, <1>8, UnitIsPositive
    <3>2. v \in Nat \ {0}
      BY <1>1, UnitIsPositive
    <3>3. w = u * v
      BY <1>1, <1>8, ScalesMultiply
    <3> QED
      BY <3>1, <3>2, <3>3
  <2>2. PICK n \in (IF 2 * rest <= u THEN {low} ELSE {})
                      \union (IF 2 * rest >= u THEN {low + 1} ELSE {}) :
          e = [neg |-> neg, digits |-> n, frac |-> scale]
    BY <1>1, <1>3, <1>4, <1>8 DEF RoundedTo
  <2>3. low \in Nat /\ rest \in 0 .. u - 1 /\ mag = u * low + rest
    <3> HIDE DEF mag, u
    <3> QED
      BY <1>2, <2>1, Z3
  <2>4. n \in Nat /\ 2 * Abs(u * n - mag) <= u
    <3> HIDE DEF low, rest, u, mag
    <3>1. (n = low /\ 2 * rest <= u) \/ (n = low + 1 /\ 2 * rest >= u)
      BY <2>2
    <3>2. u * (low + 1) = u * low + u
      BY <2>1, <2>3, Z3
    <3> DEFINE x == u * low
    <3>3. x \in Nat /\ mag = x + rest
      BY <2>1, <2>3
    <3>4. \/ u * n - mag = -rest /\ 2 * rest <= u
          \/ u * n - mag = u - rest /\ 2 * rest >= u
      <4>1. CASE n = low /\ 2 * rest <= u
        <5>1. u * n = x
          BY <4>1
        <5> HIDE DEF x
        <5> QED
          BY <2>1, <2>3, <3>3, <4>1, <5>1
      <4>2. CASE n = low + 1 /\ 2 * rest >= u
        <5>1. u * n = x + u
          BY <3>2, <4>2
        <5> HIDE DEF x
        <5> QED
          BY <2>1, <2>3, <3>3, <4>2, <5>1
      <4> QED
        BY <3>1, <4>1, <4>2
    <3> QED
      BY <2>1, <2>3, <3>1, <3>4 DEF Abs
  <2>5. n * Pow10[scale - scale] = n
    <3>1. scale - scale = 0
      BY <1>1
    <3> QED
      BY <2>4, <3>1, PowerSteps
  <2>6. /\ r = [minor |-> IF neg THEN -n ELSE n, scale |-> scale, currency |-> c]
        /\ Fits(r.minor)
    <3>1. r = PriceParse([neg |-> neg, digits |-> n, frac |-> scale], c, scale)
      BY <1>4, <2>2, Zenon
    <3>2. scale <= scale
      BY <1>1
    <3> HIDE DEF mag, neg
    <3>3. /\ r = [minor |-> IF neg THEN -(n * Pow10[scale - scale]) ELSE n * Pow10[scale - scale],
                  scale |-> scale, currency |-> c]
          /\ Fits(r.minor)
      BY <1>1, <1>2, <2>4, <3>1, <3>2, Parsed
    <3> QED
      BY <2>5, <3>3
  <2>7. /\ r \in Price /\ r.scale = scale /\ r.currency = c
        /\ Wide(r) = IF neg THEN -(n * w) ELSE n * w
    BY <1>6, <2>4, <2>6
  <2>8. Wide(p) = p.minor * v
    BY DEF Wide
  <2> HIDE DEF u, v, w, mag, neg, low, rest
  <2> DEFINE y == u * n - mag
             x == IF neg THEN -y ELSE y
  <2>9. y \in Int /\ x \in Int /\ 2 * Abs(x) <= u
    BY <1>2, <2>1, <2>4 DEF Abs
  <2>10. y * v = n * w - mag * v /\ (-y) * v = -(n * w) - (-mag) * v
    BY <1>2, <2>1, <2>4, Z3
  <2>11. Wide(r) - Wide(p) = x * v
    BY <1>2, <2>7, <2>8, <2>10
  <2>12. 2 * Abs(x * v) <= u * v
    BY <2>1, <2>9, ScaledHalf
  <2> QED
    BY <2>1, <2>7, <2>11, <2>12 DEF w
<1> QED
  BY <1>1, <1>7, <1>8

\* The previous close is the price less the change, as they were read.
LEMMA ExactPreviousClose == \A p, q \in Price : PreviousCloseIsExact(p, q)
<1> SUFFICES ASSUME NEW p \in Price, NEW q \in Price, NEW scale \in Scale,
                    NEW quote \in KwayisiQuote([price |-> AsDecimal(p), change |-> AsDecimal(q)],
                                               p.currency, scale),
                    ~Failed(quote)
             PROVE  LET moved == quote.last.minor - quote.previousClose.minor IN
                    /\ 2 * Abs(Wide(quote.last) - Wide(p)) <= Pow10[MaxScale - scale]
                    /\ ~Failed(quote.previousClose) =>
                         2 * Abs(moved * Pow10[MaxScale - scale] - Wide(q)) <= Pow10[MaxScale - scale]
  BY DEF PreviousCloseIsExact
<1> DEFINE c == p.currency
           w == Pow10[MaxScale - scale]
<1>1. PICK last \in FromF64(AsDecimal(p), c, scale), change \in FromF64(AsDecimal(q), c, scale) :
        quote = IF Failed(last) \/ Failed(change)
                  THEN Error("malformed")
                  ELSE [last |-> last, previousClose |-> Sub(last, change)]
  BY DEF KwayisiQuote
<1>2. /\ ~Failed(last) /\ ~Failed(change)
      /\ quote = [last |-> last, previousClose |-> Sub(last, change)]
  BY <1>1, Results
<1>3. quote.last = last /\ quote.previousClose = Sub(last, change)
  BY <1>2
<1>4. c \in Currency
  BY PriceParts
<1>5. /\ last \in Price /\ last.scale = scale /\ last.currency = c
      /\ 2 * Abs(Wide(last) - Wide(p)) <= w
  BY <1>2, <1>4, ReadIsNear
<1>6. /\ change \in Price /\ change.scale = scale /\ change.currency = c
      /\ 2 * Abs(Wide(change) - Wide(q)) <= w
  BY <1>2, <1>4, ReadIsNear
<1>7. ASSUME ~Failed(Sub(last, change))
      PROVE  last.minor - Sub(last, change).minor = change.minor
  <2> DEFINE x == Align(last, change)
             top == WiderScale(last, change)
  <2>1. Sub(last, change) = IF Failed(x) THEN x ELSE InWidth(x.a - x.b, x.scale, last.currency)
    BY Zenon DEF Sub
  <2>2. ~Failed(x)
    BY <1>7, <2>1, Zenon
  <2>3. top = scale
    BY <1>5, <1>6 DEF WiderScale
  <2>4. Rescale(last, scale) = last /\ Rescale(change, scale) = change
    BY <1>5, <1>6, RescaleCases
  <2>5. x.a = last.minor /\ x.b = change.minor
    BY <1>5, <1>6, <2>2, <2>3, <2>4, Aligned
  <2> HIDE DEF x
  <2>6. Sub(last, change) = [minor |-> x.a - x.b, scale |-> x.scale, currency |-> last.currency]
    BY <1>7, <2>1, <2>2, Results, Zenon
  <2>7. Sub(last, change).minor = last.minor - change.minor
    BY <2>5, <2>6
  <2>8. last.minor \in Int /\ change.minor \in Int
    BY <1>5, <1>6, PriceParts
  <2> QED
    BY <2>7, <2>8
<1>8. change.minor * w = Wide(change)
  BY <1>6 DEF Wide
<1> HIDE DEF w
<1>9. ASSUME ~Failed(quote.previousClose)
      PROVE  quote.last.minor - quote.previousClose.minor = change.minor
  BY <1>3, <1>7, <1>9
<1>10. /\ 2 * Abs(Wide(quote.last) - Wide(p)) <= w
       /\ ~Failed(quote.previousClose) =>
            2 * Abs((quote.last.minor - quote.previousClose.minor) * w - Wide(q)) <= w
  BY <1>3, <1>5, <1>6, <1>8, <1>9
<1> QED
  BY <1>10 DEF w

\* Whatever is computed of any two prices, at any scales, is exact to the
\* rounding asked for, or refused: the sample of the runs stands for all.
THEOREM PricesAlwaysExact ==
  \A p, q \in Price : sample = [kind |-> "prices", p |-> p, q |-> q] => PricesAreExact
<1> SUFFICES ASSUME NEW p \in Price, NEW q \in Price,
                    sample = [kind |-> "prices", p |-> p, q |-> q]
             PROVE  PricesAreExact
  OBVIOUS
<1>1. sample.p = p /\ sample.q = q
  OBVIOUS
<1> QED
  BY <1>1, NearestValue, ExactArithmetic, ExactPreviousClose, ExactRow DEF PricesAreExact

----
(* The prices of the SDK. *)

\* The quotient of a whole number is one.
LEMMA QuotientIsInt ==
  ASSUME NEW n \in Int, NEW d \in Int, d # 0
  PROVE  Quotient(n, d) \in Int
<1>1. Abs(n) \in Nat /\ Abs(d) \in Nat \ {0}
  BY DEF Abs
<1>2. Abs(n) \div Abs(d) \in Nat
  BY <1>1, Division
<1> QED
  BY <1>2 DEF Quotient

\* The SDK rounds as the services do.
LEMMA SdkRounds ==
  ASSUME NEW m \in Int, NEW u \in Nat \ {0}
  PROVE  LET q == Quotient(m, u)
             up == IF m < 0 THEN -1 ELSE 1
         IN  (IF 2 * Abs(m - q * u) >= u THEN q + up ELSE q) = HalfAway(m, u)
<1> DEFINE q == Quotient(m, u)
           rest == Abs(m - q * u)
           up == IF m < 0 THEN -1 ELSE 1
<1>1. q \in Int
  BY QuotientIsInt
<1> HIDE DEF q
<1>2. q * u \in Int /\ u * q = q * u
  BY <1>1, Z3
<1>3. rest \in Nat
  BY <1>2 DEF Abs
<1>4. HalfAway(m, u) = IF 2 * rest < u THEN q ELSE q + up
  BY <1>2 DEF HalfAway, q
<1> HIDE DEF rest, up
<1>5. (IF 2 * rest >= u THEN q + up ELSE q) = HalfAway(m, u)
  BY <1>3, <1>4
<1> QED
  BY <1>5, Zenon DEF q, rest, up

\* Where the service has a result of rescaling, the SDK has the same.
LEMMA SdkRescales ==
  ASSUME NEW p \in Price, NEW scale \in Scale, ~Failed(Rescale(p, scale))
  PROVE  SdkRescale(p, scale) = Rescale(p, scale)
<1>1. /\ scale \in Nat /\ scale <= MaxScale /\ p.scale \in Nat /\ p.minor \in Int
  BY PriceParts, ScaleAssumption DEF Scale
<1> DEFINE u == Pow10[p.scale - scale]
           v == Pow10[scale - p.scale]
           q == Quotient(p.minor, u)
           up == IF p.minor < 0 THEN -1 ELSE 1
           n == IF 2 * Abs(p.minor - q * u) >= u THEN q + up ELSE q
<1>2. SdkRescale(p, scale) =
        CASE scale = p.scale -> p
          [] scale > p.scale -> SdkPrice(p.minor * v, scale, p.currency)
          [] scale < p.scale -> SdkPrice(n, scale, p.currency)
  BY Zenon DEF SdkRescale
<1>3. \A m : SdkPrice(m, scale, p.currency) = [minor |-> m, scale |-> scale, currency |-> p.currency]
  BY <1>1 DEF SdkPrice
<1> HIDE DEF n, v
<1>4. CASE scale = p.scale
  <2>1. ~(scale > p.scale) /\ ~(scale < p.scale)
    BY <1>1, <1>4
  <2> QED
    BY <1>2, <1>4, <2>1, RescaleCases, Zenon
<1>5. CASE scale > p.scale
  <2>1. ~(scale = p.scale) /\ ~(scale < p.scale)
    BY <1>1, <1>5
  <2>2. SdkRescale(p, scale) = [minor |-> p.minor * v, scale |-> scale, currency |-> p.currency]
    BY <1>2, <1>3, <1>5, <2>1, Zenon
  <2>3. Rescale(p, scale) = IF Fits(p.minor * v)
                              THEN [minor |-> p.minor * v, scale |-> scale, currency |-> p.currency]
                              ELSE Error("overflow")
    BY <1>5, RescaleCases DEF v
  <2> QED
    BY <2>2, <2>3, Results, Zenon
<1>6. CASE scale < p.scale
  <2>1. ~(scale = p.scale) /\ ~(scale > p.scale)
    BY <1>1, <1>6
  <2>2. SdkRescale(p, scale) = [minor |-> n, scale |-> scale, currency |-> p.currency]
    BY <1>2, <1>3, <1>6, <2>1, Zenon
  <2>3. u \in Nat \ {0}
    BY <1>1, <1>6, UnitIsPositive
  <2>4. n = HalfAway(p.minor, u)
    <3> HIDE DEF u
    <3> QED
      BY <1>1, <2>3, SdkRounds DEF n
  <2>5. Rescale(p, scale) = [minor |-> HalfAway(p.minor, u), scale |-> scale, currency |-> p.currency]
    BY <1>6, RescaleCases
  <2> QED
    BY <2>2, <2>4, <2>5, Zenon
<1> QED
  BY <1>1, <1>4, <1>5, <1>6

\* Where the service can align two prices, the SDK aligns them so too.
LEMMA SdkAligns ==
  ASSUME NEW p \in Price, NEW q \in Price, ~Failed(Align(p, q))
  PROVE  SdkAlign(p, q) = Align(p, q)
<1> DEFINE scale == WiderScale(p, q)
           a == Rescale(p, scale)
           b == Rescale(q, scale)
<1>1. scale \in Scale
  BY PriceParts, ScaleAssumption DEF WiderScale, Scale
<1> HIDE DEF scale
<1>2. p.currency = q.currency /\ ~Failed(a) /\ ~Failed(b)
  BY Aligned DEF scale
<1>3. SdkRescale(p, scale) = a /\ SdkRescale(q, scale) = b
  BY <1>1, <1>2, SdkRescales
<1>4. SdkAlign(p, q) = [a |-> SdkRescale(p, scale).minor, b |-> SdkRescale(q, scale).minor,
                        scale |-> scale]
  BY <1>2, Zenon DEF SdkAlign, scale, WiderScale
<1>5. Align(p, q) = [a |-> a.minor, b |-> b.minor, scale |-> scale]
  BY <1>2, Zenon DEF Align, scale, WiderScale
<1> QED
  BY <1>3, <1>4, <1>5, Zenon

\* Where the service reads a price, the SDK reads the same.
LEMMA SdkParses ==
  ASSUME NEW p \in Price, NEW scale \in Scale,
         ~Failed(PriceParse(AsDecimal(p), p.currency, scale))
  PROVE  SdkParse(AsDecimal(p), p.currency, scale) = PriceParse(AsDecimal(p), p.currency, scale)
<1> DEFINE mag == Abs(p.minor)
           neg == p.minor < 0
           d == [neg |-> neg, digits |-> mag, frac |-> p.scale]
           c == p.currency
           n == mag * Pow10[scale - p.scale]
<1>1. /\ scale \in Nat /\ scale <= MaxScale /\ p.scale \in Nat /\ p.minor \in Int
  BY PriceParts, ScaleAssumption DEF Scale
<1>2. mag \in Nat /\ neg \in BOOLEAN
  BY <1>1 DEF Abs
<1>3. AsDecimal(p) = d
  BY Zenon DEF AsDecimal
<1> HIDE DEF neg, mag
<1>4. d.neg = neg /\ d.digits = mag /\ d.frac = p.scale
  BY Zenon
<1>10. d.frac = p.scale
  BY Zenon
<1> HIDE DEF d
<1>5. p.scale <= scale
  <2> SUFFICES ASSUME p.scale > scale PROVE FALSE
    BY <1>1
  <2>1. /\ ~(scale > MaxScale) /\ scale <= MaxScale /\ d.frac > scale /\ ~(d.frac <= scale)
    BY <1>1, <1>10, ScaleAssumption
  <2>2. PriceParse(d, c, scale) = Error("precision loss")
    BY <2>1, Zenon DEF PriceParse
  <2> QED
    BY <1>3, <2>2, Results, Zenon
<1>6. PriceParse(d, c, scale) = [minor |-> IF neg THEN -n ELSE n, scale |-> scale, currency |-> c]
      /\ n \in Nat
  <2> DEFINE r == PriceParse(d, c, scale)
  <2>1. r = PriceParse([neg |-> neg, digits |-> mag, frac |-> p.scale], c, scale) /\ ~Failed(r)
    BY <1>3, Zenon DEF d
  <2> HIDE DEF r
  <2>2. r = [minor |-> IF neg THEN -n ELSE n, scale |-> scale, currency |-> c] /\ n \in Nat
    BY <1>1, <1>2, <1>5, <2>1, Parsed
  <2> QED
    BY <2>2, Zenon DEF r
<1>7. SdkParse(d, c, scale) =
        [minor |-> (IF neg THEN -1 ELSE 1) * mag * Pow10[scale - p.scale], scale |-> scale, currency |-> c]
  <2>1. ~(d.frac > scale)
    BY <1>1, <1>5, <1>10
  <2> QED
    BY <1>4, <2>1, Zenon DEF SdkParse
<1>8. (IF neg THEN -1 ELSE 1) * mag * Pow10[scale - p.scale] = IF neg THEN -n ELSE n
  <2> DEFINE u == Pow10[scale - p.scale]
  <2>1. u \in Nat
    BY <1>1, <1>5, UnitIsPositive
  <2> HIDE DEF u
  <2>2. (-1) * mag * u = -(mag * u) /\ 1 * mag * u = mag * u
    BY <1>2, <2>1, Z3
  <2> DEFINE k == IF neg THEN -1 ELSE 1
  <2>3. (neg => k = -1) /\ (~neg => k = 1)
    OBVIOUS
  <2> HIDE DEF k
  <2>4. k * mag * u = IF neg THEN -(mag * u) ELSE mag * u
    BY <2>2, <2>3, Zenon
  <2> QED
    BY <2>4, Zenon DEF k, u
<1> QED
  BY <1>3, <1>6, <1>7, <1>8, Zenon

\* The order of two aligned prices, and the change from one to the other.
OrderOf(x) == [order |-> IF x.a < x.b THEN -1 ELSE IF x.a > x.b THEN 1 ELSE 0]
BpsOf(x) == Quotient((x.b - x.a) * BasisPoints, x.a)

\* Whatever the services compute of two prices, at any scales and widths, the
\* SDK computes too, and what it refuses they refuse (money.ts beside money.rs).
THEOREM SdkPricesAlwaysAgree == \A p, q \in Price : SdkPricesAgree(p, q)
<1> SUFFICES ASSUME NEW p \in Price, NEW q \in Price PROVE SdkPricesAgree(p, q)
  OBVIOUS
<1> DEFINE x == Align(p, q)
           y == SdkAlign(p, q)
<1>1. ~Failed(x) => y = x
  BY SdkAligns
<1>2. ~Failed(x) => x.scale <= MaxScale
  <2>1. WiderScale(p, q) <= MaxScale
    BY PriceParts DEF WiderScale
  <2> QED
    BY <2>1, Aligned
<1>3. \A m, s, c : s <= MaxScale => SdkPrice(m, s, c) = [minor |-> m, scale |-> s, currency |-> c]
  BY DEF SdkPrice
<1> DEFINE order == OrderOf(x)
           bps == BpsOf(x)
<1>4. /\ Sub(p, q) = IF Failed(x) THEN x ELSE InWidth(x.a - x.b, x.scale, p.currency)
      /\ Add(p, q) = IF Failed(x) THEN x ELSE InWidth(x.a + x.b, x.scale, p.currency)
      /\ CmpValue(p, q) = IF Failed(x) THEN x ELSE order
  BY Zenon DEF Sub, Add, CmpValue, OrderOf
<1>5. ASSUME ~Failed(ChangeBps(p, q))
      PROVE  p.minor # 0 /\ ~Failed(x) /\ ChangeBps(p, q) = [bps |-> bps]
  <2>1. ASSUME p.minor = 0 PROVE FALSE
    <3>1. ChangeBps(p, q) = Error("zero base")
      BY <2>1, Zenon DEF ChangeBps
    <3> QED
      BY <1>5, <3>1, Results, Zenon
  <2>2. ASSUME Failed(x) PROVE FALSE
    <3>1. ChangeBps(p, q) = x
      BY <2>1, <2>2, Zenon DEF ChangeBps
    <3> QED
      BY <1>5, <2>2, <3>1, Zenon
  <2>3. ChangeBps(p, q) = [bps |-> bps] \/ ChangeBps(p, q) = Error("overflow")
    BY <2>1, <2>2, Zenon DEF ChangeBps, BpsOf
  <2> QED
    BY <1>5, <2>1, <2>2, <2>3, Results, Zenon
<1>6. ASSUME ~Failed(x)
      PROVE  /\ SdkSubtract(p, q) = SdkPrice(x.a - x.b, x.scale, p.currency)
             /\ SdkAdd(p, q) = SdkPrice(x.a + x.b, x.scale, p.currency)
             /\ SdkCompare(p, q) = order
             /\ p.minor # 0 => SdkChangeBps(p, q) = [bps |-> bps]
  <2>1. y = x /\ ~Failed(y)
    BY <1>1, <1>6
  <2>2. SdkSubtract(p, q) = SdkPrice(y.a - y.b, y.scale, p.currency)
    BY <2>1, Zenon DEF SdkSubtract
  <2>3. SdkAdd(p, q) = SdkPrice(y.a + y.b, y.scale, p.currency)
    BY <2>1, Zenon DEF SdkAdd
  <2>4. SdkCompare(p, q) = OrderOf(y)
    BY <2>1, Zenon DEF SdkCompare, OrderOf
  <2>5. p.minor # 0 => SdkChangeBps(p, q) = [bps |-> BpsOf(y)]
    BY <2>1, Zenon DEF SdkChangeBps, BpsOf
  <2> HIDE DEF x, y
  <2> QED
    BY <2>1, <2>2, <2>3, <2>4, <2>5, Zenon
<1> HIDE DEF x, y, order, bps
<1>7. ASSUME ~Failed(Sub(p, q)) PROVE SdkSubtract(p, q) = Sub(p, q)
  <2>1. ~Failed(x) /\ Sub(p, q) = InWidth(x.a - x.b, x.scale, p.currency)
    BY <1>4, <1>7, Zenon
  <2>2. Sub(p, q) = [minor |-> x.a - x.b, scale |-> x.scale, currency |-> p.currency]
    BY <1>7, <2>1, Results, Zenon
  <2> QED
    BY <1>2, <1>3, <1>6, <2>1, <2>2, Zenon
<1>8. ASSUME ~Failed(Add(p, q)) PROVE SdkAdd(p, q) = Add(p, q)
  <2>1. ~Failed(x) /\ Add(p, q) = InWidth(x.a + x.b, x.scale, p.currency)
    BY <1>4, <1>8, Zenon
  <2>2. Add(p, q) = [minor |-> x.a + x.b, scale |-> x.scale, currency |-> p.currency]
    BY <1>8, <2>1, Results, Zenon
  <2> QED
    BY <1>2, <1>3, <1>6, <2>1, <2>2, Zenon
<1>9. ASSUME ~Failed(CmpValue(p, q)) PROVE SdkCompare(p, q) = CmpValue(p, q)
  BY <1>4, <1>6, <1>9, Zenon
<1>10. ASSUME ~Failed(ChangeBps(p, q)) PROVE SdkChangeBps(p, q) = ChangeBps(p, q)
  BY <1>5, <1>6, <1>10, Zenon
<1>11. \A scale \in Scale :
         /\ ~Failed(Rescale(p, scale)) => SdkRescale(p, scale) = Rescale(p, scale)
         /\ ~Failed(PriceParse(AsDecimal(p), p.currency, scale))
              => SdkParse(AsDecimal(p), p.currency, scale) = PriceParse(AsDecimal(p), p.currency, scale)
  BY SdkRescales, SdkParses
<1> QED
  BY <1>7, <1>8, <1>9, <1>10, <1>11, Zenon DEF SdkPricesAgree

----
(* Retries. *)

\* What the loop over the attempts starts from, and what a reply makes of it.
Begun == [done |-> FALSE, answer |-> "no answer", attempts |-> 0, waited |-> 0]

After(s, reply, final) ==
  IF s.done THEN s
  ELSE [done |-> reply \in final,
        answer |-> reply,
        attempts |-> s.attempts + 1,
        waited |-> s.waited + (IF s.attempts = 0 THEN 0 ELSE Backoff(s.attempts))]

Progress == [done : BOOLEAN, answer : Reply, attempts : Nat, waited : Nat]

\* f[k] is what the loop has come to after k of the replies.
Loop(f, script, final) ==
  /\ f[0] = Begun
  /\ \A k \in 1 .. Len(script) : f[k] = After(f[k - 1], script[k], final)

\* A backoff is at most two seconds.
LEMMA BackoffIsShort ==
  ASSUME NEW n \in Nat \ {0}
  PROVE  Backoff(n) \in Nat /\ Backoff(n) <= 2000
<1>1. 2 ^ 0 = 1 /\ 2 ^ 1 = 2 /\ 2 ^ 2 = 4 /\ 2 ^ 3 = 8
  OBVIOUS
<1>2. CASE n > 4
  BY <1>2 DEF Backoff
<1>3. CASE n \in 1 .. 4
  <2>1. n - 1 = 0 \/ n - 1 = 1 \/ n - 1 = 2 \/ n - 1 = 3
    BY <1>3
  <2> DEFINE p == 2 ^ (n - 1)
  <2>2. p \in {1, 2, 4, 8}
    BY <1>1, <2>1
  <2>3. Backoff(n) = 250 * p
    BY <1>3 DEF Backoff
  <2> HIDE DEF p
  <2> QED
    BY <2>2, <2>3
<1> QED
  BY <1>2, <1>3

\* A reply leaves the loop a record of its kind.
LEMMA AfterIsProgress ==
  ASSUME NEW s \in Progress, NEW reply \in Reply, NEW final
  PROVE  After(s, reply, final) \in Progress
<1>1. \A a \in Nat : (IF a = 0 THEN 0 ELSE Backoff(a)) \in Nat
  <2> SUFFICES ASSUME NEW a \in Nat PROVE (IF a = 0 THEN 0 ELSE Backoff(a)) \in Nat
    OBVIOUS
  <2>1. CASE a = 0
    BY <2>1
  <2>2. CASE a # 0
    <3>1. Backoff(a) \in Nat
      BY <2>2, BackoffIsShort
    <3> QED
      BY <2>2, <3>1, Zenon
  <2> QED
    BY <2>1, <2>2
<1> DEFINE b == IF s.attempts = 0 THEN 0 ELSE Backoff(s.attempts)
<1>0. s.attempts \in Nat /\ b \in Nat
  BY <1>1, Zenon DEF Progress
<1>2. After(s, reply, final) =
        IF s.done THEN s
        ELSE [done |-> reply \in final, answer |-> reply, attempts |-> s.attempts + 1,
              waited |-> s.waited + b]
  BY DEF After
<1> HIDE DEF b
<1>3. s.attempts + 1 \in Nat /\ s.waited + b \in Nat
  BY <1>0 DEF Progress
<1>4. (reply \in final) \in BOOLEAN
  OBVIOUS
<1> QED
  BY <1>2, <1>3, <1>4 DEF Progress

\* The fold over a script is the loop.
LEMMA FetchIsLoop ==
  ASSUME NEW script \in Seq(Reply), NEW final
  PROVE  \E f \in [0 .. Len(script) -> Progress] :
           Loop(f, script, final) /\ Fetch(script, final) = f[Len(script)]
<1> DEFINE n == Len(script)
           S == 1 .. n
           base == Begun
           ch == [s \in SUBSET S |-> Max(s)]
           step == [p \in S \X Progress |-> After(p[2], script[p[1]], final)]
           Rule(g) == g = [s \in SUBSET DOMAIN script |->
                             IF s = {} THEN base
                             ELSE After(g[s \ {Max(s)}], script[Max(s)], final)]
           it == CHOOSE g : Rule(g)
<1>1. Fetch(script, final) = it[DOMAIN script]
  BY Zenon DEF Fetch, FoldLeft, MapThenFoldSet, After, Begun
<1>2. n \in Nat /\ DOMAIN script = S /\ IsFiniteSet(S) /\ \A i \in S : script[i] \in Reply
  BY FS_Interval
<1>3. \A s \in SUBSET S : s # {} => Max(s) \in s
  BY <1>2, LargestIndex
<1>4. Chooses(ch, S)
  BY <1>3 DEF Chooses
<1>5. base \in Progress
  BY DEF Begun, Progress, Reply
<1>6. \A i \in S, p \in Progress : step[<<i, p>>] = After(p, script[i], final)
  OBVIOUS
<1> HIDE DEF n, S, base, step
<1>7. PICK h : Folds(h, base, ch, step, S)
  BY <1>2, <1>4, FoldExists
<1> DEFINE C == {s \in SUBSET S : h[s] \notin Progress}
<1>8. C = {}
  <2> SUFFICES ASSUME C # {} PROVE FALSE
    OBVIOUS
  <2>1. C \subseteq SUBSET S
    OBVIOUS
  <2> HIDE DEF C
  <2>2. PICK s \in C : \A t \in C : t \subseteq s => t = s
    BY <1>2, <2>1, LeastSet
  <2> USE DEF C
  <2>3. s \in SUBSET S /\ h[s] \notin Progress
    OBVIOUS
  <2>4. s # {}
    BY <1>5, <1>7, <2>3 DEF Folds
  <2>5. Max(s) \in s
    BY <1>3, <2>3, <2>4
  <2>6. h[s \ {Max(s)}] \in Progress
    BY <2>2, <2>3, <2>5
  <2>7. h[s] = step[<<Max(s), h[s \ {Max(s)}]>>]
    BY <1>7, <2>3, <2>4 DEF Folds
  <2>8. h[s] = After(h[s \ {Max(s)}], script[Max(s)], final)
    BY <1>6, <2>3, <2>5, <2>6, <2>7
  <2> QED
    BY <1>2, <2>3, <2>5, <2>6, <2>8, AfterIsProgress
<1> HIDE DEF ch
<1>9. \A s \in SUBSET S : s # {} => h[s] = After(h[s \ {Max(s)}], script[Max(s)], final)
  <2> SUFFICES ASSUME NEW s \in SUBSET S, s # {}
               PROVE  h[s] = After(h[s \ {Max(s)}], script[Max(s)], final)
    OBVIOUS
  <2>1. h[s] = step[<<Max(s), h[s \ {Max(s)}]>>]
    BY <1>7 DEF Folds, ch
  <2>2. h[s \ {Max(s)}] \in Progress
    BY <1>8
  <2> QED
    BY <1>3, <1>6, <2>1, <2>2
<1>10. h[{}] = base
  BY <1>7 DEF Folds
<1> DEFINE k0 == [s \in SUBSET S |-> h[s]]
<1>11. Rule(k0)
  <2>1. \A s \in SUBSET S : k0[s] = h[s] /\ s \ {Max(s)} \in SUBSET S
    OBVIOUS
  <2>2. \A s \in SUBSET S :
          h[s] = IF s = {} THEN base ELSE After(k0[s \ {Max(s)}], script[Max(s)], final)
    BY <1>9, <1>10, <2>1, Zenon
  <2> QED
    BY <1>2, <2>2, Zenon
<1>12. Rule(it)
  BY <1>11, Zenon
<1> HIDE DEF it, k0
<1> DEFINE f == [k \in 0 .. n |-> it[1 .. k]]
<1>13. \A s \in SUBSET S :
         it[s] = IF s = {} THEN base ELSE After(it[s \ {Max(s)}], script[Max(s)], final)
  BY <1>2, <1>12, Zenon
<1>14. \A s \in SUBSET S : it[s] \in Progress
  <2> DEFINE E == {s \in SUBSET S : it[s] \notin Progress}
  <2> SUFFICES ASSUME E # {} PROVE FALSE
    OBVIOUS
  <2>1. E \subseteq SUBSET S
    OBVIOUS
  <2> HIDE DEF E
  <2>2. PICK s \in E : \A t \in E : t \subseteq s => t = s
    BY <1>2, <2>1, LeastSet
  <2> USE DEF E
  <2>3. s \in SUBSET S /\ it[s] \notin Progress
    OBVIOUS
  <2>4. s # {}
    BY <1>5, <1>13, <2>3
  <2>5. Max(s) \in s
    BY <1>3, <2>3, <2>4
  <2>6. it[s \ {Max(s)}] \in Progress
    BY <2>2, <2>3, <2>5
  <2>7. it[s] = After(it[s \ {Max(s)}], script[Max(s)], final)
    BY <1>13, <2>3, <2>4, Zenon
  <2>8. script[Max(s)] \in Reply
    BY <1>2, <2>3, <2>5
  <2> QED
    BY <2>3, <2>6, <2>7, <2>8, AfterIsProgress
<1>15. \A k \in 0 .. n : 1 .. k \in SUBSET S
  BY <1>2 DEF S
<1>16. f \in [0 .. n -> Progress]
  BY <1>14, <1>15
<1>17. f[0] = base
  <2>1. 1 .. 0 = {} /\ 0 \in 0 .. n
    BY <1>2
  <2> QED
    BY <1>13, <2>1
<1>18. ASSUME NEW k \in 1 .. n
       PROVE  f[k] = After(f[k - 1], script[k], final)
  <2>0. k \in Nat /\ 1 <= k /\ k \in 0 .. n
    BY <1>2, <1>18
  <2>1. 1 .. k \in SUBSET S /\ 1 .. k # {} /\ k \in Nat
    <3>1. 1 \in 1 .. k
      BY <2>0
    <3> QED
      BY <1>15, <2>0, <3>1
  <2>2. Max(1 .. k) = k
    <3>1. Max(1 .. k) \in 1 .. k /\ \A i \in 1 .. k : i <= Max(1 .. k)
      BY <2>1, LargestIndex
    <3>2. k \in 1 .. k
      BY <1>2, <1>18
    <3> DEFINE m == Max(1 .. k)
    <3>3. m \in 1 .. k /\ k <= m
      BY <3>1, <3>2
    <3> HIDE DEF m
    <3>4. m = k
      BY <2>1, <3>3
    <3> QED
      BY <3>4 DEF m
  <2>3. (1 .. k) \ {k} = 1 .. (k - 1) /\ k - 1 \in 0 .. n /\ k \in 0 .. n
    BY <1>2, <1>18
  <2> QED
    BY <1>13, <2>1, <2>2, <2>3
<1>19. Fetch(script, final) = f[n]
  <2>1. n \in 0 .. n /\ DOMAIN script = 1 .. n
    BY <1>2 DEF S
  <2> QED
    BY <1>1, <2>1
<1> HIDE DEF f
<1>20. Loop(f, script, final)
  BY <1>17, <1>18 DEF Loop, base, n
<1> QED
  BY <1>16, <1>19, <1>20 DEF n

\* What is true of get_json after k replies: it has made an attempt for each,
\* none of them refused or answered, unless it has come to one that is, and it
\* has waited at most two seconds before every attempt but the first.
Runs(s, k, script) ==
  /\ s.attempts <= k /\ (k > 0 => s.attempts > 0)
  /\ s.attempts = 0 => s.waited = 0
  /\ s.attempts > 0 => s.answer = script[s.attempts] /\ s.waited <= 2000 * (s.attempts - 1)
  /\ \A i \in 1 .. s.attempts - 1 : script[i] \notin Final
  /\ s.done => s.attempts > 0 /\ s.answer \in Final
  /\ ~s.done => s.attempts = k /\ s.answer \notin Final

\* Another reply keeps it so.
LEMMA AfterRuns ==
  ASSUME NEW script \in Seq(Reply), NEW k \in 1 .. Len(script), NEW s \in Progress,
         Runs(s, k - 1, script)
  PROVE  Runs(After(s, script[k], Final), k, script)
<1>1. k \in Nat /\ k > 0 /\ script[k] \in Reply
  OBVIOUS
<1>2. s.attempts \in Nat /\ s.waited \in Nat /\ s.done \in BOOLEAN
  BY DEF Progress
<1>3. CASE s.done
  <2>1. After(s, script[k], Final) = s
    BY <1>3 DEF After
  <2>2. s.attempts <= k /\ s.attempts > 0
    BY <1>1, <1>2, <1>3 DEF Runs
  <2> QED
    BY <1>3, <2>1, <2>2 DEF Runs
<1>4. CASE ~s.done
  <2> DEFINE a == s.attempts
             b == IF a = 0 THEN 0 ELSE Backoff(a)
             t == [done |-> script[k] \in Final, answer |-> script[k], attempts |-> a + 1,
                   waited |-> s.waited + b]
  <2>1. After(s, script[k], Final) = t
    BY <1>4, Zenon DEF After
  <2>2. a = k - 1 /\ a \in Nat
    BY <1>2, <1>4 DEF Runs
  <2>3. b \in Nat /\ b <= 2000 /\ (a = 0 => b = 0)
    <3>1. CASE a = 0
      BY <3>1
    <3>2. CASE a # 0
      <4>1. Backoff(a) \in Nat /\ Backoff(a) <= 2000
        BY <2>2, <3>2, BackoffIsShort
      <4>2. b = Backoff(a)
        BY <3>2
      <4> HIDE DEF a, b
      <4> QED
        BY <3>2, <4>1, <4>2
    <3> QED
      BY <3>1, <3>2
  <2>4. t.attempts = k
    BY <1>1, <2>2
  <2>5. \A i \in 1 .. k - 1 : script[i] \notin Final
    <3>1. a > 0 => s.answer = script[a] /\ s.answer \notin Final
      BY <1>4 DEF Runs
    <3>2. \A i \in 1 .. a - 1 : script[i] \notin Final
      BY DEF Runs
    <3> HIDE DEF a
    <3>3. \A i \in 1 .. k - 1 : i \in 1 .. a - 1 \/ (i = a /\ a > 0)
      BY <1>1, <2>2
    <3> QED
      BY <3>1, <3>2, <3>3, Zenon
  <2>6. t.waited <= 2000 * (k - 1)
    <3>1. (a = 0 => s.waited = 0) /\ (a > 0 => s.waited <= 2000 * (a - 1))
      BY DEF Runs
    <3> DEFINE w == s.waited
    <3>2. w \in Nat /\ (a = 0 => w = 0) /\ (a > 0 => w <= 2000 * (a - 1))
      BY <1>2, <3>1
    <3>3. t.waited = w + b
      OBVIOUS
    <3> HIDE DEF a, b, t, w
    <3>4. w + b <= 2000 * (k - 1)
      BY <1>1, <2>2, <2>3, <3>2
    <3> QED
      BY <3>3, <3>4
  <2>7. t.answer = script[k] /\ (t.done => t.answer \in Final) /\ (~t.done => t.answer \notin Final)
    OBVIOUS
  <2> HIDE DEF t
  <2>8. Runs(t, k, script)
    <3>1. k <= k /\ k # 0
      BY <1>1
    <3> QED
      BY <1>1, <2>4, <2>5, <2>6, <2>7, <3>1 DEF Runs
  <2> QED
    BY <2>1, <2>8
<1> QED
  BY <1>2, <1>3, <1>4

\* The attempts the shift of the backoff has bits for, beside the first.
Longest == 65

\* get_json makes another attempt after 429, a server error or no status and
\* after nothing else, whatever the server replies (http.rs): for any number of
\* retries that its shift has bits for.
THEOREM RetriesAlwaysHelp ==
  \A n \in 1 .. Longest : \A script \in [1 .. n -> Reply] :
     sample = [kind |-> "replies", script |-> script] => RetriesHelp
<1> SUFFICES ASSUME NEW n \in 1 .. Longest, NEW script \in [1 .. n -> Reply]
             PROVE  RetriesWhatHelps(script)
  BY DEF RetriesHelp
<1>1. n \in Nat /\ n > 0 /\ script \in Seq(Reply) /\ Len(script) = n
  BY DEF Longest
<1>2. PICK f \in [0 .. n -> Progress] :
        Loop(f, script, Final) /\ Fetch(script, Final) = f[n]
  BY <1>1, FetchIsLoop
<1>3. \A k \in 0 .. n : Runs(f[k], k, script)
  <2> DEFINE C == {k \in 0 .. n : ~Runs(f[k], k, script)}
  <2> SUFFICES ASSUME C # {} PROVE FALSE
    OBVIOUS
  <2>1. C \in SUBSET Nat
    OBVIOUS
  <2> HIDE DEF C
  <2>2. PICK k \in C : \A m \in C : k <= m
    BY <2>1, LeastNumber
  <2> USE DEF C
  <2>3. k \in 0 .. n /\ ~Runs(f[k], k, script)
    OBVIOUS
  <2>4. k # 0
    <3>1. f[0] = Begun
      BY <1>2 DEF Loop
    <3>2. Runs(Begun, 0, script)
      <4>1. /\ Begun.attempts = 0 /\ Begun.waited = 0 /\ ~Begun.done
            /\ Begun.answer = "no answer" /\ "no answer" \notin Final
        BY DEF Begun, Final
      <4>2. Begun.answer \notin Final
        BY <4>1, Zenon
      <4>3. Begun.attempts = 0 /\ Begun.waited = 0 /\ ~Begun.done
        BY <4>1, Zenon
      <4> QED
        BY <4>2, <4>3 DEF Runs
    <3> QED
      BY <2>3, <3>1, <3>2
  <2>5. k \in 1 .. n /\ k - 1 \in 0 .. n /\ ~(k <= k - 1)
    BY <1>1, <2>3, <2>4
  <2>6. Runs(f[k - 1], k - 1, script) /\ f[k - 1] \in Progress
    BY <1>2, <2>2, <2>5
  <2>7. f[k] = After(f[k - 1], script[k], Final)
    BY <1>1, <1>2, <2>5 DEF Loop
  <2> QED
    BY <1>1, <2>3, <2>5, <2>6, <2>7, AfterRuns
<1> DEFINE s == GetJson(script)
<1>4. s \in Progress /\ Runs(s, n, script)
  <2>1. n \in 0 .. n
    BY <1>1
  <2> QED
    BY <1>2, <1>3, <2>1 DEF GetJson
<1> DEFINE a == s.attempts
<1>5. a \in Nat /\ s.waited \in Nat /\ s.done \in BOOLEAN
  BY <1>4 DEF Progress
<1>6. a <= n /\ a > 0
  BY <1>1, <1>4 DEF Runs
<1>7. s.answer = script[a] /\ s.waited <= 2000 * (a - 1)
  BY <1>4, <1>6 DEF Runs
<1>8. \A i \in 1 .. a - 1 : script[i] \notin Final
  BY <1>4 DEF Runs
<1>9. a = n \/ s.answer \in Final
  BY <1>4 DEF Runs
<1> HIDE DEF s
<1>10. Reply \ Final = Retryable
  BY DEF Reply, Final, Retryable
<1>11. a \in 1 .. n /\ \A i \in 1 .. a - 1 : i \in 1 .. n
  BY <1>1, <1>5, <1>6
<1>12. \A i \in 1 .. a - 1 : script[i] \in Retryable
  BY <1>8, <1>10, <1>11
<1>13. a = n \/ s.answer \notin Retryable
  BY <1>9, <1>10
<1>14. /\ s.attempts \in 1 .. Len(script)
       /\ s.answer = script[s.attempts]
       /\ \A i \in 1 .. s.attempts - 1 : script[i] \in Retryable
       /\ s.attempts = Len(script) \/ s.answer \notin Retryable
       /\ s.waited <= 2000 * (s.attempts - 1)
  BY <1>1, <1>7, <1>11, <1>12, <1>13
<1> QED
  BY <1>14 DEF RetriesWhatHelps, s

\* What get_json gives up on and the SDK does not.
GivenUp == {"unreadable", "cut off", "not sent"}

\* f is where the services are in a script, and g where the SDK is.
Beside(f, g) ==
  /\ f.answer \notin GivenUp => g = f
  /\ ~f.done => f.answer \notin GivenUp
  /\ g.attempts >= f.attempts
  /\ g.attempts = f.attempts => g.answer = f.answer /\ g.waited = f.waited

\* Another reply keeps them so.
LEMMA AfterBeside ==
  ASSUME NEW f \in Progress, NEW g \in Progress, Beside(f, g), NEW reply \in Reply
  PROVE  Beside(After(f, reply, Final), After(g, reply, SdkFinal))
<1> DEFINE ff == After(f, reply, Final)
           gg == After(g, reply, SdkFinal)
<1>1. f.attempts \in Nat /\ g.attempts \in Nat
  BY DEF Progress
<1>2. CASE f.done
  <2>1. ff = f
    BY <1>2 DEF After
  <2>2. CASE g.done
    <3>1. gg = g
      BY <2>2 DEF After
    <3> QED
      BY <2>1, <3>1
  <2>3. CASE ~g.done
    <3>1. f.answer \in GivenUp
      BY <1>2, <2>3 DEF Beside
    <3>2. gg.attempts = g.attempts + 1
      BY <2>3 DEF After
    <3> HIDE DEF ff, gg
    <3>3. gg.attempts >= ff.attempts /\ gg.attempts # ff.attempts
      BY <1>1, <2>1, <3>2 DEF Beside
    <3>4. ff.answer \in GivenUp /\ ff.done
      BY <1>2, <2>1, <3>1, Zenon
    <3> QED
      BY <3>3, <3>4, Zenon DEF Beside, ff, gg
  <2> QED
    BY <2>2, <2>3
<1>3. CASE ~f.done
  <2>1. g = f
    BY <1>3 DEF Beside
  <2> DEFINE w == f.waited + (IF f.attempts = 0 THEN 0 ELSE Backoff(f.attempts))
             Made(final) == [done |-> reply \in final, answer |-> reply,
                             attempts |-> f.attempts + 1, waited |-> w]
  <2>0. ff = Made(Final) /\ gg = Made(SdkFinal)
    BY <1>3, <2>1, Zenon DEF After
  <2>2. /\ ff.done = (reply \in Final) /\ ff.answer = reply /\ ff.attempts = f.attempts + 1
        /\ gg.answer = ff.answer /\ gg.attempts = ff.attempts /\ gg.waited = ff.waited
    <3> HIDE DEF w, ff, gg
    <3> QED
      BY <2>0, SMT
  <2>3. reply \notin GivenUp => (reply \in Final <=> reply \in SdkFinal)
    BY DEF GivenUp, Final, SdkFinal, Reply
  <2>4. reply \notin GivenUp => (reply \in Final) = (reply \in SdkFinal)
    BY <2>3, SMT
  <2>5. reply \notin GivenUp => gg = ff
    BY <1>3, <2>1, <2>4, Zenon DEF After
  <2>6. ~ff.done => reply \notin GivenUp
    <3>1. reply \notin Final => reply \notin GivenUp
      BY DEF Final, GivenUp
    <3> QED
      BY <2>2, <3>1, Zenon
  <2> HIDE DEF ff, gg
  <2>7. gg.attempts >= ff.attempts
    BY <1>1, <2>2
  <2> QED
    BY <2>2, <2>5, <2>6, <2>7, Zenon DEF Beside, ff, gg
<1> QED
  BY <1>2, <1>3

\* The SDK makes the attempts the services make, and more only where they give
\* up on a body or on a request that cannot be sent (util/http.ts).
THEOREM SdkRetriesAlwaysAgree ==
  \A n \in 1 .. Longest : \A script \in [1 .. n -> Reply] : SdkRetriesAgree(script)
<1> SUFFICES ASSUME NEW n \in 1 .. Longest, NEW script \in [1 .. n -> Reply]
             PROVE  SdkRetriesAgree(script)
  OBVIOUS
<1>1. n \in Nat /\ n > 0 /\ script \in Seq(Reply) /\ Len(script) = n
  BY DEF Longest
<1>2. PICK f \in [0 .. n -> Progress] :
        Loop(f, script, Final) /\ Fetch(script, Final) = f[n]
  BY <1>1, FetchIsLoop
<1>3. PICK g \in [0 .. n -> Progress] :
        Loop(g, script, SdkFinal) /\ Fetch(script, SdkFinal) = g[n]
  BY <1>1, FetchIsLoop
<1>4. \A k \in 0 .. n : Beside(f[k], g[k])
  <2> DEFINE C == {k \in 0 .. n : ~Beside(f[k], g[k])}
  <2> SUFFICES ASSUME C # {} PROVE FALSE
    OBVIOUS
  <2>1. C \in SUBSET Nat
    OBVIOUS
  <2> HIDE DEF C
  <2>2. PICK k \in C : \A m \in C : k <= m
    BY <2>1, LeastNumber
  <2> USE DEF C
  <2>3. k \in 0 .. n /\ ~Beside(f[k], g[k])
    OBVIOUS
  <2>4. k # 0
    <3>1. f[0] = Begun /\ g[0] = Begun
      BY <1>2, <1>3 DEF Loop
    <3>2. Begun.answer \notin GivenUp /\ Begun.attempts = 0
      BY DEF Begun, GivenUp
    <3>3. Beside(Begun, Begun)
      BY <3>2 DEF Beside
    <3> QED
      BY <2>3, <3>1, <3>3
  <2>5. k \in 1 .. n /\ k - 1 \in 0 .. n /\ ~(k <= k - 1)
    BY <1>1, <2>3, <2>4
  <2>6. Beside(f[k - 1], g[k - 1]) /\ f[k - 1] \in Progress /\ g[k - 1] \in Progress
    BY <1>2, <1>3, <2>2, <2>5
  <2>7. f[k] = After(f[k - 1], script[k], Final) /\ g[k] = After(g[k - 1], script[k], SdkFinal)
    BY <1>1, <1>2, <1>3, <2>5 DEF Loop
  <2>8. script[k] \in Reply
    BY <2>5
  <2> QED
    BY <2>3, <2>6, <2>7, <2>8, AfterBeside
<1>5. n \in 0 .. n
  BY <1>1
<1> DEFINE ours == GetJson(script)
           theirs == SdkGetJson(script)
<1>6. ours \in Progress /\ theirs \in Progress /\ Beside(ours, theirs)
  BY <1>2, <1>3, <1>4, <1>5 DEF GetJson, SdkGetJson
<1> HIDE DEF ours, theirs
<1>7. ours.attempts \in Nat /\ theirs.attempts \in Nat
  BY <1>6 DEF Progress
<1>8. /\ theirs.attempts >= ours.attempts
      /\ theirs.attempts > ours.attempts => ours.answer \in GivenUp
      /\ theirs.attempts = ours.attempts => theirs.answer = ours.answer /\ theirs.waited = ours.waited
  <2>1. theirs.attempts # ours.attempts => ours.answer \in GivenUp
    BY <1>6, Zenon DEF Beside
  <2>2. /\ theirs.attempts >= ours.attempts
        /\ theirs.attempts = ours.attempts
             => theirs.answer = ours.answer /\ theirs.waited = ours.waited
    BY <1>6, Zenon DEF Beside
  <2> QED
    BY <1>7, <2>1, <2>2
<1> QED
  BY <1>8 DEF SdkRetriesAgree, ours, theirs, GivenUp

----
(* The boards of the SDK. *)

\* A number of units of the scale that a decimal may be read as: what it is
\* where the scale holds its digits, and else no more than half a unit away.
NearTo(n, d, scale) ==
  /\ d.frac <= scale => n = d.digits * Pow10[scale - d.frac]
  /\ d.frac > scale => 2 * Abs(Pow10[d.frac - scale] * n - d.digits) <= Pow10[d.frac - scale]

Signed(neg, n) == IF neg THEN -n ELSE n

\* A decimal brought to a scale that holds it is near to what it was.
LEMMA BroughtNear ==
  ASSUME NEW d \in Decimal, NEW scale \in Scale,
         NEW e \in IF d.frac > scale THEN RoundedTo(d, scale) ELSE {d}
  PROVE  \E digits \in Nat, frac \in Nat :
           /\ frac <= scale
           /\ e = [neg |-> d.neg, digits |-> digits, frac |-> frac]
           /\ NearTo(digits * Pow10[scale - frac], d, scale)
<1>1. /\ scale \in Nat /\ d.frac \in Nat /\ d.digits \in Nat /\ d.neg \in BOOLEAN
      /\ d = [neg |-> d.neg, digits |-> d.digits, frac |-> d.frac]
  BY ScaleAssumption DEF Scale, Decimal
<1>2. CASE d.frac <= scale
  <2>1. ~(d.frac > scale) /\ e = d
    BY <1>1, <1>2
  <2> QED
    BY <1>1, <1>2, <2>1, Zenon DEF NearTo
<1>3. CASE d.frac > scale
  <2> DEFINE u == Pow10[d.frac - scale]
             mag == d.digits
             low == mag \div u
             rest == mag % u
  <2>1. u \in Nat \ {0}
    BY <1>1, <1>3, UnitIsPositive
  <2>2. PICK n \in (IF 2 * rest <= u THEN {low} ELSE {})
                      \union (IF 2 * rest >= u THEN {low + 1} ELSE {}) :
          e = [neg |-> d.neg, digits |-> n, frac |-> scale]
    BY <1>1, <1>3 DEF RoundedTo
  <2>3. low \in Nat /\ rest \in 0 .. u - 1 /\ mag = u * low + rest
    <3> HIDE DEF mag, u
    <3>1. mag \in Nat
      BY <1>1 DEF mag
    <3> QED
      BY <2>1, <3>1, Z3
  <2>4. n \in Nat /\ 2 * Abs(u * n - mag) <= u
    <3> HIDE DEF low, rest, u, mag
    <3>1. (n = low /\ 2 * rest <= u) \/ (n = low + 1 /\ 2 * rest >= u)
      BY <2>2
    <3>2. u * (low + 1) = u * low + u
      BY <2>1, <2>3, Z3
    <3> DEFINE x == u * low
    <3>3. x \in Nat /\ mag = x + rest
      BY <2>1, <2>3
    <3>4. \/ u * n - mag = -rest /\ 2 * rest <= u
          \/ u * n - mag = u - rest /\ 2 * rest >= u
      <4>1. CASE n = low /\ 2 * rest <= u
        <5>1. u * n = x
          BY <4>1
        <5> HIDE DEF x
        <5> QED
          BY <2>1, <2>3, <3>3, <4>1, <5>1
      <4>2. CASE n = low + 1 /\ 2 * rest >= u
        <5>1. u * n = x + u
          BY <3>2, <4>2
        <5> HIDE DEF x
        <5> QED
          BY <2>1, <2>3, <3>3, <4>2, <5>1
      <4> QED
        BY <3>1, <4>1, <4>2
    <3> QED
      BY <2>1, <2>3, <3>1, <3>4 DEF Abs
  <2>5. n * Pow10[scale - scale] = n
    <3>1. scale - scale = 0
      BY <1>1
    <3> QED
      BY <2>4, <3>1, PowerSteps
  <2>6. NearTo(n * Pow10[scale - scale], d, scale)
    <3>1. ~(d.frac <= scale)
      BY <1>1, <1>3
    <3> QED
      BY <2>4, <2>5, <3>1, Zenon DEF NearTo
  <2>7. scale <= scale
    BY <1>1
  <2> QED
    BY <1>1, <2>2, <2>4, <2>6, <2>7, Zenon
<1> QED
  BY <1>1, <1>2, <1>3

\* What the service reads of a number.
LEMMA ServiceReads ==
  ASSUME NEW d \in Decimal, NEW scale \in Scale, NEW c, NEW r \in FromF64(d, c, scale), ~Failed(r)
  PROVE  \E n \in Nat : /\ NearTo(n, d, scale)
                        /\ r = [minor |-> Signed(d.neg, n), scale |-> scale, currency |-> c]
<1>1. PICK e \in IF d.frac > scale THEN RoundedTo(d, scale) ELSE {d} : r = PriceParse(e, c, scale)
  BY DEF FromF64
<1>2. PICK digits \in Nat, frac \in Nat :
        /\ frac <= scale
        /\ e = [neg |-> d.neg, digits |-> digits, frac |-> frac]
        /\ NearTo(digits * Pow10[scale - frac], d, scale)
  BY BroughtNear
<1>3. d.neg \in BOOLEAN
  BY DEF Decimal
<1> DEFINE n == digits * Pow10[scale - frac]
<1>4. r = [minor |-> IF d.neg THEN -n ELSE n, scale |-> scale, currency |-> c] /\ n \in Nat
  <2>1. r = PriceParse([neg |-> d.neg, digits |-> digits, frac |-> frac], c, scale)
    BY <1>1, <1>2, Zenon
  <2> QED
    BY <1>2, <1>3, <2>1, Parsed
<1> QED
  BY <1>2, <1>4, Zenon DEF Signed

\* What the SDK reads of it.
LEMMA SdkReads ==
  ASSUME NEW d \in Decimal, NEW scale \in Scale, NEW c, NEW r \in SdkFromJsonNumber(d, c, scale)
  PROVE  \E n \in Nat : /\ NearTo(n, d, scale)
                        /\ r = [minor |-> Signed(d.neg, n), scale |-> scale, currency |-> c]
<1>1. PICK e \in IF d.frac > scale THEN RoundedTo(d, scale) ELSE {d} : r = SdkParse(e, c, scale)
  BY DEF SdkFromJsonNumber
<1>2. PICK digits \in Nat, frac \in Nat :
        /\ frac <= scale
        /\ e = [neg |-> d.neg, digits |-> digits, frac |-> frac]
        /\ NearTo(digits * Pow10[scale - frac], d, scale)
  BY BroughtNear
<1> DEFINE u == Pow10[scale - frac]
           n == digits * u
           k == IF d.neg THEN -1 ELSE 1
<1>3. d.neg \in BOOLEAN /\ scale \in Nat /\ ~(frac > scale)
  BY <1>2, ScaleAssumption DEF Decimal, Scale
<1>4. u \in Nat
  BY <1>2, <1>3, UnitIsPositive
<1>5. e.neg = d.neg /\ e.digits = digits /\ e.frac = frac
  BY <1>2
<1>6. r = [minor |-> k * digits * u, scale |-> scale, currency |-> c]
  BY <1>1, <1>3, <1>5, Zenon DEF SdkParse
<1> HIDE DEF u
<1>7. k * digits * u = Signed(d.neg, n) /\ n \in Nat
  <2>1. (-1) * digits * u = -(digits * u) /\ 1 * digits * u = digits * u
    BY <1>4, Z3
  <2>2. (d.neg => k = -1) /\ (~d.neg => k = 1)
    OBVIOUS
  <2> HIDE DEF k
  <2>3. k * digits * u = Signed(d.neg, n)
    BY <2>1, <2>2, Zenon DEF Signed
  <2> QED
    BY <1>4, <2>3
<1> QED
  BY <1>2, <1>6, <1>7, Zenon DEF u

\* Two numbers near to one decimal, one in units that are v of the other's.
LEMMA HalvesMeet ==
  ASSUME NEW n \in Nat, NEW m \in Nat, NEW z \in Nat, NEW x \in Nat \ {0}, NEW v \in Nat \ {0},
         2 * Abs(x * v * n - z) <= x * v, 2 * Abs(x * m - z) <= x
  PROVE  2 * Abs(n * v - m) <= 2 * v
<1> DEFINE a == n * v - m
<1>1. a \in Int
  OBVIOUS
<1>2. x * a = x * v * n - x * m
  BY Z3
<1> DEFINE b == x * v * n
           c == x * m
           y == x * v
<1>3. b \in Int /\ c \in Int /\ y \in Int
  OBVIOUS
<1>4. 2 * (b - c) <= y + x /\ 2 * (c - b) <= y + x
  <2> HIDE DEF b, c, y
  <2>0. 2 * Abs(b - z) <= y /\ 2 * Abs(c - z) <= x
    BY DEF b, c, y
  <2> QED
    BY <1>3, <2>0 DEF Abs
<1>5. y + x = x * (v + 1)
  BY Z3
<1>6. x * (2 * a) <= x * (v + 1) /\ x * (-(2 * a)) <= x * (v + 1)
  <2>1. x * (2 * a) = 2 * (x * a) /\ x * (-(2 * a)) = -(2 * (x * a))
    BY <1>1, Z3
  <2> HIDE DEF a, b, c, y
  <2>2. x * a = b - c
    BY <1>2 DEF b, c
  <2> QED
    BY <1>1, <1>3, <1>4, <1>5, <2>1, <2>2
<1> HIDE DEF a, b, c, y
<1>7. 2 * a <= v + 1 /\ -(2 * a) <= v + 1
  <2>1. \A s, t \in Int : x * s <= x * t => s <= t
    <3> SUFFICES ASSUME NEW s \in Int, NEW t \in Int, s > t PROVE x * s > x * t
      OBVIOUS
    <3> QED
      BY MultiplesCompare, Z3
  <2>2. 2 * a \in Int /\ -(2 * a) \in Int /\ v + 1 \in Int
    BY <1>1
  <2> QED
    BY <1>6, <2>1, <2>2
<1>8. 2 * Abs(a) <= 2 * v
  BY <1>1, <1>7 DEF Abs
<1> QED
  BY <1>8 DEF a

\* Ten to a sum of two differences.
LEMMA StepsMultiply ==
  ASSUME NEW a \in Nat, NEW b \in Nat, NEW c \in Nat, a <= b, b <= c
  PROVE  /\ Pow10[c - a] = Pow10[b - a] * Pow10[c - b]
         /\ Pow10[b - a] \in Nat \ {0} /\ Pow10[c - b] \in Nat \ {0}
<1>1. b - a \in Nat /\ c - b \in Nat /\ (b - a) + (c - b) = c - a
  OBVIOUS
<1>2. Pow10[(b - a) + (c - b)] = Pow10[b - a] * Pow10[c - b]
  BY <1>1, PowerLaw
<1> QED
  BY <1>1, <1>2, PowerSteps

\* What is read of one decimal at two scales: as near as a unit of the narrower,
\* and the same where that holds its digits.
LEMMA TwoReadings ==
  ASSUME NEW d \in Decimal, NEW s \in Scale, NEW t \in Scale, s <= t,
         NEW n \in Nat, NearTo(n, d, s), NEW m \in Nat, NearTo(m, d, t)
  PROVE  /\ 2 * Abs(n * Pow10[t - s] - m) <= 2 * Pow10[t - s]
         /\ d.frac <= s => n * Pow10[t - s] = m
<1>1. s \in Nat /\ t \in Nat /\ d.frac \in Nat /\ d.digits \in Nat
  BY ScaleAssumption DEF Scale, Decimal
<1> DEFINE v == Pow10[t - s]
           z == d.digits
<1>2. v \in Nat \ {0}
  BY <1>1, UnitIsPositive
<1>3. CASE d.frac <= s
  <2> DEFINE x == Pow10[s - d.frac]
             y == Pow10[t - d.frac]
  <2>1. x \in Nat \ {0} /\ y = x * v
    <3>1. /\ Pow10[t - d.frac] = Pow10[s - d.frac] * Pow10[t - s]
          /\ Pow10[s - d.frac] \in Nat \ {0} /\ Pow10[t - s] \in Nat \ {0}
      BY <1>1, <1>3, StepsMultiply, Zenon
    <3> QED
      BY <3>1, Zenon
  <2>2. n = z * x /\ m = z * y
    <3>1. d.frac <= t
      BY <1>1, <1>3
    <3> QED
      BY <1>3, <3>1, Zenon DEF NearTo
  <2> HIDE DEF v, x, y, z
  <2>3. n * v = m
    <3>1. z \in Nat
      BY <1>1 DEF z
    <3> QED
      BY <1>2, <2>1, <2>2, <3>1, Z3
  <2>4. 2 * Abs(n * v - m) <= 2 * v
    BY <1>2, <2>3 DEF Abs
  <2> QED
    BY <2>3, <2>4 DEF v
<1>4. CASE s < d.frac /\ d.frac <= t
  <2>0. s <= d.frac
    BY <1>1, <1>4
  <2> DEFINE x == Pow10[d.frac - s]
             y == Pow10[t - d.frac]
  <2>1. x \in Nat \ {0} /\ y \in Nat \ {0} /\ v = x * y
    <3>1. /\ Pow10[t - s] = Pow10[d.frac - s] * Pow10[t - d.frac]
          /\ Pow10[d.frac - s] \in Nat \ {0} /\ Pow10[t - d.frac] \in Nat \ {0}
      BY <1>1, <1>4, <2>0, StepsMultiply, Zenon
    <3> QED
      BY <3>1, Zenon
  <2>2. m = z * y /\ 2 * Abs(x * n - z) <= x
    <3>1. d.frac > s
      BY <1>1, <1>4
    <3> QED
      BY <1>4, <3>1, Zenon DEF NearTo
  <2> DEFINE a == x * n - z
  <2>3. a \in Int /\ z \in Nat
    BY <1>1, <2>1
  <2>4. n * v - m = a * y
    <3> HIDE DEF v, x, y, z
    <3> QED
      BY <2>1, <2>2, <2>3, Z3 DEF a
  <2> HIDE DEF v, x, y, z, a
  <2>5. 2 * Abs(a * y) <= x * y
    <3>1. 2 * Abs(a) <= x
      BY <2>2 DEF a
    <3> QED
      BY <2>1, <2>3, <3>1, ScaledHalf
  <2>6. 2 * Abs(n * v - m) <= 2 * v
    <3>1. 2 * Abs(n * v - m) <= v
      BY <2>1, <2>4, <2>5
    <3> QED
      BY <1>2, <3>1 DEF Abs
  <2>7. ~(d.frac <= s)
    BY <1>1, <1>4
  <2> QED
    BY <2>6, <2>7 DEF v
<1>5. CASE d.frac > t
  <2>0. t <= d.frac
    BY <1>1, <1>5
  <2> DEFINE x == Pow10[d.frac - t]
             y == Pow10[d.frac - s]
  <2>1. x \in Nat \ {0} /\ y = x * v
    <3>1. /\ Pow10[d.frac - s] = Pow10[t - s] * Pow10[d.frac - t]
          /\ Pow10[t - s] \in Nat \ {0} /\ Pow10[d.frac - t] \in Nat \ {0}
      BY <1>1, <2>0, StepsMultiply, Zenon
    <3>2. Pow10[t - s] * Pow10[d.frac - t] = Pow10[d.frac - t] * Pow10[t - s]
      BY <1>2, <3>1, Z3
    <3> QED
      BY <3>1, <3>2
  <2>2. 2 * Abs(y * n - z) <= y /\ 2 * Abs(x * m - z) <= x /\ ~(d.frac <= s)
    <3>1. d.frac > s /\ ~(d.frac <= s)
      BY <1>1, <1>5
    <3> QED
      BY <1>5, <3>1, Zenon DEF NearTo
  <2>3. z \in Nat
    BY <1>1
  <2> HIDE DEF v, x, y, z
  <2>4. 2 * Abs(n * v - m) <= 2 * v
    BY <1>2, <2>1, <2>2, <2>3, HalvesMeet
  <2> QED
    BY <2>2, <2>4 DEF v
<1> QED
  BY <1>1, <1>3, <1>4, <1>5

\* The scales of the two adapters.
LEMMA BoardScales ==
  /\ SdkScale \in Scale /\ ServiceScale \in Scale /\ SdkScale <= ServiceScale
  /\ SdkScale \in Nat /\ ServiceScale \in Nat /\ ServiceScale <= MaxScale
BY SdkScaleAssumption, ScaleAssumption DEF Scale

\* So are the prices they make of it.
LEMMA WideReadings ==
  ASSUME NEW d \in Decimal, NEW c, NEW n \in Nat, NearTo(n, d, SdkScale),
         NEW m \in Nat, NearTo(m, d, ServiceScale),
         NEW r, r = [minor |-> Signed(d.neg, n), scale |-> SdkScale, currency |-> c],
         NEW q, q = [minor |-> Signed(d.neg, m), scale |-> ServiceScale, currency |-> c]
  PROVE  /\ 2 * Abs(Wide(r) - Wide(q)) <= 2 * Pow10[MaxScale - SdkScale]
         /\ d.frac <= SdkScale => Wide(r) = Wide(q)
<1> DEFINE v == Pow10[ServiceScale - SdkScale]
           w == Pow10[MaxScale - ServiceScale]
           u == Pow10[MaxScale - SdkScale]
<1>1. v \in Nat \ {0} /\ w \in Nat \ {0} /\ u = v * w
  <2>1. MaxScale \in Nat
    BY ScaleAssumption
  <2>2. /\ Pow10[MaxScale - SdkScale] = Pow10[ServiceScale - SdkScale] * Pow10[MaxScale - ServiceScale]
        /\ Pow10[ServiceScale - SdkScale] \in Nat \ {0} /\ Pow10[MaxScale - ServiceScale] \in Nat \ {0}
    BY <2>1, BoardScales, StepsMultiply, Zenon
  <2> QED
    BY <2>2
<1> DEFINE a == n * v - m
           b == Signed(d.neg, a)
<1>2. 2 * Abs(a) <= 2 * v /\ (d.frac <= SdkScale => n * v = m)
  BY BoardScales, TwoReadings
<1>3. a \in Int /\ b \in Int /\ Abs(b) = Abs(a)
  <2>1. a \in Int
    BY <1>1
  <2> HIDE DEF a
  <2> QED
    BY <2>1 DEF Signed, Abs
<1>4. Wide(r) = Signed(d.neg, n) * u /\ Wide(q) = Signed(d.neg, m) * w
  BY DEF Wide
<1> HIDE DEF u, v, w
<1>5. Wide(r) - Wide(q) = b * w
  <2>1. CASE d.neg
    <3>1. Signed(d.neg, n) = -n /\ Signed(d.neg, m) = -m /\ b = m - n * v
      BY <1>1, <2>1 DEF Signed
    <3>2. (-n) * (v * w) - (-m) * w = (m - n * v) * w
      BY <1>1, Z3
    <3> QED
      BY <1>1, <1>4, <3>1, <3>2
  <2>2. CASE ~d.neg
    <3>1. Signed(d.neg, n) = n /\ Signed(d.neg, m) = m /\ b = n * v - m
      BY <2>2 DEF Signed
    <3>2. n * (v * w) - m * w = (n * v - m) * w
      BY <1>1, Z3
    <3> QED
      BY <1>1, <1>4, <3>1, <3>2
  <2> QED
    BY <2>1, <2>2
<1>6. d.frac <= SdkScale => b = 0
  BY <1>1, <1>2 DEF Signed
<1> HIDE DEF a, b
<1> DEFINE y == 2 * v
<1>7. y \in Nat \ {0} /\ 2 * Abs(b) <= y
  BY <1>1, <1>2, <1>3
<1> HIDE DEF y
<1>8. 2 * Abs(b * w) <= y * w
  BY <1>1, <1>3, <1>7, ScaledHalf
<1>9. y * w = 2 * u
  BY <1>1, Z3 DEF y
<1>10. 0 * w = 0
  BY <1>1
<1>11. Wide(r) \in Int /\ Wide(q) \in Int
  <2>1. Signed(d.neg, n) \in Int /\ Signed(d.neg, m) \in Int /\ u \in Int /\ w \in Int
    BY <1>1 DEF Signed
  <2> HIDE DEF u, w
  <2> QED
    BY <1>4, <2>1
<1> QED
  BY <1>5, <1>6, <1>8, <1>9, <1>10, <1>11 DEF u

\* A difference of two prices of one scale needs no rescaling.
LEMMA SameScaleDifference ==
  ASSUME NEW a \in Int, NEW b \in Int, NEW scale \in Scale, NEW c,
         NEW p, p = [minor |-> a, scale |-> scale, currency |-> c],
         NEW q, q = [minor |-> b, scale |-> scale, currency |-> c]
  PROVE  /\ Sub(p, q) = InWidth(a - b, scale, c)
         /\ SdkSubtract(p, q) = [minor |-> a - b, scale |-> scale, currency |-> c]
<1>1. scale \in Nat /\ scale <= MaxScale /\ ~(scale > MaxScale) /\ ~(scale > scale) /\ ~(scale < scale)
  BY ScaleAssumption DEF Scale
<1>2. /\ p.minor = a /\ p.scale = scale /\ p.currency = c /\ ~Failed(p)
      /\ q.minor = b /\ q.scale = scale /\ q.currency = c /\ ~Failed(q)
  BY DEF Failed
<1>3. Rescale(p, scale) = p /\ Rescale(q, scale) = q
  BY <1>1, <1>2, Zenon DEF Rescale
<1>4. SdkRescale(p, scale) = p /\ SdkRescale(q, scale) = q
  BY <1>1, <1>2, Zenon DEF SdkRescale
<1> DEFINE x == [a |-> a, b |-> b, scale |-> scale]
<1>5. x.a = a /\ x.b = b /\ x.scale = scale /\ ~Failed(x)
  BY DEF Failed
<1> HIDE DEF x
<1>6. Align(p, q) = x /\ SdkAlign(p, q) = x
  BY <1>1, <1>2, <1>3, <1>4, Zenon DEF Align, SdkAlign, x
<1>7. SdkPrice(a - b, scale, c) = [minor |-> a - b, scale |-> scale, currency |-> c]
  BY <1>1, Zenon DEF SdkPrice
<1> QED
  BY <1>2, <1>5, <1>6, <1>7, Zenon DEF Sub, SdkSubtract

\* Both differences of prices whose widened values meet, meet.
LEMMA WideDifference ==
  ASSUME NEW a \in Int, NEW b \in Int, NEW scale \in Scale, NEW c,
         NEW p, p = [minor |-> a, scale |-> scale, currency |-> c],
         NEW q, q = [minor |-> b, scale |-> scale, currency |-> c]
  PROVE  /\ ~Failed(Sub(p, q)) => Wide(Sub(p, q)) = Wide(p) - Wide(q)
         /\ Wide(SdkPreviousClose(p, q)) = Wide(p) - Wide(q)
<1> DEFINE w == Pow10[MaxScale - scale]
           r == [minor |-> a - b, scale |-> scale, currency |-> c]
<1>1. Sub(p, q) = InWidth(a - b, scale, c) /\ SdkPreviousClose(p, q) = r
  BY SameScaleDifference DEF SdkPreviousClose
<1>2. ~Failed(Sub(p, q)) => Sub(p, q) = r
  BY <1>1, Results, Zenon
<1>3. w \in Nat \ {0}
  BY ScaleAssumption, UnitIsPositive DEF Scale
<1>4. Wide(p) = a * w /\ Wide(q) = b * w /\ Wide(r) = (a - b) * w
  BY DEF Wide
<1> HIDE DEF w, r
<1>5. (a - b) * w = a * w - b * w
  BY <1>3, Z3
<1> QED
  BY <1>1, <1>2, <1>4, <1>5

\* A row the source may send.
BoardRow == [name : Seq(Char), price : Decimal, change : {{}} \union {{d} : d \in Decimal}]

\* Of one row both make the same quote, as far as the SDK's scale allows.
LEMMA RowsAgree ==
  ASSUME NEW row \in BoardRow, NEW q \in RowQuotes(row), ~Failed(q), NEW r \in SdkRowQuotes(row)
  PROVE  RowAgrees(row, q, r)
<1>1. row.price \in Decimal /\ row.change \in {{}} \union {{d} : d \in Decimal}
  BY DEF BoardRow
<1>2. PICK last \in SdkFromJsonNumber(row.price, "GHS", SdkScale),
           moved \in UNION {SdkFromJsonNumber(d, "GHS", SdkScale) : d \in row.change} :
        r = [last |-> last, previousClose |-> SdkPreviousClose(last, moved)]
  BY DEF SdkRowQuotes
<1>3. PICK d \in Decimal : row.change = {d}
  BY <1>1, <1>2
<1>4. moved \in SdkFromJsonNumber(d, "GHS", SdkScale)
  BY <1>2, <1>3
<1>5. (CHOOSE e \in row.change : TRUE) = d /\ row.change # {}
  BY <1>3
<1> DEFINE both == [price |-> row.price, change |-> d]
<1>6. both.price = row.price /\ both.change = d
  OBVIOUS
<1>7. q \in KwayisiQuote(both, "GHS", ServiceScale)
  BY <1>5, Zenon DEF RowQuotes
<1> HIDE DEF both
<1>8. PICK p \in FromF64(row.price, "GHS", ServiceScale), c \in FromF64(d, "GHS", ServiceScale) :
        q = IF Failed(p) \/ Failed(c) THEN Error("malformed")
            ELSE [last |-> p, previousClose |-> Sub(p, c)]
  BY <1>6, <1>7 DEF KwayisiQuote
<1>9. ~Failed(p) /\ ~Failed(c) /\ q = [last |-> p, previousClose |-> Sub(p, c)]
  BY <1>8, Results, Zenon
<1>10. /\ q.last = p /\ q.previousClose = Sub(p, c)
       /\ r.last = last /\ r.previousClose = SdkPreviousClose(last, moved)
  BY <1>2, <1>9
<1>11. PICK m \in Nat :
         /\ NearTo(m, row.price, ServiceScale)
         /\ p = [minor |-> Signed(row.price.neg, m), scale |-> ServiceScale, currency |-> "GHS"]
  BY <1>1, <1>9, BoardScales, ServiceReads
<1>12. PICK k \in Nat :
         /\ NearTo(k, d, ServiceScale)
         /\ c = [minor |-> Signed(d.neg, k), scale |-> ServiceScale, currency |-> "GHS"]
  BY <1>9, BoardScales, ServiceReads
<1>13. PICK n \in Nat :
         /\ NearTo(n, row.price, SdkScale)
         /\ last = [minor |-> Signed(row.price.neg, n), scale |-> SdkScale, currency |-> "GHS"]
  BY <1>1, BoardScales, SdkReads
<1>14. PICK j \in Nat :
         /\ NearTo(j, d, SdkScale)
         /\ moved = [minor |-> Signed(d.neg, j), scale |-> SdkScale, currency |-> "GHS"]
  BY <1>4, BoardScales, SdkReads
<1>15. /\ 2 * Abs(Wide(last) - Wide(p)) <= 2 * Pow10[MaxScale - SdkScale]
       /\ row.price.frac <= SdkScale => Wide(last) = Wide(p)
  BY <1>1, <1>11, <1>13, WideReadings
<1>16. d.frac <= SdkScale => Wide(moved) = Wide(c)
  BY <1>12, <1>14, WideReadings
<1>17. /\ ~Failed(Sub(p, c)) => Wide(Sub(p, c)) = Wide(p) - Wide(c)
       /\ Wide(SdkPreviousClose(last, moved)) = Wide(last) - Wide(moved)
  <2>1. \A neg, i : i \in Nat => Signed(neg, i) \in Int
    BY DEF Signed
  <2>2. ~Failed(Sub(p, c)) => Wide(Sub(p, c)) = Wide(p) - Wide(c)
    BY <2>1, <1>11, <1>12, BoardScales, WideDifference
  <2>3. Wide(SdkPreviousClose(last, moved)) = Wide(last) - Wide(moved)
    BY <2>1, <1>13, <1>14, BoardScales, WideDifference
  <2> QED
    BY <2>2, <2>3
<1>18. (\A e \in row.change : e.frac <= SdkScale) => d.frac <= SdkScale
  BY <1>3
<1> QED
  BY <1>10, <1>15, <1>16, <1>17, <1>18, Zenon DEF RowAgrees

\* Whatever board a source sends, its tickers in capitals or not, and whatever
\* is asked of it: where both answer they quote the same rows, of instruments
\* whose ids the services fold into one, at the same prices as far as the SDK's
\* scale holds the digits (adapters/kwayisi.ts beside kwayisi.rs).
THEOREM SdkBoardsAlwaysAgree ==
  ASSUME NEW board \in Seq(BoardRow), NEW symbols
  PROVE  SdkBoardsAgree(board, symbols)
<1> DEFINE asked == Asked(board, symbols = {}, symbols)
           ours == Ours(board, symbols)
           theirs == Theirs(board, symbols)
           read == [n \in asked |-> [id |-> Id("GSE", Upper(board[n].name)),
                                     prices |-> RowQuotes(board[n])]]
           seen == [n \in asked |-> [id |-> [exchange |-> "GSE", symbol |-> board[n].name],
                                     prices |-> SdkRowQuotes(board[n])]]
<1>1. ours = IF \E n \in asked : \E q \in RowQuotes(board[n]) : Failed(q)
               THEN Error("malformed") ELSE [quotes |-> read]
  BY DEF Ours, Quotes
<1>2. theirs = IF \E n \in asked : board[n].change = {}
                 THEN Error("not a finite number") ELSE [quotes |-> seen]
  BY DEF Theirs, SdkQuotes
<1>3. \A n \in asked : board[n] \in BoardRow
  BY DEF Asked
<1> SUFFICES ASSUME ~Failed(ours), ~Failed(theirs)
             PROVE  /\ DOMAIN theirs.quotes = DOMAIN ours.quotes
                    /\ \A n \in DOMAIN ours.quotes :
                         /\ Id(theirs.quotes[n].id.exchange, theirs.quotes[n].id.symbol)
                              = ours.quotes[n].id
                         /\ \A q \in ours.quotes[n].prices, r \in theirs.quotes[n].prices :
                              RowAgrees(board[n], q, r)
  BY Zenon DEF SdkBoardsAgree, BothAnswer
<1> HIDE DEF asked, ours, theirs
<1>4. ours = [quotes |-> read] /\ \A n \in asked : \A q \in RowQuotes(board[n]) : ~Failed(q)
  BY <1>1, Results, Zenon
<1>5. theirs = [quotes |-> seen]
  BY <1>2, Results, Zenon
<1>6. ASSUME NEW n \in asked, NEW q \in RowQuotes(board[n]), NEW r \in SdkRowQuotes(board[n])
      PROVE  RowAgrees(board[n], q, r)
  BY <1>3, <1>4, RowsAgree
<1>7. \A n \in asked : Id("GSE", Upper(board[n].name)) = Id("GSE", board[n].name)
  <2>1. \A n \in asked : board[n].name \in Seq(Char)
    BY <1>3 DEF BoardRow
  <2> QED
    BY <2>1, FoldedBefore, Zenon
<1>8. ours.quotes = read /\ theirs.quotes = seen
  BY <1>4, <1>5
<1>9. DOMAIN seen = asked /\ DOMAIN read = asked
  OBVIOUS
<1>10. \A n \in asked :
         /\ read[n].id = Id("GSE", Upper(board[n].name)) /\ read[n].prices = RowQuotes(board[n])
         /\ seen[n].id.exchange = "GSE" /\ seen[n].id.symbol = board[n].name
         /\ seen[n].prices = SdkRowQuotes(board[n])
  OBVIOUS
<1> HIDE DEF read, seen
<1> QED
  BY <1>6, <1>7, <1>8, <1>9, <1>10, Zenon

----
(* The sessions of the SDK. *)

\* An instant has a day and a minute of it.
LEMMA DayAndMinute ==
  ASSUME NEW at \in Nat
  PROVE  at \div MinutesPerDay \in Nat /\ at % MinutesPerDay \in 0 .. MinutesPerDay - 1
BY DEF MinutesPerDay

\* The trading days of a venue, counted from Sunday.
FromSunday(v) == {(d + 1) % 7 : d \in TradingDaysOf(v)}

\* Weeks that start on a Sunday and on a Monday have the same trading days.
LEMMA SameDays ==
  ASSUME NEW v \in Venue, NEW at \in Nat
  PROVE  SdkWeekday(at) \in FromSunday(v) <=> (at \div MinutesPerDay) % 7 \in TradingDaysOf(v)
<1> DEFINE day == at \div MinutesPerDay
           d == day % 7
<1>1. day \in Nat
  BY DayAndMinute
<1> HIDE DEF day
<1>2. (day + 1) % 7 = (d + 1) % 7 /\ d \in 0 .. 6
  BY <1>1
<1>3. TradingDaysOf(v) \subseteq 0 .. 6
  BY DEF TradingDaysOf, Monday2Friday, Sunday2Thursday
<1>4. \A e, f \in 0 .. 6 : (e + 1) % 7 = (f + 1) % 7 => e = f
  OBVIOUS
<1> HIDE DEF d
<1>5. (d + 1) % 7 \in FromSunday(v) <=> d \in TradingDaysOf(v)
  BY <1>2, <1>3, <1>4 DEF FromSunday
<1> QED
  BY <1>2, <1>5 DEF SdkWeekday, day, d

\* session_state, written as the SDK writes its own.
LEMMA StateOf ==
  ASSUME NEW v \in Venue, NEW at \in Nat
  PROVE  Schedule(v)!SessionStateAt(at) =
           LET now == at % MinutesPerDay
           IN  IF (at \div MinutesPerDay) % 7 \notin TradingDaysOf(v) THEN "closed"
               ELSE IF \E w \in Sessions[v] : w.open <= now /\ now < w.close THEN "open"
               ELSE IF \A w \in Sessions[v] : now < w.open THEN "preopen" ELSE "closed"
<1>1. at + 0 = at
  OBVIOUS
<1>2. /\ Schedule(v)!IsTradingDay(at) <=> (at \div MinutesPerDay) % 7 \in TradingDaysOf(v)
      /\ Schedule(v)!MinuteOfDay(at) = at % MinutesPerDay
  BY <1>1 DEF Schedule!IsTradingDay, Schedule!Weekday, Schedule!Local, Schedule!MinuteOfDay
<1> QED
  BY <1>2, Zenon DEF Schedule!SessionStateAt, Schedule!InWindow, Schedule!BeforeWindows

\* At every instant, not only those at which a session changes, the SDK makes
\* of the services' entry of a venue the state the services make (calendar.ts
\* beside amd-calendar).
THEOREM SameStates ==
  ASSUME NEW v \in Venue, NEW at \in Nat
  PROVE  SdkState(Sessions[v], FromSunday(v), at) = Schedule(v)!SessionStateAt(at)
BY SameDays, StateOf DEF SdkState

----
(* The days of the venues. *)

\* A window inside a day that starts after midnight.
Daytime(w) ==
  w.open \in Nat /\ w.close \in Nat /\ 0 < w.open /\ w.open < w.close /\ w.close < MinutesPerDay

\* Every venue but one trades in one window, and that one in two.
LEMMA WindowsOf ==
  ASSUME NEW v \in Venue
  PROVE  /\ v # "BSE" => \E w : Sessions[v] = {w} /\ Daytime(w)
         /\ v = "BSE" => Sessions[v] = {W(At(10, 25), At(11, 55)), W(At(12, 5), At(13, 20))}
<1>1. v = "BSE" => Sessions[v] = {W(At(10, 25), At(11, 55)), W(At(12, 5), At(13, 20))}
  BY DEF Sessions
<1> DEFINE TradesIn(h, i, j, k) == Sessions[v] = {W(At(h, i), At(j, k))}
<1>2. v # "BSE" => \/ TradesIn(9, 0, 16, 0) \/ TradesIn(9, 0, 17, 0) \/ TradesIn(10, 0, 15, 0)
                   \/ TradesIn(9, 31, 15, 0) \/ TradesIn(10, 0, 14, 30) \/ TradesIn(9, 45, 14, 0)
                   \/ TradesIn(9, 30, 15, 20) \/ TradesIn(9, 0, 13, 30) \/ TradesIn(9, 31, 16, 0)
                   \/ TradesIn(10, 0, 14, 0) \/ TradesIn(9, 30, 13, 0) \/ TradesIn(9, 30, 14, 30)
                   \/ TradesIn(9, 0, 12, 0) \/ TradesIn(9, 0, 14, 10) \/ TradesIn(9, 30, 12, 0)
  BY DEF Sessions, Venue
<1>3. ASSUME NEW h \in {9, 10}, NEW i \in Nat, NEW j \in 12 .. 17, NEW k \in Nat, i < 60, k < 60
      PROVE  Daytime(W(At(h, i), At(j, k)))
  <2>1. W(At(h, i), At(j, k)).open = 60 * h + i /\ W(At(h, i), At(j, k)).close = 60 * j + k
    BY DEF W, At
  <2> QED
    BY <1>3, <2>1 DEF Daytime, MinutesPerDay
<1>4. ASSUME NEW h \in {9, 10}, NEW i \in Nat, NEW j \in 12 .. 17, NEW k \in Nat, i < 60, k < 60,
             TradesIn(h, i, j, k)
      PROVE  \E w : Sessions[v] = {w} /\ Daytime(w)
  BY <1>3, <1>4, Zenon
<1> HIDE DEF TradesIn
<1>5. v # "BSE" => \E w : Sessions[v] = {w} /\ Daytime(w)
  BY <1>2, <1>4
<1> QED
  BY <1>1, <1>5

\* The windows of a venue lie in the day, apart from each other.
LEMMA WindowsApart ==
  ASSUME NEW v \in Venue
  PROVE  /\ \A w \in Sessions[v] : Daytime(w)
         /\ \A w, x \in Sessions[v] : w = x \/ w.close < x.open \/ x.close < w.open
         /\ \E w \in Sessions[v] : TRUE
<1>1. CASE v # "BSE"
  BY <1>1, WindowsOf
<1>2. CASE v = "BSE"
  <2> DEFINE a == W(At(10, 25), At(11, 55))
             b == W(At(12, 5), At(13, 20))
  <2>1. a.open = 625 /\ a.close = 715 /\ b.open = 725 /\ b.close = 800
    BY DEF W, At
  <2>2. Sessions[v] = {a, b}
    BY <1>2, WindowsOf
  <2> HIDE DEF a, b
  <2> QED
    BY <2>1, <2>2 DEF Daytime, MinutesPerDay
<1> QED
  BY <1>1, <1>2

\* The state of a venue at a minute of a day of its week.
StateIn(v, day, m) ==
  IF day \notin TradingDaysOf(v) THEN "closed"
  ELSE IF \E w \in Sessions[v] : w.open <= m /\ m < w.close THEN "open"
  ELSE IF \A w \in Sessions[v] : m < w.open THEN "preopen" ELSE "closed"

LEMMA StateInDay ==
  ASSUME NEW v \in Venue, NEW day \in 0 .. 6, NEW m \in Nat, m < MinutesPerDay
  PROVE  Schedule(v)!SessionStateAt(day * MinutesPerDay + m) = StateIn(v, day, m)
<1> DEFINE at == day * MinutesPerDay + m
<1>1. at \in Nat /\ at \div MinutesPerDay = day /\ at % MinutesPerDay = m
  BY DEF MinutesPerDay
<1>2. day % 7 = day
  OBVIOUS
<1> HIDE DEF at
<1>3. Schedule(v)!SessionStateAt(at) = StateIn(v, day, m)
  BY <1>1, <1>2, StateOf, Zenon DEF StateIn
<1> QED
  BY <1>3 DEF at

\* The moments of a venue's day.
LEMMA MomentsAre ==
  ASSUME NEW v, NEW m
  PROVE  m \in Moments(v) <=>
           \/ m \in {0, MinutesPerDay - 1}
           \/ \E w \in Sessions[v] : m \in {w.open - 1, w.open, w.close - 1, w.close}
<1> DEFINE Edges(w) == {w.open - 1, w.open, w.close - 1, w.close}
<1>1. Moments(v) = {0, MinutesPerDay - 1} \union UNION {Edges(w) : w \in Sessions[v]}
  BY Zenon DEF Moments
<1> DEFINE all == {Edges(w) : w \in Sessions[v]}
           ends == {0, MinutesPerDay - 1}
<1>2. (\E e \in all : m \in e) <=> \E w \in Sessions[v] : m \in Edges(w)
  BY Zenon
<1> HIDE DEF Edges, all, ends
<1>3. m \in ends \union UNION all <=> m \in ends \/ \E e \in all : m \in e
  OBVIOUS
<1>4. Moments(v) = ends \union UNION all
  BY <1>1, Zenon DEF all, ends
<1> QED
  BY <1>2, <1>3, <1>4, Zenon DEF Edges, ends

LEMMA MomentsInDay ==
  ASSUME NEW v \in Venue, NEW m \in Moments(v)
  PROVE  m \in Nat /\ m < MinutesPerDay
<1>1. MinutesPerDay \in Nat /\ 0 < MinutesPerDay /\ MinutesPerDay - 1 \in Nat
  BY DEF MinutesPerDay
<1>2. CASE m \in {0, MinutesPerDay - 1}
  BY <1>1, <1>2
<1>3. CASE \E w \in Sessions[v] : m \in {w.open - 1, w.open, w.close - 1, w.close}
  BY <1>1, <1>3, WindowsApart DEF Daytime
<1>4. \/ m \in {0, MinutesPerDay - 1}
      \/ \E w \in Sessions[v] : m \in {w.open - 1, w.open, w.close - 1, w.close}
  BY MomentsAre
<1> QED
  BY <1>2, <1>3, <1>4

\* Each day of each venue unfolds as its registered windows say.
LEMMA DaysUnfold ==
  ASSUME NEW v \in Venue, NEW day \in 0 .. 6
  PROVE  DayUnfolds(v, day)
<1> DEFINE state(m) == Schedule(v)!SessionStateAt(day * MinutesPerDay + m)
           Minute == {m \in Nat : m < MinutesPerDay}
<1>1. \A m \in Minute : state(m) = StateIn(v, day, m)
  BY StateInDay
<1>2. /\ \A w \in Sessions[v] : Daytime(w)
      /\ \A w, x \in Sessions[v] : w = x \/ w.close < x.open \/ x.close < w.open
      /\ \E w \in Sessions[v] : TRUE
  BY WindowsApart
<1>3. Moments(v) \subseteq Minute
  BY MomentsInDay
<1>4. MinutesPerDay \in Nat /\ 0 < MinutesPerDay
  BY DEF MinutesPerDay
<1>5. \A m, n \in Minute : m < n /\ StateIn(v, day, n) = "preopen" => StateIn(v, day, m) = "preopen"
  <2> SUFFICES ASSUME NEW m \in Minute, NEW n \in Minute, m < n, StateIn(v, day, n) = "preopen"
               PROVE  StateIn(v, day, m) = "preopen"
    OBVIOUS
  <2>1. day \in TradingDaysOf(v) /\ \A w \in Sessions[v] : n < w.open
    BY DEF StateIn
  <2>2. \A w \in Sessions[v] : m < w.open /\ ~(w.open <= m)
    BY <1>2, <2>1 DEF Daytime
  <2> QED
    BY <2>1, <2>2, Zenon DEF StateIn
<1>6. \A m \in Minute : StateIn(v, day, m) = "open" => day \in TradingDaysOf(v)
  BY DEF StateIn
<1>7. ASSUME day \in TradingDaysOf(v)
      PROVE  StateIn(v, day, 0) = "preopen" /\ StateIn(v, day, MinutesPerDay - 1) = "closed"
  BY <1>2, <1>4, <1>7 DEF StateIn, Daytime
<1>8. ASSUME day \in TradingDaysOf(v), NEW w \in Sessions[v]
      PROVE  /\ StateIn(v, day, w.open - 1) # "open" /\ StateIn(v, day, w.open) = "open"
             /\ StateIn(v, day, w.close - 1) = "open" /\ StateIn(v, day, w.close) = "closed"
  <2>1. Daytime(w)
    BY <1>2
  <2>2. StateIn(v, day, w.open) = "open" /\ StateIn(v, day, w.close - 1) = "open"
    BY <1>8, <2>1 DEF StateIn, Daytime
  <2>3. \A x \in Sessions[v] : ~(x.open <= w.open - 1 /\ w.open - 1 < x.close)
    BY <1>2, <2>1 DEF Daytime
  <2>4. \A x \in Sessions[v] : ~(x.open <= w.close /\ w.close < x.close)
    BY <1>2, <2>1 DEF Daytime
  <2>5. ~(w.close < w.open)
    BY <2>1 DEF Daytime
  <2> QED
    BY <1>8, <2>2, <2>3, <2>4, <2>5, Zenon DEF StateIn
<1>9. /\ 0 \in Minute /\ MinutesPerDay - 1 \in Minute
      /\ \A w \in Sessions[v] : {w.open - 1, w.open, w.close - 1, w.close} \subseteq Minute
  BY <1>2, <1>4 DEF Daytime
<1> HIDE DEF state, Minute
<1>10. /\ \A w \in Sessions[v] : 0 < w.open /\ w.open < w.close /\ w.close < MinutesPerDay
       /\ \A m, n \in Moments(v) : m < n /\ state(n) = "preopen" => state(m) = "preopen"
       /\ \A m \in Moments(v) : state(m) = "open" => day \in TradingDaysOf(v)
  BY <1>1, <1>2, <1>3, <1>5, <1>6 DEF Daytime
<1>11. day \in TradingDaysOf(v) =>
         /\ state(0) = "preopen" /\ state(MinutesPerDay - 1) = "closed"
         /\ \A w \in Sessions[v] : /\ state(w.open - 1) # "open" /\ state(w.open) = "open"
                                   /\ state(w.close - 1) = "open" /\ state(w.close) = "closed"
  BY <1>1, <1>7, <1>8, <1>9
<1> QED
  BY <1>2, <1>10, <1>11, Zenon DEF DayUnfolds, state

\* Each day of every venue's week unfolds as the venue's windows say, and so it
\* does between the moments tried: before a minute of the day at which the
\* venue is not open yet there is none at which it is (registry.rs).
THEOREM VenuesAlwaysFit ==
  ASSUME NEW v \in Venue, NEW day \in 0 .. 6
  PROVE  /\ sample = [kind |-> "day", venue |-> v, day |-> day] => VenuesFit
         /\ \A m, n \in 0 .. MinutesPerDay - 1 :
              m < n /\ Schedule(v)!SessionStateAt(day * MinutesPerDay + n) = "preopen"
                => Schedule(v)!SessionStateAt(day * MinutesPerDay + m) = "preopen"
<1>1. sample = [kind |-> "day", venue |-> v, day |-> day] => VenuesFit
  <2>1. sample = [kind |-> "day", venue |-> v, day |-> day] => sample.venue = v /\ sample.day = day
    OBVIOUS
  <2> QED
    BY <2>1, DaysUnfold DEF VenuesFit
<1>2. \A m \in 0 .. MinutesPerDay - 1 : m \in Nat /\ m < MinutesPerDay
  BY DEF MinutesPerDay
<1>3. ASSUME NEW m \in 0 .. MinutesPerDay - 1, NEW n \in 0 .. MinutesPerDay - 1,
             m < n, StateIn(v, day, n) = "preopen"
      PROVE  StateIn(v, day, m) = "preopen"
  <2>1. day \in TradingDaysOf(v) /\ \A w \in Sessions[v] : n < w.open
    BY <1>3 DEF StateIn
  <2>2. \A w \in Sessions[v] : m < w.open /\ ~(w.open <= m)
    BY <1>2, <1>3, <2>1, WindowsApart DEF Daytime
  <2> QED
    BY <2>1, <2>2, Zenon DEF StateIn
<1> QED
  BY <1>1, <1>2, <1>3, StateInDay

----
(* What the SDK tells of sessions and of quotes. *)

\* On each day of its week a venue's entry means to the SDK what it means to
\* the services.
LEMMA SessionsAgree == \A v \in Venue, day \in 0 .. 6 : SdkSessionsAgree(v, day)
<1>1. ASSUME NEW v \in Venue, NEW day \in 0 .. 6, NEW m \in Moments(v)
      PROVE  day * MinutesPerDay + m \in Nat
  BY MomentsInDay DEF MinutesPerDay
<1> QED
  BY <1>1, SameStates, Zenon DEF SdkSessionsAgree, FromSunday

\* The session and the staleness the SDK tells, at whatever moment it asked,
\* for however long it waited and however old the quote was.
LEMMA AnnotationsAgree ==
  ASSUME NEW v \in Venue, NEW asked \in Nat, NEW wait \in Nat, NEW age \in Nat,
         NEW staleAfter \in Int
  PROVE  SdkAnnotationsAgree(v, asked, wait, age, staleAfter)
<1> DEFINE ours == Annotated(v, asked + wait, asked - age, staleAfter)
           theirs == SdkAnnotated(v, asked, asked - age, staleAfter)
<1> SUFFICES ASSUME SdkSessionState(v, asked) = Schedule(v)!SessionStateAt(asked)
             PROVE  /\ wait = 0 => theirs = ours
                    /\ theirs.stale => ours.stale \/ ours.session # "open"
  BY Zenon DEF SdkAnnotationsAgree
<1>3. /\ asked - (asked - age) = age /\ (asked + wait) - (asked - age) = age + wait
      /\ wait = 0 => asked + wait = asked
  OBVIOUS
<1> DEFINE now == Schedule(v)!SessionStateAt(asked)
           then == Schedule(v)!SessionStateAt(asked + wait)
<1>4. theirs = [session |-> now, stale |-> now = "open" /\ age > staleAfter]
  BY <1>3, Zenon DEF SdkAnnotated
<1>5. ours = [session |-> then, stale |-> then = "open" /\ age + wait > staleAfter]
  BY <1>3, Zenon DEF Annotated
<1>6. wait = 0 => then = now /\ age + wait = age
  BY <1>3
<1> HIDE DEF ours, theirs, now, then
<1>7. wait = 0 => theirs = ours
  BY <1>4, <1>5, <1>6, Zenon
<1>8. age > staleAfter => age + wait > staleAfter
  OBVIOUS
<1>9. (theirs.stale <=> now = "open" /\ age > staleAfter) /\ ours.session = then
      /\ (ours.stale <=> then = "open" /\ age + wait > staleAfter)
  BY <1>4, <1>5, Zenon
<1> QED
  BY <1>7, <1>8, <1>9, Zenon

\* What the services make of two prices, of the replies to a fetch, of a
\* venue's entry, of a board and of the time of a quote, the SDK makes of them,
\* as SdkAgrees says of each: for any prices, replies, boards of any tickers,
\* venues, moments and ages.
THEOREM SdkAlwaysAgrees ==
  ASSUME \/ \E p, q \in Price : sample = [kind |-> "prices", p |-> p, q |-> q]
         \/ \E n \in 1 .. Longest : \E script \in [1 .. n -> Reply] :
              sample = [kind |-> "replies", script |-> script]
         \/ \E v \in Venue, day \in 0 .. 6 : sample = [kind |-> "day", venue |-> v, day |-> day]
         \/ \E board \in Seq(BoardRow) : \E symbols :
              sample = [kind |-> "board", board |-> board, symbols |-> symbols]
         \/ \E v \in Venue, asked, wait, age \in Nat :
              sample = [kind |-> "annotation", venue |-> v, asked |-> asked, wait |-> wait,
                        age |-> age]
  PROVE  SdkAgrees
<1>1. CASE \E p, q \in Price : sample = [kind |-> "prices", p |-> p, q |-> q]
  <2>1. PICK p, q \in Price : sample = [kind |-> "prices", p |-> p, q |-> q]
    BY <1>1
  <2>2. sample.kind = "prices" /\ sample.p = p /\ sample.q = q
    BY <2>1
  <2> QED
    BY <2>2, SdkPricesAlwaysAgree DEF SdkAgrees
<1>2. CASE \E n \in 1 .. Longest : \E script \in [1 .. n -> Reply] :
             sample = [kind |-> "replies", script |-> script]
  <2>1. PICK n \in 1 .. Longest : \E script \in [1 .. n -> Reply] :
          sample = [kind |-> "replies", script |-> script]
    BY <1>2
  <2>2. PICK script \in [1 .. n -> Reply] : sample = [kind |-> "replies", script |-> script]
    BY <2>1
  <2>3. sample.kind = "replies" /\ sample.script = script /\ SdkRetriesAgree(script)
    BY <2>2, SdkRetriesAlwaysAgree
  <2> QED
    BY <2>3 DEF SdkAgrees
<1>3. CASE \E v \in Venue, day \in 0 .. 6 : sample = [kind |-> "day", venue |-> v, day |-> day]
  <2>1. PICK v \in Venue, day \in 0 .. 6 : sample = [kind |-> "day", venue |-> v, day |-> day]
    BY <1>3
  <2>2. sample.kind = "day" /\ sample.venue = v /\ sample.day = day
    BY <2>1
  <2> QED
    BY <2>2, SessionsAgree DEF SdkAgrees
<1>4. CASE \E board \in Seq(BoardRow) : \E symbols :
             sample = [kind |-> "board", board |-> board, symbols |-> symbols]
  <2>1. PICK board \in Seq(BoardRow) : \E symbols :
          sample = [kind |-> "board", board |-> board, symbols |-> symbols]
    BY <1>4
  <2>2. PICK symbols : sample = [kind |-> "board", board |-> board, symbols |-> symbols]
    BY <2>1
  <2>3. sample.kind = "board" /\ sample.board = board /\ sample.symbols = symbols
    BY <2>2
  <2>4. SdkBoardsAgree(board, symbols)
    BY SdkBoardsAlwaysAgree
  <2> QED
    BY <2>3, <2>4 DEF SdkAgrees
<1>5. CASE \E v \in Venue, asked, wait, age \in Nat :
             sample = [kind |-> "annotation", venue |-> v, asked |-> asked, wait |-> wait,
                       age |-> age]
  <2>1. PICK v \in Venue, asked, wait, age \in Nat :
          sample = [kind |-> "annotation", venue |-> v, asked |-> asked, wait |-> wait, age |-> age]
    BY <1>5
  <2>2. /\ sample.kind = "annotation" /\ sample.venue = v /\ sample.asked = asked
        /\ sample.wait = wait /\ sample.age = age
    BY <2>1
  <2>3. SdkAnnotationsAgree(v, asked, wait, age, StaleTime)
    BY StaleTimeAssumption, AnnotationsAgree
  <2> QED
    BY <2>2, <2>3 DEF SdkAgrees
<1> QED
  BY <1>1, <1>2, <1>3, <1>4, <1>5

----
(* The layouts of the messages. *)

\* Every type of message that is decoded has its fields where the builder
\* writes them, apart from each other and up to its minimum length, and is
\* asked for the ones it has (message.rs beside build.rs).
THEOREM LayoutsAlwaysAgree ==
  \A t \in Decoded : sample = [kind |-> "message", type |-> t] => LayoutsAgree
<1> SUFFICES ASSUME NEW t \in Decoded, sample = [kind |-> "message", type |-> t]
             PROVE  LayoutsAgree
  OBVIOUS
<1>1. sample.type = t
  OBVIOUS
<1> QED
  BY <1>1, FieldsAlwaysFit, BuilderAlwaysAgrees, AccessorsAlwaysAnswer DEF LayoutsAgree
====
