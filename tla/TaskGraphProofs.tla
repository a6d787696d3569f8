--------------------------- MODULE TaskGraphProofs ---------------------------
(***************************************************************************)
(* Theorems about TaskGraph: after any calls, for words of any width and   *)
(* graphs of any size, the order and the resource usages are as stated.    *)
(*                                                                         *)
(* The rows of a graph that is laid out anew have two widths.  MatrixInv   *)
(* says which rows have which, and what all of them hold; it is inductive  *)
(* because a row and the rows before it lie, at the old width, before the  *)
(* place of the row at the new width.                                      *)
(*                                                                         *)
(* setResourceUsage walks over a range that it changes.  UsageInv says, at *)
(* any point of the walk, what is in the bag beside the entries of other   *)
(* tasks, and that it has still to be met unless it was found.             *)
(***************************************************************************)
EXTENDS TaskGraph, TLAPS

------------------------------------------------------------------------------
(***************************************************************************)
(* Places in the matrix.                                                   *)
(***************************************************************************)

\* A row ends before a later one begins.
LEMMA RowsApart ==
    ASSUME NEW k \in Nat, NEW v \in Nat, NEW u \in Nat, NEW w \in 0 .. k - 1, v < u
    PROVE  v * k + w < u * k
<1>1. PICK d \in Nat : u = v + 1 + d  BY SMT
<1>2. u * k = v * k + k + d * k  BY <1>1, SMT
<1>3. d * k >= 0  BY SMT
<1> QED  BY <1>2, <1>3, SMT

\* No two words have the same place.
LEMMA PlaceUnique ==
    ASSUME NEW k \in Nat, NEW v \in Nat, NEW u \in Nat,
           NEW w \in 0 .. k - 1, NEW x \in 0 .. k - 1, v * k + w = u * k + x
    PROVE  v = u /\ w = x
<1>1. v * k \in Nat /\ u * k \in Nat  BY SMT
<1>2. CASE v < u  BY <1>1, <1>2, RowsApart, SMT
<1>3. CASE u < v  BY <1>1, <1>3, RowsApart, SMT
<1>4. CASE v = u  BY <1>1, <1>4, SMT
<1> QED  BY <1>2, <1>3, <1>4, SMT

\* The words of n rows are the indices up to their number.
LEMMA PlaceInMatrix ==
    ASSUME NEW k \in Nat, NEW n \in Nat, NEW v \in 0 .. n - 1, NEW w \in 0 .. k - 1
    PROVE  v * k + w \in 0 .. k * n - 1
<1>1. v * k \in Nat /\ n * k = k * n /\ k * n \in Nat  BY SMT
<1>2. v * k + w < n * k  BY RowsApart, SMT
<1> QED  BY <1>1, <1>2, SMT

LEMMA WordAndBit ==
    ASSUME NEW m \in Nat
    PROVE  /\ m \div WordBits \in Nat /\ m % WordBits \in 0 .. WordBits - 1
           /\ m = (m \div WordBits) * WordBits + (m % WordBits)
  BY WordBitsAssumption, SMT

LEMMA WordAndBitUnique ==
    ASSUME NEW w \in Nat, NEW b \in 0 .. WordBits - 1
    PROVE  (w * WordBits + b) \div WordBits = w /\ (w * WordBits + b) % WordBits = b
  BY WordBitsAssumption, SMT

\* A row has words for all vertices, and no word more than a longer one has.
LEMMA WordCntFacts ==
    ASSUME NEW n \in Nat
    PROVE  /\ WordCnt(n) \in Nat
           /\ WordCnt(n) * WordBits >= n
           /\ WordCnt(n) <= WordCnt(n + 1)
           /\ \A x \in 0 .. n - 1 : x \div WordBits \in 0 .. WordCnt(n) - 1
<1> DEFINE m == n + WordBits - 1
<1>1. m \in Nat /\ m + 1 \in Nat /\ WordBits \in Nat  BY WordBitsAssumption, SMT
<1>2. /\ WordCnt(n) \in Nat
      /\ m = WordCnt(n) * WordBits + (m % WordBits) /\ m % WordBits \in 0 .. WordBits - 1
    BY <1>1, WordAndBit DEF WordCnt
<1>3. /\ WordCnt(n + 1) \in Nat
      /\ m + 1 = WordCnt(n + 1) * WordBits + ((m + 1) % WordBits)
      /\ (m + 1) % WordBits \in 0 .. WordBits - 1
  <2>1. WordCnt(n + 1) = (m + 1) \div WordBits  BY WordBitsAssumption, SMT DEF WordCnt
  <2> QED  BY <2>1, <1>1, WordAndBit
<1> HIDE DEF m
<1>4. WordCnt(n) * WordBits >= n
  <2>1. WordCnt(n) * WordBits \in Nat  BY <1>2, <1>1, SMT
  <2> QED  BY <1>2, <1>1, <2>1, SMT DEF m
<1>5. WordCnt(n) <= WordCnt(n + 1)
  <2> SUFFICES ASSUME WordCnt(n + 1) < WordCnt(n)  PROVE FALSE  BY <1>2, <1>3, SMT
  <2>1. WordCnt(n + 1) * WordBits + ((m + 1) % WordBits) < WordCnt(n) * WordBits
      BY <1>1, <1>2, <1>3, RowsApart
  <2>2. WordCnt(n) * WordBits \in Nat  BY <1>1, <1>2, SMT
  <2> QED  BY <1>1, <1>2, <1>3, <2>1, <2>2, SMT
<1>6. ASSUME NEW x \in 0 .. n - 1  PROVE x \div WordBits \in 0 .. WordCnt(n) - 1
  <2>1. /\ x \div WordBits \in Nat
        /\ x = (x \div WordBits) * WordBits + (x % WordBits) /\ x % WordBits \in 0 .. WordBits - 1
      BY WordAndBit, SMT
  <2>2. SUFFICES ASSUME WordCnt(n) <= x \div WordBits  PROVE FALSE  BY <1>2, <2>1, SMT
  <2>3. (x \div WordBits) * WordBits \in Nat /\ WordCnt(n) * WordBits \in Nat
      BY <1>1, <1>2, <2>1, SMT
  <2>4. WordCnt(n) * WordBits <= (x \div WordBits) * WordBits
    <3>1. CASE WordCnt(n) = x \div WordBits  BY <3>1, <2>3, SMT
    <3>2. CASE WordCnt(n) < x \div WordBits
      <4>1. WordCnt(n) * WordBits + 0 < (x \div WordBits) * WordBits
          BY <1>1, <1>2, <2>1, <3>2, RowsApart, WordBitsAssumption, SMT
      <4> QED  BY <2>3, <4>1, SMT
    <3> QED  BY <1>2, <2>1, <2>2, <3>1, <3>2, SMT
  <2> QED  BY <1>4, <2>1, <2>3, <2>4, SMT
<1> QED  BY <1>2, <1>4, <1>5, <1>6

LEMMA NoWords == WordCnt(0) = 0
<1>1. WordBits - 1 \in Nat /\ 0 * WordBits + (WordBits - 1) = WordBits - 1  BY WordBitsAssumption, SMT
<1>2. (WordBits - 1) \div WordBits = 0
  <2>1. WordBits - 1 \in 0 .. WordBits - 1  BY WordBitsAssumption, SMT
  <2> QED  BY <2>1, <1>1, WordAndBitUnique
<1> QED  BY <1>2, WordBitsAssumption, SMT DEF WordCnt

------------------------------------------------------------------------------
(***************************************************************************)
(* What the operations do to the words of a matrix.                        *)
(***************************************************************************)
Bits == 0 .. WordBits - 1

Words(cnt) == [0 .. cnt - 1 -> SUBSET Bits]

Graphs == [vertexCnt : Nat, wordCnt : Nat, connections : UNION {Words(cnt) : cnt \in Nat}]

\* The rows of the given width hold an order.
Holds(words, k, rows, order) ==
    \A v \in rows, w \in 0 .. k - 1, b \in Bits :
        b \in words[v * k + w] <=> <<v, w * WordBits + b>> \in order

\* A vertex that a word and a bit stand for is none of the first n if the row
\* has as many words for those already.
LEMMA BeyondRow ==
    ASSUME NEW n \in Nat, NEW w \in Nat, NEW b \in Bits, w >= WordCnt(n)
    PROVE  w * WordBits + b \notin 0 .. n - 1
<1>1. WordCnt(n) \in Nat /\ WordCnt(n) * WordBits >= n  BY WordCntFacts
<1>2. WordBits \in Nat \ {0} /\ b \in Nat /\ w * WordBits \in Nat
    BY WordBitsAssumption, SMT DEF Bits
<1> DEFINE d == w - WordCnt(n)
<1>3. d \in Nat /\ w = WordCnt(n) + d  BY <1>1, SMT
<1> HIDE DEF d
<1>4. w * WordBits = WordCnt(n) * WordBits + d * WordBits
  <2>1. ASSUME NEW a \in Nat, NEW c \in Nat, NEW e \in Nat
        PROVE  (a + c) * e = a * e + c * e
      BY SMT
  <2> QED  BY <1>1, <1>2, <1>3, <2>1
<1>5. d * WordBits \in Nat /\ WordCnt(n) * WordBits \in Nat  BY <1>1, <1>2, <1>3, SMT
<1> QED  BY <1>1, <1>2, <1>4, <1>5, SMT

\* setConnected changes one edge.
LEMMA SetConnectedHolds ==
    ASSUME NEW n \in Nat, NEW G \in Graphs, NEW order \in SUBSET ((0 .. n - 1) \X (0 .. n - 1)),
           NEW task \in 0 .. n - 1, NEW next \in 0 .. n - 1, NEW set \in BOOLEAN,
           G.wordCnt = WordCnt(n), G.connections \in Words(WordCnt(n) * n),
           Holds(G.connections, WordCnt(n), 0 .. n - 1, order),
           NEW order2,
           order2 = IF set THEN order \cup {<<task, next>>} ELSE order \ {<<task, next>>}
    PROVE  /\ SetConnected(G, task, next, set) \in Graphs
           /\ SetConnected(G, task, next, set).connections \in Words(WordCnt(n) * n)
           /\ Holds(SetConnected(G, task, next, set).connections, WordCnt(n), 0 .. n - 1, order2)
<1> DEFINE k == WordCnt(n)
           q == next \div WordBits
           place == WordOf(G, task, next)
           words == SetConnected(G, task, next, set).connections
<1>0. /\ words = [G.connections EXCEPT ![place] =
                    IF set THEN @ \cup {BitOf(next)} ELSE @ \ {BitOf(next)}]
      /\ SetConnected(G, task, next, set) = [G EXCEPT !.connections = words]
    BY DEF SetConnected, Graphs
<1> HIDE DEF words
<1>1. k \in Nat /\ q \in 0 .. k - 1  BY WordCntFacts
<1>2. /\ q \in Nat /\ BitOf(next) \in Bits /\ next = q * WordBits + BitOf(next)
  <2>1. next \in Nat  BY SMT
  <2> QED  BY <2>1, WordAndBit DEF BitOf, Bits
<1>3. place = task * k + q /\ place \in 0 .. k * n - 1
    BY <1>1, PlaceInMatrix DEF WordOf
<1>4. words \in Words(k * n) /\ SetConnected(G, task, next, set) \in Graphs
  <2>1. words \in Words(k * n)  BY <1>0, <1>2, <1>3 DEF Words
  <2>2. k * n \in Nat  BY <1>1, SMT
  <2>3. words \in UNION {Words(cnt) : cnt \in Nat}  BY <2>1, <2>2
  <2> QED  BY <2>1, <2>3, <1>0 DEF Graphs
<1>5. ASSUME NEW v \in 0 .. n - 1, NEW w \in 0 .. k - 1, NEW b \in Bits
      PROVE  b \in words[v * k + w] <=> <<v, w * WordBits + b>> \in order2
  <2>1. v * k + w \in 0 .. k * n - 1  BY <1>1, PlaceInMatrix
  <2>2. b \in G.connections[v * k + w] <=> <<v, w * WordBits + b>> \in order
      BY <1>5 DEF Holds
  <2>3. CASE v = task /\ w * WordBits + b = next
    <3>1. w = q /\ b = BitOf(next)
      <4>1. w \in Nat  BY <1>1, SMT
      <4> QED  BY <4>1, <2>3, WordAndBitUnique DEF BitOf, Bits
    <3>2. words[v * k + w] = IF set THEN G.connections[place] \cup {b} ELSE G.connections[place] \ {b}
        BY <1>0, <1>3, <2>1, <2>3, <3>1 DEF Words
    <3> QED  BY <2>2, <2>3, <3>1, <3>2, <1>3
  <2>4. CASE ~(v = task /\ w * WordBits + b = next)
    <3>1. <<v, w * WordBits + b>> \in order2 <=> <<v, w * WordBits + b>> \in order
        BY <2>4
    <3>2. CASE v * k + w = place
      <4>1. v \in Nat /\ task \in Nat  BY SMT
      <4>2. v = task /\ w = q
        <5>1. v * k + w = task * k + q  BY <1>3, <3>2
        <5> HIDE DEF k, q
        <5> QED  BY <4>1, <5>1, <1>1, PlaceUnique
      <4>3. b # BitOf(next)  BY <2>4, <4>2, <1>2
      <4>4. words[v * k + w] = IF set THEN G.connections[place] \cup {BitOf(next)}
                                      ELSE G.connections[place] \ {BitOf(next)}
          BY <1>0, <1>3, <3>2, <2>1 DEF Words
      <4> QED  BY <2>2, <3>1, <3>2, <4>3, <4>4
    <3>3. CASE v * k + w # place
      <4>1. words[v * k + w] = G.connections[v * k + w]  BY <1>0, <2>1, <3>3 DEF Words
      <4> QED  BY <2>2, <3>1, <4>1
    <3> QED  BY <3>2, <3>3
  <2> QED  BY <2>3, <2>4
<1> QED  BY <1>0, <1>4, <1>5 DEF Holds, words

\* New words are empty, the others are where they were.
LEMMA ResizedWords ==
    ASSUME NEW old \in Nat, NEW cnt \in Nat, NEW words \in Words(old), old <= cnt
    PROVE  /\ Resized(words, cnt) \in Words(cnt)
           /\ \A i \in 0 .. old - 1 : Resized(words, cnt)[i] = words[i]
           /\ \A i \in old .. cnt - 1 : Resized(words, cnt)[i] = {}
<1>1. \A i \in 0 .. cnt - 1 : Resized(words, cnt)[i] = IF i \in 0 .. old - 1 THEN words[i] ELSE {}
    BY DEF Resized, Words
<1>2. Resized(words, cnt) \in Words(cnt)
    BY <1>1 DEF Words, Resized
<1>3. 0 .. old - 1 \subseteq 0 .. cnt - 1  BY SMT
<1>4. \A i \in old .. cnt - 1 : i \in 0 .. cnt - 1 /\ i \notin 0 .. old - 1  BY SMT
<1> QED  BY <1>1, <1>2, <1>3, <1>4

LEMMA TimesMonotonic ==
    ASSUME NEW a \in Nat, NEW b \in Nat, NEW c \in Nat, a <= b
    PROVE  a * c \in Nat /\ b * c \in Nat /\ a * c <= b * c /\ c * a <= c * b
<1> DEFINE d == b - a
<1>1. d \in Nat /\ b = a + d  BY SMT
<1> HIDE DEF d
<1>2. b * c = a * c + d * c /\ c * a = a * c /\ c * b = b * c  BY <1>1, SMT
<1>3. d * c \in Nat /\ a * c \in Nat  BY <1>1, SMT
<1> QED  BY <1>2, <1>3, SMT

\* A task is added: the rows are still as wide as before, the new one is empty.
LEMMA AddedRowHolds ==
    ASSUME NEW n \in Nat, NEW k \in Nat, NEW l \in Nat, k <= l,
           NEW order \in SUBSET ((0 .. n - 1) \X (0 .. n - 1)),
           NEW old \in Words(k * n), Holds(old, k, 0 .. n - 1, order),
           NEW words, words = Resized(old, l * (n + 1))
    PROVE  /\ words \in Words(l * (n + 1))
           /\ Holds(words, k, 0 .. n - 1, order)
           /\ Holds(words, l, n .. n, order)
<1>2. /\ k * n \in Nat /\ l * n \in Nat /\ l * (n + 1) \in Nat
      /\ k * n <= l * n /\ n * l = l * n /\ l * (n + 1) = l * n + l
  <2>1. k * n \in Nat /\ l * n \in Nat /\ k * n <= l * n  BY TimesMonotonic
  <2>2. n * l = l * n /\ l * (n + 1) = l * n + l  BY SMT
  <2> QED  BY <2>1, <2>2, SMT
<1>3. /\ words \in Words(l * (n + 1))
      /\ \A i \in 0 .. k * n - 1 : words[i] = old[i]
      /\ \A i \in k * n .. l * (n + 1) - 1 : words[i] = {}
  <2>1. k * n <= l * (n + 1)  BY <1>2, SMT
  <2> QED  BY <1>2, <2>1, ResizedWords
<1>4. Holds(words, k, 0 .. n - 1, order)
  <2> SUFFICES ASSUME NEW v \in 0 .. n - 1, NEW w \in 0 .. k - 1, NEW b \in Bits
               PROVE  b \in words[v * k + w] <=> <<v, w * WordBits + b>> \in order
      BY DEF Holds
  <2>1. v * k + w \in 0 .. k * n - 1  BY PlaceInMatrix
  <2> QED  BY <1>3, <2>1 DEF Holds
<1>5. Holds(words, l, n .. n, order)
  <2> SUFFICES ASSUME NEW v \in n .. n, NEW w \in 0 .. l - 1, NEW b \in Bits
               PROVE  b \in words[v * l + w] <=> <<v, w * WordBits + b>> \in order
      BY DEF Holds
  <2>1. v = n /\ v \notin 0 .. n - 1  BY SMT
  <2>2. n * l + w \in k * n .. l * (n + 1) - 1  BY <1>2, SMT
  <2> QED  BY <1>3, <2>1, <2>2
<1> QED  BY <1>3, <1>4, <1>5

\* A row is moved: the rows before it are not overwritten, nor those after it,
\* and there are no bits in what is new in it.
LEMMA MovedRowHolds ==
    ASSUME NEW n \in Nat, NEW k \in Nat, NEW l \in Nat, k <= l, k = WordCnt(n),
           NEW order \in SUBSET ((0 .. n - 1) \X (0 .. n - 1)), NEW r \in 0 .. n - 1,
           NEW old \in Words(l * (n + 1)),
           Holds(old, k, 0 .. r, order), Holds(old, l, r + 1 .. n, order),
           NEW words, words = MoveRow(old, r, k, l)
    PROVE  /\ words \in Words(l * (n + 1))
           /\ Holds(words, k, 0 .. r - 1, order)
           /\ Holds(words, l, r .. n, order)
<1> DEFINE place == r * l .. r * l + l - 1
<1>1. r \in Nat /\ r < n /\ r * l \in Nat  BY TimesMonotonic, SMT
<1>2. \A v \in 0 .. n, w \in 0 .. l - 1 : v * l + w \in 0 .. l * (n + 1) - 1
  <2> TAKE v \in 0 .. n, w \in 0 .. l - 1
  <2>1. v \in 0 .. (n + 1) - 1  BY SMT
  <2> QED  BY <2>1, PlaceInMatrix
<1>3. \A v \in 0 .. r, w \in 0 .. k - 1 :
        v * k + w \in 0 .. l * (n + 1) - 1 /\ (v < r => v * k + w < r * l)
  <2> TAKE v \in 0 .. r, w \in 0 .. k - 1
  <2>1. v \in Nat /\ v \in 0 .. n /\ w \in 0 .. l - 1  BY <1>1, SMT
  <2>2. /\ v * k \in Nat /\ v * l \in Nat /\ v * k <= v * l
        /\ r * k \in Nat /\ r * l \in Nat /\ r * k <= r * l
    <3>1. ASSUME NEW a \in Nat
          PROVE  a * k \in Nat /\ a * l \in Nat /\ a * k <= a * l
        BY <3>1, TimesMonotonic
    <3> QED  BY <1>1, <2>1, <3>1
  <2>3. v * l + w \in 0 .. l * (n + 1) - 1  BY <1>2, <2>1
  <2>4. v < r => v * k + w < r * k  BY <1>1, <2>1, RowsApart
  <2>5. l * (n + 1) \in Nat /\ w \in Nat  BY SMT
  <2>6. v * k + w <= v * l + w /\ v * k + w \in Nat
    <3>1. ASSUME NEW a \in Nat, NEW b \in Nat, NEW c \in Nat, a <= b
          PROVE  a + c <= b + c /\ a + c \in Nat
        BY <3>1, SMT
    <3>2. v * k \in Nat /\ v * l \in Nat /\ v * k <= v * l /\ w \in Nat  BY <2>2, <2>5
    <3> QED  BY <3>1, <3>2
  <2>7. v * k + w \in 0 .. l * (n + 1) - 1
    <3>1. v * l + w < l * (n + 1)  BY <2>3, <2>5, SMT
    <3> QED  BY <2>6, <2>2, <2>5, <3>1, SMTT(20)
  <2>8. v < r => v * k + w < r * l  BY <2>2, <2>4, <2>6, SMTT(20)
  <2> QED  BY <2>7, <2>8
<1>4. \A i \in 0 .. l * (n + 1) - 1 :
        words[i] = IF i \in place THEN IF i - r * l < k THEN old[r * k + (i - r * l)] ELSE {} ELSE old[i]
    BY DEF MoveRow, Words
<1>5. words \in Words(l * (n + 1))
  <2>1. words = [i \in 0 .. l * (n + 1) - 1 |-> words[i]]  BY DEF MoveRow, Words
  <2>2. \A i \in 0 .. l * (n + 1) - 1 : words[i] \in SUBSET Bits
    <3> TAKE i \in 0 .. l * (n + 1) - 1
    <3>1. CASE i \in place /\ i - r * l < k
      <4>1. r * l \in Nat  BY <1>1, SMT
      <4>2. i - r * l \in 0 .. k - 1  BY <1>1, <4>1, <3>1, SMT
      <4>3. r * k + (i - r * l) \in 0 .. l * (n + 1) - 1  BY <1>3, <4>2, SMT
      <4> QED  BY <1>4, <3>1, <4>3 DEF Words
    <3>2. CASE ~(i \in place /\ i - r * l < k)  BY <1>4, <3>2 DEF Words
    <3> QED  BY <3>1, <3>2
  <2> QED  BY <2>1, <2>2 DEF Words
<1>6. Holds(words, k, 0 .. r - 1, order)
  <2> SUFFICES ASSUME NEW v \in 0 .. r - 1, NEW w \in 0 .. k - 1, NEW b \in Bits
               PROVE  b \in words[v * k + w] <=> <<v, w * WordBits + b>> \in order
      BY DEF Holds
  <2>1. v * k + w \in 0 .. l * (n + 1) - 1 /\ v * k + w < r * l  BY <1>3, SMTT(20)
  <2>2. r * l \in Nat  BY <1>1, SMT
  <2>3. v * k + w \notin place  BY <2>1, <2>2, SMT
  <2>4. words[v * k + w] = old[v * k + w]  BY <1>4, <2>1, <2>3
  <2>5. v \in 0 .. r  BY SMT
  <2> QED  BY <2>4, <2>5 DEF Holds
<1>7. Holds(words, l, r .. n, order)
  <2> SUFFICES ASSUME NEW v \in r .. n, NEW w \in 0 .. l - 1, NEW b \in Bits
               PROVE  b \in words[v * l + w] <=> <<v, w * WordBits + b>> \in order
      BY DEF Holds
  <2>1. v * l + w \in 0 .. l * (n + 1) - 1  BY <1>2, SMT
  <2>2. r * l \in Nat  BY <1>1, SMT
  <2>3. CASE v = r /\ w < k
    <3>1. v * l + w \in place /\ (v * l + w) - r * l = w  BY <1>1, <2>2, <2>3, SMT
    <3>2. words[v * l + w] = old[r * k + w]  BY <1>4, <2>1, <2>3, <3>1
    <3>3. r \in 0 .. r /\ w \in 0 .. k - 1  BY <1>1, <2>3, SMT
    <3> QED  BY <2>3, <3>2, <3>3 DEF Holds
  <2>4. CASE v = r /\ ~(w < k)
    <3>1. v * l + w \in place /\ (v * l + w) - r * l = w  BY <1>1, <2>2, <2>4, SMT
    <3>2. words[v * l + w] = {}  BY <1>4, <2>1, <2>4, <3>1
    <3>3. w \in Nat /\ w >= k  BY <1>1, <2>4, SMT
    <3>4. w * WordBits + b \notin 0 .. n - 1  BY <3>3, BeyondRow
    <3> QED  BY <3>2, <3>4
  <2>5. CASE v # r
    <3>1. v \in r + 1 .. n /\ r < v /\ r \in Nat /\ v \in Nat  BY <2>5, SMT
    <3>2. (r + 1) * l <= v * l /\ v * l \in Nat
      <4>1. r + 1 \in Nat /\ r + 1 <= v  BY <3>1, SMT
      <4> QED  BY <3>1, <4>1, TimesMonotonic
    <3>3. (r + 1) * l = r * l + l  BY <1>1, SMT
    <3>4. v * l + w \notin place  BY <1>1, <2>2, <3>2, <3>3, SMT
    <3>5. words[v * l + w] = old[v * l + w]  BY <1>4, <2>1, <3>4
    <3> QED  BY <3>1, <3>5 DEF Holds
  <2> QED  BY <2>3, <2>4, <2>5
<1> QED  BY <1>5, <1>6, <1>7

------------------------------------------------------------------------------
(***************************************************************************)
(* The invariant.                                                          *)
(***************************************************************************)
AllResources == UNION {ResourcesOf[g] : g \in TaskGraphs}

Stated == [order : SUBSET (Nat \X Nat), usage : SUBSET (Nat \X AllResources \X Usages)]

UserTypes ==
    /\ taskData \in [TaskGraphs -> Seq(TaskGraphs \cup {NoGraph})]
    /\ taskOrderGraph \in [TaskGraphs -> Graphs]
    /\ rowsLeft \in [TaskGraphs -> Nat]
    /\ DOMAIN taskResourceUsage = TaskGraphs
    /\ taskResourceUsage = [g \in TaskGraphs |-> taskResourceUsage[g]]
    /\ stated \in [TaskGraphs -> Stated]

\* The matrix of n vertices; in a resize, the first rows have the old width.
Matrix(n, G, left, order) ==
    /\ n \in Nat /\ left \in Nat
    /\ G \in Graphs /\ G.connections \in Words(WordCnt(n) * n)
    /\ IF G.vertexCnt = n
       THEN /\ left = 0 /\ G.wordCnt = WordCnt(n)
            /\ order \in SUBSET ((0 .. n - 1) \X (0 .. n - 1))
            /\ Holds(G.connections, WordCnt(n), 0 .. n - 1, order)
       ELSE \E m \in Nat :
            /\ n = m + 1 /\ left <= m /\ G.vertexCnt = m /\ G.wordCnt = WordCnt(m)
            /\ order \in SUBSET ((0 .. m - 1) \X (0 .. m - 1))
            /\ Holds(G.connections, WordCnt(m), 0 .. left - 1, order)
            /\ Holds(G.connections, WordCnt(n), left .. m, order)

MatrixInv ==
    \A g \in TaskGraphs :
        Matrix(Len(taskData[g]), taskOrderGraph[g], rowsLeft[g], stated[g].order)

\* The entries that triples of a task, a resource and a usage stand for.
EntriesOf(usages) == {Entry(u[1], u[2], u[3]) : u \in usages}

\* What is stated of other tasks and resources, and what a call asks for.
Besides(usages, task, resource) == {u \in usages : u[1] # task \/ u[2] # resource}
Asked(call) == IF call.usage = "NOT_USED" THEN {} ELSE {<<call.task, call.resource, call.usage>>}

Once(usages) == \A u, w \in usages : u[1] = w[1] /\ u[2] = w[2] => u = w

\* A call has still to visit rest; own is what the bag has of its task.
Walking(call, bag, usages) ==
    LET others == EntriesOf(Besides(usages, call.task, call.resource))
    IN  /\ call = [graph |-> call.graph, task |-> call.task, resource |-> call.resource,
                   usage |-> call.usage, left |-> call.left, found |-> call.found]
        /\ call.graph \in TaskGraphs /\ call.usage \in Usages \cup {"NOT_USED"}
        /\ call.found \in BOOLEAN
        /\ usages = Besides(usages, call.task, call.resource) \cup Asked(call)
        /\ \E own \in SUBSET {Entry(call.task, call.resource, u) : u \in Usages} :
           \E rest \in SUBSET (others \cup own) :
                /\ bag = SetToBag(others \cup own) /\ call.left = SetToBag(rest)
                /\ \A e \in rest : e.resource = call.resource
                /\ \A x, y \in own : x = y
                /\ IF call.found
                   THEN call.usage # "NOT_USED" /\ own = EntriesOf(Asked(call)) /\ own \cap rest = {}
                   ELSE own \subseteq rest

UsageInv ==
    /\ \A g \in TaskGraphs :
        /\ Once(stated[g].usage)
        /\ usageCall = <<>> \/ usageCall[1].graph # g
            => taskResourceUsage[g] = SetToBag(EntriesOf(stated[g].usage))
    /\ usageCall # <<>> =>
        /\ usageCall = <<usageCall[1]>>
        /\ Walking(usageCall[1], taskResourceUsage[usageCall[1].graph], stated[usageCall[1].graph].usage)

UserInv == UserTypes /\ MatrixInv /\ UsageInv

\* What a call does not touch stays.
LEMMA UsageStays ==
    ASSUME UsageInv, UNCHANGED <<taskResourceUsage, usageCall>>,
           \A g \in TaskGraphs : stated'[g].usage = stated[g].usage
    PROVE  UsageInv'
<1>1. CASE usageCall = <<>>  BY <1>1 DEF UsageInv
<1>2. CASE usageCall # <<>>
  <2>1. PICK call : call = usageCall[1]  OBVIOUS
  <2>2. /\ usageCall = <<call>> /\ call.graph \in TaskGraphs
        /\ Walking(call, taskResourceUsage[call.graph], stated[call.graph].usage)
    <3>1. Walking(call, taskResourceUsage[call.graph], stated[call.graph].usage) /\ usageCall = <<call>>
        BY <1>2, <2>1 DEF UsageInv
    <3> QED  BY <3>1 DEF Walking
  <2>3. PICK bag, usages : bag = taskResourceUsage[call.graph] /\ usages = stated[call.graph].usage  OBVIOUS
  <2>4. taskResourceUsage'[call.graph] = bag /\ stated'[call.graph].usage = usages  BY <2>2, <2>3
  <2>5. Walking(call, bag, usages)  BY <2>2, <2>3
  <2> QED  BY <1>2, <2>1, <2>2, <2>4, <2>5 DEF UsageInv
<1> QED  BY <1>1, <1>2

\* The empty graph is one of no vertices.
LEMMA EmptyGraphMatrix == EmptyGraph \in Graphs /\ Matrix(0, EmptyGraph, 0, {})
<1>1. WordCnt(0) = 0 /\ WordCnt(0) * 0 = 0  BY NoWords
<1>2. 0 .. 0 - 1 = {} /\ 0 \in Nat  BY SMT
<1>3. [i \in {} |-> {}] \in Words(0)  BY <1>2 DEF Words
<1>4. EmptyGraph \in Graphs
  <2>1. [i \in {} |-> {}] \in UNION {Words(cnt) : cnt \in Nat}  BY <1>2, <1>3
  <2> QED  BY <1>2, <2>1 DEF EmptyGraph, Graphs
<1>5. Holds(EmptyGraph.connections, WordCnt(0), 0 .. 0 - 1, {})  BY <1>2 DEF Holds
<1> QED  BY <1>1, <1>2, <1>3, <1>4, <1>5 DEF Matrix, EmptyGraph

LEMMA UserInitInv == UserInit => UserInv
<1> SUFFICES ASSUME UserInit  PROVE UserInv  OBVIOUS
<1> USE DEF UserInit
<1>1. UserTypes
  <2>1. [order |-> {}, usage |-> {}] \in Stated  BY DEF Stated
  <2> QED  BY <2>1, EmptyGraphMatrix DEF UserTypes
<1>2. MatrixInv
  <2> SUFFICES ASSUME NEW g \in TaskGraphs
               PROVE  Matrix(Len(taskData[g]), taskOrderGraph[g], rowsLeft[g], stated[g].order)
      BY DEF MatrixInv
  <2>1. Len(taskData[g]) = 0 /\ taskOrderGraph[g] = EmptyGraph /\ rowsLeft[g] = 0 /\ stated[g].order = {}
      OBVIOUS
  <2> QED  BY <2>1, EmptyGraphMatrix
<1>3. UsageInv
  <2>1. EntriesOf({}) = {}  BY DEF EntriesOf
  <2> QED  BY <2>1 DEF UsageInv, Once, EmptyBag
<1> QED  BY <1>1, <1>2, <1>3 DEF UserInv

------------------------------------------------------------------------------
(***************************************************************************)
(* The calls.                                                              *)
(***************************************************************************)
LEMMA AddTaskInv ==
    ASSUME UserInv, NEW g \in TaskGraphs, NEW h \in TaskGraphs \cup {NoGraph}, AddTask(g, h)
    PROVE  UserInv'
<1> DEFINE n == Len(taskData[g])
           G == taskOrderGraph[g]
           order == stated[g].order
           sized == Resized(G.connections, WordCnt(n + 1) * (n + 1))
<1> USE DEF UserInv
<1>0. UserTypes /\ taskData[g] \in Seq(TaskGraphs \cup {NoGraph}) /\ n \in Nat  BY DEF UserTypes
<1>1. /\ n = G.vertexCnt /\ G.wordCnt = WordCnt(n) /\ rowsLeft[g] = 0 /\ G \in Graphs
      /\ G.connections \in Words(WordCnt(n) * n)
      /\ order \in SUBSET ((0 .. n - 1) \X (0 .. n - 1))
      /\ Holds(G.connections, WordCnt(n), 0 .. n - 1, order)
    BY DEF MatrixInv, Matrix, AddTask, NoCallActive, Resizing
<1>2. /\ WordCnt(n) \in Nat /\ WordCnt(n + 1) \in Nat /\ WordCnt(n) <= WordCnt(n + 1)
      /\ n + 1 \in Nat
  <2>1. n + 1 \in Nat  BY <1>0, SMT
  <2> QED  BY <2>1, <1>0, WordCntFacts
<1>3. /\ sized \in Words(WordCnt(n + 1) * (n + 1))
      /\ Holds(sized, WordCnt(n), 0 .. n - 1, order)
      /\ Holds(sized, WordCnt(n + 1), n .. n, order)
  <2> DEFINE k == WordCnt(n)
             l == WordCnt(n + 1)
             old == G.connections
  <2>1. /\ n \in Nat /\ k \in Nat /\ l \in Nat /\ k <= l /\ old \in Words(k * n)
        /\ order \in SUBSET ((0 .. n - 1) \X (0 .. n - 1)) /\ Holds(old, k, 0 .. n - 1, order)
        /\ sized = Resized(old, l * (n + 1))
      BY <1>0, <1>1, <1>2
  <2> HIDE DEF k, l, old, n, order, sized
  <2>2. /\ sized \in Words(l * (n + 1)) /\ Holds(sized, k, 0 .. n - 1, order)
        /\ Holds(sized, l, n .. n, order)
      BY <2>1, AddedRowHolds
  <2> QED  BY <2>2 DEF k, l
<1>4. WordCnt(n + 1) * (n + 1) \in Nat  BY <1>2, SMT
<1>5. sized \in UNION {Words(cnt) : cnt \in Nat}  BY <1>3, <1>4
<1>6. /\ taskData' = [taskData EXCEPT ![g] = Append(@, h)]
      /\ Len(taskData'[g]) = n + 1
      /\ taskData' \in [TaskGraphs -> Seq(TaskGraphs \cup {NoGraph})]
      /\ \A f \in TaskGraphs : f # g => taskData'[f] = taskData[f]
      /\ stated' = stated /\ taskResourceUsage' = taskResourceUsage /\ usageCall' = usageCall
    BY <1>0 DEF AddTask, UserTypes
<1>7. CASE WordCnt(n + 1) = G.wordCnt
  <2>1. /\ taskOrderGraph' = [taskOrderGraph EXCEPT ![g] =
                [G EXCEPT !.connections = sized, !.vertexCnt = n + 1]]
        /\ rowsLeft' = rowsLeft
      BY <1>7 DEF AddTask
  <2> DEFINE G2 == taskOrderGraph'[g]
  <2>2. /\ G2 = [G EXCEPT !.connections = sized, !.vertexCnt = n + 1]
        /\ \A f \in TaskGraphs : f # g => taskOrderGraph'[f] = taskOrderGraph[f]
      BY <2>1, <1>0 DEF UserTypes
  <2>3. /\ G2 \in Graphs /\ G2.connections = sized /\ G2.vertexCnt = n + 1
        /\ G2.wordCnt = WordCnt(n + 1)
      BY <2>2, <1>1, <1>2, <1>5, <1>7 DEF Graphs
  <2>4. UserTypes'
      BY <2>1, <2>2, <2>3, <1>0, <1>6 DEF UserTypes
  <2>5. Holds(sized, WordCnt(n + 1), 0 .. (n + 1) - 1, order)
    <3>1. WordCnt(n + 1) = WordCnt(n)  BY <1>1, <1>7
    <3>2. \A v \in 0 .. (n + 1) - 1 : v \in 0 .. n - 1 \/ v \in n .. n  BY <1>0, SMT
    <3> QED  BY <3>1, <3>2, <1>3 DEF Holds
  <2>6. order \in SUBSET ((0 .. (n + 1) - 1) \X (0 .. (n + 1) - 1))
    <3>1. 0 .. n - 1 \subseteq 0 .. (n + 1) - 1  BY <1>0, SMT
    <3> QED  BY <1>1, <3>1
  <2>7. Matrix(n + 1, G2, rowsLeft'[g], stated'[g].order)
      BY <2>1, <2>3, <2>5, <2>6, <1>1, <1>2, <1>3, <1>6 DEF Matrix
  <2>8. MatrixInv'
      BY <2>1, <2>2, <2>7, <1>6 DEF MatrixInv
  <2> QED  BY <2>4, <2>8, <1>6, UsageStays
<1>8. CASE WordCnt(n + 1) # G.wordCnt
  <2>1. /\ taskOrderGraph' = [taskOrderGraph EXCEPT ![g] = [G EXCEPT !.connections = sized]]
        /\ rowsLeft' = [rowsLeft EXCEPT ![g] = G.vertexCnt]
      BY <1>8 DEF AddTask
  <2> DEFINE G2 == taskOrderGraph'[g]
  <2>2. /\ G2 = [G EXCEPT !.connections = sized]
        /\ \A f \in TaskGraphs : f # g => taskOrderGraph'[f] = taskOrderGraph[f]
        /\ rowsLeft'[g] = n /\ rowsLeft' \in [TaskGraphs -> Nat]
        /\ \A f \in TaskGraphs : f # g => rowsLeft'[f] = rowsLeft[f]
      BY <2>1, <1>0, <1>1 DEF UserTypes
  <2>3. G2 \in Graphs /\ G2.connections = sized /\ G2.vertexCnt = n /\ G2.wordCnt = WordCnt(n)
      BY <2>2, <1>1, <1>5 DEF Graphs
  <2>4. UserTypes'
      BY <2>1, <2>2, <2>3, <1>0, <1>6 DEF UserTypes
  <2>5. n # n + 1 /\ n <= n  BY <1>0, SMT
  <2>6. Matrix(n + 1, G2, n, order)
    <3>1. /\ n + 1 = n + 1 /\ n <= n /\ G2.vertexCnt = n /\ G2.wordCnt = WordCnt(n)
          /\ order \in SUBSET ((0 .. n - 1) \X (0 .. n - 1))
          /\ Holds(G2.connections, WordCnt(n), 0 .. n - 1, order)
          /\ Holds(G2.connections, WordCnt(n + 1), n .. n, order)
        BY <2>3, <2>5, <1>1, <1>3
    <3> QED  BY <3>1, <2>3, <2>5, <1>0, <1>2, <1>3 DEF Matrix
  <2>7. MatrixInv'
      BY <2>2, <2>6, <1>6 DEF MatrixInv
  <2> QED  BY <2>4, <2>7, <1>6, UsageStays
<1> QED  BY <1>7, <1>8

LEMMA MoveNextRowInv ==
    ASSUME UserInv, NEW g \in TaskGraphs, MoveNextRow(g)
    PROVE  UserInv'
<1> DEFINE n == Len(taskData[g])
           G == taskOrderGraph[g]
           order == stated[g].order
           r == rowsLeft[g] - 1
           words == MoveRow(G.connections, r, G.wordCnt, WordCnt(n))
           G2 == taskOrderGraph'[g]
<1> USE DEF UserInv
<1>1. PICK m \in Nat :
        /\ n = m + 1 /\ rowsLeft[g] <= m /\ G.vertexCnt = m /\ G.wordCnt = WordCnt(m)
        /\ order \in SUBSET ((0 .. m - 1) \X (0 .. m - 1))
        /\ Holds(G.connections, WordCnt(m), 0 .. rowsLeft[g] - 1, order)
        /\ Holds(G.connections, WordCnt(n), rowsLeft[g] .. m, order)
    BY DEF MatrixInv, Matrix, MoveNextRow, Resizing
<1>2. /\ G \in Graphs /\ G.connections \in Words(WordCnt(n) * n)
      /\ rowsLeft[g] \in Nat /\ rowsLeft[g] > 0
    BY DEF MatrixInv, Matrix, MoveNextRow
<1>3. r \in 0 .. m - 1 /\ r + 1 = rowsLeft[g] /\ r \in Nat /\ r <= m  BY <1>1, <1>2, SMT
<1>4. WordCnt(m) \in Nat /\ WordCnt(n) \in Nat /\ WordCnt(m) <= WordCnt(n) /\ n \in Nat
  <2>1. m + 1 \in Nat  BY SMT
  <2> QED  BY <2>1, <1>1, WordCntFacts
<1>5. /\ words \in Words(WordCnt(n) * n)
      /\ Holds(words, WordCnt(m), 0 .. r - 1, order)
      /\ Holds(words, WordCnt(n), r .. m, order)
  <2> DEFINE k == WordCnt(m)
             l == WordCnt(n)
             old == G.connections
  <2>1. /\ k \in Nat /\ l \in Nat /\ k <= l /\ k = WordCnt(m)
        /\ order \in SUBSET ((0 .. m - 1) \X (0 .. m - 1)) /\ r \in 0 .. m - 1
        /\ old \in Words(l * (m + 1))
        /\ Holds(old, k, 0 .. r, order) /\ Holds(old, l, r + 1 .. m, order)
        /\ words = MoveRow(old, r, k, l)
      BY <1>1, <1>2, <1>3, <1>4
  <2> HIDE DEF k, l, old, order, words, r
  <2>2. /\ words \in Words(l * (m + 1)) /\ Holds(words, k, 0 .. r - 1, order)
        /\ Holds(words, l, r .. m, order)
      BY <2>1, MovedRowHolds
  <2> QED  BY <2>2, <1>1 DEF k, l
<1>6. /\ taskOrderGraph' = [taskOrderGraph EXCEPT ![g].connections =
                MoveRow(@, r, G.wordCnt, WordCnt(n))]
      /\ rowsLeft' = [rowsLeft EXCEPT ![g] = @ - 1]
      /\ taskData' = taskData /\ taskResourceUsage' = taskResourceUsage /\ stated' = stated
      /\ usageCall' = usageCall
    BY DEF MoveNextRow, NextRow
<1>7. /\ G2 = [G EXCEPT !.connections = words]
      /\ \A f \in TaskGraphs : f # g => taskOrderGraph'[f] = taskOrderGraph[f]
      /\ rowsLeft'[g] = r /\ rowsLeft' \in [TaskGraphs -> Nat]
      /\ \A f \in TaskGraphs : f # g => rowsLeft'[f] = rowsLeft[f]
    BY <1>3, <1>6 DEF UserTypes
<1>8. /\ G2 \in Graphs /\ G2.connections = words /\ G2.vertexCnt = m
      /\ G2.wordCnt = WordCnt(m)
  <2>1. WordCnt(n) * n \in Nat  BY <1>4, SMT
  <2>2. words \in UNION {Words(cnt) : cnt \in Nat}  BY <2>1, <1>5
  <2> QED  BY <2>2, <1>1, <1>2, <1>7 DEF Graphs
<1>9. UserTypes'
    BY <1>6, <1>7, <1>8 DEF UserTypes
<1>10. Matrix(n, G2, r, order)
  <2>1. n # m  BY <1>1, SMT
  <2> HIDE DEF words, r, order, n, G2
  <2> QED  BY <2>1, <1>1, <1>3, <1>4, <1>5, <1>8 DEF Matrix
<1>11. MatrixInv'
    BY <1>6, <1>7, <1>10 DEF MatrixInv
<1> QED  BY <1>6, <1>9, <1>11, UsageStays

LEMMA ResizeInv ==
    ASSUME UserInv, NEW g \in TaskGraphs, Resize(g)
    PROVE  UserInv'
<1> DEFINE n == Len(taskData[g])
           G == taskOrderGraph[g]
           order == stated[g].order
           G2 == taskOrderGraph'[g]
<1> USE DEF UserInv
<1>1. PICK m \in Nat :
        /\ n = m + 1
        /\ order \in SUBSET ((0 .. m - 1) \X (0 .. m - 1))
        /\ Holds(G.connections, WordCnt(n), 0 .. m, order)
    BY DEF MatrixInv, Matrix, Resize, Resizing
<1>2. G \in Graphs /\ G.connections \in Words(WordCnt(n) * n)
    BY DEF MatrixInv, Matrix
<1>3. n \in Nat /\ WordCnt(n) \in Nat
  <2>1. n \in Nat  BY DEF MatrixInv, Matrix
  <2> QED  BY <2>1, WordCntFacts
<1>4. 0 .. n - 1 = 0 .. m /\ 0 .. m - 1 \subseteq 0 .. n - 1  BY <1>1, SMT
<1>5. /\ taskOrderGraph' = [taskOrderGraph EXCEPT ![g].wordCnt = WordCnt(n), ![g].vertexCnt = n]
      /\ rowsLeft' = rowsLeft /\ rowsLeft[g] = 0
      /\ taskData' = taskData /\ taskResourceUsage' = taskResourceUsage /\ stated' = stated
      /\ usageCall' = usageCall
    BY DEF Resize
<1>6. /\ G2 = [G EXCEPT !.wordCnt = WordCnt(n), !.vertexCnt = n]
      /\ \A f \in TaskGraphs : f # g => taskOrderGraph'[f] = taskOrderGraph[f]
    BY <1>5 DEF UserTypes
<1>7. /\ G2 \in Graphs /\ G2.connections = G.connections /\ G2.vertexCnt = n
      /\ G2.wordCnt = WordCnt(n)
    BY <1>2, <1>3, <1>6 DEF Graphs
<1>8. UserTypes'
    BY <1>5, <1>6, <1>7 DEF UserTypes
<1>9. Matrix(n, G2, 0, order)
    BY <1>1, <1>2, <1>3, <1>4, <1>7 DEF Matrix
<1>10. MatrixInv'
    BY <1>5, <1>6, <1>9 DEF MatrixInv
<1> QED  BY <1>5, <1>8, <1>10, UsageStays

LEMMA SetNextInv ==
    ASSUME UserInv, NEW g \in TaskGraphs, NEW task \in TaskIds(g), NEW next \in TaskIds(g),
           NEW set \in BOOLEAN, SetNext(g, task, next, set)
    PROVE  UserInv'
<1> DEFINE n == Len(taskData[g])
           G == taskOrderGraph[g]
           order == stated[g].order
           order2 == IF set THEN order \cup {<<task, next>>} ELSE order \ {<<task, next>>}
           G2 == taskOrderGraph'[g]
<1> USE DEF UserInv
<1>1. /\ n \in Nat /\ n = G.vertexCnt /\ G.wordCnt = WordCnt(n) /\ rowsLeft[g] = 0 /\ G \in Graphs
      /\ G.connections \in Words(WordCnt(n) * n)
      /\ order \in SUBSET ((0 .. n - 1) \X (0 .. n - 1))
      /\ Holds(G.connections, WordCnt(n), 0 .. n - 1, order)
    BY DEF MatrixInv, Matrix, SetNext, NoCallActive, Resizing
<1>2. task \in 0 .. n - 1 /\ next \in 0 .. n - 1  BY DEF TaskIds
<1>3. /\ SetConnected(G, task, next, set).vertexCnt = G.vertexCnt
      /\ SetConnected(G, task, next, set).wordCnt = WordCnt(n)
      /\ SetConnected(G, task, next, set) \in Graphs
      /\ SetConnected(G, task, next, set).connections \in Words(WordCnt(n) * n)
      /\ Holds(SetConnected(G, task, next, set).connections, WordCnt(n), 0 .. n - 1, order2)
  <2>1. order2 = IF set THEN order \cup {<<task, next>>} ELSE order \ {<<task, next>>}
      OBVIOUS
  <2>2. /\ n \in Nat /\ G \in Graphs /\ order \in SUBSET ((0 .. n - 1) \X (0 .. n - 1))
        /\ G.wordCnt = WordCnt(n) /\ G.connections \in Words(WordCnt(n) * n)
        /\ Holds(G.connections, WordCnt(n), 0 .. n - 1, order)
      BY <1>1
  <2> HIDE DEF n, G, order, order2
  <2>3. /\ SetConnected(G, task, next, set).vertexCnt = G.vertexCnt
        /\ SetConnected(G, task, next, set).wordCnt = G.wordCnt
      BY <2>2 DEF SetConnected, Graphs
  <2>4. /\ SetConnected(G, task, next, set) \in Graphs
        /\ SetConnected(G, task, next, set).connections \in Words(WordCnt(n) * n)
        /\ Holds(SetConnected(G, task, next, set).connections, WordCnt(n), 0 .. n - 1, order2)
      BY <2>1, <2>2, <1>2, SetConnectedHolds
  <2> QED  BY <2>2, <2>3, <2>4
<1>4. order2 \in SUBSET ((0 .. n - 1) \X (0 .. n - 1)) /\ order2 \in SUBSET (Nat \X Nat)
  <2>1. 0 .. n - 1 \subseteq Nat  BY SMT
  <2> HIDE DEF n, order
  <2> QED  BY <1>1, <1>2, <2>1
<1>5. /\ taskOrderGraph' = [taskOrderGraph EXCEPT ![g] = SetConnected(@, task, next, set)]
      /\ stated' = [stated EXCEPT ![g].order =
                        IF set THEN @ \cup {<<task, next>>} ELSE @ \ {<<task, next>>}]
      /\ taskData' = taskData /\ taskResourceUsage' = taskResourceUsage /\ rowsLeft' = rowsLeft
      /\ usageCall' = usageCall
    BY DEF SetNext
<1>6. /\ G2 = SetConnected(G, task, next, set)
      /\ \A f \in TaskGraphs : f # g => taskOrderGraph'[f] = taskOrderGraph[f]
    BY <1>5 DEF UserTypes
<1>7. /\ stated'[g] = [stated[g] EXCEPT !.order = order2]
      /\ \A f \in TaskGraphs : f # g => stated'[f] = stated[f]
    BY <1>5 DEF UserTypes
<1>8. /\ stated'[g].order = order2 /\ stated'[g].usage = stated[g].usage
      /\ stated'[g] \in Stated
    BY <1>4, <1>7 DEF UserTypes, Stated
<1>9. /\ G2 \in Graphs /\ G2.connections \in Words(WordCnt(n) * n)
      /\ Holds(G2.connections, WordCnt(n), 0 .. n - 1, order2)
      /\ G2.vertexCnt = n /\ G2.wordCnt = WordCnt(n)
    BY <1>1, <1>3, <1>6
<1>10. UserTypes'
  <2>1. stated' \in [TaskGraphs -> Stated]
      BY <1>5, <1>7, <1>8 DEF UserTypes
  <2>2. taskOrderGraph' \in [TaskGraphs -> Graphs]
      BY <1>5, <1>6, <1>9 DEF UserTypes
  <2> QED  BY <2>1, <2>2, <1>5 DEF UserTypes
<1>11. Matrix(n, G2, rowsLeft[g], order2)
  <2> HIDE DEF G2, order2
  <2> QED  BY <1>1, <1>4, <1>9 DEF Matrix
<1>12. MatrixInv'
    BY <1>5, <1>6, <1>7, <1>8, <1>11 DEF MatrixInv
<1>13. UsageInv'
  <2>1. \A f \in TaskGraphs : stated'[f].usage = stated[f].usage  BY <1>7, <1>8
  <2> QED  BY <2>1, <1>5, UsageStays
<1> QED  BY <1>10, <1>12, <1>13

------------------------------------------------------------------------------
(***************************************************************************)
(* The multimap.                                                           *)
(***************************************************************************)
LEMMA AddedToBag ==
    ASSUME NEW S, NEW e, e \notin S
    PROVE  SetToBag(S) (+) SetToBag({e}) = SetToBag(S \cup {e})
  BY DEF (+), SetToBag

LEMMA RemovedFromBag ==
    ASSUME NEW S, NEW e \in S
    PROVE  SetToBag(S) (-) SetToBag({e}) = SetToBag(S \ {e})
  BY DEF (-), SetToBag

LEMMA SetOfBag == ASSUME NEW S  PROVE BagToSet(SetToBag(S)) = S
  BY DEF BagToSet, SetToBag

LEMMA NothingInBag == ASSUME NEW S, SetToBag(S) = EmptyBag  PROVE S = {}
<1>1. BagToSet(SetToBag(S)) = BagToSet(SetToBag({}))  BY DEF EmptyBag
<1> QED  BY <1>1, SetOfBag

LEMMA EntriesOfBoth ==
    ASSUME NEW A, NEW B
    PROVE  EntriesOf(A \cup B) = EntriesOf(A) \cup EntriesOf(B)
  BY DEF EntriesOf

\* What a call asks for as an entry; no entry beside it has its task and resource.
LEMMA AskedEntry ==
    ASSUME NEW call
    PROVE  /\ call.usage = "NOT_USED" => EntriesOf(Asked(call)) = {}
           /\ call.usage # "NOT_USED" =>
                EntriesOf(Asked(call)) = {Entry(call.task, call.resource, call.usage)}
<1>1. EntriesOf({}) = {}  BY DEF EntriesOf
<1>2. \A t, r, u : EntriesOf({<<t, r, u>>}) = {Entry(t, r, u)}  BY DEF EntriesOf
<1> QED  BY <1>1, <1>2 DEF Asked

LEMMA OthersApart ==
    ASSUME NEW U, NEW task, NEW resource, NEW e \in EntriesOf(Besides(U, task, resource))
    PROVE  e.task # task \/ e.resource # resource
<1>1. PICK u \in U : (u[1] # task \/ u[2] # resource) /\ e = Entry(u[1], u[2], u[3])
    BY DEF EntriesOf, Besides
<1> QED  BY <1>1 DEF Entry

LEMMA OwnEntry ==
    ASSUME NEW task, NEW resource, NEW usage,
           NEW e \in {Entry(task, resource, u) : u \in Usages}
    PROVE  /\ e.task = task /\ e.resource = resource
           /\ [e EXCEPT !.locking = usage = "LOCKING"] = Entry(task, resource, usage)
<1>1. PICK u \in Usages : e = Entry(task, resource, u)  OBVIOUS
<1>2. e = [task |-> task, resource |-> resource, locking |-> u = "LOCKING"]  BY <1>1 DEF Entry
<1> QED  BY <1>2 DEF Entry

\* When the range has been walked, the entry that is asked for is there, or added.
LEMMA EmplacedHolds ==
    ASSUME NEW call, NEW U, NEW bag, Walking(call, bag, U), call.left = EmptyBag
    PROVE  IF Missing(call) THEN bag (+) SetToBag({Entry(call.task, call.resource, call.usage)})
                                = SetToBag(EntriesOf(U))
           ELSE bag = SetToBag(EntriesOf(U))
<1> DEFINE others == EntriesOf(Besides(U, call.task, call.resource))
           asked == Entry(call.task, call.resource, call.usage)
<1>1. PICK own, rest :
                  /\ rest \subseteq others \cup own
                  /\ bag = SetToBag(others \cup own) /\ call.left = SetToBag(rest)
                  /\ IF call.found THEN call.usage # "NOT_USED" /\ own = EntriesOf(Asked(call))
                     ELSE own \subseteq rest
    BY DEF Walking
<1>2. rest = {}  BY <1>1, NothingInBag
<1>3. EntriesOf(U) = others \cup EntriesOf(Asked(call))
  <2>1. U = Besides(U, call.task, call.resource) \cup Asked(call)  BY DEF Walking
  <2> QED  BY <2>1, EntriesOfBoth
<1>4. asked \notin others
  <2>1. asked.task = call.task /\ asked.resource = call.resource  BY DEF Entry
  <2> QED  BY <2>1, OthersApart
<1>5. CASE call.found  BY <1>1, <1>3, <1>5 DEF Missing
<1>6. CASE ~call.found
  <2>1. bag = SetToBag(others)
    <3>1. own = {}  BY <1>1, <1>2, <1>6
    <3> QED  BY <1>1, <3>1
  <2>2. CASE call.usage = "NOT_USED"
    <3>1. EntriesOf(U) = others  BY <1>3, <2>2, AskedEntry
    <3> QED  BY <2>1, <2>2, <3>1 DEF Missing
  <2>3. CASE call.usage # "NOT_USED"
    <3>1. EntriesOf(U) = others \cup {asked}  BY <1>3, <2>3, AskedEntry
    <3>2. SetToBag(others) (+) SetToBag({asked}) = SetToBag(others \cup {asked})  BY <1>4, AddedToBag
    <3> QED  BY <1>6, <2>1, <2>3, <3>1, <3>2 DEF Missing
  <2> QED  BY <2>2, <2>3
<1> QED  BY <1>5, <1>6

\* A call that begins has everything of its range to visit.
LEMMA WalkBegins ==
    ASSUME NEW g \in TaskGraphs, NEW task, NEW resource, NEW usage \in Usages \cup {"NOT_USED"},
           NEW U \in SUBSET (Nat \X AllResources \X Usages), Once(U),
           NEW call, NEW bag, bag = SetToBag(EntriesOf(U)),
           call = [graph |-> g, task |-> task, resource |-> resource, usage |-> usage,
                   left |-> Restrict(bag, {e \in BagToSet(bag) : e.resource = resource}),
                   found |-> FALSE]
    PROVE  /\ Walking(call, bag, Besides(U, task, resource) \cup Asked(call))
           /\ Once(Besides(U, task, resource) \cup Asked(call))
<1> DEFINE mine == {u \in U : u[1] = task /\ u[2] = resource}
           own == EntriesOf(mine)
           besides == Besides(U, task, resource)
           others == EntriesOf(besides)
           rest == {e \in EntriesOf(U) : e.resource = resource}
           new == besides \cup Asked(call)
<1>1. /\ call.graph = g /\ call.task = task /\ call.resource = resource /\ call.usage = usage
      /\ call.found = FALSE
      /\ call.left = Restrict(bag, {e \in BagToSet(bag) : e.resource = resource})
    OBVIOUS
<1>2. call.left = SetToBag(rest)
  <2>1. BagToSet(bag) = EntriesOf(U)  BY SetOfBag
  <2>2. call.left = Restrict(SetToBag(EntriesOf(U)), rest)  BY <1>1, <2>1
  <2>3. \A S, T : T \subseteq S => Restrict(SetToBag(S), T) = SetToBag(T)  BY DEF Restrict, SetToBag
  <2>4. rest \subseteq EntriesOf(U)  OBVIOUS
  <2> QED  BY <2>2, <2>3, <2>4
<1>3. EntriesOf(U) = others \cup own
  <2>1. U = besides \cup mine  BY DEF Besides
  <2>2. EntriesOf(besides \cup mine) = others \cup own  BY EntriesOfBoth
  <2> HIDE DEF besides, mine, own, others
  <2> QED  BY <2>1, <2>2
<1>4. ASSUME NEW u \in mine
      PROVE  u[3] \in Usages /\ Entry(u[1], u[2], u[3]) = Entry(task, resource, u[3])
    OBVIOUS
<1>5. own \in SUBSET {Entry(task, resource, u) : u \in Usages}
  <2> SUFFICES ASSUME NEW e \in own  PROVE e \in {Entry(task, resource, u) : u \in Usages}
      OBVIOUS
  <2>1. PICK u \in mine : e = Entry(u[1], u[2], u[3])  BY DEF EntriesOf
  <2> QED  BY <1>4, <2>1
<1>6. \A x, y \in own : x = y
  <2> SUFFICES ASSUME NEW x \in own, NEW y \in own  PROVE x = y  OBVIOUS
  <2>1. PICK u \in mine : x = Entry(u[1], u[2], u[3])  BY DEF EntriesOf
  <2>2. PICK w \in mine : y = Entry(w[1], w[2], w[3])  BY DEF EntriesOf
  <2>3. u = w  BY DEF Once
  <2> QED  BY <2>1, <2>2, <2>3
<1>7. own \subseteq rest
  <2>1. \A e \in own : e.resource = resource  BY <1>5 DEF Entry
  <2> QED  BY <1>3, <2>1
<1>8. Besides(new, task, resource) = besides
  <2>1. Asked(call) \subseteq {<<task, resource, usage>>}  BY <1>1 DEF Asked
  <2>2. \A u \in Asked(call) : u[1] = task /\ u[2] = resource  BY <2>1
  <2> QED  BY <2>2 DEF Besides
<1>9. Once(new)
  <2>1. \A u, w \in Asked(call) : u = w  BY DEF Asked
  <2>2. \A u \in Asked(call) : u[1] = task /\ u[2] = resource  BY <1>1 DEF Asked
  <2> QED  BY <2>1, <2>2 DEF Once, Besides
<1>10. rest \in SUBSET (others \cup own)  BY <1>3
<1>11. /\ new = Besides(new, call.task, call.resource) \cup Asked(call)
       /\ others = EntriesOf(Besides(new, call.task, call.resource))
    BY <1>1, <1>8
<1>12. bag = SetToBag(others \cup own)  BY <1>3
<1>13. \A e \in rest : e.resource = call.resource  BY <1>1
<1>14. own \in SUBSET {Entry(call.task, call.resource, u) : u \in Usages}  BY <1>1, <1>5
<1> HIDE DEF own, rest, others, new, besides
<1>15. Walking(call, bag, new)
    BY <1>1, <1>2, <1>6, <1>7, <1>10, <1>11, <1>12, <1>13, <1>14 DEF Walking
<1> QED  BY <1>9, <1>15 DEF new, besides

LEMMA CallFields ==
    ASSUME NEW g, NEW task, NEW resource, NEW usage, NEW left, NEW found, NEW call,
           call = [graph |-> g, task |-> task, resource |-> resource, usage |-> usage,
                   left |-> left, found |-> found]
    PROVE  /\ call.graph = g /\ call.task = task /\ call.resource = resource
           /\ call.usage = usage /\ call.left = left /\ call.found = found
           /\ call = [graph |-> call.graph, task |-> call.task, resource |-> call.resource,
                      usage |-> call.usage, left |-> call.left, found |-> call.found]
  OBVIOUS

\* An entry that is visited: what is still to be met is met later.
LEMMA VisitKeeps ==
    ASSUME NEW call, NEW U, NEW bag, Walking(call, bag, U), NEW e \in BagToSet(call.left),
           NEW passed, passed = [call EXCEPT !.left = @ (-) SetToBag({e})]
    PROVE  /\ e.task # call.task => Walking(passed, bag, U)
           /\ e.task = call.task /\ call.usage = "NOT_USED" => Walking(passed, bag (-) SetToBag({e}), U)
           /\ e.task = call.task /\ call.usage # "NOT_USED" =>
                Walking([passed EXCEPT !.found = TRUE],
                        (bag (-) SetToBag({e})) (+) SetToBag({[e EXCEPT !.locking = call.usage = "LOCKING"]}), U)
           /\ e.task = call.task => ~call.found
<1> DEFINE others == EntriesOf(Besides(U, call.task, call.resource))
           Owns == {Entry(call.task, call.resource, u) : u \in Usages}
<1>1. PICK own, rest :
        /\ own \in SUBSET Owns
        /\ rest \subseteq others \cup own
        /\ bag = SetToBag(others \cup own) /\ call.left = SetToBag(rest)
        /\ \A x \in rest : x.resource = call.resource
        /\ \A x, y \in own : x = y
        /\ IF call.found
           THEN call.usage # "NOT_USED" /\ own = EntriesOf(Asked(call)) /\ own \cap rest = {}
           ELSE own \subseteq rest
    BY DEF Walking
<1>2. /\ call = [graph |-> call.graph, task |-> call.task, resource |-> call.resource,
                 usage |-> call.usage, left |-> call.left, found |-> call.found]
      /\ call.graph \in TaskGraphs /\ call.usage \in Usages \cup {"NOT_USED"}
      /\ U = Besides(U, call.task, call.resource) \cup Asked(call) /\ call.found \in BOOLEAN
    BY DEF Walking
<1>3. e \in rest  BY <1>1, SetOfBag
<1>4. call.left (-) SetToBag({e}) = SetToBag(rest \ {e})  BY <1>1, <1>3, RemovedFromBag
<1>5. passed = [graph |-> call.graph, task |-> call.task, resource |-> call.resource,
                usage |-> call.usage, left |-> SetToBag(rest \ {e}), found |-> call.found]
    BY <1>2, <1>4
<1>6. \A x \in own : x.task = call.task /\ x.resource = call.resource  BY <1>1, OwnEntry
<1>7. \A x \in others : x.task # call.task \/ x.resource # call.resource  BY OthersApart
<1>8. CASE e.task # call.task
  <2>1. e \notin own  BY <1>6, <1>8
  <2>2. Asked(passed) = Asked(call)  BY <1>5 DEF Asked
  <2>3. /\ passed.graph = call.graph /\ passed.task = call.task /\ passed.resource = call.resource
        /\ passed.usage = call.usage /\ passed.left = SetToBag(rest \ {e}) /\ passed.found = call.found
        /\ passed = [graph |-> passed.graph, task |-> passed.task, resource |-> passed.resource,
                     usage |-> passed.usage, left |-> passed.left, found |-> passed.found]
      BY ONLY <1>5, CallFields
  <2>4. PICK rest2 : rest2 = rest \ {e}  OBVIOUS
  <2>5. /\ rest2 \in SUBSET (others \cup own) /\ \A x \in rest2 : x.resource = passed.resource
        /\ passed.left = SetToBag(rest2)
        /\ IF passed.found
           THEN passed.usage # "NOT_USED" /\ own = EntriesOf(Asked(passed)) /\ own \cap rest2 = {}
           ELSE own \subseteq rest2
    <3>1. CASE call.found  BY <1>1, <2>2, <2>3, <2>4, <3>1
    <3>2. CASE ~call.found  BY <1>1, <2>1, <2>3, <2>4, <3>2
    <3> QED  BY <3>1, <3>2
  <2>6. Walking(passed, bag, U)
    <3>1. others = EntriesOf(Besides(U, passed.task, passed.resource))  BY <2>3
    <3>2. own \in SUBSET {Entry(passed.task, passed.resource, u) : u \in Usages}  BY <1>1, <2>3
    <3>3. U = Besides(U, passed.task, passed.resource) \cup Asked(passed)  BY <1>2, <2>2, <2>3
    <3>4. /\ passed.graph \in TaskGraphs /\ passed.usage \in Usages \cup {"NOT_USED"}
          /\ passed.found \in BOOLEAN
        BY <1>2, <2>3
    <3> HIDE DEF others
    <3> QED  BY <1>1, <2>3, <2>5, <3>1, <3>2, <3>3, <3>4 DEF Walking
  <2> QED  BY <1>8, <2>6
<1>9. CASE e.task = call.task
  <2>1. e \in own /\ ~call.found
    <3>1. e \notin others  BY <1>1, <1>3, <1>7, <1>9
    <3>2. e \in own  BY <1>1, <1>3, <3>1
    <3> QED  BY <1>1, <1>3, <3>2
  <2>2. own = {e} /\ own \cap others = {}  BY <1>1, <1>6, <1>7, <2>1
  <2>3. bag (-) SetToBag({e}) = SetToBag(others)
    <3>1. bag (-) SetToBag({e}) = SetToBag((others \cup own) \ {e})  BY <1>1, <2>1, RemovedFromBag
    <3>2. (others \cup own) \ {e} = others  BY <2>2
    <3> QED  BY <3>1, <3>2
  <2>4. PICK rest2 : rest2 = rest \ {e}  OBVIOUS
  <2>5. rest2 \subseteq others /\ \A x \in rest2 : x.resource = call.resource  BY <1>1, <2>2, <2>4
  <2>6. CASE call.usage = "NOT_USED"
    <3>1. Asked(passed) = Asked(call)  BY <1>5 DEF Asked
    <3>2. /\ passed.graph = call.graph /\ passed.task = call.task /\ passed.resource = call.resource
          /\ passed.usage = call.usage /\ passed.left = SetToBag(rest2) /\ passed.found = FALSE
          /\ passed = [graph |-> passed.graph, task |-> passed.task, resource |-> passed.resource,
                       usage |-> passed.usage, left |-> passed.left, found |-> passed.found]
      <4>1. passed = [graph |-> call.graph, task |-> call.task, resource |-> call.resource,
                      usage |-> call.usage, left |-> SetToBag(rest2), found |-> FALSE]
        <5>1. call.found = FALSE  BY <1>2, <2>1
        <5> QED  BY ONLY <1>5, <2>4, <5>1
      <4> QED  BY ONLY <4>1, CallFields
    <3>3. others = EntriesOf(Besides(U, passed.task, passed.resource))  BY <3>2
    <3>4. U = Besides(U, passed.task, passed.resource) \cup Asked(passed)  BY <1>2, <3>1, <3>2
    <3>5. passed.graph \in TaskGraphs /\ passed.usage \in Usages \cup {"NOT_USED"}  BY <1>2, <3>2
    <3>6. PICK none : none = {}  OBVIOUS
    <3>7. \A x \in rest2 : x.resource = passed.resource  BY <2>5, <3>2
    <3>8. /\ none \in SUBSET {Entry(passed.task, passed.resource, u) : u \in Usages}
          /\ rest2 \in SUBSET (others \cup none) /\ others \cup none = others
          /\ none \subseteq rest2 /\ \A x, y \in none : x = y
        BY <2>5, <3>6
    <3> HIDE DEF others
    <3>9. SetToBag(others) = SetToBag(others \cup none)  BY <3>8
    <3>10. Walking(passed, SetToBag(others), U)
        BY <3>2, <3>3, <3>4, <3>5, <3>7, <3>8, <3>9 DEF Walking
    <3> QED  BY <1>9, <2>1, <2>3, <2>6, <3>10
  <2>7. CASE call.usage # "NOT_USED"
    <3> DEFINE next == [passed EXCEPT !.found = TRUE]
    <3>1. PICK changed : changed = Entry(call.task, call.resource, call.usage)  OBVIOUS
    <3>2. /\ next.graph = call.graph /\ next.task = call.task /\ next.resource = call.resource
          /\ next.usage = call.usage /\ next.left = SetToBag(rest2) /\ next.found = TRUE
          /\ next = [graph |-> next.graph, task |-> next.task, resource |-> next.resource,
                     usage |-> next.usage, left |-> next.left, found |-> next.found]
      <4>1. next = [graph |-> call.graph, task |-> call.task, resource |-> call.resource,
                    usage |-> call.usage, left |-> SetToBag(rest2), found |-> TRUE]
        <5>1. PICK left : left = SetToBag(rest2)  OBVIOUS
        <5>2. passed = [graph |-> call.graph, task |-> call.task, resource |-> call.resource,
                        usage |-> call.usage, left |-> left, found |-> call.found]
            BY ONLY <1>5, <2>4, <5>1
        <5>3. next = [graph |-> call.graph, task |-> call.task, resource |-> call.resource,
                      usage |-> call.usage, left |-> left, found |-> TRUE]
          <6>1. PICK b : b = TRUE  OBVIOUS
          <6>2. [passed EXCEPT !.found = b] =
                    [graph |-> call.graph, task |-> call.task, resource |-> call.resource,
                     usage |-> call.usage, left |-> left, found |-> b]
              BY ONLY <5>2
          <6>3. next = [passed EXCEPT !.found = b]  BY <6>1, Zenon
          <6>4. [graph |-> call.graph, task |-> call.task, resource |-> call.resource,
                 usage |-> call.usage, left |-> left, found |-> b] =
                    [graph |-> call.graph, task |-> call.task, resource |-> call.resource,
                     usage |-> call.usage, left |-> left, found |-> TRUE]
              BY ONLY <6>1
          <6> QED  BY <6>2, <6>3, <6>4, Zenon
        <5> QED  BY ONLY <5>1, <5>3
      <4> HIDE DEF next
      <4> QED  BY ONLY <4>1, CallFields
    <3> HIDE DEF next
    <3>3. [e EXCEPT !.locking = call.usage = "LOCKING"] = changed  BY <1>1, <2>1, <3>1, OwnEntry
    <3>4. changed \in Owns /\ changed \notin others
      <4>1. changed \in Owns  BY <1>2, <2>7, <3>1
      <4>2. changed.task = call.task /\ changed.resource = call.resource  BY <3>1 DEF Entry
      <4> QED  BY <1>7, <4>1, <4>2
    <3>5. SetToBag(others) (+) SetToBag({changed}) = SetToBag(others \cup {changed})  BY <3>4, AddedToBag
    <3>6. EntriesOf(Asked(next)) = {changed} /\ Asked(next) = Asked(call)
      <4>1. EntriesOf(Asked(next)) = {changed}  BY <2>7, <3>1, <3>2, AskedEntry
      <4> QED  BY <4>1, <3>2 DEF Asked
    <3>7. others = EntriesOf(Besides(U, next.task, next.resource))  BY <3>2
    <3>8. U = Besides(U, next.task, next.resource) \cup Asked(next)  BY <1>2, <3>2, <3>6
    <3>9. next.graph \in TaskGraphs /\ next.usage \in Usages \cup {"NOT_USED"}  BY <1>2, <3>2
    <3>10. PICK one : one = {changed}  OBVIOUS
    <3>11. /\ one \in SUBSET {Entry(next.task, next.resource, u) : u \in Usages}
           /\ rest2 \in SUBSET (others \cup one) /\ one \cap rest2 = {}
           /\ \A x, y \in one : x = y
           /\ one = EntriesOf(Asked(next))
        BY <2>5, <3>2, <3>4, <3>6, <3>10
    <3>12. \A x \in rest2 : x.resource = next.resource  BY <2>5, <3>2
    <3> HIDE DEF others
    <3>13. Walking(next, SetToBag(others \cup one), U)
        BY <2>7, <3>2, <3>7, <3>8, <3>9, <3>11, <3>12 DEF Walking
    <3> QED  BY <1>9, <2>1, <2>3, <2>7, <3>3, <3>5, <3>10, <3>13 DEF next
  <2> QED  BY <1>2, <2>6, <2>7
<1> QED  BY <1>8, <1>9

LEMMA SetResourceUsageInv ==
    ASSUME UserInv, NEW g \in TaskGraphs, NEW task \in TaskIds(g), NEW resource \in ResourcesOf[g],
           NEW usage \in Usages \cup {"NOT_USED"}, SetResourceUsage(g, task, resource, usage)
    PROVE  UserInv'
<1> USE DEF UserInv
<1>1. PICK call : call = [graph |-> g, task |-> task, resource |-> resource, usage |-> usage,
                          left |-> EqualRange(g, resource), found |-> FALSE]
    OBVIOUS
<1>2. /\ call.graph = g /\ call.task = task /\ call.resource = resource /\ call.usage = usage
    BY <1>1
<1>3. PICK U, bag, new : /\ U = stated[g].usage /\ bag = taskResourceUsage[g]
                         /\ new = Besides(U, task, resource) \cup Asked(call)
    OBVIOUS
<1>4. /\ usageCall = <<>>
      /\ IF call.left = EmptyBag THEN taskResourceUsage' = Emplaced(call) /\ UNCHANGED usageCall
         ELSE usageCall' = <<call>> /\ UNCHANGED taskResourceUsage
      /\ taskData' = taskData /\ taskOrderGraph' = taskOrderGraph /\ rowsLeft' = rowsLeft
    BY <1>1 DEF SetResourceUsage, NoCallActive
<1>5. stated' = [stated EXCEPT ![g].usage = new]
  <2>1. stated' = [stated EXCEPT ![g].usage =
            {u \in @ : u[1] # task \/ u[2] # resource}
                \cup (IF usage = "NOT_USED" THEN {} ELSE {<<task, resource, usage>>})]
      BY DEF SetResourceUsage
  <2> QED  BY <2>1, <1>2, <1>3 DEF Besides, Asked, UserTypes
<1>6. /\ stated'[g].order = stated[g].order /\ stated'[g].usage = new
      /\ stated'[g] = [stated[g] EXCEPT !.usage = new]
      /\ \A f \in TaskGraphs : f # g => stated'[f] = stated[f]
    BY <1>5 DEF UserTypes, Stated
<1>7. U \in SUBSET (Nat \X AllResources \X Usages)  BY <1>3 DEF UserTypes, Stated
<1>8. stated' \in [TaskGraphs -> Stated]
  <2>1. resource \in AllResources  BY DEF AllResources
  <2>2. task \in Nat  BY SMT DEF TaskIds
  <2>3. Asked(call) \in SUBSET (Nat \X AllResources \X Usages)  BY <1>2, <2>1, <2>2 DEF Asked
  <2>4. Besides(U, task, resource) \subseteq U  BY DEF Besides
  <2>5. new \in SUBSET (Nat \X AllResources \X Usages)  BY <1>3, <1>7, <2>3, <2>4
  <2>6. stated'[g] \in Stated  BY <2>5, <1>6 DEF UserTypes, Stated
  <2> QED  BY <2>6, <1>5, <1>6 DEF UserTypes
<1>9. Walking(call, bag, new) /\ Once(new)
  <2>1. bag = SetToBag(EntriesOf(U)) /\ Once(U)  BY <1>3, <1>4 DEF UsageInv
  <2>2. call = [graph |-> g, task |-> task, resource |-> resource, usage |-> usage,
                left |-> Restrict(bag, {e \in BagToSet(bag) : e.resource = resource}), found |-> FALSE]
      BY <1>1, <1>3 DEF EqualRange
  <2> QED  BY <1>3, <1>7, <2>1, <2>2, WalkBegins
<1>10. MatrixInv'
  <2>1. \A f \in TaskGraphs : stated'[f].order = stated[f].order  BY <1>6
  <2> QED  BY <2>1, <1>4 DEF MatrixInv
<1>11. \A f \in TaskGraphs :
        /\ Once(stated'[f].usage)
        /\ f # g => /\ stated'[f].usage = stated[f].usage
                    /\ taskResourceUsage[f] = SetToBag(EntriesOf(stated[f].usage))
    BY <1>4, <1>6, <1>9 DEF UsageInv
<1>12. CASE call.left = EmptyBag
  <2>1. taskResourceUsage' = Emplaced(call) /\ usageCall' = <<>>  BY <1>4, <1>12
  <2>2. /\ taskResourceUsage'[g] = SetToBag(EntriesOf(new))
        /\ \A f \in TaskGraphs : f # g => taskResourceUsage'[f] = taskResourceUsage[f]
        /\ DOMAIN taskResourceUsage' = TaskGraphs
        /\ taskResourceUsage' = [f \in TaskGraphs |-> taskResourceUsage'[f]]
      BY <1>2, <1>3, <1>9, <1>12, <2>1, EmplacedHolds DEF Emplaced, UserTypes
  <2>3. UserTypes'  BY <1>4, <1>8, <2>1, <2>2 DEF UserTypes
  <2>4. UsageInv'  BY <1>6, <1>11, <2>1, <2>2 DEF UsageInv
  <2> QED  BY <1>10, <2>3, <2>4
<1>13. CASE call.left # EmptyBag
  <2>1. usageCall' = <<call>> /\ taskResourceUsage' = taskResourceUsage  BY <1>4, <1>13
  <2>2. UserTypes'  BY <1>4, <1>8, <2>1 DEF UserTypes
  <2>3. usageCall'[1] = call /\ usageCall' # <<>>  BY <2>1
  <2>4. taskResourceUsage'[g] = bag /\ stated'[g].usage = new  BY <1>3, <1>6, <2>1
  <2>5. UsageInv'  BY <1>2, <1>9, <1>11, <2>1, <2>3, <2>4 DEF UsageInv
  <2> QED  BY <1>10, <2>2, <2>5
<1> QED  BY <1>12, <1>13

LEMMA WalkRangeInv ==
    ASSUME UserInv, WalkRange
    PROVE  UserInv'
<1> USE DEF UserInv
<1>1. PICK call, g : call = usageCall[1] /\ g = call.graph  OBVIOUS
<1>2. PICK bag, U : bag = taskResourceUsage[g] /\ U = stated[g].usage  OBVIOUS
<1>3. /\ usageCall # <<>> /\ usageCall = <<call>> /\ Head(usageCall) = call
      /\ Walking(call, bag, U)
  <2>1. usageCall # <<>>  BY DEF WalkRange
  <2> QED  BY <1>1, <1>2, <2>1 DEF UsageInv
<1>4. g \in TaskGraphs  BY <1>1, <1>3 DEF Walking
<1>5. /\ (\E e \in BagToSet(call.left) : VisitEntry(call, e)) \/ EndOfRange(call)
      /\ taskData' = taskData /\ taskOrderGraph' = taskOrderGraph /\ rowsLeft' = rowsLeft
      /\ stated' = stated
    BY <1>3 DEF WalkRange
<1>6. MatrixInv'  BY <1>5 DEF MatrixInv
<1>7. \A f \in TaskGraphs :
        /\ Once(stated[f].usage)
        /\ f # g => taskResourceUsage[f] = SetToBag(EntriesOf(stated[f].usage))
    BY <1>1, <1>3 DEF UsageInv
<1>8. ASSUME NEW next, usageCall' = <<next>>, next.graph = g, NEW bag2,
             taskResourceUsage' = [taskResourceUsage EXCEPT ![g] = bag2], Walking(next, bag2, U)
      PROVE  UserInv'
  <2>1. /\ taskResourceUsage'[g] = bag2
        /\ \A f \in TaskGraphs : f # g => taskResourceUsage'[f] = taskResourceUsage[f]
        /\ DOMAIN taskResourceUsage' = TaskGraphs
        /\ taskResourceUsage' = [f \in TaskGraphs |-> taskResourceUsage'[f]]
      BY <1>4, <1>8 DEF UserTypes
  <2>2. UserTypes'  BY <1>5, <2>1 DEF UserTypes
  <2>3. usageCall'[1] = next /\ usageCall' # <<>>  BY <1>8
  <2>4. stated'[g].usage = U  BY <1>2, <1>5
  <2>5. UsageInv'  BY <1>5, <1>7, <1>8, <2>1, <2>3, <2>4 DEF UsageInv
  <2> QED  BY <1>6, <2>2, <2>5
<1>9. ASSUME NEW e \in BagToSet(call.left), VisitEntry(call, e)  PROVE UserInv'
  <2>1. PICK passed : passed = [call EXCEPT !.left = @ (-) SetToBag({e})]  OBVIOUS
  <2>2. /\ passed.graph = g /\ [passed EXCEPT !.found = TRUE].graph = g
    <3>1. call = [graph |-> call.graph, task |-> call.task, resource |-> call.resource,
                  usage |-> call.usage, left |-> call.left, found |-> call.found]
        BY <1>3 DEF Walking
    <3> QED  BY <1>1, <2>1, <3>1
  <2>3. CASE e.task # call.task /\ usageCall' = <<passed>> /\ UNCHANGED taskResourceUsage
    <3>1. Walking(passed, bag, U)  BY <1>3, <2>1, <2>3, VisitKeeps
    <3>2. taskResourceUsage' = [taskResourceUsage EXCEPT ![g] = bag]  BY <1>2, <1>4, <2>3 DEF UserTypes
    <3> QED  BY <1>8, <2>2, <2>3, <3>1, <3>2
  <2>4. CASE /\ e.task = call.task /\ call.usage = "NOT_USED" /\ usageCall' = <<passed>>
             /\ taskResourceUsage' = [taskResourceUsage EXCEPT ![call.graph] = @ (-) SetToBag({e})]
    <3>1. Walking(passed, bag (-) SetToBag({e}), U)  BY <1>3, <2>1, <2>4, VisitKeeps
    <3>2. taskResourceUsage' = [taskResourceUsage EXCEPT ![g] = bag (-) SetToBag({e})]
        BY <1>1, <1>2, <2>4
    <3> QED  BY <1>8, <2>2, <2>4, <3>1, <3>2
  <2>5. CASE /\ e.task = call.task /\ call.usage # "NOT_USED"
             /\ usageCall' = <<[passed EXCEPT !.found = TRUE]>>
             /\ taskResourceUsage' = [taskResourceUsage EXCEPT ![call.graph] =
                    (@ (-) SetToBag({e})) (+) SetToBag({[e EXCEPT !.locking = call.usage = "LOCKING"]})]
    <3>1. PICK next, bag2 :
            /\ next = [passed EXCEPT !.found = TRUE]
            /\ bag2 = (bag (-) SetToBag({e})) (+) SetToBag({[e EXCEPT !.locking = call.usage = "LOCKING"]})
        OBVIOUS
    <3>2. Walking(next, bag2, U)  BY <1>3, <2>1, <2>5, <3>1, VisitKeeps
    <3>3. taskResourceUsage' = [taskResourceUsage EXCEPT ![g] = bag2]
        BY <1>1, <1>2, <2>5, <3>1
    <3> QED  BY <1>8, <2>2, <2>5, <3>1, <3>2, <3>3
  <2> QED  BY <1>9, <2>1, <2>3, <2>4, <2>5 DEF VisitEntry
<1>10. CASE EndOfRange(call)
  <2>1. taskResourceUsage' = Emplaced(call) /\ usageCall' = <<>> /\ call.left = EmptyBag
      BY <1>10 DEF EndOfRange
  <2>2. /\ taskResourceUsage'[g] = SetToBag(EntriesOf(U))
        /\ \A f \in TaskGraphs : f # g => taskResourceUsage'[f] = taskResourceUsage[f]
        /\ DOMAIN taskResourceUsage' = TaskGraphs
        /\ taskResourceUsage' = [f \in TaskGraphs |-> taskResourceUsage'[f]]
      BY <1>1, <1>2, <1>3, <1>4, <2>1, EmplacedHolds DEF Emplaced, UserTypes
  <2>3. UserTypes'  BY <1>5, <2>2 DEF UserTypes
  <2>4. UsageInv'  BY <1>2, <1>5, <1>7, <2>1, <2>2 DEF UsageInv
  <2> QED  BY <1>6, <2>3, <2>4
<1> QED  BY <1>5, <1>9, <1>10

------------------------------------------------------------------------------
(***************************************************************************)
(* The other calls.                                                        *)
(***************************************************************************)
LEMMA ClearInv ==
    ASSUME UserInv, NEW g \in TaskGraphs, Clear(g)
    PROVE  UserInv'
<1> USE DEF UserInv
<1>1. /\ taskOrderGraph' = [taskOrderGraph EXCEPT ![g] = EmptyGraph]
      /\ taskData' = [taskData EXCEPT ![g] = <<>>]
      /\ taskResourceUsage' = [taskResourceUsage EXCEPT ![g] = EmptyBag]
      /\ stated' = [stated EXCEPT ![g] = [order |-> {}, usage |-> {}]]
      /\ rowsLeft' = rowsLeft /\ usageCall' = usageCall /\ usageCall = <<>>
    BY DEF Clear, NoCallActive
<1>2. rowsLeft[g] = 0
    BY DEF MatrixInv, Matrix, Clear, NoCallActive, Resizing
<1>3. UserTypes'
  <2>1. [order |-> {}, usage |-> {}] \in Stated  BY DEF Stated
  <2>2. <<>> \in Seq(TaskGraphs \cup {NoGraph})  OBVIOUS
  <2>3. /\ taskData' \in [TaskGraphs -> Seq(TaskGraphs \cup {NoGraph})]
        /\ DOMAIN taskResourceUsage' = TaskGraphs
        /\ taskResourceUsage' = [f \in TaskGraphs |-> taskResourceUsage'[f]]
        /\ rowsLeft' \in [TaskGraphs -> Nat]
      BY <2>2, <1>1 DEF UserTypes
  <2>4. taskOrderGraph' \in [TaskGraphs -> Graphs]  BY <1>1, EmptyGraphMatrix DEF UserTypes
  <2>5. stated' \in [TaskGraphs -> Stated]  BY <2>1, <1>1 DEF UserTypes
  <2> QED  BY <2>3, <2>4, <2>5 DEF UserTypes
<1>4. MatrixInv'
  <2> SUFFICES ASSUME NEW f \in TaskGraphs
               PROVE  Matrix(Len(taskData'[f]), taskOrderGraph'[f], rowsLeft'[f], stated'[f].order)
      BY DEF MatrixInv
  <2>1. CASE f = g
    <3>1. /\ Len(taskData'[f]) = 0 /\ taskOrderGraph'[f] = EmptyGraph
          /\ rowsLeft'[f] = 0 /\ stated'[f].order = {}
        BY <2>1, <1>1, <1>2 DEF UserTypes
    <3> QED  BY <3>1, EmptyGraphMatrix
  <2>2. CASE f # g
    <3>1. /\ taskData'[f] = taskData[f] /\ taskOrderGraph'[f] = taskOrderGraph[f]
          /\ rowsLeft'[f] = rowsLeft[f] /\ stated'[f] = stated[f]
        BY <2>2, <1>1 DEF UserTypes
    <3> QED  BY <3>1 DEF MatrixInv
  <2> QED  BY <2>1, <2>2
<1>5. UsageInv'
  <2> SUFFICES ASSUME NEW f \in TaskGraphs
               PROVE  /\ Once(stated'[f].usage)
                      /\ taskResourceUsage'[f] = SetToBag(EntriesOf(stated'[f].usage))
      BY <1>1 DEF UsageInv
  <2>1. CASE f = g
    <3>1. taskResourceUsage'[f] = EmptyBag /\ stated'[f].usage = {}
        BY <2>1, <1>1 DEF UserTypes
    <3>2. EntriesOf({}) = {} /\ Once({})  BY DEF EntriesOf, Once
    <3> QED  BY <3>1, <3>2 DEF EmptyBag
  <2>2. CASE f # g
    <3>1. taskResourceUsage'[f] = taskResourceUsage[f] /\ stated'[f] = stated[f]
        BY <2>2, <1>1 DEF UserTypes
    <3> QED  BY <3>1, <1>1 DEF UsageInv
  <2> QED  BY <2>1, <2>2
<1> QED  BY <1>3, <1>4, <1>5

LEMMA CopyFromInv ==
    ASSUME UserInv, NEW g \in TaskGraphs, NEW h \in TaskGraphs, CopyFrom(g, h)
    PROVE  UserInv'
<1> USE DEF UserInv
<1>1. /\ taskData' = [taskData EXCEPT ![g] = taskData[h]]
      /\ taskResourceUsage' = [taskResourceUsage EXCEPT ![g] = taskResourceUsage[h]]
      /\ taskOrderGraph' = [taskOrderGraph EXCEPT ![g] = taskOrderGraph[h]]
      /\ stated' = [stated EXCEPT ![g] = stated[h]]
      /\ rowsLeft' = rowsLeft /\ usageCall' = usageCall /\ usageCall = <<>>
    BY DEF CopyFrom, NoCallActive
<1>2. rowsLeft[g] = 0 /\ rowsLeft[h] = 0
    BY DEF MatrixInv, Matrix, CopyFrom, NoCallActive, Resizing
<1>3. UserTypes'
    BY <1>1 DEF UserTypes
<1>4. \A f \in TaskGraphs :
        \E e \in TaskGraphs :
            /\ taskData'[f] = taskData[e] /\ taskOrderGraph'[f] = taskOrderGraph[e]
            /\ taskResourceUsage'[f] = taskResourceUsage[e]
            /\ rowsLeft'[f] = rowsLeft[e] /\ stated'[f] = stated[e]
  <2> SUFFICES ASSUME NEW f \in TaskGraphs
               PROVE  \E e \in TaskGraphs :
                        /\ taskData'[f] = taskData[e] /\ taskOrderGraph'[f] = taskOrderGraph[e]
                        /\ taskResourceUsage'[f] = taskResourceUsage[e]
                        /\ rowsLeft'[f] = rowsLeft[e] /\ stated'[f] = stated[e]
      OBVIOUS
  <2>1. CASE f = g
    <3>1. /\ taskData'[g] = taskData[h] /\ taskOrderGraph'[g] = taskOrderGraph[h]
          /\ taskResourceUsage'[g] = taskResourceUsage[h]
          /\ rowsLeft'[g] = rowsLeft[h] /\ stated'[g] = stated[h]
        BY <1>1, <1>2 DEF UserTypes
    <3> QED  BY <2>1, <3>1
  <2>2. CASE f # g
    <3>1. /\ taskData'[f] = taskData[f] /\ taskOrderGraph'[f] = taskOrderGraph[f]
          /\ taskResourceUsage'[f] = taskResourceUsage[f]
          /\ rowsLeft'[f] = rowsLeft[f] /\ stated'[f] = stated[f]
        BY <2>2, <1>1 DEF UserTypes
    <3> QED  BY <3>1
  <2> QED  BY <2>1, <2>2
<1>5. MatrixInv'
  <2> SUFFICES ASSUME NEW f \in TaskGraphs
               PROVE  Matrix(Len(taskData'[f]), taskOrderGraph'[f], rowsLeft'[f], stated'[f].order)
      BY DEF MatrixInv
  <2> QED  BY <1>4 DEF MatrixInv
<1>6. UsageInv'
  <2> SUFFICES ASSUME NEW f \in TaskGraphs
               PROVE  /\ Once(stated'[f].usage)
                      /\ taskResourceUsage'[f] = SetToBag(EntriesOf(stated'[f].usage))
      BY <1>1 DEF UsageInv
  <2> QED  BY <1>1, <1>4 DEF UsageInv
<1> QED  BY <1>3, <1>5, <1>6

LEMMA UserNextInv == UserInv /\ [UserNext]_userVars => UserInv'
<1> SUFFICES ASSUME UserInv, [UserNext]_userVars  PROVE UserInv'  OBVIOUS
<1>1. CASE UNCHANGED userVars
  <2>1. UserTypes' /\ MatrixInv'  BY <1>1 DEF userVars, UserInv, UserTypes, MatrixInv
  <2>2. UsageInv'  BY <1>1, UsageStays DEF userVars, UserInv
  <2> QED  BY <2>1, <2>2 DEF UserInv
<1>2. CASE WalkRange  BY <1>2, WalkRangeInv
<1>3. CASE \E g \in TaskGraphs : UserCall(g)
  <2>1. PICK g \in TaskGraphs : UserCall(g)  BY <1>3
  <2>2. CASE \E h \in {NoGraph} \cup {h \in TaskGraphs : h > g} : AddTask(g, h)
      BY <2>2, AddTaskInv
  <2>3. CASE \E task, next \in TaskIds(g), set \in BOOLEAN : SetNext(g, task, next, set)
      BY <2>3, SetNextInv
  <2>4. CASE \E task \in TaskIds(g), resource \in ResourcesOf[g], usage \in Usages \cup {"NOT_USED"} :
                SetResourceUsage(g, task, resource, usage)
      BY <2>4, SetResourceUsageInv
  <2>5. CASE MoveNextRow(g)  BY <2>5, MoveNextRowInv
  <2>6. CASE Resize(g)  BY <2>6, ResizeInv
  <2>7. CASE Clear(g)  BY <2>7, ClearInv
  <2>8. CASE \E h \in TaskGraphs : CopyFrom(g, h)  BY <2>8, CopyFromInv
  <2> QED  BY <2>1, <2>2, <2>3, <2>4, <2>5, <2>6, <2>7, <2>8 DEF UserCall
<1> QED  BY <1>1, <1>2, <1>3 DEF UserNext

------------------------------------------------------------------------------
(***************************************************************************)
(* Theorems                                                                *)
(***************************************************************************)

\* What iterEdges visits of a row is what the row holds.
LEMMA EdgesOfMatrix ==
    ASSUME NEW n \in Nat, NEW G, NEW order \in SUBSET ((0 .. n - 1) \X (0 .. n - 1)),
           NEW v \in 0 .. n - 1, G.wordCnt = WordCnt(n), G.connections \in Words(WordCnt(n) * n),
           Holds(G.connections, WordCnt(n), 0 .. n - 1, order)
    PROVE  Edges(G, v) = {u \in 0 .. n - 1 : <<v, u>> \in order}
<1> DEFINE k == WordCnt(n)
<1>1. k \in Nat /\ \A u \in 0 .. n - 1 : u \div WordBits \in 0 .. k - 1  BY WordCntFacts
<1>2. ASSUME NEW u \in Edges(G, v)  PROVE u \in 0 .. n - 1 /\ <<v, u>> \in order
  <2>1. PICK w \in 0 .. k - 1 : \E b \in G.connections[v * k + w] : u = w * WordBits + b
      BY DEF Edges
  <2>2. v * k + w \in 0 .. k * n - 1  BY <1>1, PlaceInMatrix
  <2>3. PICK b \in Bits : b \in G.connections[v * k + w] /\ u = w * WordBits + b
      BY <2>1, <2>2 DEF Words
  <2>4. <<v, w * WordBits + b>> \in order  BY <2>3 DEF Holds
  <2> QED  BY <2>3, <2>4
<1>3. ASSUME NEW u \in 0 .. n - 1, <<v, u>> \in order  PROVE u \in Edges(G, v)
  <2> DEFINE w == u \div WordBits
             b == u % WordBits
  <2>1. w \in 0 .. k - 1  BY <1>1
  <2>2. b \in Bits /\ u = w * WordBits + b
    <3>1. u \in Nat  BY SMT
    <3> QED  BY <3>1, WordAndBit DEF Bits
  <2>3. b \in G.connections[v * k + w]
    <3> HIDE DEF w, b, k
    <3>1. <<v, w * WordBits + b>> \in order  BY <1>3, <2>2
    <3> QED  BY <2>1, <2>2, <3>1 DEF Holds, k
  <2> HIDE DEF w, b
  <2> QED  BY <2>1, <2>2, <2>3 DEF Edges
<1> QED  BY <1>2, <1>3

\* The inductive invariant holds after any calls, in the middle of a resize too:
\* the rows still to move have the old width, those moved the new one, and what
\* they hold is what was stated (task_graph_compile.cpp 67-102).
THEOREM UserInvariant == UserSpec => []UserInv
<1>1. UserInit => UserInv  BY UserInitInv
<1>2. UserInv /\ [UserNext]_userVars => UserInv'  BY UserNextInv
<1> QED  BY <1>1, <1>2, PTL DEF UserSpec

\* However the calls follow each other, and whatever the width of a word: the
\* matrix holds the edges that setNext set last, and no others, after every
\* resize in place (task_graph_compile.cpp 67-102, 132-141).
THEOREM OrderIsKept == UserSpec => []OrderAsStated
<1>1. UserInv => OrderAsStated
  <2> SUFFICES ASSUME UserInv, NEW g \in TaskGraphs, ~Resizing(g), NEW task \in TaskIds(g)
               PROVE  Edges(taskOrderGraph[g], task) =
                        {next \in TaskIds(g) : <<task, next>> \in stated[g].order}
      BY DEF OrderAsStated
  <2> DEFINE n == Len(taskData[g])
             G == taskOrderGraph[g]
             order == stated[g].order
  <2>1. /\ n \in Nat /\ G.wordCnt = WordCnt(n) /\ G.connections \in Words(WordCnt(n) * n)
        /\ order \in SUBSET ((0 .. n - 1) \X (0 .. n - 1))
        /\ Holds(G.connections, WordCnt(n), 0 .. n - 1, order)
      BY DEF UserInv, MatrixInv, Matrix, Resizing
  <2>2. task \in 0 .. n - 1 /\ TaskIds(g) = 0 .. n - 1  BY DEF TaskIds
  <2> HIDE DEF n, G, order
  <2>3. Edges(G, task) = {u \in 0 .. n - 1 : <<task, u>> \in order}  BY <2>1, <2>2, EdgesOfMatrix
  <2> QED  BY <2>2, <2>3 DEF n, G, order
<1> QED  BY <1>1, UserInvariant, PTL

\* However often a usage is stated, changed and taken back, and in whatever order
\* the entries of a resource are met: the walk finds the one entry there may be of
\* its task and no second one (259), and leaves the multimap with one entry for
\* each usage that was stated last (243-276).
THEOREM UsageIsKept == UserSpec => []UsageAsStated
<1>1. UserInv => UsageAsStated
  <2> SUFFICES ASSUME UserInv  PROVE UsageAsStated  OBVIOUS
  <2>1. UsageInv  BY DEF UserInv
  <2>2. CASE usageCall = <<>>
    <3>1. DOMAIN usageCall = {}  BY <2>2
    <3> QED  BY <2>1, <2>2, <3>1 DEF UsageInv, UsageAsStated, EntriesOf
  <2>3. CASE usageCall # <<>>
    <3>1. PICK call : call = usageCall[1]  OBVIOUS
    <3>2. /\ usageCall = <<call>> /\ DOMAIN usageCall = {1}
          /\ Walking(call, taskResourceUsage[call.graph], stated[call.graph].usage)
        BY <2>1, <2>3, <3>1 DEF UsageInv
    <3>3. ASSUME NEW e \in BagToSet(call.left), e.task = call.task  PROVE ~call.found
      <4>1. PICK passed : passed = [call EXCEPT !.left = @ (-) SetToBag({e})]  OBVIOUS
      <4>2. PICK bag, U : bag = taskResourceUsage[call.graph] /\ U = stated[call.graph].usage  OBVIOUS
      <4>3. Walking(call, bag, U)  BY <3>2, <4>2
      <4> QED  BY <3>3, <4>1, <4>3, VisitKeeps
    <3> QED  BY <2>3, <3>1, <3>2, <3>3 DEF UsageAsStated
  <2> QED  BY <2>2, <2>3
<1> QED  BY <1>1, UserInvariant, PTL
==============================================================================
