--------------------------- MODULE DmenuEditorProofs ---------------------------
(***************************************************************************)
(* The line of dmenu is a line of characters: Dmenu implements             *)
(* DmenuEditor.  The mapping numbers the characters of a text by counting  *)
(* the rune starts before them.  Everything follows from one fact, that    *)
(* the characters of two texts put together are those of the first and     *)
(* then those of the second (RunesConcat): to insert, delete or move at    *)
(* rune starts is then to do so between characters.                        *)
(***************************************************************************)
EXTENDS DmenuProofs

-----------------------------------------------------------------------------
(* The characters of a text, by number *)

Starts(t) == RuneStarts(t) \ {Len(t)}

\* How many characters stand left of offset c.
Rank(t, c) == Cardinality({m \in Starts(t) : m < c})

LEMMA StartsLemma ==
  ASSUME NEW t \in Texts
  PROVE  /\ t \in Seq(Byte) /\ Len(t) \in Nat
         /\ Starts(t) = {n \in 0 .. (Len(t) - 1) : t[n + 1] \notin Continuation}
         /\ RuneStarts(t) = Starts(t) \cup {Len(t)}
         /\ IsFiniteSet(Starts(t))
         /\ \A c \in Int : /\ IsFiniteSet({m \in Starts(t) : m < c})
                           /\ Rank(t, c) \in Nat
<1>1. t \in Seq(Byte) /\ Len(t) \in Nat /\ (t # <<>> => t[1] \notin Continuation)
  BY DEF Texts
<1>2. RuneStarts(t) = Starts(t) \cup {Len(t)}
  BY <1>1 DEF RuneStarts, Starts
<1>3. Starts(t) = {n \in 0 .. (Len(t) - 1) : t[n + 1] \notin Continuation}
  <2>1. ASSUME NEW n \in 0 .. (Len(t) - 1)
        PROVE  n \in Starts(t) <=> t[n + 1] \notin Continuation
    <3>1. CASE n = 0
      BY <1>1, <3>1 DEF Starts, RuneStarts
    <3>2. CASE n # 0
      BY <1>1, <3>2 DEF Starts, RuneStarts
    <3> QED BY <3>1, <3>2
  <2>2. Starts(t) \subseteq 0 .. (Len(t) - 1)
    BY <1>1 DEF Starts, RuneStarts
  <2> QED BY <2>1, <2>2
<1>4. IsFiniteSet(0 .. Len(t))
  BY <1>1, FS_Interval
<1>5. IsFiniteSet(Starts(t))
  BY <1>3, <1>4, FS_Subset
<1>6. ASSUME NEW c \in Int
      PROVE  IsFiniteSet({m \in Starts(t) : m < c}) /\ Rank(t, c) \in Nat
  <2>1. IsFiniteSet({m \in Starts(t) : m < c})
    BY <1>5, FS_Subset
  <2> QED BY <2>1, FS_CardinalityType DEF Rank
<1> QED BY <1>1, <1>2, <1>3, <1>5, <1>6

\* nextrune(+1) steps over one character, to the closest rune start.
LEMMA NextStart ==
  ASSUME NEW t \in Texts, NEW c \in 0 .. (Len(t) - 1)
  PROVE  /\ NextRune(t, c) \in RuneStarts(t) /\ NextRune(t, c) > c
         /\ \A m \in RuneStarts(t) : m > c => NextRune(t, c) <= m
<1> DEFINE T == {n \in RuneStarts(t) : n > c}
<1>1. Len(t) \in Nat
  BY DEF Texts
<1>2. T \in SUBSET Nat /\ T # {}
  BY <1>1 DEF RuneStarts
<1>3. Min(T) \in T /\ \A y \in T : Min(T) <= y
  BY <1>2, MinLemma
<1> QED BY <1>3 DEF NextRune

\* It is the only such place.
LEMMA NextIs ==
  ASSUME NEW t \in Texts, NEW c \in 0 .. (Len(t) - 1), NEW x \in RuneStarts(t), x > c,
         \A m \in RuneStarts(t) : m > c => x <= m
  PROVE  NextRune(t, c) = x
<1>1. NextRune(t, c) <= x /\ x <= NextRune(t, c)
  BY NextStart
<1>2. RuneStarts(t) \subseteq Int
  BY DEF RuneStarts, Texts
<1> QED BY <1>1, <1>2, NextStart

LEMMA RankNext ==
  ASSUME NEW t \in Texts, NEW c \in Starts(t)
  PROVE  Rank(t, NextRune(t, c)) = Rank(t, c) + 1
<1> DEFINE d == NextRune(t, c)
           B(e) == {m \in Starts(t) : m < e}
<1>1. /\ Len(t) \in Nat /\ c \in 0 .. (Len(t) - 1)
      /\ RuneStarts(t) = Starts(t) \cup {Len(t)} /\ IsFiniteSet(B(c))
      /\ Starts(t) \subseteq Int
  <2>1. /\ Len(t) \in Nat /\ RuneStarts(t) = Starts(t) \cup {Len(t)}
        /\ Starts(t) \subseteq 0 .. (Len(t) - 1)
        /\ \A e \in Int : IsFiniteSet({m \in Starts(t) : m < e})
    BY StartsLemma
  <2> QED BY <2>1
<1>2. d \in RuneStarts(t) /\ d > c /\ \A m \in RuneStarts(t) : m > c => d <= m
  BY <1>1, NextStart
<1> HIDE DEF d
<1>3. B(d) = B(c) \cup {c}
  BY <1>1, <1>2
<1>4. c \notin B(c)
  BY <1>1
<1>5. Cardinality(B(c) \cup {c}) = Cardinality(B(c)) + 1
  <2> HIDE DEF B
  <2> QED BY <1>1, <1>4, FS_AddElement
<1> QED BY <1>3, <1>5 DEF Rank, d

\* The order of rune starts is that of their numbers.
LEMMA RankOrder ==
  ASSUME NEW t \in Texts, NEW c \in Int, NEW d \in Int, c <= d
  PROVE  /\ Rank(t, c) <= Rank(t, d)
         /\ c \in Starts(t) /\ c < d => Rank(t, c) < Rank(t, d)
<1> DEFINE B(e) == {m \in Starts(t) : m < e}
<1>1. IsFiniteSet(B(c)) /\ IsFiniteSet(B(d)) /\ Starts(t) \subseteq Int
  BY StartsLemma
<1>2. B(c) \subseteq B(d)
  BY <1>1
<1>3. c \in Starts(t) /\ c < d => B(c) # B(d)
  BY <1>1
<1> HIDE DEF B
<1>4. Cardinality(B(c)) <= Cardinality(B(d)) /\ (Cardinality(B(d)) = Cardinality(B(c)) => B(d) = B(c))
  BY <1>1, <1>2, FS_Subset
<1>5. Cardinality(B(c)) \in Nat /\ Cardinality(B(d)) \in Nat
  BY <1>1, FS_CardinalityType
<1>6. Rank(t, c) = Cardinality(B(c)) /\ Rank(t, d) = Cardinality(B(d))
  BY DEF Rank, B
<1> QED BY <1>3, <1>4, <1>5, <1>6

LEMMA RankEnds ==
  ASSUME NEW t \in Texts
  PROVE  Rank(t, 0) = 0 /\ Rank(t, Len(t)) = Cardinality(Starts(t))
<1>1. Starts(t) = {n \in 0 .. (Len(t) - 1) : t[n + 1] \notin Continuation} /\ Len(t) \in Nat
  BY StartsLemma
<1>2. {m \in Starts(t) : m < 0} = {}
  BY <1>1
<1>3. {m \in Starts(t) : m < Len(t)} = Starts(t)
  BY <1>1
<1> QED BY <1>2, <1>3, FS_EmptySet DEF Rank

\* Every number belongs to one character.
LEMMA RankOnto ==
  ASSUME NEW t \in Texts
  PROVE  \A k \in 1 .. Cardinality(Starts(t)) : \E n \in Starts(t) : Rank(t, n) = k - 1
<1> DEFINE N == Cardinality(Starts(t))
           Met == {j \in Nat : j < N => \E n \in Starts(t) : Rank(t, n) = j}
<1>1. /\ N \in Nat /\ Len(t) \in Nat /\ RuneStarts(t) = Starts(t) \cup {Len(t)}
      /\ Starts(t) = {n \in 0 .. (Len(t) - 1) : t[n + 1] \notin Continuation}
  BY StartsLemma, FS_CardinalityType
<1>2. Rank(t, 0) = 0 /\ Rank(t, Len(t)) = N
  BY RankEnds
<1> HIDE DEF N
<1>3. 0 \in Met
  <2>1. 0 < N => Len(t) # 0
    BY <1>1, <1>2
  <2>2. Len(t) # 0 => 0 \in Starts(t)
    BY <1>1 DEF Starts, RuneStarts
  <2> QED BY <1>2, <2>1, <2>2
<1>4. \A j \in 0 .. (N - 1) : j \in Met => j + 1 \in Met
  <2>1. SUFFICES ASSUME NEW j \in 0 .. (N - 1), j \in Met, j + 1 < N
                 PROVE  \E n \in Starts(t) : Rank(t, n) = j + 1
    BY <1>1
  <2>2. PICK n \in Starts(t) : Rank(t, n) = j
    BY <1>1, <2>1
  <2>3. NextRune(t, n) \in RuneStarts(t)
    BY <1>1, NextStart
  <2>4. Rank(t, NextRune(t, n)) = j + 1
    BY <2>2, RankNext
  <2>5. NextRune(t, n) # Len(t)
    BY <1>1, <1>2, <2>1, <2>4
  <2> QED BY <1>1, <2>3, <2>4, <2>5
<1> HIDE DEF Met
<1>5. \A j \in 0 .. N : j \in Met
  BY <1>1, <1>3, <1>4, UpTo
<1>6. ASSUME NEW k \in 1 .. N PROVE \E n \in Starts(t) : Rank(t, n) = k - 1
  <2>1. k - 1 \in 0 .. N /\ k - 1 < N
    BY <1>1
  <2> QED BY <1>5, <2>1 DEF Met
<1> QED BY <1>6 DEF N

\* Each character is what lies between two neighbouring rune starts.
LEMMA RuneAt ==
  ASSUME NEW t \in Texts
  PROVE  /\ Runes(t) \in Seq(Seq(Byte))
         /\ Len(Runes(t)) = Cardinality(Starts(t)) /\ Len(Runes(t)) \in Nat
         /\ \A n \in Starts(t) : /\ Rank(t, n) + 1 \in 1 .. Len(Runes(t))
                                 /\ Runes(t)[Rank(t, n) + 1] = SubSeq(t, n + 1, NextRune(t, n))
<1> DEFINE N == Cardinality(Starts(t))
           nth(k) == CHOOSE n \in Starts(t) : Rank(t, n) = k - 1
           R == [k \in 1 .. N |-> SubSeq(t, nth(k) + 1, NextRune(t, nth(k)))]
<1>1. Runes(t) = R
  BY DEF Runes, Starts, Rank
<1>2. /\ N \in Nat /\ Len(t) \in Nat /\ RuneStarts(t) = Starts(t) \cup {Len(t)}
      /\ Starts(t) \subseteq 0 .. (Len(t) - 1) /\ t \in Seq(Byte)
  BY StartsLemma, FS_CardinalityType
<1>3. ASSUME NEW n \in Starts(t)
      PROVE  Rank(t, n) + 1 \in 1 .. N /\ nth(Rank(t, n) + 1) = n
  <2>1. Rank(t, n) < Rank(t, Len(t)) /\ Rank(t, n) \in Nat /\ Rank(t, Len(t)) = N
    <3>1. n \in Int /\ Len(t) \in Int /\ n <= Len(t) /\ n < Len(t)
      BY <1>2
    <3>2. Rank(t, n) < Rank(t, Len(t))
      BY <3>1, RankOrder
    <3> QED BY <3>1, <3>2, StartsLemma, RankEnds
  <2>2. ASSUME NEW m \in Starts(t), Rank(t, m) = Rank(t, n) PROVE m = n
    <3>1. m \in Int /\ n \in Int
      BY <1>2
    <3>2. Rank(t, m) \in Nat /\ Rank(t, n) \in Nat
      BY <3>1, StartsLemma
    <3>3. ~(m < n)
      BY <2>2, <3>1, <3>2, RankOrder
    <3>4. ~(n < m)
      BY <2>2, <3>1, <3>2, RankOrder
    <3> QED BY <3>1, <3>3, <3>4
  <2>3. (Rank(t, n) + 1) - 1 = Rank(t, n)
    BY <2>1
  <2> QED BY <1>2, <2>1, <2>2, <2>3
<1>4. ASSUME NEW k \in 1 .. N PROVE SubSeq(t, nth(k) + 1, NextRune(t, nth(k))) \in Seq(Byte)
  <2>1. nth(k) \in Starts(t)
    BY RankOnto
  <2> HIDE DEF nth
  <2>2. NextRune(t, nth(k)) \in 0 .. Len(t) /\ nth(k) \in 0 .. Len(t)
    BY <1>2, <2>1, NextStart
  <2> QED BY <1>2, <2>2
<1>5. R \in Seq(Seq(Byte)) /\ Len(R) = N
  <2> HIDE DEF nth, N
  <2> QED BY <1>2, <1>4
<1>6. ASSUME NEW n \in Starts(t)
      PROVE  R[Rank(t, n) + 1] = SubSeq(t, n + 1, NextRune(t, n))
  <2> HIDE DEF nth, N
  <2> QED BY <1>3
<1> QED BY <1>1, <1>2, <1>3, <1>5, <1>6

-----------------------------------------------------------------------------
(* The characters of two texts put together *)

LEMMA SameSeq ==
  ASSUME NEW S, NEW p \in Seq(S), NEW q \in Seq(S), Len(p) = Len(q),
         \A i \in 1 .. Len(p) : p[i] = q[i]
  PROVE  p = q
OBVIOUS

\* Pieces of a sequence that is put together from two.
LEMMA Pieces ==
  ASSUME NEW S, NEW a \in Seq(S), NEW b \in Seq(S)
  PROVE  /\ a \o b \in Seq(S) /\ Len(a \o b) = Len(a) + Len(b)
         /\ \A i \in 1 .. Len(a) : (a \o b)[i] = a[i]
         /\ \A i \in 1 .. Len(b) : (a \o b)[Len(a) + i] = b[i]
OBVIOUS

\* A piece that lies in the first of them is a piece of that one.
LEMMA HeadPiece ==
  ASSUME NEW S, NEW a \in Seq(S), NEW b \in Seq(S), NEW m \in 0 .. Len(a), NEW n \in 0 .. Len(a)
  PROVE  SubSeq(a \o b, m + 1, n) = SubSeq(a, m + 1, n)
<1> DEFINE u == a \o b
<1>1. u \in Seq(S) /\ Len(u) = Len(a) + Len(b) /\ Len(a) \in Nat /\ Len(b) \in Nat
  OBVIOUS
<1>2. \A i \in 1 .. Len(a) : u[i] = a[i]
  OBVIOUS
<1>3. \A i \in 1 .. Len(b) : u[Len(a) + i] = b[i]
  OBVIOUS
<1> HIDE DEF u
<1>4. \A i \in 1 .. (n - m) : u[m + i] = a[m + i]
  BY <1>1, <1>2
<1> DEFINE p == SubSeq(u, m + 1, n)
           q == SubSeq(a, m + 1, n)
<1>5. /\ p \in Seq(S) /\ Len(p) = IF m <= n THEN n - m ELSE 0
      /\ \A i \in 1 .. (n - m) : p[i] = u[m + i]
  <2>1. m \in 0 .. Len(u) /\ n \in 0 .. Len(u)
    BY <1>1
  <2> QED BY <1>1, <2>1, SubSeqFacts
<1>6. /\ q \in Seq(S) /\ Len(q) = IF m <= n THEN n - m ELSE 0
      /\ \A i \in 1 .. (n - m) : q[i] = a[m + i]
  BY <1>1, SubSeqFacts
<1> HIDE DEF p, q
<1>7. Len(p) = Len(q) /\ \A i \in 1 .. Len(p) : p[i] = q[i]
  <2>1. Len(p) = Len(q) /\ 1 .. Len(p) \subseteq 1 .. (n - m)
    BY <1>1, <1>5, <1>6
  <2>2. \A i \in 1 .. (n - m) : p[i] = q[i]
    BY <1>4, <1>5, <1>6
  <2> QED BY <2>1, <2>2
<1>8. p = q
  BY <1>5, <1>6, <1>7, SameSeq
<1> QED BY <1>8 DEF p, q

\* And one that lies in the second is a piece of the second.
LEMMA TailPiece ==
  ASSUME NEW S, NEW a \in Seq(S), NEW b \in Seq(S), NEW m \in 0 .. Len(b), NEW n \in 0 .. Len(b)
  PROVE  SubSeq(a \o b, Len(a) + m + 1, Len(a) + n) = SubSeq(b, m + 1, n)
<1> DEFINE u == a \o b
<1>1. u \in Seq(S) /\ Len(u) = Len(a) + Len(b) /\ Len(a) \in Nat /\ Len(b) \in Nat
  OBVIOUS
<1>2. \A i \in 1 .. Len(a) : u[i] = a[i]
  OBVIOUS
<1>3. \A i \in 1 .. Len(b) : u[Len(a) + i] = b[i]
  OBVIOUS
<1> HIDE DEF u
<1>4. \A i \in 1 .. (n - m) : u[Len(a) + m + i] = b[m + i]
  <2>1. TAKE i \in 1 .. (n - m)
  <2>2. m + i \in 1 .. Len(b) /\ Len(a) + (m + i) = Len(a) + m + i
    BY <1>1, <2>1
  <2> QED BY <1>3, <2>2
<1> DEFINE p == SubSeq(u, Len(a) + m + 1, Len(a) + n)
           q == SubSeq(b, m + 1, n)
<1>5. /\ p \in Seq(S) /\ Len(p) = IF m <= n THEN n - m ELSE 0
      /\ \A i \in 1 .. (n - m) : p[i] = u[Len(a) + m + i]
  <2> DEFINE j == Len(a) + m
             k == Len(a) + n
  <2>1. j \in 0 .. Len(u) /\ k \in 0 .. Len(u) /\ k - j = n - m /\ (j <= k <=> m <= n)
    BY <1>1
  <2> HIDE DEF j, k
  <2>2. /\ SubSeq(u, j + 1, k) \in Seq(S)
        /\ Len(SubSeq(u, j + 1, k)) = IF j <= k THEN k - j ELSE 0
        /\ \A i \in 1 .. (k - j) : SubSeq(u, j + 1, k)[i] = u[j + i]
    BY <1>1, <2>1, SubSeqFacts
  <2>3. p = SubSeq(u, j + 1, k)
    BY DEF p, j, k
  <2> HIDE DEF p
  <2>4. \A i \in 1 .. (n - m) : p[i] = u[j + i]
    BY <2>1, <2>2, <2>3
  <2> QED BY <2>1, <2>2, <2>3, <2>4 DEF j
<1>6. /\ q \in Seq(S) /\ Len(q) = IF m <= n THEN n - m ELSE 0
      /\ \A i \in 1 .. (n - m) : q[i] = b[m + i]
  BY <1>1, SubSeqFacts
<1> HIDE DEF p, q
<1>7. Len(p) = Len(q) /\ \A i \in 1 .. Len(p) : p[i] = q[i]
  <2>1. Len(p) = Len(q) /\ 1 .. Len(p) \subseteq 1 .. (n - m)
    BY <1>1, <1>5, <1>6
  <2>2. \A i \in 1 .. (n - m) : p[i] = q[i]
    BY <1>4, <1>5, <1>6
  <2> QED BY <2>1, <2>2
<1>8. p = q
  BY <1>5, <1>6, <1>7, SameSeq
<1> QED BY <1>8 DEF p, q

LEMMA ConcatStarts ==
  ASSUME NEW a \in Texts, NEW b \in Texts
  PROVE  /\ a \o b \in Texts
         /\ Starts(a \o b) = Starts(a) \cup {Len(a) + n : n \in Starts(b)}
         /\ \A n \in Starts(a) : NextRune(a \o b, n) = NextRune(a, n)
         /\ \A n \in Starts(b) : NextRune(a \o b, Len(a) + n) = Len(a) + NextRune(b, n)
<1> DEFINE u == a \o b
<1>1. /\ a \in Seq(Byte) /\ Len(a) \in Nat
      /\ Starts(a) = {n \in 0 .. (Len(a) - 1) : a[n + 1] \notin Continuation}
      /\ RuneStarts(a) = Starts(a) \cup {Len(a)}
  BY StartsLemma
<1>2. /\ b \in Seq(Byte) /\ Len(b) \in Nat
      /\ Starts(b) = {n \in 0 .. (Len(b) - 1) : b[n + 1] \notin Continuation}
      /\ RuneStarts(b) = Starts(b) \cup {Len(b)}
  BY StartsLemma
<1>3. /\ u \in Seq(Byte) /\ Len(u) = Len(a) + Len(b)
      /\ \A i \in 1 .. Len(a) : u[i] = a[i]
      /\ \A i \in 1 .. Len(b) : u[Len(a) + i] = b[i]
  BY <1>1, <1>2, Pieces
<1> HIDE DEF u
<1>4. u \in Texts
  <2>1. CASE a # <<>>
    BY <1>1, <1>3, <2>1 DEF Texts
  <2>2. CASE a = <<>> /\ b # <<>>
    <3>1. u[1] = b[1]
      BY <1>1, <1>2, <1>3, <2>2
    <3> QED BY <1>3, <2>2, <3>1 DEF Texts
  <2>3. CASE a = <<>> /\ b = <<>>
    BY <1>1, <1>2, <1>3, <2>3 DEF Texts
  <2> QED BY <2>1, <2>2, <2>3
<1>5. Starts(u) = Starts(a) \cup {Len(a) + n : n \in Starts(b)}
  <2>1. Starts(u) = {n \in 0 .. (Len(u) - 1) : u[n + 1] \notin Continuation}
    BY <1>4, StartsLemma
  <2>2. \A n \in 0 .. (Len(a) - 1) : u[n + 1] = a[n + 1]
    BY <1>1, <1>3
  <2>3. \A n \in 0 .. (Len(b) - 1) : u[Len(a) + n + 1] = b[n + 1]
    <3>1. TAKE n \in 0 .. (Len(b) - 1)
    <3>2. n + 1 \in 1 .. Len(b) /\ Len(a) + (n + 1) = Len(a) + n + 1
      BY <1>1, <1>2, <3>1
    <3> QED BY <1>3, <3>2
  <2>4. ASSUME NEW n \in Starts(u) PROVE n \in Starts(a) \cup {Len(a) + k : k \in Starts(b)}
    <3>1. CASE n < Len(a)
      BY <1>1, <2>1, <2>2, <3>1
    <3>2. CASE n >= Len(a)
      <4>1. n - Len(a) \in 0 .. (Len(b) - 1) /\ n = Len(a) + (n - Len(a))
        BY <1>1, <1>2, <1>3, <2>1, <3>2
      <4>2. PICK k \in 0 .. (Len(b) - 1) : n = Len(a) + k
        BY <4>1
      <4>3. u[n + 1] = b[k + 1] /\ u[n + 1] \notin Continuation
        BY <2>1, <2>3, <4>2
      <4> QED BY <1>2, <4>2, <4>3
    <3> QED BY <1>1, <2>1, <3>1, <3>2
  <2>5. ASSUME NEW n \in Starts(a) PROVE n \in Starts(u)
    BY <1>1, <1>2, <1>3, <2>1, <2>2
  <2>6. ASSUME NEW n \in Starts(b) PROVE Len(a) + n \in Starts(u)
    <3>1. n \in 0 .. (Len(b) - 1) /\ b[n + 1] \notin Continuation
      BY <1>2
    <3>2. u[Len(a) + n + 1] \notin Continuation
      BY <2>3, <3>1
    <3>3. Len(a) + n \in 0 .. (Len(u) - 1)
      BY <1>1, <1>2, <1>3, <3>1
    <3> QED BY <2>1, <3>2, <3>3
  <2> QED BY <2>4, <2>5, <2>6
<1>6. /\ RuneStarts(u) = Starts(a) \cup {Len(a) + n : n \in RuneStarts(b)}
      /\ Len(a) \in RuneStarts(u)
  <2>1. RuneStarts(u) = Starts(u) \cup {Len(a) + Len(b)}
    BY <1>3, <1>4, StartsLemma
  <2>2. 0 \in RuneStarts(b) /\ Len(a) + 0 = Len(a)
    BY <1>1, <1>2 DEF RuneStarts
  <2> QED BY <1>2, <1>5, <2>1, <2>2, ZenonT(60)
<1>7. ASSUME NEW n \in Starts(a) PROVE NextRune(u, n) = NextRune(a, n)
  <2> DEFINE x == NextRune(a, n)
  <2>1. n \in 0 .. (Len(a) - 1) /\ n \in 0 .. (Len(u) - 1)
    BY <1>1, <1>2, <1>3
  <2>2. x \in RuneStarts(a) /\ x > n /\ \A m \in RuneStarts(a) : m > n => x <= m
    BY <2>1, NextStart
  <2> HIDE DEF x
  <2>3. x \in RuneStarts(u) /\ x <= Len(a)
    BY <1>1, <1>6, <2>2
  <2>4. ASSUME NEW m \in RuneStarts(u), m > n PROVE x <= m
    <3>1. CASE m \in Starts(a)
      BY <1>1, <2>2, <2>4, <3>1
    <3>2. CASE m \in {Len(a) + k : k \in RuneStarts(b)}
      BY <1>1, <1>2, <2>2, <2>3, <3>2
    <3> QED BY <1>6, <3>1, <3>2
  <2> QED BY <1>4, <2>1, <2>2, <2>3, <2>4, NextIs DEF x
<1>8. ASSUME NEW n \in Starts(b) PROVE NextRune(u, Len(a) + n) = Len(a) + NextRune(b, n)
  <2> DEFINE x == NextRune(b, n)
  <2>1. n \in 0 .. (Len(b) - 1) /\ Len(a) + n \in 0 .. (Len(u) - 1)
    BY <1>1, <1>2, <1>3
  <2>2. x \in RuneStarts(b) /\ x > n /\ \A m \in RuneStarts(b) : m > n => x <= m
    BY <2>1, NextStart
  <2> HIDE DEF x
  <2>3. Len(a) + x \in RuneStarts(u) /\ Len(a) + x > Len(a) + n
    <3>1. x \in Int
      BY <1>2, <2>2
    <3>2. Len(a) + x \in RuneStarts(u)
      BY <1>6, <2>2
    <3> QED BY <1>1, <2>1, <2>2, <3>1, <3>2
  <2>4. ASSUME NEW m \in RuneStarts(u), m > Len(a) + n PROVE Len(a) + x <= m
    <3>1. CASE m \in Starts(a)
      BY <1>1, <1>2, <2>1, <2>4, <3>1
    <3>2. CASE m \in {Len(a) + k : k \in RuneStarts(b)}
      BY <1>1, <1>2, <2>1, <2>2, <2>4, <3>2, SMTT(30)
    <3> QED BY <1>6, <3>1, <3>2
  <2> QED BY <1>4, <2>1, <2>3, <2>4, NextIs DEF x
<1> QED BY <1>4, <1>5, <1>7, <1>8 DEF u

\* The numbers of the second text's characters follow those of the first.
LEMMA ConcatRank ==
  ASSUME NEW a \in Texts, NEW b \in Texts
  PROVE  /\ \A n \in 0 .. Len(a) : Rank(a \o b, n) = Rank(a, n)
         /\ \A n \in 0 .. Len(b) : Rank(a \o b, Len(a) + n) = Len(Runes(a)) + Rank(b, n)
         /\ Len(Runes(a \o b)) = Len(Runes(a)) + Len(Runes(b))
<1> DEFINE u == a \o b
<1>1. /\ Starts(u) = Starts(a) \cup {Len(a) + n : n \in Starts(b)} /\ u \in Texts
      /\ Len(a) \in Nat /\ Len(b) \in Nat
  BY ConcatStarts, StartsLemma
<1>2. Starts(a) \subseteq 0 .. (Len(a) - 1) /\ Starts(b) \subseteq 0 .. (Len(b) - 1)
  BY StartsLemma
<1>3. Len(u) = Len(a) + Len(b)
  BY Pieces DEF Texts
<1> HIDE DEF u
<1>4. ASSUME NEW n \in 0 .. Len(a) PROVE Rank(u, n) = Rank(a, n)
  <2>1. {m \in Starts(u) : m < n} = {m \in Starts(a) : m < n}
    BY <1>1, <1>2
  <2> QED BY <2>1 DEF Rank
<1>5. ASSUME NEW n \in 0 .. Len(b)
      PROVE  Rank(u, Len(a) + n) = Len(Runes(a)) + Rank(b, n)
  <2> DEFINE B == {m \in Starts(b) : m < n}
             C == {Len(a) + m : m \in B}
             f == [m \in B |-> Len(a) + m]
  <2>1. {m \in Starts(u) : m < Len(a) + n} = Starts(a) \cup C
    BY <1>1, <1>2
  <2>2. IsFiniteSet(Starts(a)) /\ IsFiniteSet(B)
    BY <1>1, StartsLemma
  <2>3. B \subseteq Int
    BY <1>1, <1>2
  <2>4. Starts(a) \cap C = {}
    BY <1>1, <1>2
  <2>5. f \in Bijection(B, C)
    <3>1. \A x, y \in B : f[x] = f[y] => x = y
      BY <1>1, <2>3
    <3>2. f \in [B -> C] /\ \A z \in C : \E x \in B : f[x] = z
      OBVIOUS
    <3> HIDE DEF f, B, C
    <3> QED BY <3>1, <3>2 DEF Bijection, Injection, Surjection, IsInjective
  <2> HIDE DEF B, f
  <2>6. ExistsBijection(B, C)
    BY <2>5 DEF ExistsBijection
  <2> HIDE DEF C
  <2>7. IsFiniteSet(C) /\ Cardinality(C) = Cardinality(B)
    BY <2>2, <2>6, FS_Bijection
  <2>8. Cardinality(Starts(a) \cup C) = Cardinality(Starts(a)) + Cardinality(C)
    <3>1. Cardinality(Starts(a) \cap C) = 0
      BY <2>4, FS_EmptySet
    <3>2. Cardinality(Starts(a)) \in Nat /\ Cardinality(C) \in Nat
      BY <2>2, <2>7, FS_CardinalityType
    <3>3. Cardinality(Starts(a) \cup C)
            = Cardinality(Starts(a)) + Cardinality(C) - Cardinality(Starts(a) \cap C)
      BY <2>2, <2>7, FS_Union
    <3> QED BY <3>1, <3>2, <3>3
  <2>9. Len(Runes(a)) = Cardinality(Starts(a))
    BY RuneAt
  <2> QED BY <2>1, <2>7, <2>8, <2>9 DEF Rank, B
<1>6. Len(Runes(u)) = Len(Runes(a)) + Len(Runes(b))
  <2>1. Rank(u, Len(a) + Len(b)) = Len(Runes(a)) + Rank(b, Len(b))
    BY <1>1, <1>5
  <2>2. Rank(u, Len(u)) = Len(Runes(u)) /\ Rank(b, Len(b)) = Len(Runes(b))
    BY <1>1, RankEnds, RuneAt
  <2> QED BY <1>3, <2>1, <2>2
<1> QED BY <1>4, <1>5, <1>6 DEF u

LEMMA RunesConcat ==
  ASSUME NEW a \in Texts, NEW b \in Texts
  PROVE  Runes(a \o b) = Runes(a) \o Runes(b)
<1> DEFINE u == a \o b
           x == Runes(u)
           y == Runes(a) \o Runes(b)
<1>1. a \in Seq(Byte) /\ b \in Seq(Byte) /\ Len(a) \in Nat /\ Len(b) \in Nat
  BY StartsLemma
<1>2. u \in Texts /\ Starts(u) = Starts(a) \cup {Len(a) + n : n \in Starts(b)}
  BY ConcatStarts
<1>3. /\ x \in Seq(Seq(Byte)) /\ Len(x) = Len(Runes(a)) + Len(Runes(b))
      /\ Len(Runes(a)) \in Nat /\ Len(Runes(b)) \in Nat
  BY <1>2, RuneAt, ConcatRank
<1>4. /\ y \in Seq(Seq(Byte)) /\ Len(y) = Len(Runes(a)) + Len(Runes(b))
      /\ \A i \in 1 .. Len(Runes(a)) : y[i] = Runes(a)[i]
      /\ \A i \in 1 .. Len(Runes(b)) : y[Len(Runes(a)) + i] = Runes(b)[i]
  <2>1. Runes(a) \in Seq(Seq(Byte)) /\ Runes(b) \in Seq(Seq(Byte))
    BY RuneAt
  <2> QED BY <2>1, Pieces
<1> HIDE DEF x, y
<1>5. ASSUME NEW i \in 1 .. Len(Runes(a)) PROVE x[i] = y[i]
  <2>1. PICK n \in Starts(a) : Rank(a, n) = i - 1
    BY RankOnto, RuneAt
  <2>2. n \in 0 .. Len(a) /\ n \in 0 .. (Len(a) - 1) /\ n \in Starts(u)
    BY <1>1, <1>2, StartsLemma
  <2>3. NextRune(a, n) \in 0 .. Len(a)
    BY <1>1, <2>2, NextStart DEF RuneStarts
  <2>4. Rank(u, n) = i - 1 /\ NextRune(u, n) = NextRune(a, n)
    BY <2>1, <2>2, ConcatRank, ConcatStarts
  <2>5. SubSeq(u, n + 1, NextRune(a, n)) = SubSeq(a, n + 1, NextRune(a, n))
    <3>1. \A j, k \in 0 .. Len(a) : SubSeq(a \o b, j + 1, k) = SubSeq(a, j + 1, k)
      BY HeadPiece DEF Texts
    <3> QED BY <2>2, <2>3, <3>1
  <2>6. (i - 1) + 1 = i
    BY <1>3
  <2>7. x[i] = SubSeq(u, n + 1, NextRune(u, n))
    BY <1>2, <2>2, <2>4, <2>6, RuneAt DEF x
  <2>8. Runes(a)[i] = SubSeq(a, n + 1, NextRune(a, n))
    BY <2>1, <2>6, RuneAt
  <2> QED BY <1>4, <2>4, <2>5, <2>7, <2>8
<1>6. ASSUME NEW i \in 1 .. Len(Runes(b)) PROVE x[Len(Runes(a)) + i] = y[Len(Runes(a)) + i]
  <2>1. PICK n \in Starts(b) : Rank(b, n) = i - 1
    BY RankOnto, RuneAt
  <2>2. n \in 0 .. Len(b) /\ n \in 0 .. (Len(b) - 1) /\ Len(a) + n \in Starts(u)
    BY <1>1, <1>2, StartsLemma
  <2>3. NextRune(b, n) \in 0 .. Len(b)
    BY <1>1, <2>2, NextStart DEF RuneStarts
  <2>4. /\ Rank(u, Len(a) + n) = Len(Runes(a)) + (i - 1)
        /\ NextRune(u, Len(a) + n) = Len(a) + NextRune(b, n)
    BY <2>1, <2>2, ConcatRank, ConcatStarts
  <2>5. SubSeq(u, Len(a) + n + 1, Len(a) + NextRune(b, n)) = SubSeq(b, n + 1, NextRune(b, n))
    <3>1. \A j, k \in 0 .. Len(b) :
             SubSeq(a \o b, Len(a) + j + 1, Len(a) + k) = SubSeq(b, j + 1, k)
      BY TailPiece DEF Texts
    <3> QED BY <2>2, <2>3, <3>1
  <2>6. (i - 1) + 1 = i /\ (Len(Runes(a)) + (i - 1)) + 1 = Len(Runes(a)) + i
    BY <1>3
  <2>7. x[Len(Runes(a)) + i] = SubSeq(u, Len(a) + n + 1, NextRune(u, Len(a) + n))
    BY <1>2, <2>2, <2>4, <2>6, RuneAt DEF x
  <2>8. Runes(b)[i] = SubSeq(b, n + 1, NextRune(b, n))
    BY <2>1, <2>6, RuneAt
  <2> QED BY <1>4, <2>4, <2>5, <2>7, <2>8
<1>7. ASSUME NEW i \in 1 .. Len(x) PROVE x[i] = y[i]
  <2>1. CASE i <= Len(Runes(a))
    BY <1>3, <1>5, <2>1
  <2>2. CASE i > Len(Runes(a))
    <3>1. PICK j \in 1 .. Len(Runes(b)) : i = Len(Runes(a)) + j
      <4>1. i - Len(Runes(a)) \in 1 .. Len(Runes(b)) /\ i = Len(Runes(a)) + (i - Len(Runes(a)))
        BY <1>3, <2>2
      <4> QED BY <4>1
    <3> QED BY <1>6, <3>1
  <2> QED BY <1>3, <2>1, <2>2
<1>8. x = y
  BY <1>3, <1>4, <1>7, SameSeq
<1> QED BY <1>8 DEF x, y

LEMMA WholeSeq ==
  ASSUME NEW S, NEW p \in Seq(S)
  PROVE  SubSeq(p, 1, Len(p)) = p /\ p \o <<>> = p
OBVIOUS

\* To cut a text at a rune start is to cut the line between two characters.
LEMMA CutLemma ==
  ASSUME NEW t \in Texts, NEW c \in RuneStarts(t)
  PROVE  LET a == SubSeq(t, 1, c)
             b == SubSeq(t, c + 1, Len(t))
             p == Rank(t, c)
         IN  /\ a \in Texts /\ Len(a) = c /\ b \in Texts
             /\ p \in 0 .. Len(Runes(t)) /\ p \in Nat /\ Len(Runes(a)) = p
             /\ Runes(a) = SubSeq(Runes(t), 1, p)
             /\ Runes(b) = SubSeq(Runes(t), p + 1, Len(Runes(t)))
<1> DEFINE a == SubSeq(t, 1, c)
           b == SubSeq(t, c + 1, Len(t))
           x == Runes(a)
           y == Runes(b)
<1>1. t \in Seq(Byte) /\ Len(t) \in Nat /\ c \in 0 .. Len(t)
  BY DEF Texts, RuneStarts
<1>2. a \in Texts /\ Len(a) = c
  BY <1>1, PrefixLemma
<1>3. b \in Texts
  <2>1. b \in Seq(Byte) /\ Len(b) = Len(t) - c /\ (c # Len(t) => b[1] = t[c + 1])
    BY <1>1
  <2>2. c # Len(t) => t[c + 1] \notin Continuation
    <3>1. c # Len(t) => c \in Starts(t)
      BY DEF Starts
    <3> QED BY <3>1, StartsLemma
  <2> HIDE DEF b
  <2>3. b # <<>> => c # Len(t)
    BY <1>1, <2>1
  <2> QED BY <2>1, <2>2, <2>3 DEF Texts
<1>4. t = a \o b
  <2>1. a \in Seq(Byte) /\ Len(a) = c /\ \A i \in 1 .. c : a[i] = t[i]
    BY <1>1
  <2>2. b \in Seq(Byte) /\ Len(b) = Len(t) - c /\ \A i \in 1 .. (Len(t) - c) : b[i] = t[c + i]
    BY <1>1
  <2> HIDE DEF a, b
  <2> DEFINE u == a \o b
  <2>3. /\ u \in Seq(Byte) /\ Len(u) = Len(a) + Len(b)
        /\ \A i \in 1 .. Len(a) : u[i] = a[i]
        /\ \A i \in 1 .. Len(b) : u[Len(a) + i] = b[i]
    <3>1. a \in Seq(Byte) /\ b \in Seq(Byte)
      BY <2>1, <2>2
    <3> QED BY <3>1, Pieces
  <2> HIDE DEF u
  <2>4. Len(u) = Len(t)
    BY <1>1, <2>1, <2>2, <2>3
  <2>5. ASSUME NEW i \in 1 .. Len(t) PROVE t[i] = u[i]
    <3>1. CASE i <= c
      BY <1>1, <2>1, <2>3, <3>1
    <3>2. CASE i > c
      <4>1. i - c \in 1 .. (Len(t) - c) /\ i = c + (i - c)
        BY <1>1, <3>2
      <4>2. PICK j \in 1 .. (Len(t) - c) : i = c + j
        BY <4>1
      <4> QED BY <2>1, <2>2, <2>3, <4>2
    <3> QED BY <1>1, <3>1, <3>2
  <2>6. t = u
    BY <1>1, <2>3, <2>4, <2>5, SameSeq
  <2> QED BY <2>6 DEF u
<1> HIDE DEF a, b
<1>5. /\ x \in Seq(Seq(Byte)) /\ y \in Seq(Seq(Byte)) /\ Len(x) \in Nat /\ Len(y) \in Nat
      /\ Runes(t) = x \o y /\ Len(Runes(t)) = Len(x) + Len(y)
  BY <1>2, <1>3, <1>4, RuneAt, RunesConcat, ConcatRank
<1>6. Rank(t, c) = Len(x)
  <2>1. 0 \in 0 .. Len(b) /\ Len(a) + 0 = c /\ Len(x) + 0 = Len(x)
    BY <1>1, <1>2, <1>3, <1>5 DEF Texts
  <2>2. Rank(t, Len(a) + 0) = Len(x) + Rank(b, 0) /\ Rank(b, 0) = 0
    BY <1>2, <1>3, <1>4, <2>1, ConcatRank, RankEnds
  <2> QED BY <2>1, <2>2
<1> HIDE DEF x, y
<1>7. SubSeq(x \o y, 1, Len(x)) = x
  <2>1. 0 \in 0 .. Len(x) /\ Len(x) \in 0 .. Len(x) /\ 0 + 1 = 1
    BY <1>5
  <2>2. SubSeq(x \o y, 0 + 1, Len(x)) = SubSeq(x, 0 + 1, Len(x))
    BY <1>5, <2>1, HeadPiece
  <2> QED BY <1>5, <2>1, <2>2, WholeSeq
<1>8. SubSeq(x \o y, Len(x) + 1, Len(x) + Len(y)) = y
  <2>1. 0 \in 0 .. Len(y) /\ Len(y) \in 0 .. Len(y) /\ 0 + 1 = 1 /\ Len(x) + 0 + 1 = Len(x) + 1
    BY <1>5
  <2>2. SubSeq(x \o y, Len(x) + 0 + 1, Len(x) + Len(y)) = SubSeq(y, 0 + 1, Len(y))
    BY <1>5, <2>1, TailPiece
  <2> QED BY <1>5, <2>1, <2>2, WholeSeq
<1>9. Len(x) \in 0 .. (Len(x) + Len(y))
  BY <1>5
<1> QED BY <1>2, <1>3, <1>5, <1>6, <1>7, <1>8, <1>9 DEF a, b, x, y

\* insert() puts whole characters between two others.
LEMMA InsertedRunes ==
  ASSUME NEW t \in Texts, NEW c \in RuneStarts(t), NEW s \in Texts
  PROVE  LET p == Rank(t, c)
         IN  /\ Runes(Inserted(t, c, s))
                  = SubSeq(Runes(t), 1, p) \o Runes(s) \o SubSeq(Runes(t), p + 1, Len(Runes(t)))
             /\ Rank(Inserted(t, c, s), c + Len(s)) = p + Len(Runes(s))
<1> DEFINE a == SubSeq(t, 1, c)
           b == SubSeq(t, c + 1, Len(t))
           as == a \o s
           p == Rank(t, c)
<1>1. /\ a \in Texts /\ Len(a) = c /\ b \in Texts
      /\ p \in Nat /\ Len(Runes(a)) = p
      /\ Runes(a) = SubSeq(Runes(t), 1, p)
      /\ Runes(b) = SubSeq(Runes(t), p + 1, Len(Runes(t)))
  BY CutLemma
<1>2. Inserted(t, c, s) = as \o b
  BY DEF Inserted
<1> HIDE DEF a, b
<1>3. as \in Texts /\ Runes(as) = Runes(a) \o Runes(s) /\ Len(Runes(as)) = p + Len(Runes(s))
  <2>1. as \in Texts
    BY <1>1, ConcatStarts
  <2>2. Runes(as) = Runes(a) \o Runes(s)
    BY <1>1, RunesConcat
  <2>3. Len(Runes(as)) = Len(Runes(a)) + Len(Runes(s))
    BY <1>1, ConcatRank
  <2> QED BY <1>1, <2>1, <2>2, <2>3
<1>4. Len(as) = c + Len(s)
  BY <1>1, ConcatLemma DEF Texts
<1> HIDE DEF as, p
<1>5. Runes(as \o b) = Runes(as) \o Runes(b)
  BY <1>1, <1>3, RunesConcat
<1>6. Rank(as \o b, Len(as)) = Len(Runes(as))
  <2>1. /\ 0 \in 0 .. Len(b) /\ Len(as) + 0 = Len(as)
        /\ Len(Runes(as)) + 0 = Len(Runes(as))
    BY <1>1, <1>3, RuneAt DEF Texts
  <2>2. Rank(as \o b, Len(as) + 0) = Len(Runes(as)) + Rank(b, 0) /\ Rank(b, 0) = 0
    BY <1>1, <1>3, <2>1, ConcatRank, RankEnds
  <2> QED BY <2>1, <2>2
<1> QED BY <1>1, <1>2, <1>3, <1>4, <1>5, <1>6 DEF p

\* A deletion between two rune starts takes whole characters away.
LEMMA DeletedRunes ==
  ASSUME NEW t \in Texts, NEW from \in RuneStarts(t), NEW c \in RuneStarts(t)
  PROVE  /\ Runes(Deleted(t, from, c))
               = SubSeq(Runes(t), 1, Rank(t, from))
                   \o SubSeq(Runes(t), Rank(t, c) + 1, Len(Runes(t)))
         /\ Rank(Deleted(t, from, c), from) = Rank(t, from)
<1> DEFINE a == SubSeq(t, 1, from)
           b == SubSeq(t, c + 1, Len(t))
<1>1. /\ a \in Texts /\ Len(a) = from
      /\ Rank(t, from) \in Nat /\ Len(Runes(a)) = Rank(t, from)
      /\ Runes(a) = SubSeq(Runes(t), 1, Rank(t, from))
  BY CutLemma
<1>2. b \in Texts /\ Runes(b) = SubSeq(Runes(t), Rank(t, c) + 1, Len(Runes(t)))
  BY CutLemma
<1>3. Deleted(t, from, c) = a \o b
  BY DEF Deleted
<1> HIDE DEF a, b
<1>4. Runes(a \o b) = Runes(a) \o Runes(b)
  BY <1>1, <1>2, RunesConcat
<1>5. Rank(a \o b, from) = Rank(t, from)
  <2>1. 0 \in 0 .. Len(b) /\ Len(a) + 0 = Len(a) /\ Rank(t, from) + 0 = Rank(t, from)
    BY <1>1, <1>2 DEF Texts
  <2>2. Rank(a \o b, Len(a) + 0) = Len(Runes(a)) + Rank(b, 0) /\ Rank(b, 0) = 0
    BY <1>1, <1>2, <2>1, ConcatRank, RankEnds
  <2> QED BY <1>1, <2>1, <2>2
<1> QED BY <1>1, <1>2, <1>3, <1>4, <1>5

-----------------------------------------------------------------------------
(* The mapping, and a change of the line under it *)

LEMMA Mapped ==
  ASSUME NEW t, NEW c, Line(t, c)
  PROVE  /\ RunesOf[t] = Runes(t) /\ Len(RunesOf[SubSeq(t, 1, c)]) = Rank(t, c)
         /\ Rank(t, c) \in 0 .. Len(Runes(t))
<1>1. /\ t \in Texts /\ t \in Seq(Byte) /\ Len(t) \in 0 .. MaxText
      /\ c \in RuneStarts(t) /\ c \in 0 .. Len(t)
  BY TextAssumption DEF Line, Texts, RuneStarts
<1>2. \A s \in Seq(Byte) : Len(s) \in 0 .. MaxText => RunesOf[s] = Runes(s)
  <2>1. SUFFICES ASSUME NEW s \in Seq(Byte), Len(s) \in 0 .. MaxText
                 PROVE  s \in BoundedSeq(Byte, MaxText)
    BY DEF RunesOf
  <2>2. s \in [1 .. Len(s) -> Byte]
    OBVIOUS
  <2> QED BY <2>1, <2>2 DEF BoundedSeq, SeqOf
<1> DEFINE a == SubSeq(t, 1, c)
<1>3. a \in Seq(Byte) /\ Len(a) \in 0 .. MaxText
  <2>1. a \in Texts /\ Len(a) = c
    BY <1>1, CutLemma
  <2> QED BY <1>1, <2>1, TextAssumption DEF Texts
<1>4. Len(Runes(a)) = Rank(t, c) /\ Rank(t, c) \in 0 .. Len(Runes(t))
  BY <1>1, CutLemma
<1> HIDE DEF a
<1>5. RunesOf[a] = Runes(a)
  BY <1>2, <1>3
<1>6. RunesOf[t] = Runes(t)
  BY <1>1, <1>2
<1> QED BY <1>4, <1>5, <1>6 DEF a

\* The new line and position, in characters.
LEMMA Becomes ==
  ASSUME Line(text, cursor)', printed' = <<>>, NEW l, NEW p,
         Runes(text') = l, Rank(text', cursor') = p
  PROVE  Editor!Change(l, p)
<1>1. Line(text', cursor')
  BY DEF Line, RuneStarts
<1>2. RunesOf[text'] = l /\ Len(RunesOf[SubSeq(text', 1, cursor')]) = p
  BY <1>1, Mapped
<1>3. [k \in DOMAIN <<>> |-> Runes(<<>>[k])] = <<>>
  OBVIOUS
<1> QED BY <1>2, <1>3 DEF Editor!Change

-----------------------------------------------------------------------------
(* Words *)

\* A character is a blank if its first byte delimits words.
LEMMA BlankLemma ==
  ASSUME NEW t \in Texts, Len(t) <= MaxText, NEW m \in Starts(t)
  PROVE  (Runes(t)[Rank(t, m) + 1] \in BlankRunes) = IsDelimiter(t, m)
<1> DEFINE r == SubSeq(t, m + 1, NextRune(t, m))
<1>1. /\ t \in Seq(Byte) /\ Len(t) \in Nat /\ m \in 0 .. (Len(t) - 1) /\ MaxText \in Nat
  BY StartsLemma, TextAssumption
<1>2. NextRune(t, m) \in 0 .. Len(t) /\ NextRune(t, m) > m
  BY <1>1, NextStart DEF RuneStarts
<1>3. r \in Seq(Byte) /\ Len(r) \in 1 .. MaxText /\ r[1] = t[m + 1]
  <2>1. m \in 0 .. Len(t)
    BY <1>1
  <2>2. /\ r \in Seq(Byte)
        /\ Len(r) = IF m <= NextRune(t, m) THEN NextRune(t, m) - m ELSE 0
        /\ \A i \in 1 .. (NextRune(t, m) - m) : r[i] = t[m + i]
    BY <1>1, <1>2, <2>1, SubSeqFacts
  <2> HIDE DEF r
  <2> QED BY <1>1, <1>2, <2>2
<1>4. Runes(t)[Rank(t, m) + 1] = r
  BY RuneAt
<1> HIDE DEF r
<1>5. r \in BoundedSeq(Byte, MaxText) /\ r # <<>>
  <2>1. r \in [1 .. Len(r) -> Byte] /\ Len(r) \in 0 .. MaxText
    BY <1>1, <1>3
  <2> QED BY <1>3, <2>1 DEF BoundedSeq, SeqOf
<1> QED BY <1>3, <1>4, <1>5 DEF BlankRunes, IsDelimiter

\* The characters of a stretch are all blanks, or none is.
LEMMA StretchChars ==
  ASSUME NEW t \in Texts, Len(t) <= MaxText, NEW a \in RuneStarts(t), NEW b \in RuneStarts(t),
         NEW d, Stretch(t, a, b, d)
  PROVE  \A k \in (Rank(t, a) + 1) .. Rank(t, b) : (Runes(t)[k] \in BlankRunes) = d
<1>1. /\ a \in Int /\ b \in Int /\ Rank(t, a) \in Nat /\ Rank(t, b) \in 0 .. Len(Runes(t))
      /\ Len(Runes(t)) \in Nat
  BY CutLemma, RuneAt, SMTT(30) DEF RuneStarts, Texts
<1>2. SUFFICES ASSUME NEW k \in (Rank(t, a) + 1) .. Rank(t, b)
               PROVE  (Runes(t)[k] \in BlankRunes) = d
  OBVIOUS
<1>3. k \in 1 .. Len(Runes(t))
  BY <1>1, <1>2
<1>4. PICK m \in Starts(t) : Rank(t, m) = k - 1
  BY <1>3, RankOnto, RuneAt
<1>5. m \in RuneStarts(t) /\ m \in Int
  BY StartsLemma DEF RuneStarts
<1>6. a <= m /\ m < b
  <2>1. ~(m < a)
    <3>1. m < a => Rank(t, m) < Rank(t, a)
      BY <1>1, <1>5, RankOrder
    <3> QED BY <1>1, <1>2, <1>4, <3>1
  <2>2. ~(b <= m)
    <3>1. b <= m => Rank(t, b) <= Rank(t, m)
      BY <1>1, <1>5, RankOrder
    <3> QED BY <1>1, <1>2, <1>4, <3>1
  <2> QED BY <1>1, <1>5, <2>1, <2>2
<1>7. IsDelimiter(t, m) = d
  BY <1>5, <1>6 DEF Stretch
<1>8. Rank(t, m) + 1 = k
  BY <1>1, <1>2, <1>4
<1> QED BY <1>7, <1>8, BlankLemma

LEMMA StopsLeftChars ==
  ASSUME NEW t \in Texts, Len(t) <= MaxText, NEW a \in RuneStarts(t),
         NEW d, StopsLeft(t, a, d), Rank(t, a) # 0
  PROVE  (Runes(t)[Rank(t, a)] \in BlankRunes) = d
<1>1. /\ a \in Int /\ a <= Len(t) /\ Len(t) \in Nat /\ Rank(t, a) \in 0 .. Len(Runes(t))
      /\ Rank(t, a) \in Nat /\ Len(Runes(t)) \in Nat
  BY CutLemma, RuneAt DEF RuneStarts, Texts
<1>2. Rank(t, a) \in 1 .. Len(Runes(t))
  BY <1>1
<1>3. PICK m \in Starts(t) : Rank(t, m) = Rank(t, a) - 1
  BY <1>2, RankOnto, RuneAt
<1>4. RuneStarts(t) = Starts(t) \cup {Len(t)} /\ Starts(t) \subseteq Int
  BY StartsLemma DEF RuneStarts
<1>5. m < a
  <2>1. a <= m => Rank(t, a) <= Rank(t, m)
    BY <1>1, <1>4, RankOrder
  <2> QED BY <1>1, <1>3, <1>4, <2>1
<1>6. PICK x \in RuneStarts(t) : m <= x /\ x < a /\ IsDelimiter(t, x) = d
  BY <1>4, <1>5 DEF StopsLeft
<1>7. x \in Starts(t) /\ x \in Int
  BY <1>1, <1>4, <1>6
<1>8. x = m
  <2>1. Rank(t, x) < Rank(t, a)
    BY <1>1, <1>6, <1>7, RankOrder
  <2>2. m < x => Rank(t, m) < Rank(t, x)
    BY <1>4, <1>7, RankOrder
  <2>3. Rank(t, x) \in Nat
    BY <1>7, StartsLemma
  <2> QED BY <1>1, <1>3, <1>4, <1>6, <1>7, <2>1, <2>2, <2>3
<1>9. Rank(t, m) + 1 = Rank(t, a)
  BY <1>1, <1>3
<1> QED BY <1>6, <1>8, <1>9, BlankLemma

LEMMA StopsRightChars ==
  ASSUME NEW t \in Texts, Len(t) <= MaxText, NEW b \in RuneStarts(t),
         NEW d, StopsRight(t, b, d), Rank(t, b) # Len(Runes(t))
  PROVE  (Runes(t)[Rank(t, b) + 1] \in BlankRunes) = d
<1>1. b # Len(t)
  BY RankEnds, RuneAt
<1>2. RuneStarts(t) = Starts(t) \cup {Len(t)} /\ b \in Starts(t) /\ b \in 0 .. (Len(t) - 1)
  BY <1>1, StartsLemma
<1>3. /\ NextRune(t, b) \in RuneStarts(t) /\ NextRune(t, b) > b
      /\ \A m \in RuneStarts(t) : m > b => NextRune(t, b) <= m
  BY <1>2, NextStart
<1>4. RuneStarts(t) \subseteq Int
  BY DEF RuneStarts, Texts
<1>5. PICK m \in RuneStarts(t) : b <= m /\ m < NextRune(t, b) /\ IsDelimiter(t, m) = d
  BY <1>3, <1>4 DEF StopsRight
<1>6. m = b
  BY <1>3, <1>4, <1>5
<1> QED BY <1>2, <1>5, <1>6, BlankLemma

\* movewordedge(-1) goes to where a word begins.
LEMMA WordBeginLemma ==
  ASSUME Line(text, cursor)
  PROVE  LET b == Rank(text, WordLeft(text, cursor))
         IN  b \in 0 .. Rank(text, cursor) /\ Editor!WordBegin(b)
<1> DEFINE a == WordLeft(text, cursor)
           R == Runes(text)
           P(n) == Rank(text, n)
<1>1. text \in Texts /\ Len(text) <= MaxText /\ cursor \in RuneStarts(text)
  BY DEF Line
<1>2. PICK e \in RuneStarts(text) :
         /\ a \in RuneStarts(text) /\ a <= e /\ e <= cursor
         /\ Stretch(text, e, cursor, TRUE) /\ StopsLeft(text, e, FALSE)
         /\ Stretch(text, a, e, FALSE) /\ StopsLeft(text, a, TRUE)
  BY <1>1, WordLeftLemma
<1> HIDE DEF a
<1>3. RuneStarts(text) \subseteq Int
  BY <1>1 DEF RuneStarts
<1>4. P(a) <= P(e) /\ P(e) <= P(cursor) /\ P(a) \in Nat /\ P(e) \in Nat /\ P(cursor) \in Nat
  BY <1>1, <1>2, <1>3, RankOrder, StartsLemma
<1>5. RunesOf[text] = R /\ Len(RunesOf[SubSeq(text, 1, cursor)]) = P(cursor)
  BY Mapped
<1>6. \A k \in (P(e) + 1) .. P(cursor) : (R[k] \in BlankRunes) = TRUE
  BY <1>1, <1>2, StretchChars
<1>7. \A k \in (P(a) + 1) .. P(e) : (R[k] \in BlankRunes) = FALSE
  BY <1>1, <1>2, StretchChars
<1>8. P(e) # 0 => (R[P(e)] \in BlankRunes) = FALSE
  BY <1>1, <1>2, StopsLeftChars
<1>9. P(a) # 0 => (R[P(a)] \in BlankRunes) = TRUE
  BY <1>1, <1>2, StopsLeftChars
<1> HIDE DEF R, P
<1>10. P(a) \in 0 .. P(cursor) /\ P(e) \in P(a) .. P(cursor)
  BY <1>4
<1>11. Editor!WordBegin(P(a))
  BY <1>5, <1>6, <1>7, <1>8, <1>9, <1>10 DEF Editor!WordBegin
<1> QED BY <1>10, <1>11 DEF P, a

\* movewordedge(+1) goes to where a word ends.
LEMMA WordEndLemma ==
  ASSUME Line(text, cursor)
  PROVE  LET e == Rank(text, WordRight(text, cursor))
         IN  e \in Rank(text, cursor) .. Len(Runes(text)) /\ Editor!WordEnd(e)
<1> DEFINE a == WordRight(text, cursor)
           R == Runes(text)
           P(n) == Rank(text, n)
<1>1. text \in Texts /\ Len(text) <= MaxText /\ cursor \in RuneStarts(text)
  BY DEF Line
<1>2. PICK b \in RuneStarts(text) :
         /\ a \in RuneStarts(text) /\ cursor <= b /\ b <= a
         /\ Stretch(text, cursor, b, TRUE) /\ StopsRight(text, b, FALSE)
         /\ Stretch(text, b, a, FALSE) /\ StopsRight(text, a, TRUE)
  BY <1>1, WordRightLemma
<1> HIDE DEF a
<1>3. RuneStarts(text) \subseteq Int
  BY <1>1 DEF RuneStarts
<1>4. P(cursor) <= P(b) /\ P(b) <= P(a) /\ P(a) \in Nat /\ P(b) \in Nat /\ P(cursor) \in Nat
  BY <1>1, <1>2, <1>3, RankOrder, StartsLemma
<1>5. RunesOf[text] = R /\ Len(RunesOf[SubSeq(text, 1, cursor)]) = P(cursor)
  BY Mapped
<1>6. \A k \in (P(cursor) + 1) .. P(b) : (R[k] \in BlankRunes) = TRUE
  BY <1>1, <1>2, StretchChars
<1>7. \A k \in (P(b) + 1) .. P(a) : (R[k] \in BlankRunes) = FALSE
  BY <1>1, <1>2, StretchChars
<1>8. P(b) # Len(R) => (R[P(b) + 1] \in BlankRunes) = FALSE
  BY <1>1, <1>2, StopsRightChars
<1>9. P(a) # Len(R) => (R[P(a) + 1] \in BlankRunes) = TRUE
  BY <1>1, <1>2, StopsRightChars
<1>10. P(a) \in 0 .. Len(R) /\ Len(R) \in Nat
  BY <1>1, <1>2, CutLemma, RuneAt
<1> HIDE DEF R, P
<1>11. P(a) \in P(cursor) .. Len(R) /\ P(b) \in P(cursor) .. P(a)
  BY <1>4, <1>10
<1>12. Editor!WordEnd(P(a))
  BY <1>5, <1>6, <1>7, <1>8, <1>9, <1>11 DEF Editor!WordEnd
<1> QED BY <1>11, <1>12 DEF P, R, a

-----------------------------------------------------------------------------
(* Every step is a step of the editor *)

\* Where the editor is, and what lets it step.
LEMMA Here ==
  ASSUME LineInv
  PROVE  /\ text \in Texts /\ cursor \in RuneStarts(text) /\ Len(text) \in Nat
         /\ cursor \in 0 .. Len(text) /\ {0, Len(text)} \subseteq RuneStarts(text)
         /\ RunesOf[text] = Runes(text)
         /\ Len(RunesOf[SubSeq(text, 1, cursor)]) = Rank(text, cursor)
         /\ Rank(text, cursor) \in 0 .. Len(Runes(text))
         /\ Len(Runes(text)) \in Nat /\ Runes(text) \in Seq(Seq(Byte))
<1>1. Line(text, cursor) /\ text \in Texts /\ cursor \in RuneStarts(text)
  BY DEF LineInv, Line
<1>2. cursor \in 0 .. Len(text) /\ {0, Len(text)} \subseteq RuneStarts(text) /\ Len(text) \in Nat
  BY <1>1 DEF RuneStarts, Texts
<1> QED BY <1>1, <1>2, Mapped, RuneAt

\* The line stays as it is: refused, ignored, or not about the line.
LEMMA LineSame ==
  ASSUME LineInv, LineInv', text' = text, cursor' = cursor, printed' = <<>>
  PROVE  Editor!Next
<1>1. Line(text, cursor)'
  BY DEF LineInv
<1>2. Editor!Change(Runes(text), Rank(text, cursor))
  BY <1>1, Becomes
<1> QED BY <1>2, Here DEF Editor!Next

LEMMA LineInsert ==
  ASSUME LineInv, LineInv', NEW s \in Texts, Runes(s) \in Insertions, Insert(s), printed' = <<>>
  PROVE  Editor!Next
<1>1. CASE ~Fits(text, s)
  <2>1. text' = text /\ cursor' = cursor
    BY <1>1 DEF Insert, field
  <2> QED BY <2>1, LineSame
<1>2. CASE Fits(text, s)
  <2>1. text' = Inserted(text, cursor, s) /\ cursor' = cursor + Len(s)
    BY <1>2 DEF Insert, Edit
  <2> DEFINE p == Rank(text, cursor)
             l == SubSeq(Runes(text), 1, p) \o Runes(s)
                    \o SubSeq(Runes(text), p + 1, Len(Runes(text)))
  <2>2. Runes(text') = l /\ Rank(text', cursor') = p + Len(Runes(s))
    BY <2>1, Here, InsertedRunes
  <2>3. Line(text, cursor)'
    BY DEF LineInv
  <2>4. Editor!Change(l, p + Len(Runes(s)))
    BY <2>2, <2>3, Becomes
  <2>5. Editor!Type(Runes(s))
    BY <2>4, Here DEF Editor!Type, Editor!Before, Editor!After
  <2> QED BY <2>5 DEF Editor!Next
<1> QED BY <1>1, <1>2

\* The runes between two rune starts go, and the cursor is where they were.
LEMMA LineErase ==
  ASSUME LineInv, LineInv', NEW from \in RuneStarts(text), NEW to \in RuneStarts(text),
         text' = Deleted(text, from, to), cursor' = from, printed' = <<>>
  PROVE  Editor!Erase(Rank(text, from), Rank(text, to))
<1> DEFINE l == SubSeq(Runes(text), 1, Rank(text, from))
                  \o SubSeq(Runes(text), Rank(text, to) + 1, Len(Runes(text)))
<1>1. Runes(text') = l /\ Rank(text', cursor') = Rank(text, from)
  BY Here, DeletedRunes
<1>2. Line(text, cursor)'
  BY DEF LineInv
<1>3. Editor!Change(l, Rank(text, from))
  BY <1>1, <1>2, Becomes
<1> QED BY <1>3, Here DEF Editor!Erase, Editor!Before, Editor!After

LEMMA LineMove ==
  ASSUME LineInv, LineInv', NEW c \in RuneStarts(text), MoveCursor(c), printed' = <<>>
  PROVE  Editor!Move(Rank(text, c))
<1>1. text' = text /\ cursor' = c
  BY DEF MoveCursor
<1>2. Line(text, cursor)'
  BY DEF LineInv
<1>3. Editor!Change(Runes(text), Rank(text, c))
  BY <1>1, <1>2, Becomes
<1>4. Rank(text, c) \in 0 .. Len(Runes(text))
  BY Here, CutLemma
<1> QED BY <1>3, <1>4, Here DEF Editor!Move

\* A line is written: that of the user, or an item.
LEMMA LineWritten ==
  ASSUME UNCHANGED field, NEW x, printed' = <<x>>,
         Runes(x) \in ItemRunes \/ Runes(x) = RunesOf[text]
  PROVE  Editor!Next
<1>1. [k \in DOMAIN printed' |-> Runes(printed'[k])] = <<Runes(x)>>
  OBVIOUS
<1>2. RunesOf[text'] = RunesOf[text] /\ SubSeq(text', 1, cursor') = SubSeq(text, 1, cursor)
  BY DEF field
<1> QED BY <1>1, <1>2 DEF Editor!Next

\* nextrune(-1) steps over one character.
LEMMA RankPrev ==
  ASSUME NEW t \in Texts, NEW c \in RuneStarts(t), c # 0
  PROVE  PrevRune(t, c) \in Starts(t) /\ NextRune(t, PrevRune(t, c)) = c
         /\ Rank(t, c) = Rank(t, PrevRune(t, c)) + 1
<1> DEFINE T == {n \in RuneStarts(t) : n < c}
           x == PrevRune(t, c)
<1>1. /\ Len(t) \in Nat /\ c \in 0 .. Len(t) /\ RuneStarts(t) = Starts(t) \cup {Len(t)}
      /\ Starts(t) \subseteq 0 .. (Len(t) - 1)
  BY StartsLemma DEF RuneStarts
<1>2. T \in SUBSET (0 .. Len(t)) /\ 0 \in T
  BY <1>1 DEF RuneStarts
<1>3. x \in T /\ \A y \in T : x >= y
  <2>1. Max(T) \in T /\ \A y \in T : Max(T) >= y
    BY <1>1, <1>2, MaxLemma
  <2> QED BY <2>1 DEF PrevRune
<1> HIDE DEF x
<1>4. x \in Starts(t) /\ x < c /\ x \in 0 .. (Len(t) - 1)
  BY <1>1, <1>3
<1>5. \A m \in RuneStarts(t) : m > x => c <= m
  BY <1>1, <1>3, <1>4
<1>6. NextRune(t, x) = c
  BY <1>4, <1>5, NextIs
<1>7. Rank(t, c) = Rank(t, x) + 1
  BY <1>4, <1>6, RankNext
<1> QED BY <1>4, <1>6, <1>7 DEF x

LEMMA CharKeys ==
  ASSUME LineInv, LineInv', KeyDelete \/ KeyBackSpace \/ KeyKillLeft \/ KeyKillRight \/ KeyKillWord
  PROVE  Editor!Next
<1> DEFINE P == Rank(text, cursor)
           N == Len(Runes(text))
<1>1. /\ text \in Texts /\ cursor \in RuneStarts(text) /\ cursor \in 0 .. Len(text)
      /\ {0, Len(text)} \subseteq RuneStarts(text) /\ RunesOf[text] = Runes(text)
      /\ Len(RunesOf[SubSeq(text, 1, cursor)]) = P /\ P \in 0 .. N /\ N \in Nat
  BY Here
<1>2. Rank(text, 0) = 0 /\ Rank(text, Len(text)) = N
  BY <1>1, RankEnds, RuneAt
<1>3. Ignored => Editor!Next
  <2>1. Ignored => text' = text /\ cursor' = cursor /\ printed' = <<>>
    BY DEF Ignored, Quiet, field
  <2> QED BY <2>1, LineSame
<1>4. \A from \in RuneStarts(text) :
         DeleteTo(from) /\ Quiet => Editor!Erase(Rank(text, from), P)
  <2>1. \A from : DeleteTo(from) /\ Quiet =>
           text' = Deleted(text, from, cursor) /\ cursor' = from /\ printed' = <<>>
    BY DEF DeleteTo, Edit, Quiet
  <2> QED BY <1>1, <2>1, LineErase
<1>5. CASE KeyDelete
  <2>1. CASE cursor = Len(text)
    BY <1>3, <1>5, <2>1 DEF KeyDelete
  <2>2. CASE cursor # Len(text)
    <3> DEFINE c == NextRune(text, cursor)
               b == PrevRune(text, c)
    <3>1. cursor \in Starts(text) /\ cursor \in 0 .. (Len(text) - 1)
      BY <1>1, <2>2, StartsLemma DEF Starts
    <3>2. c \in RuneStarts(text) /\ c # 0 /\ Rank(text, c) = P + 1
      BY <1>1, <3>1, NextStart, RankNext
    <3> HIDE DEF c
    <3>3. b \in RuneStarts(text) /\ Rank(text, c) = Rank(text, b) + 1 /\ Rank(text, b) \in Nat
      BY <1>1, <3>2, RankPrev, CutLemma DEF Starts
    <3>4. text' = Deleted(text, b, c) /\ cursor' = b /\ printed' = <<>>
      BY <1>5, <2>2 DEF KeyDelete, Edit, Quiet, b, c
    <3> HIDE DEF b
    <3>5. Editor!Erase(Rank(text, b), Rank(text, c))
      BY <3>2, <3>3, <3>4, LineErase
    <3>6. Rank(text, b) = P /\ P < N
      <4>1. Rank(text, c) \in 0 .. N
        BY <1>1, <3>2, CutLemma
      <4> QED BY <1>1, <3>2, <3>3, <4>1
    <3> QED BY <1>1, <3>2, <3>5, <3>6 DEF Editor!Next
  <2> QED BY <2>1, <2>2
<1>6. CASE KeyBackSpace
  <2>1. CASE cursor = 0
    BY <1>3, <1>6, <2>1 DEF KeyBackSpace
  <2>2. CASE cursor # 0
    <3> DEFINE b == PrevRune(text, cursor)
    <3>1. b \in RuneStarts(text) /\ P = Rank(text, b) + 1 /\ Rank(text, b) \in Nat
      BY <1>1, <2>2, RankPrev, CutLemma DEF Starts
    <3>2. DeleteTo(b) /\ Quiet
      BY <1>6, <2>2 DEF KeyBackSpace
    <3> HIDE DEF b
    <3>3. Editor!Erase(Rank(text, b), P)
      BY <1>4, <3>1, <3>2
    <3>4. Rank(text, b) = P - 1 /\ P > 0
      BY <1>1, <3>1
    <3> QED BY <1>1, <3>3, <3>4 DEF Editor!Next
  <2> QED BY <2>1, <2>2
<1>7. CASE KeyKillLeft
  <2>1. Editor!Erase(0, P)
    BY <1>1, <1>2, <1>4, <1>7 DEF KeyKillLeft
  <2> QED BY <1>1, <2>1 DEF Editor!Next
<1>8. CASE KeyKillRight
  <2>1. SubSeq(text, 1, cursor) = Deleted(text, cursor, Len(text))
    <3>1. SubSeq(text, 1, cursor) \in Seq(Byte) /\ SubSeq(text, Len(text) + 1, Len(text)) = <<>>
      BY <1>1 DEF Texts
    <3> QED BY <3>1, WholeSeq DEF Deleted
  <2>2. text' = Deleted(text, cursor, Len(text)) /\ cursor' = cursor /\ printed' = <<>>
    BY <1>8, <2>1 DEF KeyKillRight, Edit, Quiet
  <2>3. Editor!Erase(P, N)
    BY <1>1, <1>2, <2>2, LineErase
  <2> QED BY <1>1, <2>3 DEF Editor!Next
<1>9. CASE KeyKillWord
  <2>1. CASE ~(cursor > 0)
    BY <1>3, <1>9, <2>1 DEF KeyKillWord
  <2>2. CASE cursor > 0
    <3> DEFINE b == WordLeft(text, cursor)
    <3>1. b \in RuneStarts(text)
      BY <1>1, WordLeftLemma
    <3>2. Rank(text, b) \in 0 .. P /\ Editor!WordBegin(Rank(text, b))
      BY WordBeginLemma DEF LineInv
    <3>3. DeleteTo(b) /\ Quiet
      BY <1>9, <2>2 DEF KeyKillWord
    <3> HIDE DEF b
    <3>4. Editor!Erase(Rank(text, b), P)
      BY <1>4, <3>1, <3>3
    <3> QED BY <1>1, <3>2, <3>4 DEF Editor!Next
  <2> QED BY <2>1, <2>2
<1> QED BY <1>5, <1>6, <1>7, <1>8, <1>9

LEMMA CursorKeys ==
  ASSUME LineInv, LineInv', KeyWordLeft \/ KeyWordRight \/ KeyEnd \/ KeyHome \/ KeyLeft \/ KeyRight
  PROVE  Editor!Next
<1> DEFINE P == Rank(text, cursor)
           N == Len(Runes(text))
<1>1. /\ text \in Texts /\ cursor \in RuneStarts(text) /\ cursor \in 0 .. Len(text)
      /\ Len(text) \in Nat
      /\ {0, Len(text)} \subseteq RuneStarts(text) /\ RunesOf[text] = Runes(text)
      /\ Len(RunesOf[SubSeq(text, 1, cursor)]) = P /\ P \in 0 .. N /\ N \in Nat
  BY Here
<1>2. Rank(text, 0) = 0 /\ Rank(text, Len(text)) = N
  BY <1>1, RankEnds, RuneAt
<1>3. UNCHANGED field /\ Quiet => Editor!Next
  BY LineSame DEF field, Quiet
<1>4. \A c \in RuneStarts(text) : MoveCursor(c) /\ Quiet => Editor!Move(Rank(text, c))
  BY LineMove DEF Quiet
<1>5. CASE KeyWordLeft
  <2> DEFINE b == WordLeft(text, cursor)
  <2>1. b \in RuneStarts(text)
    BY <1>1, WordLeftLemma
  <2>2. Rank(text, b) \in 0 .. P /\ Editor!WordBegin(Rank(text, b))
    BY WordBeginLemma DEF LineInv
  <2>3. Editor!Move(Rank(text, b))
    BY <1>4, <1>5, <2>1 DEF KeyWordLeft
  <2> HIDE DEF b
  <2> QED BY <1>1, <2>2, <2>3 DEF Editor!Next
<1>6. CASE KeyWordRight
  <2> DEFINE e == WordRight(text, cursor)
  <2>1. e \in RuneStarts(text)
    BY <1>1, WordRightLemma
  <2>2. Rank(text, e) \in P .. N /\ Editor!WordEnd(Rank(text, e))
    BY WordEndLemma DEF LineInv
  <2>3. Editor!Move(Rank(text, e))
    BY <1>4, <1>6, <2>1 DEF KeyWordRight
  <2> HIDE DEF e
  <2> QED BY <1>1, <2>2, <2>3 DEF Editor!Next
<1>7. CASE KeyEnd
  <2>1. CASE cursor < Len(text)
    <3>1. Editor!Move(N)
      BY <1>1, <1>2, <1>4, <1>7, <2>1 DEF KeyEnd
    <3> QED BY <1>1, <3>1 DEF Editor!Next
  <2>2. CASE ~(cursor < Len(text))
    BY <1>3, <1>7, <2>2 DEF KeyEnd, Select
  <2> QED BY <2>1, <2>2
<1>8. CASE KeyHome
  <2>1. CASE sel = first
    <3>1. Editor!Move(0)
      BY <1>1, <1>2, <1>4, <1>8, <2>1 DEF KeyHome
    <3> QED BY <1>1, <3>1 DEF Editor!Next
  <2>2. CASE sel # first
    BY <1>3, <1>8, <2>2 DEF KeyHome, Select
  <2> QED BY <2>1, <2>2
<1>9. CASE KeyLeft
  <2>1. CASE cursor > 0 /\ (sel <= 1 \/ lines > 0)
    <3> DEFINE b == PrevRune(text, cursor)
    <3>1. b \in RuneStarts(text) /\ P = Rank(text, b) + 1 /\ Rank(text, b) \in Nat
      <4>1. cursor # 0
        BY <1>1, <2>1
      <4> QED BY <1>1, <4>1, RankPrev, CutLemma DEF Starts
    <3>2. Editor!Move(Rank(text, b))
      BY <1>4, <1>9, <2>1, <3>1 DEF KeyLeft
    <3> HIDE DEF b
    <3>3. Rank(text, b) = P - 1
      BY <1>1, <3>1
    <3> QED BY <1>1, <3>2, <3>3 DEF Editor!Next
  <2>2. CASE ~(cursor > 0 /\ (sel <= 1 \/ lines > 0))
    BY <1>3, <1>9, <2>2 DEF KeyLeft, Up, Select
  <2> QED BY <2>1, <2>2
<1>10. CASE KeyRight
  <2>1. CASE cursor < Len(text)
    <3> DEFINE c == NextRune(text, cursor)
    <3>1. cursor \in Starts(text) /\ cursor \in 0 .. (Len(text) - 1)
      BY <1>1, <2>1 DEF Starts
    <3>2. c \in RuneStarts(text) /\ Rank(text, c) = P + 1
      BY <1>1, <3>1, NextStart, RankNext
    <3>3. Editor!Move(Rank(text, c))
      BY <1>4, <1>10, <2>1, <3>2 DEF KeyRight
    <3> HIDE DEF c
    <3> QED BY <1>1, <3>2, <3>3 DEF Editor!Next
  <2>2. CASE ~(cursor < Len(text))
    BY <1>3, <1>10, <2>2 DEF KeyRight, Down, Select
  <2> QED BY <2>1, <2>2
<1> QED BY <1>5, <1>6, <1>7, <1>8, <1>9, <1>10

\* What the line may be replaced by or written in place of is an item.
LEMMA ItemLemma ==
  ASSUME PagesInv, NEW i \in 1 .. Len(matches)
  PROVE  items[matches[i]] \in ItemTexts /\ matches[i] \in 1 .. Len(items)
<1>1. matches \in Seq(1 .. Len(items)) /\ (items \in Inputs \/ items = <<>>)
  BY DEF PagesInv, View, Listed, Setting
<1>2. matches[i] \in 1 .. Len(items)
  BY <1>1
<1>3. items \in Inputs
  BY <1>1, <1>2
<1> QED BY <1>2, <1>3 DEF ItemTexts

LEMMA KeySteps ==
  ASSUME PagesInv, LineInv', keypress
  PROVE  Editor!Next
<1>1. LineInv
  BY DEF PagesInv
<1>2. CASE KeyText
  <2>1. PICK s \in Typed : Insert(s) /\ Quiet
    BY <1>2 DEF KeyText
  <2>2. s \in Texts /\ Runes(s) \in Insertions
    BY InputAssumption DEF Insertions
  <2> QED BY <1>1, <2>1, <2>2, LineInsert DEF Quiet
<1>3. CASE KeyUnbound \/ KeyUp \/ KeyDown \/ ScrollDown \/ ScrollUp \/ KeyEscape
  <2>1. text' = text /\ cursor' = cursor /\ printed' = <<>>
    BY <1>3 DEF KeyUnbound, KeyUp, KeyDown, Up, Down, ScrollDown, ScrollUp, KeyEscape, Exit,
                Select, Edit, Quiet, field
  <2> QED BY <1>1, <2>1, LineSame
<1>4. CASE KeyTab
  <2>1. CASE sel = NULL
    <3>1. text' = text /\ cursor' = cursor /\ printed' = <<>>
      BY <1>4, <2>1 DEF KeyTab, Ignored, Quiet, field
    <3> QED BY <1>1, <3>1, LineSame
  <2>2. CASE sel # NULL
    <3>1. PICK i \in 1 .. Len(items) :
             /\ i = matches[sel]
             /\ LET t == ToMaxText(items[i]) IN Edit(t, Len(t))
             /\ Quiet
      BY <1>4, <2>2 DEF KeyTab
    <3> DEFINE t == ToMaxText(items[i])
    <3>2. text' = t /\ cursor' = Len(t) /\ printed' = <<>>
      BY <3>1 DEF Edit, Quiet
    <3>3. items[i] \in ItemTexts
      <4>1. items \in Inputs \/ items = <<>>
        BY DEF PagesInv, Setting
      <4> QED BY <4>1 DEF ItemTexts
    <3>4. Runes(t) \in Completions
      BY <3>3 DEF Completions
    <3> HIDE DEF t
    <3>5. Line(text, cursor)' /\ t \in Texts
      BY <3>2 DEF LineInv, Line
    <3>6. Rank(t, Len(t)) = Len(Runes(t))
      BY <3>5, RankEnds, RuneAt
    <3>7. Editor!Change(Runes(t), Len(Runes(t)))
      BY <3>2, <3>5, <3>6, Becomes
    <3> QED BY <3>4, <3>7 DEF Editor!Next, Editor!Copy
  <2> QED BY <2>1, <2>2
<1>5. ASSUME NEW shift \in BOOLEAN, NEW ctrl \in BOOLEAN, KeyReturn(shift, ctrl)
      PROVE  Editor!Next
  <2> DEFINE x == IF sel # NULL /\ ~shift THEN items[matches[sel]] ELSE text
  <2>1. printed' = <<x>> /\ UNCHANGED field
    BY <1>5 DEF KeyReturn, Exit
  <2>2. Runes(x) \in ItemRunes \/ Runes(x) = RunesOf[text]
    <3>1. CASE sel # NULL /\ ~shift
      <4>1. sel \in 1 .. Len(matches)
        BY <3>1, ViewFacts
      <4> QED BY <3>1, <4>1, ItemLemma DEF ItemRunes
    <3>2. CASE ~(sel # NULL /\ ~shift)
      BY <1>1, <3>2, Here
    <3> QED BY <3>1, <3>2
  <2> HIDE DEF x
  <2> QED BY <2>1, <2>2, LineWritten
<1> QED BY <1>1, <1>2, <1>3, <1>4, <1>5, CharKeys, CursorKeys DEF keypress

LEMMA EditorStep ==
  ASSUME PagesInv, LineInv', Next
  PROVE  Editor!Next
<1>1. LineInv
  BY DEF PagesInv
<1>2. CASE readstdin \/ grabkeyboard \/ setup \/ focusin \/ destroynotify \/ KeyEscape
  <2>1. text' = text /\ cursor' = cursor /\ printed' = <<>>
    BY <1>2 DEF readstdin, grabkeyboard, setup, focusin, destroynotify, KeyEscape, Exit,
                Done, field
  <2> QED BY <1>1, <2>1, LineSame
<1>3. CASE buttonpress
  <2>1. ASSUME NEW z, ClickInput(z) PROVE Editor!Next
    <3>1. KeyKillLeft
      BY <2>1 DEF ClickInput, KeyKillLeft
    <3> QED BY <1>1, <3>1, CharKeys
  <2>2. ASSUME NEW z, ClickArrow(z) PROVE Editor!Next
    BY <2>2, KeySteps DEF ClickArrow, keypress
  <2>3. ASSUME NEW z, NEW ctrl \in BOOLEAN, ClickItem(z, ctrl) PROVE Editor!Next
    <3> DEFINE i == Min(Covers(z))
               x == items[matches[i]]
    <3>1. printed' = <<x>> /\ UNCHANGED field /\ Covers(z) # {}
      BY <2>3 DEF ClickItem, Exit, Select
    <3>2. Covers(z) \subseteq page
      BY DEF Covers
    <3>3. page \subseteq 1 .. Len(matches) /\ Len(matches) \in Nat
      <4>1. page # {}
        BY <3>1, <3>2
      <4>2. matches # <<>> /\ page = PageFrom(matches, curr)
        BY <4>1, ViewFacts
      <4>3. matchend = Len(matches) /\ matchend \in Nat
            /\ PageFrom(matches, curr) \subseteq 1 .. matchend
        BY <4>2, ViewFacts
      <4> QED BY <4>2, <4>3
    <3>4. Covers(z) \in SUBSET Nat
      <4>1. 1 .. Len(matches) \subseteq Nat
        BY <3>3
      <4> HIDE DEF i, x
      <4> QED BY <3>2, <3>3, <4>1
    <3>5. i \in 1 .. Len(matches)
      BY <3>1, <3>2, <3>3, <3>4, MinLemma
    <3> HIDE DEF i
    <3>6. x \in ItemTexts
      BY <3>5, ItemLemma
    <3> QED BY <3>1, <3>6, LineWritten DEF ItemRunes
  <2> QED BY <1>2, <1>3, <2>1, <2>2, <2>3 DEF buttonpress
<1>4. CASE paste
  <2>1. PICK s \in Selections : Insert(FirstLine(s)) /\ Quiet
    BY <1>4 DEF paste
  <2>2. FirstLine(s) \in Texts
    BY InputAssumption, FirstLineLemma
  <2>3. Runes(FirstLine(s)) \in Insertions
    BY DEF Insertions
  <2> QED BY <1>1, <2>1, <2>2, <2>3, LineInsert DEF Quiet
<1>5. CASE keypress
  BY <1>5, KeySteps
<1> QED BY <1>2, <1>3, <1>4, <1>5 DEF Next, run

LEMMA EditorInit ==
  ASSUME Init
  PROVE  Editor!Init
<1>1. text = <<>> /\ cursor = 0 /\ printed = <<>>
  BY DEF Init
<1>2. Line(<<>>, 0)
  BY TextAssumption DEF Line, Texts, RuneStarts
<1>3. RunesOf[<<>>] = Runes(<<>>) /\ Len(RunesOf[SubSeq(<<>>, 1, 0)]) = Rank(<<>>, 0)
  BY <1>2, Mapped
<1>4. <<>> \in Texts /\ Len(<<>>) = 0
  BY <1>2 DEF Line
<1>5. Rank(<<>>, 0) = 0 /\ Len(Runes(<<>>)) = 0 /\ Runes(<<>>) \in Seq(Seq(Byte))
  <2>1. Rank(<<>>, 0) = 0 /\ Rank(<<>>, Len(<<>>)) = Cardinality(Starts(<<>>))
    BY <1>4, RankEnds
  <2> QED BY <1>4, <2>1, RuneAt
<1>6. Runes(<<>>) = <<>>
  BY <1>5
<1>7. [k \in DOMAIN <<>> |-> Runes(<<>>[k])] = <<>>
  OBVIOUS
<1> QED BY <1>1, <1>3, <1>5, <1>6, <1>7 DEF Editor!Init

\* In characters, every step of dmenu is one that DmenuEditor allows: what is
\* typed, pasted or completed enters the line as it is, deletions take whole
\* characters or words next to the cursor, and what is written is the line or
\* an item (insert, nextrune, movewordedge, keypress, buttonpress, paste).
THEOREM LineImplementsEditor == Spec => EditsCharacters
<1>1. Init => Editor!Init
  BY EditorInit
<1>2. PagesInv /\ PagesInv' /\ [Next]_vars => [Editor!Next]_(Editor!vars)
  <2> SUFFICES ASSUME PagesInv, PagesInv', [Next]_vars
               PROVE  [Editor!Next]_(Editor!vars)
    OBVIOUS
  <2>1. CASE Next
    <3>1. LineInv'
      BY DEF PagesInv
    <3> QED BY <2>1, <3>1, EditorStep
  <2>2. CASE UNCHANGED vars
    <3>1. text' = text /\ cursor' = cursor /\ printed' = printed
      BY <2>2 DEF vars, field
    <3>2. UNCHANGED Editor!vars
      BY <3>1 DEF Editor!vars
    <3> QED BY <3>2
  <2> QED BY <2>1, <2>2
<1> QED BY <1>1, <1>2, PagesAlways, PTL DEF Spec, EditsCharacters, Editor!Spec
=============================================================================
