----------------------------- MODULE DmenuProofs -----------------------------
(***************************************************************************)
(* For every set of bytes, every items, typed strings and selections: the  *)
(* input line of dmenu stays within its buffer and its cursor between two  *)
(* characters.  The invariant is inductive once the items read from        *)
(* standard input are known to be texts, because Tab copies one of them.   *)
(* Then come the pages of the menu, and what it offers.                    *)
(***************************************************************************)
EXTENDS Dmenu, FiniteSetTheorems, WellFoundedInduction, TLAPS

Line(t, c) == t \in Texts /\ Len(t) <= MaxText /\ c \in RuneStarts(t)
LineInv == items \in Seq(Texts) /\ Line(text, cursor)

-----------------------------------------------------------------------------
(* The searches for rune starts return what they look for. *)

\* A set of offsets has a least member.
LEMMA LeastOffset ==
  ASSUME NEW T \in SUBSET Nat, T # {}
  PROVE  \E x \in T : \A y \in T : x <= y
<1> DEFINE R == OpToRel(<, Nat)
<1>1. IsWellFoundedOn(R, Nat)
  BY NatLessThanWellFounded
<1>2. \A x, y \in Nat : y < x => <<y, x>> \in R
  BY DEF OpToRel
<1> HIDE DEF R
<1>3. PICK x \in T : \A y \in T : ~ (<<y, x>> \in R)
  BY <1>1, WFMin
<1>4. \A y \in T : y \in Nat /\ x \in Nat /\ ~ (y < x)
  BY <1>2, <1>3
<1>5. \A y \in T : x <= y
  BY <1>4
<1> QED BY <1>5

LEMMA MinLemma ==
  ASSUME NEW T \in SUBSET Nat, T # {}
  PROVE  Min(T) \in T /\ \A y \in T : Min(T) <= y
<1>1. \E x \in T : \A y \in T : x <= y
  BY LeastOffset
<1> QED BY <1>1 DEF Min

\* A set of offsets up to n has a greatest member.
LEMMA MaxLemma ==
  ASSUME NEW n \in Nat, NEW T \in SUBSET (0 .. n), T # {}
  PROVE  Max(T) \in T /\ \A y \in T : Max(T) >= y
<1> DEFINE D == {n - t : t \in T}
<1>1. D \in SUBSET Nat /\ D # {}
  <2>1. \A t \in T : t \in 0 .. n /\ n - t \in Nat
    OBVIOUS
  <2> QED BY <2>1
<1>2. PICK d \in D : \A e \in D : d <= e
  BY <1>1, LeastOffset
<1>3. PICK x \in T : d = n - x
  BY <1>2
<1>4. \A y \in T : n - x <= n - y
  BY <1>2, <1>3
<1>5. \A y \in T : x >= y
  BY <1>4
<1> QED BY <1>5 DEF Max

\* A step of nextrune() ends at a rune start.
LEMMA NextRuneLemma ==
  ASSUME NEW t \in Texts, NEW c \in 0 .. Len(t), c # Len(t)
  PROVE  NextRune(t, c) \in RuneStarts(t) /\ NextRune(t, c) > c
<1> DEFINE S == {n \in RuneStarts(t) : n > c}
<1>1. S \in SUBSET Nat /\ Len(t) \in S
  BY DEF RuneStarts, Texts
<1> QED BY <1>1, MinLemma DEF NextRune

LEMMA PrevRuneLemma ==
  ASSUME NEW t \in Texts, NEW c \in 0 .. Len(t), c # 0
  PROVE  PrevRune(t, c) \in RuneStarts(t) /\ PrevRune(t, c) < c
<1> DEFINE S == {n \in RuneStarts(t) : n < c}
<1>1. Len(t) \in Nat /\ S \in SUBSET (0 .. Len(t)) /\ 0 \in S
  BY DEF RuneStarts, Texts
<1>2. Max(S) \in S
  BY <1>1, MaxLemma
<1> QED BY <1>2 DEF PrevRune

\* The loops of movewordedge() end at a rune start, on their side of c, having
\* passed no stop, and there is nothing but a stop to go on to.
LEMMA LeftwardsLemma ==
  ASSUME NEW t \in Texts, NEW c \in RuneStarts(t), NEW Stop
  PROVE  LET S == {n \in (RuneStarts(t) \cap (0..c)) \cup {c} :
                     \A m \in RuneStarts(t) : n <= m /\ m < c => m \notin Stop}
         IN  /\ Min(S) \in RuneStarts(t) \cap (0 .. c)
             /\ \A m \in RuneStarts(t) : Min(S) <= m /\ m < c => m \notin Stop
             /\ \A n \in RuneStarts(t) : n < Min(S) =>
                   \E m \in Stop \cap RuneStarts(t) : n <= m /\ m < Min(S)
<1> DEFINE S == {n \in (RuneStarts(t) \cap (0..c)) \cup {c} :
                   \A m \in RuneStarts(t) : n <= m /\ m < c => m \notin Stop}
<1>1. c \in 0 .. Len(t) /\ Len(t) \in Nat /\ RuneStarts(t) \subseteq 0 .. Len(t)
  BY DEF RuneStarts, Texts
<1>2. c \in S
  BY <1>1 DEF RuneStarts
<1>3. S \subseteq RuneStarts(t) \cap (0 .. c) /\ S \in SUBSET Nat
  BY <1>1
<1>4. \A n \in RuneStarts(t) \cap (0 .. c) :
         n \in S <=> \A m \in RuneStarts(t) : n <= m /\ m < c => m \notin Stop
  OBVIOUS
<1> DEFINE e == Min(S)
<1> HIDE DEF S
<1>5. e \in S /\ \A n \in S : e <= n
  BY <1>2, <1>3, MinLemma
<1> HIDE DEF e
<1>6. e \in RuneStarts(t) \cap (0 .. c)
  BY <1>3, <1>5
<1>7. \A m \in RuneStarts(t) : e <= m /\ m < c => m \notin Stop
  BY <1>4, <1>5, <1>6
<1>8. ASSUME NEW n \in RuneStarts(t), n < e
      PROVE  \E m \in Stop \cap RuneStarts(t) : n <= m /\ m < e
  <2>1. n \in RuneStarts(t) \cap (0 .. c) /\ n \notin S
    BY <1>1, <1>5, <1>6, <1>8
  <2>2. PICK m \in RuneStarts(t) : n <= m /\ m < c /\ m \in Stop
    BY <1>4, <2>1
  <2>3. m < e
    BY <1>1, <1>6, <1>7, <2>2
  <2> QED BY <2>2, <2>3
<1> QED BY <1>6, <1>7, <1>8 DEF e, S

LEMMA RightwardsLemma ==
  ASSUME NEW t \in Texts, NEW c \in RuneStarts(t), NEW Stop
  PROVE  LET S == {n \in (RuneStarts(t) \cap (c..Len(t))) \cup {c} :
                     \A m \in RuneStarts(t) \cup {c} : c <= m /\ m < n => m \notin Stop}
         IN  /\ Max(S) \in RuneStarts(t) \cap (c .. Len(t))
             /\ \A m \in RuneStarts(t) : c <= m /\ m < Max(S) => m \notin Stop
             /\ \A n \in RuneStarts(t) : Max(S) < n =>
                   \E m \in Stop \cap RuneStarts(t) : Max(S) <= m /\ m < n
<1> DEFINE S == {n \in (RuneStarts(t) \cap (c..Len(t))) \cup {c} :
                   \A m \in RuneStarts(t) \cup {c} : c <= m /\ m < n => m \notin Stop}
<1>1. c \in 0 .. Len(t) /\ Len(t) \in Nat /\ RuneStarts(t) \subseteq 0 .. Len(t)
  BY DEF RuneStarts, Texts
<1>2. c \in S
  BY <1>1 DEF RuneStarts
<1>3. S \subseteq RuneStarts(t) \cap (c .. Len(t)) /\ S \in SUBSET (0 .. Len(t))
  BY <1>1 DEF RuneStarts
<1>4. \A n \in RuneStarts(t) \cap (c .. Len(t)) :
         n \in S <=> \A m \in RuneStarts(t) : c <= m /\ m < n => m \notin Stop
  OBVIOUS
<1> DEFINE e == Max(S)
<1> HIDE DEF S
<1>5. e \in S /\ \A n \in S : e >= n
  BY <1>1, <1>2, <1>3, MaxLemma
<1> HIDE DEF e
<1>6. e \in RuneStarts(t) \cap (c .. Len(t))
  BY <1>3, <1>5
<1>7. \A m \in RuneStarts(t) : c <= m /\ m < e => m \notin Stop
  BY <1>4, <1>5, <1>6
<1>8. ASSUME NEW n \in RuneStarts(t), e < n
      PROVE  \E m \in Stop \cap RuneStarts(t) : e <= m /\ m < n
  <2>1. n \in RuneStarts(t) \cap (c .. Len(t)) /\ n \notin S
    BY <1>1, <1>5, <1>6, <1>8
  <2>2. PICK m \in RuneStarts(t) : c <= m /\ m < n /\ m \in Stop
    BY <1>4, <2>1
  <2>3. e <= m
    BY <1>1, <1>6, <1>7, <2>2
  <2> QED BY <2>2, <2>3
<1> QED BY <1>6, <1>7, <1>8 DEF e, S

\* From a to b there are only runes for which Delim has the value d, and b ends
\* them: to the left of a, to the right of b.
Stretch(t, a, b, d) == \A m \in RuneStarts(t) : a <= m /\ m < b => IsDelimiter(t, m) = d
StopsLeft(t, a, d) == \A n \in RuneStarts(t) : n < a =>
                         \E m \in RuneStarts(t) : n <= m /\ m < a /\ IsDelimiter(t, m) = d
StopsRight(t, b, d) == \A n \in RuneStarts(t) : b < n =>
                          \E m \in RuneStarts(t) : b <= m /\ m < n /\ IsDelimiter(t, m) = d

\* movewordedge(-1) passes the delimiters left of c, and then a word.
LEMMA WordLeftLemma ==
  ASSUME NEW t \in Texts, NEW c \in RuneStarts(t)
  PROVE  \E b \in RuneStarts(t) :
            /\ WordLeft(t, c) \in RuneStarts(t) /\ WordLeft(t, c) <= b /\ b <= c
            /\ Stretch(t, b, c, TRUE) /\ StopsLeft(t, b, FALSE)
            /\ Stretch(t, WordLeft(t, c), b, FALSE) /\ StopsLeft(t, WordLeft(t, c), TRUE)
<1> DEFINE Delims == {m \in RuneStarts(t) : IsDelimiter(t, m)}
           Others == {m \in RuneStarts(t) : ~IsDelimiter(t, m)}
           Left(d, Stop) == Min({n \in (RuneStarts(t) \cap (0..d)) \cup {d} :
                     \A m \in RuneStarts(t) : n <= m /\ m < d => m \notin Stop})
           b == Left(c, Others)
           a == Left(b, Delims)
<1>1. \A Stop : \A d \in RuneStarts(t) :
         /\ Left(d, Stop) \in RuneStarts(t) \cap (0 .. d)
         /\ \A m \in RuneStarts(t) : Left(d, Stop) <= m /\ m < d => m \notin Stop
         /\ \A n \in RuneStarts(t) : n < Left(d, Stop) =>
               \E m \in Stop \cap RuneStarts(t) : n <= m /\ m < Left(d, Stop)
  BY LeftwardsLemma
<1>2. \A m \in RuneStarts(t) : /\ m \in Delims <=> IsDelimiter(t, m) = TRUE
                               /\ m \in Others <=> IsDelimiter(t, m) = FALSE
  BY DEF IsDelimiter
<1>3. WordLeft(t, c) = a
  <2>1. \A d : {n \in (RuneStarts(t) \cap (0..d)) \cup {d} :
                  \A m \in RuneStarts(t) : n <= m /\ m < d => IsDelimiter(t, m)}
             = {n \in (RuneStarts(t) \cap (0..d)) \cup {d} :
                  \A m \in RuneStarts(t) : n <= m /\ m < d => m \notin Others}
    OBVIOUS
  <2>2. \A d : {n \in (RuneStarts(t) \cap (0..d)) \cup {d} :
                  \A m \in RuneStarts(t) : n <= m /\ m < d => ~IsDelimiter(t, m)}
             = {n \in (RuneStarts(t) \cap (0..d)) \cup {d} :
                  \A m \in RuneStarts(t) : n <= m /\ m < d => m \notin Delims}
    OBVIOUS
  <2>3. SkipLeft(t, c, LAMBDA m : IsDelimiter(t, m)) = b
    BY <2>1 DEF SkipLeft
  <2> HIDE DEF b
  <2>4. SkipLeft(t, b, LAMBDA m : ~IsDelimiter(t, m)) = Left(b, Delims)
    BY <2>2 DEF SkipLeft
  <2> QED BY <2>3, <2>4 DEF WordLeft
<1> HIDE DEF Left, Delims, Others
<1>4. /\ b \in RuneStarts(t) \cap (0 .. c)
      /\ \A m \in RuneStarts(t) : b <= m /\ m < c => m \notin Others
      /\ \A n \in RuneStarts(t) : n < b =>
            \E m \in Others \cap RuneStarts(t) : n <= m /\ m < b
  BY <1>1
<1> HIDE DEF b
<1>5. /\ a \in RuneStarts(t) \cap (0 .. b)
      /\ \A m \in RuneStarts(t) : a <= m /\ m < b => m \notin Delims
      /\ \A n \in RuneStarts(t) : n < a =>
            \E m \in Delims \cap RuneStarts(t) : n <= m /\ m < a
  BY <1>1, <1>4
<1> HIDE DEF a
<1>6. \A m \in RuneStarts(t) : IsDelimiter(t, m) \in BOOLEAN
  BY DEF IsDelimiter
<1>7. Stretch(t, b, c, TRUE) /\ StopsLeft(t, b, FALSE)
  BY <1>2, <1>4, <1>6 DEF Stretch, StopsLeft
<1>8. Stretch(t, a, b, FALSE) /\ StopsLeft(t, a, TRUE)
  BY <1>2, <1>5, <1>6 DEF Stretch, StopsLeft
<1>9. a <= b /\ b <= c
  BY <1>4, <1>5
<1> QED BY <1>3, <1>4, <1>5, <1>7, <1>8, <1>9

\* movewordedge(+1) passes the delimiters right of c, and then a word.
LEMMA WordRightLemma ==
  ASSUME NEW t \in Texts, NEW c \in RuneStarts(t)
  PROVE  \E b \in RuneStarts(t) :
            /\ WordRight(t, c) \in RuneStarts(t) /\ c <= b /\ b <= WordRight(t, c)
            /\ Stretch(t, c, b, TRUE) /\ StopsRight(t, b, FALSE)
            /\ Stretch(t, b, WordRight(t, c), FALSE) /\ StopsRight(t, WordRight(t, c), TRUE)
<1> DEFINE Delims == {m \in RuneStarts(t) : IsDelimiter(t, m)}
           Others == {m \in RuneStarts(t) : ~IsDelimiter(t, m)}
           Right(d, Stop) == Max({n \in (RuneStarts(t) \cap (d..Len(t))) \cup {d} :
                     \A m \in RuneStarts(t) \cup {d} : d <= m /\ m < n => m \notin Stop})
           b == Right(c, Others)
           a == Right(b, Delims)
<1>1. \A Stop : \A d \in RuneStarts(t) :
         /\ Right(d, Stop) \in RuneStarts(t) \cap (d .. Len(t))
         /\ \A m \in RuneStarts(t) : d <= m /\ m < Right(d, Stop) => m \notin Stop
         /\ \A n \in RuneStarts(t) : Right(d, Stop) < n =>
               \E m \in Stop \cap RuneStarts(t) : Right(d, Stop) <= m /\ m < n
  BY RightwardsLemma, ZenonT(60)
<1>2. \A m \in RuneStarts(t) : /\ m \in Delims <=> IsDelimiter(t, m) = TRUE
                               /\ m \in Others <=> IsDelimiter(t, m) = FALSE
  BY DEF IsDelimiter
<1>3. WordRight(t, c) = a
  <2>1. \A d \in RuneStarts(t) :
          {n \in (RuneStarts(t) \cap (d..Len(t))) \cup {d} :
             \A m \in RuneStarts(t) \cup {d} : d <= m /\ m < n => IsDelimiter(t, m)}
        = {n \in (RuneStarts(t) \cap (d..Len(t))) \cup {d} :
             \A m \in RuneStarts(t) \cup {d} : d <= m /\ m < n => m \notin Others}
    OBVIOUS
  <2>2. \A d \in RuneStarts(t) :
          {n \in (RuneStarts(t) \cap (d..Len(t))) \cup {d} :
             \A m \in RuneStarts(t) \cup {d} : d <= m /\ m < n => ~IsDelimiter(t, m)}
        = {n \in (RuneStarts(t) \cap (d..Len(t))) \cup {d} :
             \A m \in RuneStarts(t) \cup {d} : d <= m /\ m < n => m \notin Delims}
    OBVIOUS
  <2>3. SkipRight(t, c, LAMBDA m : IsDelimiter(t, m)) = b
    BY <2>1 DEF SkipRight
  <2>4. b \in RuneStarts(t)
    BY <1>1
  <2> HIDE DEF b
  <2>5. SkipRight(t, b, LAMBDA m : ~IsDelimiter(t, m)) = Right(b, Delims)
    BY <2>2, <2>4 DEF SkipRight
  <2> QED BY <2>3, <2>5 DEF WordRight
<1> HIDE DEF Right, Delims, Others
<1>4. /\ b \in RuneStarts(t) \cap (c .. Len(t))
      /\ \A m \in RuneStarts(t) : c <= m /\ m < b => m \notin Others
      /\ \A n \in RuneStarts(t) : b < n =>
            \E m \in Others \cap RuneStarts(t) : b <= m /\ m < n
  BY <1>1
<1> HIDE DEF b
<1>5. /\ a \in RuneStarts(t) \cap (b .. Len(t))
      /\ \A m \in RuneStarts(t) : b <= m /\ m < a => m \notin Delims
      /\ \A n \in RuneStarts(t) : a < n =>
            \E m \in Delims \cap RuneStarts(t) : a <= m /\ m < n
  BY <1>1, <1>4
<1> HIDE DEF a
<1>6. \A m \in RuneStarts(t) : IsDelimiter(t, m) \in BOOLEAN
  BY DEF IsDelimiter
<1>7. Stretch(t, c, b, TRUE) /\ StopsRight(t, b, FALSE)
  BY <1>2, <1>4, <1>6 DEF Stretch, StopsRight
<1>8. Stretch(t, b, a, FALSE) /\ StopsRight(t, a, TRUE)
  BY <1>2, <1>5, <1>6 DEF Stretch, StopsRight
<1>9. c <= b /\ b <= a
  BY <1>4, <1>5
<1> QED BY <1>3, <1>4, <1>5, <1>7, <1>8, <1>9

-----------------------------------------------------------------------------
(* The edits of the line: insert() with n >= 0 and with n <= 0. *)

\* The length of two texts, one after the other.
LEMMA ConcatLemma ==
  ASSUME NEW a \in Seq(Byte), NEW b \in Seq(Byte)
  PROVE  a \o b \in Seq(Byte) /\ Len(a \o b) = Len(a) + Len(b)
OBVIOUS

\* What SubSeq takes from a sequence.
LEMMA SubSeqFacts ==
  ASSUME NEW S, NEW p \in Seq(S)
  PROVE  \A m, n \in 0 .. Len(p) :
            /\ SubSeq(p, m + 1, n) \in Seq(S)
            /\ Len(SubSeq(p, m + 1, n)) = IF m <= n THEN n - m ELSE 0
            /\ \A i \in 1 .. (n - m) : SubSeq(p, m + 1, n)[i] = p[m + i]
OBVIOUS

\* The character right of the cursor stays whole when s is inserted.
LEMMA InsertedLemma ==
  ASSUME NEW t \in Texts, NEW c \in RuneStarts(t), NEW s \in Texts, Fits(t, s)
  PROVE  Line(Inserted(t, c, s), c + Len(s))
<1> DEFINE l == SubSeq(t, 1, c)
           r == SubSeq(t, c + 1, Len(t))
<1>1. /\ t \in Seq(Byte) /\ s \in Seq(Byte) /\ c \in 0 .. Len(t)
      /\ Len(t) \in Nat /\ Len(s) \in Nat
      /\ c # Len(t) => t[c + 1] \notin Continuation
  BY DEF RuneStarts, Texts
<1>2. l \in Seq(Byte) /\ Len(l) = c /\ (c # 0 => l[1] = t[1])
  BY <1>1
<1>3. r \in Seq(Byte) /\ Len(r) = Len(t) - c /\ (c # Len(t) => r[1] = t[c + 1])
  BY <1>1
<1> HIDE DEF l, r
<1> DEFINE ls == l \o s
           u == ls \o r
<1>4. /\ ls \in Seq(Byte) /\ Len(ls) = c + Len(s)
      /\ ls # <<>> => ls[1] = IF c # 0 THEN t[1] ELSE s[1]
  BY <1>1, <1>2
<1> HIDE DEF ls
<1>5. /\ u \in Seq(Byte) /\ Len(u) = Len(t) + Len(s)
      /\ ls # <<>> => u[1] = ls[1]
      /\ c # Len(t) => u[c + Len(s) + 1] = t[c + 1]
  <2>1. u \in Seq(Byte) /\ Len(u) = Len(t) + Len(s)
    <3>1. u \in Seq(Byte) /\ Len(u) = Len(ls) + Len(r)
      BY <1>3, <1>4, ConcatLemma
    <3> HIDE DEF u
    <3> QED BY <1>1, <1>3, <1>4, <3>1
  <2>2. \A i \in 1 .. Len(ls) : u[i] = ls[i]
    BY <1>3, <1>4
  <2>3. ls # <<>> => 1 \in 1 .. Len(ls)
    BY <1>4
  <2>4. c # Len(t) => u[Len(ls) + 1] = r[1]
    BY <1>1, <1>3, <1>4
  <2> QED BY <1>1, <1>3, <1>4, <2>1, <2>2, <2>3, <2>4
<1>6. u = Inserted(t, c, s)
  BY DEF Inserted, ls, l, r
<1> HIDE DEF u
<1>7. u # <<>> => u[1] \notin Continuation
  <2>1. CASE ls = <<>>
    <3>1. c + Len(s) = 0
      BY <1>4, <2>1
    <3>2. c = Len(t) => Len(u) = 0
      BY <1>1, <1>5, <3>1
    <3>3. c # Len(t) => u[1] = t[c + 1]
      BY <1>1, <1>5, <3>1
    <3> QED BY <1>1, <1>5, <3>2, <3>3
  <2>2. CASE ls # <<>>
    <3>1. CASE c = 0
      <4>1. s # <<>>
        BY <1>1, <1>4, <2>2, <3>1
      <4> QED BY <1>4, <1>5, <2>2, <3>1, <4>1 DEF Texts
    <3>2. CASE c # 0
      <4>1. t # <<>>
        BY <1>1, <3>2
      <4> QED BY <1>4, <1>5, <2>2, <3>2, <4>1 DEF Texts
    <3> QED BY <3>1, <3>2
  <2> QED BY <2>1, <2>2
<1>8. u \in Texts /\ Len(u) <= MaxText
  BY <1>1, <1>5, <1>7 DEF Texts, Fits
<1>9. c + Len(s) \in RuneStarts(u)
  BY <1>1, <1>5 DEF RuneStarts
<1> QED BY <1>6, <1>8, <1>9 DEF Line

\* The character right of a deletion stays whole.
LEMMA DeletedLemma ==
  ASSUME NEW t, NEW c, Line(t, c), NEW from \in RuneStarts(t), from <= c
  PROVE  Line(Deleted(t, from, c), from)
<1> DEFINE l == SubSeq(t, 1, from)
           r == SubSeq(t, c + 1, Len(t))
           u == l \o r
<1>1. /\ t \in Seq(Byte) /\ c \in 0 .. Len(t) /\ from \in 0 .. Len(t)
      /\ Len(t) \in Nat /\ Len(t) <= MaxText
      /\ c # Len(t) => t[c + 1] \notin Continuation \/ c = 0
      /\ t # <<>> => t[1] \notin Continuation
  BY DEF Line, RuneStarts, Texts
<1>2. l \in Seq(Byte) /\ Len(l) = from /\ (from # 0 => l[1] = t[1])
  BY <1>1
<1>3. r \in Seq(Byte) /\ Len(r) = Len(t) - c /\ (c # Len(t) => r[1] = t[c + 1])
  BY <1>1
<1>4. c # Len(t) => t[c + 1] \notin Continuation
  BY <1>1
<1> HIDE DEF l, r
<1>5. /\ u \in Seq(Byte) /\ Len(u) = from + Len(t) - c
      /\ from # 0 => u[1] = t[1]
      /\ c # Len(t) => u[from + 1] = t[c + 1]
  BY <1>1, <1>2, <1>3
<1>6. u = Deleted(t, from, c)
  BY DEF Deleted, l, r
<1> HIDE DEF u
<1>7. u # <<>> => u[1] \notin Continuation
  <2>1. CASE from = 0
    <3>1. c = Len(t) => Len(u) = 0
      BY <1>1, <1>5, <2>1
    <3>2. c # Len(t) => u[1] = t[c + 1]
      BY <1>1, <1>5, <2>1
    <3> QED BY <1>4, <1>5, <3>1, <3>2
  <2>2. CASE from # 0
    BY <1>1, <1>5, <2>2
  <2> QED BY <2>1, <2>2
<1>8. u \in Texts /\ Len(u) <= MaxText
  <2>1. MaxText \in Nat
    BY TextAssumption
  <2> QED BY <1>1, <1>5, <1>7, <2>1 DEF Texts
<1>9. from \in RuneStarts(u)
  BY <1>1, <1>4, <1>5 DEF RuneStarts
<1> QED BY <1>6, <1>8, <1>9 DEF Line

\* A beginning of a text, with the cursor at its end.
LEMMA PrefixLemma ==
  ASSUME NEW t \in Texts, NEW n \in 0 .. Len(t)
  PROVE  /\ SubSeq(t, 1, n) \in Texts
         /\ Len(SubSeq(t, 1, n)) = n
         /\ n \in RuneStarts(SubSeq(t, 1, n))
<1> DEFINE l == SubSeq(t, 1, n)
<1>1. t \in Seq(Byte) /\ Len(t) \in Nat /\ (t # <<>> => t[1] \notin Continuation)
  BY DEF Texts
<1>2. l \in Seq(Byte) /\ Len(l) = n /\ (n # 0 => l[1] = t[1])
  BY <1>1
<1> HIDE DEF l
<1>3. l \in Texts
  BY <1>1, <1>2 DEF Texts
<1>4. n \in RuneStarts(l)
  BY <1>2 DEF RuneStarts
<1> QED BY <1>2, <1>3, <1>4 DEF l

-----------------------------------------------------------------------------
(* Every step keeps the line in order. *)

Kept == UNCHANGED <<items, text, cursor>>

LEMMA KeptLemma ==
  ASSUME LineInv, Kept
  PROVE  LineInv'
BY DEF LineInv, Line, Kept, RuneStarts

\* insert(s, n) of a text: typed, or pasted up to its first line break.
LEMMA InsertLemma ==
  ASSUME LineInv, NEW s \in Texts, Insert(s), UNCHANGED items
  PROVE  LineInv'
<1>1. CASE Fits(text, s)
  <2>1. Line(Inserted(text, cursor, s), cursor + Len(s))
    BY <1>1, InsertedLemma DEF LineInv, Line
  <2>2. text' = Inserted(text, cursor, s) /\ cursor' = cursor + Len(s)
    BY <1>1 DEF Insert, Edit
  <2> QED BY <2>1, <2>2 DEF LineInv, Line, RuneStarts
<1>2. CASE ~Fits(text, s)
  BY <1>2, KeptLemma DEF Insert, field, Kept
<1> QED BY <1>1, <1>2

\* insert(NULL, n) back to a rune start.
LEMMA DeleteToLemma ==
  ASSUME LineInv, NEW from \in RuneStarts(text), from <= cursor,
         DeleteTo(from), UNCHANGED items
  PROVE  LineInv'
<1>1. Line(Deleted(text, from, cursor), from)
  BY DeletedLemma DEF LineInv
<1>2. text' = Deleted(text, from, cursor) /\ cursor' = from
  BY DEF DeleteTo, Edit
<1> QED BY <1>1, <1>2 DEF LineInv, Line, RuneStarts

LEMMA MoveLemma ==
  ASSUME LineInv, NEW c \in RuneStarts(text), MoveCursor(c), UNCHANGED items
  PROVE  LineInv'
BY DEF LineInv, Line, MoveCursor, RuneStarts

LEMMA FirstLineLemma ==
  ASSUME NEW s \in Texts
  PROVE  FirstLine(s) \in Texts
<1> DEFINE ends == {i \in 1..Len(s) : s[i] = Newline}
<1>1. CASE ends = {}
  BY <1>1 DEF FirstLine
<1>2. CASE ends # {}
  <2>1. Min(ends) \in ends
    <3>1. ends \in SUBSET Nat
      OBVIOUS
    <3> HIDE DEF ends
    <3> QED BY <1>2, <3>1, MinLemma
  <2>2. Min(ends) - 1 \in 0 .. Len(s)
    BY <2>1 DEF Texts
  <2>3. FirstLine(s) = SubSeq(s, 1, Min(ends) - 1)
    BY <1>2 DEF FirstLine
  <2> QED BY <2>2, <2>3, PrefixLemma
<1> QED BY <1>1, <1>2

\* The keys that edit the line or move the cursor.
LEMMA EditKeys ==
  ASSUME LineInv, KeyText \/ KeyUnbound \/ KeyKillRight \/ KeyKillLeft \/ KeyKillWord
                    \/ KeyDelete \/ KeyBackSpace \/ KeyTab
  PROVE  LineInv'
<1>1. /\ UNCHANGED items
      /\ text \in Texts /\ Len(text) \in Nat /\ cursor \in RuneStarts(text)
      /\ cursor \in 0 .. Len(text) /\ 0 \in RuneStarts(text)
  BY DEF LineInv, Line, RuneStarts, Texts, KeyText, KeyUnbound, KeyKillRight, KeyKillLeft,
         KeyKillWord, KeyDelete, KeyBackSpace, KeyTab, Quiet, Ignored, started
<1>2. CASE KeyText
  BY <1>1, <1>2, InputAssumption, InsertLemma DEF KeyText
<1>3. CASE KeyUnbound
  <2>1. text' = text /\ cursor' = cursor
    BY <1>3 DEF KeyUnbound, Edit, field
  <2> QED BY <1>1, <2>1, KeptLemma DEF Kept
<1>4. CASE KeyKillRight
  <2>1. text' = SubSeq(text, 1, cursor) /\ cursor' = cursor
    BY <1>4 DEF KeyKillRight, Edit
  <2>2. /\ SubSeq(text, 1, cursor) \in Texts /\ Len(SubSeq(text, 1, cursor)) <= Len(text)
        /\ cursor \in RuneStarts(SubSeq(text, 1, cursor))
    BY <1>1, PrefixLemma
  <2>3. Line(SubSeq(text, 1, cursor), cursor)
    BY <1>1, <2>2, PrefixLemma, TextAssumption DEF LineInv, Line
  <2> QED BY <1>1, <2>1, <2>3 DEF LineInv, Line, RuneStarts
<1>5. CASE KeyKillLeft
  BY <1>1, <1>5, DeleteToLemma DEF KeyKillLeft
<1>6. CASE KeyKillWord
  <2>1. CASE cursor > 0
    <3>1. RuneStarts(text) \subseteq Int
      BY <1>1 DEF RuneStarts
    <3>2. WordLeft(text, cursor) \in RuneStarts(text) /\ WordLeft(text, cursor) <= cursor
      <4>1. PICK b \in RuneStarts(text) :
               /\ WordLeft(text, cursor) \in RuneStarts(text)
               /\ WordLeft(text, cursor) <= b /\ b <= cursor
        BY <1>1, WordLeftLemma
      <4> QED BY <1>1, <3>1, <4>1
    <3> QED BY <1>1, <1>6, <2>1, <3>2, DeleteToLemma DEF KeyKillWord
  <2>2. CASE ~(cursor > 0)
    BY <1>1, <1>6, <2>2, KeptLemma DEF KeyKillWord, Ignored, field, Kept
  <2> QED BY <2>1, <2>2
<1>7. CASE KeyDelete
  <2>1. CASE cursor = Len(text)
    BY <1>1, <1>7, <2>1, KeptLemma DEF KeyDelete, Ignored, field, Kept
  <2>2. CASE cursor # Len(text)
    <3> DEFINE c == NextRune(text, cursor)
               b == PrevRune(text, c)
    <3>1. c \in RuneStarts(text) /\ c > cursor
      BY <1>1, <2>2, NextRuneLemma
    <3>2. c \in 0 .. Len(text) /\ c # 0
      BY <1>1, <3>1 DEF RuneStarts
    <3>3. b \in RuneStarts(text) /\ b <= c
      <4> HIDE DEF c
      <4>1. b \in RuneStarts(text) /\ b < c
        BY <1>1, <3>2, PrevRuneLemma
      <4> QED BY <3>2, <4>1 DEF RuneStarts
    <3>4. text' = Deleted(text, b, c) /\ cursor' = b
      BY <1>7, <2>2 DEF KeyDelete, Edit
    <3> HIDE DEF b, c
    <3>5. Line(Deleted(text, b, c), b)
      BY <3>1, <3>3, DeletedLemma DEF LineInv, Line
    <3> QED BY <1>1, <3>4, <3>5 DEF LineInv, Line, RuneStarts
  <2> QED BY <2>1, <2>2
<1>8. CASE KeyBackSpace
  <2>1. CASE cursor = 0
    BY <1>1, <1>8, <2>1, KeptLemma DEF KeyBackSpace, Ignored, field, Kept
  <2>2. CASE cursor # 0
    <3>1. PrevRune(text, cursor) \in RuneStarts(text) /\ PrevRune(text, cursor) < cursor
      BY <1>1, <2>2, PrevRuneLemma
    <3>2. PrevRune(text, cursor) <= cursor
      BY <1>1, <3>1 DEF RuneStarts
    <3> QED BY <1>1, <1>8, <2>2, <3>1, <3>2, DeleteToLemma DEF KeyBackSpace
  <2> QED BY <2>1, <2>2
<1>9. CASE KeyTab
  <2>1. CASE sel = NULL
    BY <1>1, <1>9, <2>1, KeptLemma DEF KeyTab, Ignored, field, Kept
  <2>2. CASE sel # NULL
    <3>1. PICK i \in 1 .. Len(items) :
            text' = ToMaxText(items[i]) /\ cursor' = Len(ToMaxText(items[i]))
      BY <1>9, <2>2 DEF KeyTab, Edit
    <3> DEFINE t == items[i]
               n == Min({Len(t), MaxText})
    <3>2. t \in Texts /\ Len(t) \in Nat /\ MaxText \in Nat
      BY TextAssumption DEF LineInv, Texts
    <3> HIDE DEF t
    <3>3. n \in 0 .. Len(t) /\ n <= MaxText
      <4>1. n \in {Len(t), MaxText} /\ n <= Len(t) /\ n <= MaxText
        BY <3>2, MinLemma
      <4> QED BY <3>2, <4>1
    <3>4. ToMaxText(t) = SubSeq(t, 1, n)
      BY DEF ToMaxText
    <3> HIDE DEF n
    <3>5. Line(ToMaxText(t), Len(ToMaxText(t)))
      BY <3>2, <3>3, <3>4, PrefixLemma DEF Line
    <3> QED BY <1>1, <3>1, <3>5 DEF LineInv, Line, RuneStarts, t
  <2> QED BY <2>1, <2>2
<1> QED BY <1>2, <1>3, <1>4, <1>5, <1>6, <1>7, <1>8, <1>9

LEMMA MoveKeys ==
  ASSUME LineInv, KeyWordLeft \/ KeyWordRight \/ KeyEnd \/ KeyHome \/ KeyUp \/ KeyDown
                    \/ KeyLeft \/ KeyRight
  PROVE  LineInv'
<1>1. /\ UNCHANGED items
      /\ text \in Texts /\ Len(text) \in Nat /\ cursor \in RuneStarts(text)
      /\ cursor \in 0 .. Len(text)
      /\ 0 \in RuneStarts(text) /\ Len(text) \in RuneStarts(text)
  BY DEF LineInv, Line, RuneStarts, Texts, KeyWordLeft, KeyWordRight, KeyEnd, KeyHome,
         KeyUp, KeyDown, KeyLeft, KeyRight, Quiet, started
<1>2. Up \/ Down \/ UNCHANGED field => LineInv'
  BY <1>1, KeptLemma DEF Up, Down, Select, field, Kept
<1>3. ASSUME NEW c \in RuneStarts(text), MoveCursor(c)
      PROVE  LineInv'
  BY <1>1, <1>3, MoveLemma
<1>4. CASE KeyWordLeft
  BY <1>1, <1>3, <1>4, WordLeftLemma DEF KeyWordLeft
<1>5. CASE KeyWordRight
  BY <1>1, <1>3, <1>5, WordRightLemma DEF KeyWordRight
<1>6. CASE KeyEnd
  BY <1>1, <1>2, <1>3, <1>6 DEF KeyEnd, Select
<1>7. CASE KeyHome
  BY <1>1, <1>2, <1>3, <1>7 DEF KeyHome, Select
<1>8. CASE KeyUp \/ KeyDown
  BY <1>2, <1>8 DEF KeyUp, KeyDown
<1>9. CASE KeyLeft
  <2>1. cursor > 0 => PrevRune(text, cursor) \in RuneStarts(text)
    BY <1>1, PrevRuneLemma
  <2> QED BY <1>2, <1>3, <1>9, <2>1 DEF KeyLeft
<1>10. CASE KeyRight
  <2>1. cursor < Len(text) => NextRune(text, cursor) \in RuneStarts(text)
    BY <1>1, NextRuneLemma
  <2> QED BY <1>2, <1>3, <1>10, <2>1 DEF KeyRight
<1> QED BY <1>4, <1>5, <1>6, <1>7, <1>8, <1>9, <1>10

LEMMA StepLemma ==
  ASSUME LineInv, Next
  PROVE  LineInv'
<1>1. CASE readstdin
  <2>1. items' \in Seq(Texts) /\ UNCHANGED <<text, cursor>>
    BY <1>1, InputAssumption DEF readstdin, field
  <2> QED BY <2>1 DEF LineInv, Line, RuneStarts
<1>2. CASE grabkeyboard \/ setup
  BY <1>2, KeptLemma DEF grabkeyboard, setup, field, Kept
<1>3. CASE keypress
  <2>1. CASE KeyEscape \/ ScrollDown \/ ScrollUp
    BY <2>1, KeptLemma DEF KeyEscape, ScrollDown, ScrollUp, Exit, Select, Quiet,
                           started, field, Kept
  <2>2. CASE \E shift, ctrl \in BOOLEAN : KeyReturn(shift, ctrl)
    BY <2>2, KeptLemma DEF KeyReturn, Exit, started, field, Kept
  <2> QED BY <1>3, <2>1, <2>2, EditKeys, MoveKeys DEF keypress
<1>4. CASE buttonpress
  <2>1. CASE KeyEscape
    BY <2>1, KeptLemma DEF KeyEscape, Exit, started, field, Kept
  <2>2. ASSUME NEW z, ClickInput(z)
        PROVE  LineInv'
    <3>1. 0 \in RuneStarts(text) /\ 0 <= cursor /\ UNCHANGED items
      BY <2>2 DEF LineInv, Line, RuneStarts, Texts, ClickInput, Quiet, started
    <3> QED BY <2>2, <3>1, DeleteToLemma DEF ClickInput
  <2>3. ASSUME NEW z, ClickArrow(z)
        PROVE  LineInv'
    BY <2>3, KeptLemma DEF ClickArrow, ScrollUp, ScrollDown, Select, Quiet,
                           started, field, Kept
  <2>4. ASSUME NEW z, NEW ctrl, ClickItem(z, ctrl)
        PROVE  LineInv'
    BY <2>4, KeptLemma DEF ClickItem, Exit, Select, started, field, Kept
  <2> QED BY <1>4, <2>1, <2>2, <2>3, <2>4 DEF buttonpress
<1>5. CASE paste
  <2>1. PICK s \in Selections : Insert(FirstLine(s)) /\ Quiet
    BY <1>5 DEF paste
  <2>2. FirstLine(s) \in Texts /\ UNCHANGED items
    BY <2>1, InputAssumption, FirstLineLemma DEF Quiet, started
  <2> QED BY <2>1, <2>2, InsertLemma
<1>6. CASE focusin
  BY <1>6, KeptLemma DEF focusin, started, field, Kept
<1>7. CASE destroynotify
  BY <1>7, KeptLemma DEF destroynotify, KeyEscape, Exit, started, field, Kept
<1> QED BY <1>1, <1>2, <1>3, <1>4, <1>5, <1>6, <1>7 DEF Next, run

\* Between the events of run(), text[] has room for its terminating NUL and
\* the cursor is between two characters, however the line was typed, pasted,
\* completed and cut (insert, nextrune, movewordedge, keypress).
THEOREM LineInOrder == Spec => [](CursorOnRune /\ Len(text) <= MaxText)
<1>1. Init => LineInv
  <2>1. <<>> \in Texts /\ <<>> \in Seq(Texts) /\ 0 \in RuneStarts(<<>>)
    BY DEF Texts, RuneStarts
  <2> QED BY <2>1, TextAssumption DEF Init, LineInv, Line
<1>2. LineInv /\ [Next]_vars => LineInv'
  <2>1. ASSUME LineInv, UNCHANGED vars
        PROVE  LineInv'
    BY <2>1, KeptLemma DEF vars, started, field, Kept
  <2> QED BY <2>1, StepLemma
<1>3. LineInv => CursorOnRune /\ Len(text) <= MaxText
  BY DEF LineInv, Line, CursorOnRune
<1> QED BY <1>1, <1>2, <1>3, PTL DEF Spec

-----------------------------------------------------------------------------
(* The pages of the menu, proved.  dmenu adds up item widths until the     *)
(* room is used up, forwards to find next and backwards to find prev       *)
(* (calcoffsets, dmenu.c:85).  The widths are natural numbers, so the sums *)
(* never shrink along the list (SumsLemma); from that follow what next and *)
(* prev say about the room (NextLemma, PrevLemma), that turning a page     *)
(* keeps the selection on it (the page lemmas), and with the invariant     *)
(* PagesInv, that every key does: the theorems TypeCorrect,                *)
(* SelectionAlwaysOnPage and PagesAlwaysFull at the end.                   *)

\* Induction on the numbers up to n.
LEMMA UpTo ==
  ASSUME NEW n \in Nat, NEW S, 0 \in S, \A k \in 0 .. (n - 1) : k \in S => k + 1 \in S
  PROVE  \A k \in 0 .. n : k \in S
<1> DEFINE Bad == (0 .. n) \ S
<1>1. SUFFICES ASSUME Bad # {} PROVE FALSE
  OBVIOUS
<1>2. Bad \in SUBSET Nat
  OBVIOUS
<1>3. PICK x \in Bad : \A y \in Bad : x <= y
  BY <1>1, <1>2, LeastOffset
<1>4. x # 0 /\ x \in 0 .. n
  BY <1>3
<1>5. x - 1 \in 0 .. (n - 1) /\ x - 1 \in 0 .. n
  BY <1>4
<1>6. x - 1 \in S
  BY <1>3, <1>5
<1>7. x - 1 + 1 \in S
  BY <1>5, <1>6
<1> QED BY <1>3, <1>4, <1>7

\* f is the function on the numbers up to n that starts at a and whose value
\* at k is h of k and its value before k.
Rec(n, S, a, h, f) ==
  /\ f \in [0 .. n -> S] /\ f[0] = a
  /\ \A k \in 1 .. n : f[k] = h[<<k, f[k - 1]>>]

\* Such a function exists.
LEMMA Recursion ==
  ASSUME NEW n \in Nat, NEW S, NEW a \in S, NEW h \in [(1 .. n) \X S -> S]
  PROVE  \E f : Rec(n, S, a, h, f)
<1> DEFINE Is(m, f) == /\ f \in [0 .. m -> S] /\ f[0] = a
                       /\ \A k \in 1 .. m : f[k] = h[<<k, f[k - 1]>>]
           Built == {m \in 0 .. n : \E f : Is(m, f)}
<1>1. 0 \in Built
  <2> DEFINE f == [k \in 0 .. 0 |-> a]
  <2>1. Is(0, f)
    OBVIOUS
  <2> HIDE DEF f
  <2>2. \E f1 : Is(0, f1)
    BY <2>1
  <2> QED BY <2>2
<1>2. ASSUME NEW m \in 0 .. (n - 1), m \in Built
      PROVE  m + 1 \in Built
  <2>1. PICK f : Is(m, f)
    BY <1>2
  <2> DEFINE g == [k \in 0 .. (m + 1) |-> IF k = m + 1 THEN h[<<m + 1, f[m]>>] ELSE f[k]]
  <2>2. m + 1 \in 1 .. n /\ m \in Nat /\ m + 1 \in 0 .. n /\ m \in 0 .. m
    OBVIOUS
  <2>3. f[m] \in S /\ h[<<m + 1, f[m]>>] \in S /\ \A k \in 0 .. m : f[k] \in S
    BY <2>1, <2>2
  <2>4. g \in [0 .. (m + 1) -> S] /\ g[0] = a
    BY <2>1, <2>2, <2>3
  <2>5. ASSUME NEW k \in 1 .. (m + 1)
        PROVE  g[k] = h[<<k, g[k - 1]>>]
    <3>1. CASE k = m + 1
      <4>1. k - 1 = m /\ k \in 0 .. (m + 1) /\ m \in 0 .. (m + 1) /\ m # m + 1
        BY <2>2, <3>1
      <4>2. g[k] = h[<<m + 1, f[m]>>] /\ g[k - 1] = f[m]
        BY <3>1, <4>1
      <4> HIDE DEF g
      <4> QED BY <3>1, <4>2
    <3>2. CASE k # m + 1
      <4>1. k \in 1 .. m /\ k - 1 \in 0 .. m /\ k - 1 # m + 1 /\ k \in 0 .. (m + 1)
            /\ k - 1 \in 0 .. (m + 1)
        BY <2>2, <3>2
      <4>2. g[k] = f[k] /\ g[k - 1] = f[k - 1]
        BY <3>2, <4>1
      <4> HIDE DEF g
      <4> QED BY <2>1, <4>1, <4>2
    <3> QED BY <3>1, <3>2
  <2>6. Is(m + 1, g)
    <3> HIDE DEF g
    <3> QED BY <2>4, <2>5
  <2> QED BY <2>2, <2>6
<1>3. n \in Built
  <2> HIDE DEF Built
  <2>1. \A m \in 0 .. n : m \in Built
    BY <1>1, <1>2, UpTo
  <2> QED BY <2>1
<1> QED BY <1>3 DEF Rec

\* Ends is the sum of the widths so far.
LEMMA EndsLemma ==
  ASSUME NEW ms, Len(ms) \in Nat, \A k \in 1 .. Len(ms) : ItemW(ms[k]) \in Nat
  PROVE  /\ Ends(ms)[0] = 0
         /\ \A k \in 1 .. Len(ms) : Ends(ms)[k] = Ends(ms)[k - 1] + ItemW(ms[k])
         /\ \A k \in 0 .. Len(ms) : Ends(ms)[k] \in Nat
<1> DEFINE W(k) == ItemW(ms[k])
           n == Len(ms)
           h == [p \in (1 .. n) \X Nat |-> p[2] + W(p[1])]
<1>1. n \in Nat /\ \A k \in 1 .. n : W(k) \in Nat
  OBVIOUS
<1> HIDE DEF n, W
<1>2. h \in [(1 .. n) \X Nat -> Nat] /\ \A k \in 1 .. n, x \in Nat : h[<<k, x>>] = x + W(k)
  BY <1>1, SMTT(30)
<1> HIDE DEF h
<1>3. \E f : Rec(n, Nat, 0, h, f)
  BY <1>1, <1>2, Recursion
<1>4. PICK f \in [0 .. n -> Nat] : f[0] = 0 /\ \A k \in 1 .. n : f[k] = h[<<k, f[k - 1]>>]
  BY <1>3 DEF Rec
<1> DEFINE Summed(e) == [k \in 0 .. n |-> IF k = 0 THEN 0 ELSE e[k - 1] + W(k)]
<1>5. f = Summed(f)
  <2>1. ASSUME NEW k \in 0 .. n PROVE f[k] = Summed(f)[k]
    <3>1. CASE k = 0
      BY <1>4, <3>1
    <3>2. CASE k # 0
      <4>1. k \in 1 .. n /\ k - 1 \in 0 .. n
        BY <1>1, <3>2
      <4>2. f[k - 1] \in Nat
        BY <4>1
      <4> QED BY <1>2, <1>4, <3>2, <4>1, <4>2
    <3> QED BY <3>1, <3>2
  <2>2. Summed(f) = [k \in 0 .. n |-> Summed(f)[k]] /\ f = [k \in 0 .. n |-> f[k]]
    OBVIOUS
  <2> HIDE DEF Summed
  <2> QED BY <2>1, <2>2
<1>6. Ends(ms) = CHOOSE e : e = Summed(e)
  BY DEF Ends, n, W
<1> DEFINE E == Ends(ms)
<1>7. E = Summed(E)
  <2> HIDE DEF Summed
  <2> QED BY <1>5, <1>6
<1> HIDE DEF E
<1>8. E[0] = 0 /\ \A k \in 1 .. n : E[k] = E[k - 1] + W(k)
  BY <1>1, <1>7
<1>9. \A k \in 0 .. n : E[k] \in Nat
  <2> DEFINE T == {k \in 0 .. n : E[k] \in Nat}
  <2>1. 0 \in T
    BY <1>1, <1>8
  <2>2. ASSUME NEW k \in 0 .. (n - 1), k \in T PROVE k + 1 \in T
    <3>1. k + 1 \in 1 .. n /\ k + 1 - 1 = k /\ k + 1 \in 0 .. n
      BY <1>1
    <3>2. E[k + 1] = E[k] + W(k + 1) /\ W(k + 1) \in Nat
      BY <1>1, <1>8, <3>1
    <3> QED BY <2>2, <3>1, <3>2
  <2> HIDE DEF T
  <2>3. \A k \in 0 .. n : k \in T
    BY <1>1, <2>1, <2>2, UpTo
  <2> QED BY <2>3 DEF T
<1> QED BY <1>8, <1>9 DEF E, n, W

-----------------------------------------------------------------------------
(* Widths: an item fits by itself, and pages are found by adding widths up. *)

Menu == opt \in Options /\ lines \in Nat /\ items \in Seq(Texts)

\* MIN and MAX of two numbers.
LEMMA PairLemma ==
  ASSUME NEW a \in Nat, NEW b \in Nat
  PROVE  /\ Min({a, b}) \in {a, b} /\ Min({a, b}) <= a /\ Min({a, b}) <= b
         /\ Max({a, b}) \in {a, b} /\ Max({a, b}) >= a /\ Max({a, b}) >= b
<1>1. Min({a, b}) \in {a, b} /\ Min({a, b}) <= a /\ Min({a, b}) <= b
  BY MinLemma
<1>2. \E x \in {a, b} : \A y \in {a, b} : x >= y
  <2>1. CASE a >= b
    BY <2>1
  <2>2. CASE ~(a >= b)
    BY <2>2
  <2> QED BY <2>1, <2>2
<1>3. Max({a, b}) \in {a, b} /\ \A y \in {a, b} : Max({a, b}) >= y
  BY <1>2 DEF Max
<1> QED BY <1>1, <1>3

\* TEXTW is a number.
LEMMA TextWidth ==
  ASSUME NEW s \in Texts
  PROVE  TEXTW(s) \in Nat
<1>1. Len(s) \in Nat
  BY DEF Texts
<1>2. IsFiniteSet(0 .. Len(s))
  BY <1>1, FS_Interval
<1>3. RuneStarts(s) \ {Len(s)} \subseteq 0 .. Len(s)
  BY DEF RuneStarts
<1>4. Cardinality(RuneStarts(s) \ {Len(s)}) \in Nat
  BY <1>2, <1>3, FS_Subset, FS_CardinalityType
<1>5. lrpad \in Nat
  BY InputAssumption
<1> QED BY <1>4, <1>5 DEF TEXTW

\* max_textw() is a number, that of the widest item if there is one.
LEMMA WidestItem ==
  ASSUME Menu
  PROVE  max_textw \in Nat
<1> DEFINE n == Len(items)
           W(i) == TEXTW(items[i])
           Bounded == {m \in 0 .. n : \E b \in Nat : \A i \in 1 .. m : W(i) <= b}
           T == {W(i) : i \in 1 .. n} \cup {0}
<1>1. n \in Nat
  BY DEF Menu
<1>2. \A i \in 1 .. n : W(i) \in Nat
  BY TextWidth DEF Menu
<1>3. max_textw = Max(T)
  BY DEF max_textw
<1> HIDE DEF n, W
<1>4. 0 \in Bounded
  BY <1>1
<1>5. ASSUME NEW m \in 0 .. (n - 1), m \in Bounded
      PROVE  m + 1 \in Bounded
  <2>1. PICK b \in Nat : \A i \in 1 .. m : W(i) <= b
    BY <1>5
  <2>2. m + 1 \in 1 .. n /\ m + 1 \in 0 .. n
    BY <1>1
  <2>3. W(m + 1) \in Nat
    BY <1>2, <2>2
  <2> DEFINE c == b + W(m + 1)
  <2>4. c \in Nat
    BY <2>3
  <2>5. ASSUME NEW i \in 1 .. (m + 1) PROVE W(i) <= c
    <3>1. CASE i = m + 1
      BY <2>3, <3>1
    <3>2. CASE i # m + 1
      <4>1. i \in 1 .. m /\ i \in 1 .. n
        BY <1>1, <2>2, <3>2
      <4>2. W(i) <= b /\ W(i) \in Nat
        BY <1>2, <2>1, <4>1
      <4> QED BY <2>3, <4>2
    <3> QED BY <3>1, <3>2
  <2> HIDE DEF c
  <2> QED BY <2>2, <2>4, <2>5
<1>6. n \in Bounded
  <2> HIDE DEF Bounded
  <2>1. \A m \in 0 .. n : m \in Bounded
    BY <1>1, <1>4, <1>5, UpTo
  <2> QED BY <1>1, <2>1
<1>7. PICK b \in Nat : \A i \in 1 .. n : W(i) <= b
  BY <1>6
<1>8. T \in SUBSET (0 .. b) /\ T # {}
  BY <1>2, <1>7
<1>9. Max(T) \in T
  <2> HIDE DEF T
  <2> QED BY <1>7, <1>8, MaxLemma
<1> QED BY <1>3, <1>8, <1>9

\* There is room for an item, and none is wider.
LEMMA RoomLemma ==
  ASSUME Menu
  PROVE  /\ room \in Nat /\ room > 0
         /\ \A i \in 1 .. Len(items) : ItemW(i) \in Nat /\ ItemW(i) <= room
<1>1. /\ screenw \in Nat /\ min_width \in Nat /\ promptw \in Nat /\ arrow \in Nat
      /\ opt \in [lines : Nat, fuzzy : BOOLEAN, fast : BOOLEAN, embed : BOOLEAN,
                  centered : BOOLEAN, prompt : BOOLEAN]
  BY InputAssumption DEF Menu
<1>2. prompt \in Nat /\ prompt <= promptw
  BY <1>1 DEF prompt
<1>3. max_textw \in Nat
  BY WidestItem
<1> DEFINE Roomy(w) == w \in Nat /\ promptw + (w \div 3) + 2 * arrow < w
<1>4. Roomy(min_width) /\ Roomy(screenw)
  BY <1>1, RoomAssumption
<1>5. \A v, w \in Nat : Roomy(v) /\ v <= w => Roomy(w)
  BY <1>1
<1> DEFINE x == max_textw + prompt
<1>6. x \in Nat
  BY <1>2, <1>3
<1> HIDE DEF x
<1>7. Roomy(mw)
  <2>1. CASE opt.centered
    <3> DEFINE y == Max({x, min_width})
    <3>1. y \in Nat /\ min_width <= y
      BY <1>1, <1>6, PairLemma
    <3>2. Roomy(y)
      BY <1>1, <1>4, <1>5, <3>1
    <3>3. mw = Min({y, screenw})
      BY <2>1 DEF mw, x
    <3> HIDE DEF y
    <3>4. mw \in {y, screenw}
      BY <1>1, <3>1, <3>3, PairLemma
    <3> QED BY <1>4, <3>2, <3>4
  <2>2. CASE ~opt.centered
    BY <1>4, <2>2 DEF mw
  <2> QED BY <2>1, <2>2
<1>8. mw - (prompt + inputw + 2 * arrow) \in Nat /\ mw - (prompt + inputw + 2 * arrow) > 0
  <2> DEFINE q == mw \div 3
  <2>1. mw \in Nat /\ q \in Nat /\ promptw + q + 2 * arrow < mw
    BY <1>1, <1>7
  <2>2. inputw = q
    BY DEF inputw
  <2> HIDE DEF q
  <2> QED BY <1>1, <1>2, <2>1, <2>2
<1>9. room \in Nat /\ room > 0
  BY <1>8 DEF room, Menu
<1>10. ASSUME NEW i \in 1 .. Len(items)
       PROVE  ItemW(i) \in Nat /\ ItemW(i) <= room
  <2>1. TEXTW(items[i]) \in Nat
    BY TextWidth DEF Menu
  <2>2. CASE lines > 0
    BY <1>9, <2>2 DEF ItemW
  <2>3. CASE ~(lines > 0)
    <3>1. ItemW(i) = Min({TEXTW(items[i]), room})
      BY <2>3 DEF ItemW
    <3> QED BY <1>9, <2>1, <3>1, PairLemma
  <2> QED BY <2>2, <2>3
<1> QED BY <1>9, <1>10

\* Side by side, items follow each other, and each takes at most the room.
LEMMA SumsLemma ==
  ASSUME Menu, NEW ms \in Seq(1 .. Len(items))
  PROVE  /\ \A k \in 0 .. Len(ms) : Ends(ms)[k] \in Nat
         /\ \A i, j \in 0 .. Len(ms) : i <= j => Ends(ms)[i] <= Ends(ms)[j]
         /\ \A k \in 1 .. Len(ms) : Ends(ms)[k] - Ends(ms)[k - 1] <= room
<1> DEFINE n == Len(ms)
           E == Ends(ms)
<1>1. n \in Nat /\ room \in Nat
  BY RoomLemma
<1>2. \A k \in 1 .. n : ItemW(ms[k]) \in Nat /\ ItemW(ms[k]) <= room
  BY RoomLemma
<1>3. /\ \A k \in 1 .. n : E[k] = E[k - 1] + ItemW(ms[k])
      /\ \A k \in 0 .. n : E[k] \in Nat
  BY <1>1, <1>2, EndsLemma
<1> HIDE DEF n, E
<1>4. ASSUME NEW i \in 0 .. n
      PROVE  \A j \in 0 .. n : i <= j => E[i] <= E[j]
  <2> DEFINE S == {j \in 0 .. n : i <= j => E[i] <= E[j]}
  <2>1. 0 \in S
    BY <1>1, <1>3
  <2>2. ASSUME NEW j \in 0 .. (n - 1), j \in S PROVE j + 1 \in S
    <3>1. j + 1 \in 1 .. n /\ j + 1 - 1 = j /\ j + 1 \in 0 .. n /\ j \in 0 .. n
      BY <1>1
    <3>2. E[j] <= E[j + 1] /\ E[i] \in Nat /\ E[j] \in Nat /\ E[j + 1] \in Nat
      BY <1>2, <1>3, <3>1
    <3>3. CASE i = j + 1
      BY <1>1, <3>1, <3>2, <3>3
    <3>4. CASE i # j + 1
      <4>1. i <= j + 1 => i <= j
        BY <1>1, <3>4
      <4> QED BY <2>2, <3>1, <3>2, <4>1
    <3> QED BY <3>3, <3>4
  <2> HIDE DEF S
  <2>3. \A j \in 0 .. n : j \in S
    BY <1>1, <2>1, <2>2, UpTo
  <2> QED BY <2>3 DEF S
<1>5. ASSUME NEW k \in 1 .. n
      PROVE  E[k] - E[k - 1] <= room
  <2>1. k - 1 \in 0 .. n
    BY <1>1
  <2>2. E[k - 1] \in Nat
    BY <1>3, <2>1
  <2> QED BY <1>1, <1>2, <1>3, <2>2
<1> QED BY <1>3, <1>4, <1>5 DEF n, E

\* The page from c ends before the first match that does not fit; c fits.
LEMMA NextLemma ==
  ASSUME Menu, NEW ms \in Seq(1 .. Len(items)), NEW c \in 1 .. Len(ms)
  PROVE  \/ /\ NextOf(ms, c) = NULL
            /\ \A k \in c .. Len(ms) : Extent(ms, c, k) <= room
         \/ /\ NextOf(ms, c) \in (c + 1) .. Len(ms)
            /\ Extent(ms, c, NextOf(ms, c)) > room
            /\ \A k \in c .. (NextOf(ms, c) - 1) : Extent(ms, c, k) <= room
<1> DEFINE n == Len(ms)
           X(k) == Extent(ms, c, k)
           over == {k \in c .. n : X(k) > room}
<1>1. n \in Nat /\ room \in Nat /\ c \in 1 .. n
  BY RoomLemma
<1>2. NextOf(ms, c) = IF over = {} THEN NULL ELSE Min(over)
  BY DEF NextOf, NULL
<1>3. ASSUME NEW k \in c .. n PROVE X(k) \in Int
  <2>1. k \in 0 .. n /\ c - 1 \in 0 .. n
    BY <1>1
  <2>2. Ends(ms)[k] \in Nat /\ Ends(ms)[c - 1] \in Nat
    BY <2>1, SumsLemma
  <2> QED BY <2>2 DEF Extent
<1>4. X(c) <= room
  BY SumsLemma DEF Extent
<1> HIDE DEF X, n
<1>5. over \in SUBSET Nat /\ c \notin over
  <2>1. c \in c .. n
    BY <1>1
  <2>2. X(c) \in Int
    BY <1>3, <2>1
  <2> QED BY <1>1, <1>4, <2>2
<1>6. CASE over = {}
  <2>1. \A k \in c .. n : X(k) <= room
    BY <1>1, <1>3, <1>6, SMTT(30)
  <2> QED BY <1>2, <1>6, <2>1 DEF X, n
<1>7. CASE over # {}
  <2> DEFINE m == Min(over)
  <2>1. m \in over /\ \A k \in over : m <= k
    <3> HIDE DEF over
    <3> QED BY <1>5, <1>7, MinLemma
  <2> HIDE DEF m
  <2>2. m \in (c + 1) .. n /\ X(m) > room
    BY <1>1, <1>5, <2>1
  <2>3. \A k \in c .. (m - 1) : k \in c .. n /\ ~(m <= k)
    BY <1>1, <2>2
  <2>4. \A k \in c .. (m - 1) : X(k) <= room
    BY <1>1, <1>3, <2>1, <2>3
  <2>5. NextOf(ms, c) = m
    BY <1>2, <1>7 DEF m
  <2> QED BY <2>2, <2>4, <2>5 DEF X, n
<1> QED BY <1>6, <1>7

\* The page before c is the longest that fits and ends right before c.
LEMMA PrevLemma ==
  ASSUME Menu, NEW ms \in Seq(1 .. Len(items)), NEW c \in 1 .. Len(ms)
  PROVE  /\ PrevOf(ms, c) \in 1 .. c
         /\ Extent(ms, PrevOf(ms, c), c - 1) <= room
         /\ c > 1 => PrevOf(ms, c) < c
         /\ PrevOf(ms, c) > 1 => Extent(ms, PrevOf(ms, c) - 1, c - 1) > room
<1> DEFINE n == Len(ms)
           X(k) == Extent(ms, k, c - 1)
           fit == {k \in 1 .. c : X(k) <= room}
           p == Min(fit)
<1>1. n \in Nat /\ room \in Nat /\ c \in 1 .. n
  BY RoomLemma
<1>2. PrevOf(ms, c) = p
  BY DEF PrevOf, NULL
<1>3. ASSUME NEW k \in 1 .. c PROVE X(k) \in Int
  <2>1. k - 1 \in 0 .. n /\ c - 1 \in 0 .. n
    BY <1>1
  <2>2. Ends(ms)[k - 1] \in Nat /\ Ends(ms)[c - 1] \in Nat
    BY <2>1, SumsLemma
  <2> QED BY <2>2 DEF Extent
<1>4. X(c) = 0
  <2>1. c - 1 \in 0 .. n
    BY <1>1
  <2>2. Ends(ms)[c - 1] \in Nat
    BY <2>1, SumsLemma
  <2> QED BY <2>2 DEF Extent
<1>5. ASSUME c > 1 PROVE X(c - 1) <= room
  <2> DEFINE d == c - 1
  <2>1. d \in 1 .. n
    BY <1>1, <1>5
  <2>2. Extent(ms, d, d) <= room
    <3> HIDE DEF d
    <3> QED BY <2>1, SumsLemma DEF Extent
  <2> QED BY <2>2
<1> HIDE DEF X, n
<1>6. fit \in SUBSET Nat /\ c \in fit /\ (c > 1 => c - 1 \in fit)
  BY <1>1, <1>4, <1>5
<1>7. p \in fit /\ \A k \in fit : p <= k
  <2> HIDE DEF fit
  <2> QED BY <1>6, MinLemma
<1> HIDE DEF p
<1>8. p \in 1 .. c /\ X(p) <= room /\ (c > 1 => p < c)
  BY <1>1, <1>6, <1>7
<1>9. p > 1 => X(p - 1) > room
  <2> SUFFICES ASSUME p > 1 PROVE X(p - 1) > room
    OBVIOUS
  <2>1. p - 1 \in 1 .. c /\ ~(p <= p - 1)
    BY <1>1, <1>8
  <2>2. ~(X(p - 1) <= room)
    BY <1>7, <2>1
  <2> QED BY <1>1, <1>3, <2>1, <2>2
<1> QED BY <1>2, <1>8, <1>9 DEF X

\* While the same items are offered in the same window, widths and room stay.
LEMMA SameRoom ==
  ASSUME UNCHANGED <<opt, items, lines>>
  PROVE  /\ room' = room
         /\ \A i : ItemW(i)' = ItemW(i)
<1>1. max_textw' = max_textw
  BY DEF max_textw
<1>2. prompt' = prompt
  BY DEF prompt
<1>3. mw' = mw
  BY <1>1, <1>2 DEF mw
<1>4. room' = room
  BY <1>2, <1>3 DEF room, inputw
<1> QED BY <1>4 DEF ItemW

\* Hence so do the pages.
LEMMA SamePages ==
  ASSUME UNCHANGED <<opt, items, lines>>, NEW ms, NEW c
  PROVE  NextOf(ms, c)' = NextOf(ms, c) /\ PrevOf(ms, c)' = PrevOf(ms, c)
<1>1. room' = room
  BY SameRoom
<1>2. Ends(ms)' = Ends(ms)
  BY SameRoom DEF Ends
<1>3. \A i, j : Extent(ms, i, j)' = Extent(ms, i, j)
  BY <1>2 DEF Extent
<1>4. {k \in c .. Len(ms) : Extent(ms, c, k)' > room'}
        = {k \in c .. Len(ms) : Extent(ms, c, k) > room}
  BY <1>1, <1>3
<1>5. {k \in 1 .. c : Extent(ms, k, c - 1)' <= room'}
        = {k \in 1 .. c : Extent(ms, k, c - 1) <= room}
  BY <1>1, <1>3
<1>6. NextOf(ms, c)' = NextOf(ms, c)
  BY <1>4 DEF NextOf
<1>7. PrevOf(ms, c)' = PrevOf(ms, c)
  BY <1>5 DEF PrevOf
<1> QED BY <1>6, <1>7

-----------------------------------------------------------------------------
(* The page that is open and the match that is selected on it. *)

\* The matches that are drawn when the page is opened at c.
PageFrom(ms, c) == c .. (IF NextOf(ms, c) = NULL THEN Len(ms) ELSE NextOf(ms, c) - 1)

\* The page from c shows c, and the page before it shows the match before c.
LEMMA PageLemma ==
  ASSUME Menu, NEW ms \in Seq(1 .. Len(items)), NEW c \in 1 .. Len(ms)
  PROVE  /\ c \in PageFrom(ms, c) /\ PageFrom(ms, c) \subseteq 1 .. Len(ms)
         /\ c > 1 => /\ PrevOf(ms, c) \in 1 .. Len(ms)
                     /\ c - 1 \in PageFrom(ms, PrevOf(ms, c))
<1> DEFINE n == Len(ms)
<1>1. n \in Nat /\ c \in 1 .. n /\ room \in Nat
  BY RoomLemma
<1>2. NextOf(ms, c) = NULL \/ NextOf(ms, c) \in (c + 1) .. n
  BY NextLemma
<1>3. c \in PageFrom(ms, c) /\ PageFrom(ms, c) \subseteq 1 .. n
  <2>1. CASE NextOf(ms, c) = NULL
    BY <1>1, <2>1 DEF PageFrom
  <2>2. CASE NextOf(ms, c) # NULL
    <3>1. NextOf(ms, c) \in (c + 1) .. n
      BY <1>2, <2>2
    <3> QED BY <1>1, <2>2, <3>1 DEF PageFrom
  <2> QED BY <2>1, <2>2
<1>4. ASSUME c > 1
      PROVE  PrevOf(ms, c) \in 1 .. n /\ c - 1 \in PageFrom(ms, PrevOf(ms, c))
  <2> DEFINE p == PrevOf(ms, c)
             q == NextOf(ms, p)
  <2>1. p \in 1 .. c /\ p < c /\ Extent(ms, p, c - 1) <= room
    BY <1>4, PrevLemma
  <2>2. p \in 1 .. n /\ c - 1 \in p .. n
    BY <1>1, <2>1
  <2> HIDE DEF p
  <2>3. CASE q = NULL
    <3>1. PageFrom(ms, p) = p .. n
      BY <2>3 DEF PageFrom
    <3> QED BY <2>2, <3>1 DEF p
  <2>4. CASE q # NULL
    <3>1. q \in (p + 1) .. n /\ Extent(ms, p, q) > room
      BY <2>2, <2>4, NextLemma
    <3>2. Extent(ms, p, q) \in Int /\ Extent(ms, p, c - 1) \in Int
      <4>1. p - 1 \in 0 .. n /\ q \in 0 .. n /\ c - 1 \in 0 .. n
        BY <1>1, <2>2, <3>1
      <4>2. Ends(ms)[p - 1] \in Nat /\ Ends(ms)[q] \in Nat /\ Ends(ms)[c - 1] \in Nat
        BY <4>1, SumsLemma
      <4> QED BY <4>2 DEF Extent
    <3>3. ASSUME q <= c - 1 PROVE FALSE
      <4>1. p - 1 \in 0 .. n /\ q \in 0 .. n /\ c - 1 \in 0 .. n
        BY <1>1, <2>2, <3>1
      <4>2. Ends(ms)[q] <= Ends(ms)[c - 1]
        BY <3>3, <4>1, SumsLemma
      <4>3. Ends(ms)[p - 1] \in Nat /\ Ends(ms)[q] \in Nat /\ Ends(ms)[c - 1] \in Nat
        BY <4>1, SumsLemma
      <4>4. Extent(ms, p, q) <= Extent(ms, p, c - 1)
        BY <4>2, <4>3 DEF Extent
      <4> HIDE DEF q
      <4> QED BY <1>1, <2>1, <3>1, <3>2, <4>4 DEF p
    <3>4. PageFrom(ms, p) = p .. (q - 1)
      BY <2>4 DEF PageFrom
    <3> HIDE DEF q
    <3>5. c - 1 \in p .. (q - 1)
      BY <1>1, <2>2, <3>1, <3>3
    <3> QED BY <2>2, <3>4, <3>5 DEF p
  <2> QED BY <2>2, <2>3, <2>4 DEF p
<1> QED BY <1>3, <1>4

\* What fuzzymatch() and match() leave in the list are positions of items.
LEMMA MatchType ==
  ASSUME NEW fuzzy \in BOOLEAN, items \in Seq(Texts), NEW t, NEW ms \in Match(fuzzy, items, t)
  PROVE  ms \in Seq(1 .. Len(items))
<1> DEFINE n == Len(items)
<1>1. n \in Nat
  OBVIOUS
<1>2. [i \in 1 .. n |-> i] \in Seq(1 .. n)
  BY <1>1
<1>3. ASSUME NEW S \in SUBSET (1 .. n), NEW s \in SetToSeqs(S)
      PROVE  s \in Seq(1 .. n)
  <2>1. Cardinality(S) \in Nat
    <3>1. IsFiniteSet(1 .. n)
      BY <1>1, FS_Interval
    <3>2. IsFiniteSet(S)
      BY <3>1, FS_Subset
    <3> QED BY <3>2, FS_CardinalityType
  <2>2. s \in [1 .. Cardinality(S) -> 1 .. n]
    BY DEF SetToSeqs
  <2> QED BY <2>1, <2>2
<1>4. CASE fuzzy
  <2> DEFINE found == {i \in 1 .. n : Scan(t, items[i])[Len(t)] <= Len(items[i])}
  <2>1. ms \in FuzzyMatches(items, t)
    BY <1>4 DEF Match
  <2>2. ms = [i \in 1 .. n |-> i] \/ ms \in SetToSeqs(found)
    BY <2>1 DEF FuzzyMatches
  <2>3. found \in SUBSET (1 .. n)
    OBVIOUS
  <2> HIDE DEF found
  <2> QED BY <1>2, <1>3, <2>2, <2>3
<1>5. CASE ~fuzzy
  <2>1. ms \in TokenMatches(items, t)
    BY <1>5 DEF Match
  <2>2. ms = [i \in 1 .. n |-> i] \/ ms \in SetToSeqs(Hits(items, t))
    BY <2>1 DEF TokenMatches
  <2>3. Hits(items, t) \in SUBSET (1 .. n)
    BY DEF Hits
  <2> QED BY <1>2, <1>3, <2>2, <2>3
<1> QED BY <1>4, <1>5

Setting ==
  /\ opt \in Options /\ items \in Inputs \cup {<<>>} /\ lines \in 0 .. opt.lines
  /\ proc \in {"start", "run", "success", "failure"}
  /\ tries \in 0 .. (MaxTries - 1)
  /\ Len(printed) <= 1

Listed == matches \in Seq(1 .. Len(items)) /\ (proc = "start" => matches = <<>>)

\* next and prev are those that calcoffsets() finds for curr.
Opened == next = NextOf(matches, curr) /\ prev = PrevOf(matches, curr)

Chosen ==
  IF matches = <<>> THEN curr = NULL /\ sel = NULL
  ELSE curr \in 1 .. Len(matches) /\ sel \in PageFrom(matches, curr)

View == Listed /\ Opened /\ Chosen
PagesInv == LineInv /\ Setting /\ View

\* The options and items of a running dmenu are what the lemmas above assume.
LEMMA SettingMenu ==
  ASSUME Setting
  PROVE  Menu /\ opt.fuzzy \in BOOLEAN
<1>1. opt \in [lines : Nat, fuzzy : BOOLEAN, fast : BOOLEAN, embed : BOOLEAN,
               centered : BOOLEAN, prompt : BOOLEAN]
  BY InputAssumption DEF Setting
<1>2. lines \in Nat
  BY <1>1 DEF Setting
<1>3. items \in Seq(Texts)
  <2>1. <<>> \in Seq(Texts)
    OBVIOUS
  <2>2. Inputs \subseteq Seq(Texts)
    BY InputAssumption
  <2> QED BY <2>1, <2>2 DEF Setting
<1> QED BY <1>1, <1>2, <1>3 DEF Menu, Setting

\* The same page, with the same match selected or another one on it.
LEMMA StayLemma ==
  ASSUME PagesInv, UNCHANGED <<opt, items, lines, matches, curr, prev, next>>,
         proc' = "start" => proc = "start",
         sel' = sel \/ (matches # <<>> /\ sel' \in PageFrom(matches, curr))
  PROVE  View'
<1>1. NextOf(matches, curr)' = NextOf(matches, curr)
      /\ PrevOf(matches, curr)' = PrevOf(matches, curr)
  BY SamePages
<1>2. PageFrom(matches, curr)' = PageFrom(matches, curr)
  BY <1>1 DEF PageFrom
<1>3. Listed' /\ Opened'
  BY <1>1 DEF PagesInv, View, Listed, Opened
<1>4. Chosen'
  BY <1>2 DEF PagesInv, View, Chosen
<1> QED BY <1>3, <1>4 DEF View

\* Another page.
LEMMA TurnLemma ==
  ASSUME PagesInv, UNCHANGED <<opt, items, lines>>, proc' = "start" => proc = "start",
         NEW c \in 1 .. Len(matches), OpenPage(c), sel' \in PageFrom(matches, c)
  PROVE  View'
<1>1. matches' = matches /\ curr' = c /\ next' = NextOf(matches, c) /\ prev' = PrevOf(matches, c)
  BY DEF OpenPage, Page
<1>2. NextOf(matches, curr)' = NextOf(matches, c)
      /\ PrevOf(matches, curr)' = PrevOf(matches, c)
  BY <1>1, SamePages
<1>3. PageFrom(matches, curr)' = PageFrom(matches, c)
  BY <1>1, <1>2 DEF PageFrom
<1>4. Listed' /\ Opened'
  BY <1>1, <1>2 DEF PagesInv, View, Listed, Opened
<1>5. matches # <<>>
  OBVIOUS
<1>6. Chosen'
  BY <1>1, <1>3, <1>5 DEF Chosen
<1> QED BY <1>4, <1>6 DEF View

\* The first page of other matches.
LEMMA RematchLemma ==
  ASSUME PagesInv, UNCHANGED <<opt, items, lines>>, proc' # "start", NEW t, DoMatch(t)
  PROVE  View'
<1>1. Menu /\ opt.fuzzy \in BOOLEAN /\ items \in Seq(Texts)
  BY SettingMenu DEF PagesInv, Menu
<1>2. PICK ms \in Match(opt.fuzzy, items, t) :
        LET c == IF ms = <<>> THEN NULL ELSE 1
        IN  matches' = ms /\ sel' = c /\ Page(ms, c)
  BY DEF DoMatch
<1> DEFINE c == IF ms = <<>> THEN NULL ELSE 1
<1>3. /\ matches' = ms /\ sel' = c /\ curr' = c
      /\ next' = NextOf(ms, c) /\ prev' = PrevOf(ms, c)
  BY <1>2 DEF Page
<1>4. ms \in Seq(1 .. Len(items))
  BY <1>1, MatchType
<1>5. NextOf(matches, curr)' = NextOf(ms, c) /\ PrevOf(matches, curr)' = PrevOf(ms, c)
  BY <1>3, SamePages
<1>6. PageFrom(matches, curr)' = PageFrom(ms, c)
  BY <1>3, <1>5 DEF PageFrom
<1>7. Listed' /\ Opened'
  BY <1>3, <1>4, <1>5 DEF Listed, Opened
<1>8. Chosen'
  <2>1. CASE ms = <<>>
    BY <1>3, <2>1 DEF Chosen
  <2>2. CASE ms # <<>>
    <3>1. 1 \in 1 .. Len(ms) /\ c = 1
      BY <1>4, <2>2
    <3>2. 1 \in PageFrom(ms, 1)
      BY <1>1, <1>4, <3>1, PageLemma
    <3> QED BY <1>3, <1>6, <2>2, <3>1, <3>2 DEF Chosen
  <2> QED BY <2>1, <2>2
<1> QED BY <1>7, <1>8 DEF View

\* The last page: no page follows the one at the first match from which the
\* rest fits.
LEMMA LastPageLemma ==
  ASSUME PagesInv, matches # <<>>
  PROVE  LastPage \in 1 .. Len(matches) /\ Len(matches) \in PageFrom(matches, LastPage)
<1> DEFINE n == Len(matches)
           back == PrevOf(matches, n)
           final == {c \in back .. n : NextOf(matches, c) = NULL}
<1>1. Menu /\ matches \in Seq(1 .. Len(items)) /\ n \in 1 .. n /\ n \in Nat
  BY SettingMenu DEF PagesInv, View, Listed
<1>2. NextOf(matches, n) = NULL
  <2>1. NextOf(matches, n) \notin (n + 1) .. n
    BY <1>1
  <2> QED BY <1>1, <2>1, NextLemma
<1>3. back \in 1 .. n
  BY <1>1, PrevLemma
<1>4. LastPage = Min(final)
  BY DEF LastPage, matchend
<1> HIDE DEF n, back
<1>5. final \in SUBSET Nat /\ n \in final
  BY <1>1, <1>2, <1>3
<1>6. LastPage \in final
  <2> HIDE DEF final
  <2> QED BY <1>4, <1>5, MinLemma
<1>7. LastPage \in back .. n /\ NextOf(matches, LastPage) = NULL
  BY <1>6
<1>8. PageFrom(matches, LastPage) = LastPage .. n
  BY <1>7 DEF PageFrom, n
<1> QED BY <1>1, <1>3, <1>7, <1>8 DEF n

-----------------------------------------------------------------------------
(* Every step. *)

\* What the state looks like while events are handled.
LEMMA ViewFacts ==
  ASSUME PagesInv
  PROVE  /\ Menu /\ matches \in Seq(1 .. Len(items)) /\ matchend \in Nat
         /\ matchend = Len(matches) /\ NextOf(matches, NULL) = NULL
         /\ next = NextOf(matches, curr) /\ prev = PrevOf(matches, curr)
         /\ IF matches = <<>> THEN curr = NULL /\ sel = NULL /\ next = NULL /\ prev = NULL
            ELSE /\ curr \in 1 .. matchend /\ sel \in PageFrom(matches, curr)
                 /\ curr \in PageFrom(matches, curr)
                 /\ PageFrom(matches, curr) \subseteq 1 .. matchend
                 /\ sel \in 1 .. matchend
                 /\ prev \in 1 .. matchend
                 /\ next = NULL \/ (next \in 1 .. matchend /\ next > curr)
         /\ page = IF curr = NULL THEN {} ELSE PageFrom(matches, curr)
<1>1. /\ Menu /\ matches \in Seq(1 .. Len(items)) /\ matchend \in Nat /\ matchend = Len(matches)
      /\ next = NextOf(matches, curr) /\ prev = PrevOf(matches, curr)
  BY SettingMenu DEF PagesInv, View, Listed, Opened, matchend
<1>2. NextOf(matches, NULL) = NULL /\ PrevOf(matches, NULL) = NULL
  BY DEF NextOf, PrevOf
<1>3. page = IF curr = NULL THEN {} ELSE PageFrom(matches, curr)
  BY <1>1 DEF page, PageFrom
<1>4. CASE matches = <<>>
  <2>1. curr = NULL /\ sel = NULL
    BY <1>4 DEF PagesInv, View, Chosen
  <2> QED BY <1>1, <1>2, <1>3, <1>4, <2>1
<1>5. CASE matches # <<>>
  <2>1. curr \in 1 .. matchend /\ sel \in PageFrom(matches, curr)
    BY <1>1, <1>5 DEF PagesInv, View, Chosen
  <2>2. curr \in PageFrom(matches, curr) /\ PageFrom(matches, curr) \subseteq 1 .. matchend
    BY <1>1, <2>1, PageLemma
  <2>3. prev \in 1 .. curr
    BY <1>1, <2>1, PrevLemma
  <2>4. next = NULL \/ next \in (curr + 1) .. matchend
    BY <1>1, <2>1, NextLemma
  <2>5. prev \in 1 .. matchend /\ (next = NULL \/ (next \in 1 .. matchend /\ next > curr))
    BY <1>1, <2>1, <2>3, <2>4
  <2> QED BY <1>1, <1>2, <1>3, <1>5, <2>1, <2>2, <2>5
<1> QED BY <1>4, <1>5

\* Up, and the page it may turn.
LEMMA UpView ==
  ASSUME PagesInv, Up, UNCHANGED <<opt, items, lines, proc>>
  PROVE  View'
<1>1. CASE sel <= 1
  BY <1>1, StayLemma DEF Up, view
<1>2. CASE ~(sel <= 1)
  <2>1. sel' = sel - 1 /\ (IF sel = curr THEN OpenPage(prev) ELSE UNCHANGED <<matches, curr, prev, next>>)
    BY <1>2 DEF Up, Select
  <2>2. /\ Menu /\ matches \in Seq(1 .. Len(items)) /\ matchend \in Nat /\ matchend = Len(matches)
        /\ prev = PrevOf(matches, curr) /\ matches # <<>> /\ NULL = 0
        /\ curr \in 1 .. matchend /\ sel \in PageFrom(matches, curr) /\ sel \in 1 .. matchend
        /\ prev \in 1 .. matchend /\ next = NextOf(matches, curr)
        /\ next = NULL \/ next \in 1 .. matchend
    BY <1>2, ViewFacts DEF NULL
  <2>3. CASE sel = curr
    <3>1. sel - 1 \in PageFrom(matches, prev)
      BY <1>2, <2>2, <2>3, PageLemma
    <3> QED BY <2>1, <2>2, <2>3, <3>1, TurnLemma
  <2>4. CASE sel # curr
    <3>1. sel - 1 \in PageFrom(matches, curr)
      BY <1>2, <2>2, <2>4 DEF PageFrom
    <3> QED BY <2>1, <2>2, <2>4, <3>1, StayLemma
  <2> QED BY <2>3, <2>4
<1> QED BY <1>1, <1>2

\* Down, and the page it may turn.
LEMMA DownView ==
  ASSUME PagesInv, Down, UNCHANGED <<opt, items, lines, proc>>
  PROVE  View'
<1>1. CASE sel = NULL \/ right(sel) = NULL
  BY <1>1, StayLemma DEF Down, view
<1>2. CASE ~(sel = NULL \/ right(sel) = NULL)
  <2>1. /\ sel' = right(sel)
        /\ IF right(sel) = next THEN OpenPage(next) ELSE UNCHANGED <<matches, curr, prev, next>>
    BY <1>2 DEF Down, Select
  <2>2. /\ Menu /\ matches \in Seq(1 .. Len(items)) /\ matchend \in Nat /\ matchend = Len(matches)
        /\ next = NextOf(matches, curr) /\ matches # <<>> /\ NULL = 0
        /\ curr \in 1 .. matchend /\ sel \in PageFrom(matches, curr) /\ sel \in 1 .. matchend
        /\ next = NULL \/ (next \in 1 .. matchend /\ next > curr)
    BY <1>2, ViewFacts DEF NULL
  <2>3. right(sel) = sel + 1 /\ sel + 1 \in 1 .. matchend
    BY <1>2, <2>2 DEF right
  <2>4. CASE right(sel) = next
    <3>1. next \in PageFrom(matches, next)
      BY <2>2, <2>3, <2>4, PageLemma
    <3> QED BY <2>1, <2>2, <2>3, <2>4, <3>1, TurnLemma
  <2>5. CASE right(sel) # next
    <3>1. sel + 1 \in PageFrom(matches, curr)
      BY <2>2, <2>3, <2>5 DEF PageFrom
    <3> QED BY <2>1, <2>2, <2>3, <2>5, <3>1, StayLemma
  <2> QED BY <2>4, <2>5
<1> QED BY <1>1, <1>2

\* Every key keeps next, prev and sel right.
LEMMA KeysView ==
  ASSUME PagesInv, proc = "run", keypress
  PROVE  View'
<1> USE DEF Quiet, started
<1>1. ASSUME NEW t, NEW c, Edit(t, c), Quiet PROVE View'
  BY <1>1, RematchLemma DEF Edit
<1>2. ASSUME UNCHANGED view, Quiet PROVE View'
  BY <1>2, StayLemma DEF view
<1>3. ASSUME NEW s, Insert(s), Quiet PROVE View'
  BY <1>1, <1>2, <1>3 DEF Insert, field
<1>4. ASSUME NEW c, DeleteTo(c), Quiet PROVE View'
  BY <1>1, <1>4 DEF DeleteTo
<1>5. ASSUME NEW c, MoveCursor(c), Quiet PROVE View'
  BY <1>2, <1>5 DEF MoveCursor
<1>6. ASSUME Ignored PROVE View'
  BY <1>2, <1>6 DEF Ignored
<1>7. ASSUME Up \/ Down, Quiet PROVE View'
  BY <1>7, UpView, DownView
<1>8. CASE KeyText
  BY <1>3, <1>8 DEF KeyText
<1>9. CASE KeyUnbound
  BY <1>1, <1>2, <1>9 DEF KeyUnbound
<1>10. CASE KeyTab
  <2>1. CASE sel = NULL
    BY <1>6, <1>10, <2>1 DEF KeyTab
  <2>2. CASE sel # NULL
    <3>1. PICK i \in 1 .. Len(items) : LET t == ToMaxText(items[i]) IN Edit(t, Len(t))
      BY <1>10, <2>2 DEF KeyTab
    <3>2. Quiet
      BY <1>10, <2>2 DEF KeyTab
    <3> QED BY <1>1, <3>1, <3>2
  <2> QED BY <2>1, <2>2
<1>11. CASE KeyEscape \/ \E shift, ctrl \in BOOLEAN : KeyReturn(shift, ctrl)
  <2>1. UNCHANGED <<opt, items, lines, view>>
        /\ proc' \in {"run", "success", "failure"}
    BY <1>11 DEF KeyEscape, KeyReturn, Exit
  <2> QED BY <2>1, StayLemma DEF view
<1>12. CASE KeyKillRight \/ KeyKillLeft \/ KeyKillWord
  <2>1. CASE KeyKillRight
    BY <1>1, <2>1 DEF KeyKillRight
  <2>2. CASE KeyKillLeft
    BY <1>4, <2>2 DEF KeyKillLeft
  <2>3. CASE KeyKillWord
    BY <1>4, <1>6, <2>3 DEF KeyKillWord
  <2> QED BY <1>12, <2>1, <2>2, <2>3
<1>13. CASE KeyDelete \/ KeyBackSpace
  <2>1. CASE KeyDelete
    BY <1>1, <1>6, <2>1 DEF KeyDelete
  <2>2. CASE KeyBackSpace
    BY <1>4, <1>6, <2>2 DEF KeyBackSpace
  <2> QED BY <1>13, <2>1, <2>2
<1>14. CASE KeyWordLeft \/ KeyWordRight
  BY <1>5, <1>14 DEF KeyWordLeft, KeyWordRight
<1>15. CASE KeyUp \/ KeyDown \/ KeyLeft \/ KeyRight
  BY <1>2, <1>5, <1>7, <1>15 DEF KeyUp, KeyDown, KeyLeft, KeyRight
<1>16. CASE KeyEnd
  <2>1. CASE cursor < Len(text)
    BY <1>5, <1>16, <2>1 DEF KeyEnd
  <2>2. CASE ~(cursor < Len(text))
    <3>1. /\ sel' = matchend /\ UNCHANGED <<opt, items, lines, proc>>
          /\ IF next # NULL THEN OpenPage(LastPage) ELSE UNCHANGED <<matches, curr, prev, next>>
      BY <1>16, <2>2 DEF KeyEnd, Select
    <3>2. CASE next # NULL
      <4>1. matches # <<>>
        BY <3>2, ViewFacts
      <4>2. LastPage \in 1 .. Len(matches) /\ sel' \in PageFrom(matches, LastPage)
        BY <3>1, <4>1, LastPageLemma DEF matchend
      <4> QED BY <3>1, <3>2, <4>2, TurnLemma
    <3>3. CASE next = NULL
      <4>1. CASE matches = <<>>
        <5>1. sel = NULL /\ matchend = NULL
          BY <4>1, ViewFacts DEF matchend, NULL
        <5> QED BY <3>1, <3>3, <5>1, StayLemma
      <4>2. CASE matches # <<>>
        <5>1. matchend \in PageFrom(matches, curr)
          BY <3>3, <4>2, ViewFacts DEF PageFrom
        <5> QED BY <3>1, <3>3, <4>2, <5>1, StayLemma
      <4> QED BY <4>1, <4>2
    <3> QED BY <3>2, <3>3
  <2> QED BY <2>1, <2>2
<1>17. CASE KeyHome
  <2>1. CASE sel = first
    BY <1>5, <1>17, <2>1 DEF KeyHome
  <2>2. CASE sel # first
    <3>1. sel' = first /\ OpenPage(first) /\ UNCHANGED <<opt, items, lines, proc>>
      BY <1>17, <2>2 DEF KeyHome, Select
    <3>2. matches # <<>>
      BY <2>2, ViewFacts DEF first
    <3>3. first \in 1 .. Len(matches) /\ first \in PageFrom(matches, first)
      <4>1. first = 1 /\ 1 \in 1 .. Len(matches)
        BY <3>2, ViewFacts DEF first
      <4> QED BY <4>1, ViewFacts, PageLemma
    <3> QED BY <3>1, <3>3, TurnLemma
  <2> QED BY <2>1, <2>2
<1>18. CASE ScrollDown \/ ScrollUp
  <2>1. PICK c \in {next, prev} : c # NULL /\ Select(c) /\ OpenPage(c) /\ Quiet
    BY <1>18 DEF ScrollDown, ScrollUp
  <2>2. c \in 1 .. Len(matches)
    BY <2>1, ViewFacts
  <2>3. c \in PageFrom(matches, c)
    BY <2>2, ViewFacts, PageLemma
  <2> QED BY <2>1, <2>2, <2>3, TurnLemma DEF Select
<1> QED BY <1>8, <1>9, <1>10, <1>11, <1>12, <1>13, <1>14, <1>15, <1>16, <1>17, <1>18
        DEF keypress

\* So does every step of dmenu: reading items, grabbing the keyboard, pasting.
LEMMA ViewNext ==
  ASSUME PagesInv, Next
  PROVE  View'
<1>1. CASE readstdin
  <2>1. matches = <<>> /\ matches' = <<>> /\ UNCHANGED <<proc, curr, sel, prev, next>>
    BY <1>1 DEF readstdin, Doing, view, PagesInv, View, Listed
  <2>2. curr = NULL /\ next = NULL /\ prev = NULL /\ sel = NULL
    BY <2>1, ViewFacts
  <2>3. <<>> \in Seq(1 .. Len(items'))
    OBVIOUS
  <2> QED BY <2>1, <2>2, <2>3 DEF View, Listed, Opened, Chosen, NextOf, PrevOf
<1>2. CASE grabkeyboard
  <2>1. UNCHANGED <<opt, items, lines, view>> /\ (proc' = proc \/ proc' = "failure")
    BY <1>2 DEF grabkeyboard
  <2> QED BY <2>1, StayLemma DEF view
<1>3. CASE setup
  BY <1>3, RematchLemma DEF setup
<1>4. CASE run
  <2>1. proc = "run"
    BY <1>4 DEF run
  <2>2. CASE keypress
    BY <2>1, <2>2, KeysView
  <2>3. CASE buttonpress
    <3>1. CASE KeyEscape
      BY <2>1, <3>1, KeysView DEF keypress
    <3>2. ASSUME NEW z, ClickInput(z) PROVE View'
      BY <2>1, <3>2, RematchLemma DEF ClickInput, DeleteTo, Edit, Quiet, started
    <3>3. ASSUME NEW z, ClickArrow(z) PROVE View'
      BY <2>1, <3>3, KeysView DEF ClickArrow, keypress
    <3>4. ASSUME NEW z, NEW ctrl \in BOOLEAN, ClickItem(z, ctrl) PROVE View'
      <4> DEFINE i == Min(Covers(z))
      <4>1. /\ UNCHANGED <<opt, items, lines, matches, curr, prev, next>>
            /\ proc' \in {"run", "success"} /\ sel' \in {sel, i} /\ Covers(z) # {}
        BY <2>1, <3>4 DEF ClickItem, Exit, Select, started, view
      <4>2. Covers(z) \subseteq page
        BY DEF Covers
      <4>3. page # {} /\ page = PageFrom(matches, curr) /\ matches # <<>>
            /\ page \in SUBSET Nat
        BY <4>1, <4>2, ViewFacts
      <4>4. i \in PageFrom(matches, curr)
        BY <4>1, <4>2, <4>3, MinLemma
      <4> HIDE DEF i
      <4> QED BY <2>1, <4>1, <4>3, <4>4, StayLemma
    <3> QED BY <2>3, <3>1, <3>2, <3>3, <3>4 DEF buttonpress
  <2>4. CASE paste
    <3>1. PICK s : Insert(s) /\ Quiet
      BY <2>4 DEF paste
    <3>2. CASE DoMatch(Inserted(text, cursor, s))
      BY <2>1, <3>1, <3>2, RematchLemma DEF Quiet, started
    <3>3. CASE UNCHANGED view
      BY <3>1, <3>3, StayLemma DEF Quiet, started, view
    <3> QED BY <3>1, <3>2, <3>3 DEF Insert, Edit
  <2>5. CASE focusin \/ destroynotify
    <3>1. UNCHANGED <<opt, items, lines, view>> /\ proc' \in {"run", "failure"}
      BY <2>5 DEF focusin, destroynotify, KeyEscape, Exit, started
    <3> QED BY <3>1, StayLemma DEF view
  <2> QED BY <1>4, <2>2, <2>3, <2>4, <2>5 DEF run
<1> QED BY <1>1, <1>2, <1>3, <1>4 DEF Next

\* No step changes the options once they are parsed, nor the items once read.
LEMMA SettingNext ==
  ASSUME PagesInv, Next
  PROVE  Setting'
<1>1. /\ opt \in Options /\ opt.lines \in Nat /\ MaxTries \in Nat \ {0}
      /\ Inputs \subseteq Seq(Texts)
  BY InputAssumption DEF PagesInv, Setting
<1>2. \A x : Len(<<x>>) <= 1
  OBVIOUS
<1>3. Len(<<>>) <= 1
  OBVIOUS
<1>4. CASE readstdin
  <2>1. /\ items' \in Inputs /\ lines' = Min({lines, Len(items')}) /\ printed' = <<>>
        /\ UNCHANGED <<opt, tries, proc>>
    BY <1>4 DEF readstdin, Done
  <2>2. Len(items') \in Nat /\ lines \in Nat /\ lines <= opt.lines
    BY <1>1, <2>1 DEF PagesInv, Setting
  <2>3. lines' \in Nat /\ lines' <= opt.lines
    BY <1>1, <2>1, <2>2, PairLemma
  <2> QED BY <1>1, <1>3, <2>1, <2>3 DEF PagesInv, Setting
<1>5. CASE grabkeyboard
  <2>1. /\ UNCHANGED <<opt, items, lines>> /\ printed' = <<>>
        /\ proc' \in {proc, "failure"}
        /\ tries' = tries \/ (tries' = tries + 1 /\ tries + 1 < MaxTries)
    BY <1>5 DEF grabkeyboard, Done
  <2>2. tries' \in 0 .. (MaxTries - 1)
    BY <1>1, <2>1 DEF PagesInv, Setting
  <2> QED BY <1>3, <2>1, <2>2 DEF PagesInv, Setting
<1>6. CASE setup
  BY <1>3, <1>6 DEF setup, Done, PagesInv, Setting
<1>7. CASE run
  <2>1. UNCHANGED started
    BY <1>7 DEF run, keypress, buttonpress, paste, focusin, destroynotify, KeyText, KeyUnbound,
                KeyTab, KeyEscape, KeyKillRight, KeyKillLeft, KeyKillWord, KeyDelete,
                KeyBackSpace, KeyWordLeft, KeyWordRight, KeyEnd, KeyHome, KeyUp, KeyDown,
                KeyLeft, KeyRight, ScrollDown, ScrollUp, KeyReturn, ClickInput, ClickArrow,
                ClickItem, Exit, Ignored, Quiet
  <2>2. proc' \in {"run", "success", "failure"}
    BY <1>7 DEF run, keypress, buttonpress, paste, focusin, destroynotify, KeyText, KeyUnbound,
                KeyTab, KeyEscape, KeyKillRight, KeyKillLeft, KeyKillWord, KeyDelete,
                KeyBackSpace, KeyWordLeft, KeyWordRight, KeyEnd, KeyHome, KeyUp, KeyDown,
                KeyLeft, KeyRight, ScrollDown, ScrollUp, KeyReturn, ClickInput, ClickArrow,
                ClickItem, Exit, Ignored, Quiet, started
  <2>3. printed' = <<>> \/ \E x : printed' = <<x>>
    BY <1>7 DEF run, keypress, buttonpress, paste, focusin, destroynotify, KeyText, KeyUnbound,
                KeyTab, KeyEscape, KeyKillRight, KeyKillLeft, KeyKillWord, KeyDelete,
                KeyBackSpace, KeyWordLeft, KeyWordRight, KeyEnd, KeyHome, KeyUp, KeyDown,
                KeyLeft, KeyRight, ScrollDown, ScrollUp, KeyReturn, ClickInput, ClickArrow,
                ClickItem, Ignored, Quiet
  <2>4. Len(printed') <= 1
    BY <1>2, <1>3, <2>3
  <2> QED BY <2>1, <2>2, <2>4 DEF PagesInv, Setting, started
<1> QED BY <1>4, <1>5, <1>6, <1>7 DEF Next

\* PagesInv holds before the options are parsed
LEMMA PagesInit == Init => PagesInv
<1> SUFFICES ASSUME Init PROVE PagesInv
  OBVIOUS
<1>1. <<>> \in Texts /\ <<>> \in Seq(Texts) /\ 0 \in RuneStarts(<<>>) /\ Len(<<>>) = 0
  BY DEF Texts, RuneStarts
<1>2. LineInv
  BY <1>1, TextAssumption DEF Init, LineInv, Line
<1>3. opt \in [lines : Nat, fuzzy : BOOLEAN, fast : BOOLEAN, embed : BOOLEAN,
               centered : BOOLEAN, prompt : BOOLEAN] /\ MaxTries \in Nat \ {0}
  BY InputAssumption DEF Init
<1>4. Setting
  BY <1>1, <1>3 DEF Init, Setting
<1>5. View
  <2>1. <<>> \in Seq(1 .. Len(items))
    OBVIOUS
  <2> QED BY <2>1 DEF Init, View, Listed, Opened, Chosen, NextOf, PrevOf
<1> QED BY <1>2, <1>4, <1>5 DEF PagesInv

\* and every step keeps it
LEMMA PagesStep == PagesInv /\ [Next]_vars => PagesInv'
<1> SUFFICES ASSUME PagesInv, [Next]_vars PROVE PagesInv'
  OBVIOUS
<1>1. CASE Next
  BY <1>1, StepLemma, SettingNext, ViewNext DEF PagesInv
<1>2. CASE UNCHANGED vars
  <2>1. LineInv'
    BY <1>2, KeptLemma DEF PagesInv, vars, started, field, Kept
  <2>2. Setting'
    BY <1>2 DEF PagesInv, Setting, vars, started
  <2>3. View'
    BY <1>2, StayLemma DEF vars, started, view
  <2> QED BY <2>1, <2>2, <2>3 DEF PagesInv
<1> QED BY <1>1, <1>2

\* so it always holds.
LEMMA PagesAlways == Spec => []PagesInv
BY PagesInit, PagesStep, PTL DEF Spec

\* Every variable of dmenu has its type: the pointers into the list of matches
\* never dangle, however items are matched again while a page is open, and the
\* text leaves room for its NUL.
THEOREM TypeCorrect == Spec => []TypeOK
<1>1. PagesInv => TypeOK
  <2> SUFFICES ASSUME PagesInv PROVE TypeOK
    OBVIOUS
  <2>1. Len(text) <= MaxText /\ cursor \in 0 .. Len(text)
    BY DEF PagesInv, LineInv, Line, RuneStarts
  <2>2. {curr, sel, prev, next} \subseteq 0 .. matchend
    BY ViewFacts DEF NULL
  <2> QED BY <2>1, <2>2 DEF PagesInv, Setting, TypeOK
<1> QED BY <1>1, PagesAlways, PTL

\* The selected match is on the page that is drawn, for any items and widths:
\* the keys that move the selection turn the page when it leaves it, and
\* the page before curr always ends right before curr (calcoffsets).
THEOREM SelectionAlwaysOnPage == Spec => []SelectionOnPage
<1>1. PagesInv => SelectionOnPage
  <2> SUFFICES ASSUME PagesInv PROVE SelectionOnPage
    OBVIOUS
  <2> QED BY ViewFacts DEF SelectionOnPage, NULL
<1> QED BY <1>1, PagesAlways, PTL

\* A page is as full as the room allows, and so is the one before it, whatever
\* the widths of the items are.
THEOREM PagesAlwaysFull == Spec => []PageIsFull
<1>1. PagesInv => PageIsFull
  <2> SUFFICES ASSUME PagesInv, matches # <<>>
               PROVE  /\ Extent(matches, curr, curr + Cardinality(page) - 1) <= room
                      /\ next # NULL => Extent(matches, curr, next) > room
                      /\ Extent(matches, prev, curr - 1) <= room
                      /\ prev > 1 => Extent(matches, prev - 1, curr - 1) > room
    BY DEF PageIsFull
  <2>1. /\ Menu /\ matches \in Seq(1 .. Len(items)) /\ curr \in 1 .. Len(matches)
        /\ next = NextOf(matches, curr) /\ prev = PrevOf(matches, curr)
        /\ page = PageFrom(matches, curr) /\ Len(matches) \in Nat
    BY ViewFacts DEF NULL
  <2>2. /\ Extent(matches, prev, curr - 1) <= room
        /\ prev > 1 => Extent(matches, prev - 1, curr - 1) > room
    BY <2>1, PrevLemma
  <2>3. CASE next = NULL
    <3>1. page = curr .. Len(matches)
      BY <2>1, <2>3 DEF PageFrom
    <3>2. Cardinality(page) = Len(matches) - curr + 1
      BY <2>1, <3>1, FS_Interval
    <3>3. curr + Cardinality(page) - 1 = Len(matches)
      BY <2>1, <3>2
    <3>4. Len(matches) \in curr .. Len(matches) /\ curr \in Nat
      BY <2>1
    <3>5. NextOf(matches, curr) \notin (curr + 1) .. Len(matches)
      BY <2>1, <2>3, <3>4 DEF NULL
    <3>6. \A k \in curr .. Len(matches) : Extent(matches, curr, k) <= room
      BY <2>1, <3>5, NextLemma
    <3>7. Extent(matches, curr, Len(matches)) <= room
      BY <3>4, <3>6
    <3> QED BY <2>2, <2>3, <3>3, <3>7
  <2>4. CASE next # NULL
    <3>1. /\ next \in (curr + 1) .. Len(matches) /\ Extent(matches, curr, next) > room
          /\ \A k \in curr .. (next - 1) : Extent(matches, curr, k) <= room
      BY <2>1, <2>4, NextLemma
    <3>2. page = curr .. (next - 1)
      BY <2>1, <2>4 DEF PageFrom
    <3>3. Cardinality(page) = next - 1 - curr + 1
      BY <2>1, <3>1, <3>2, FS_Interval
    <3>4. curr \in Nat /\ next \in Nat /\ curr < next
      BY <2>1, <3>1
    <3>5. curr + Cardinality(page) - 1 = next - 1
      BY <3>3, <3>4
    <3>6. Extent(matches, curr, next - 1) <= room
      BY <3>1, <3>4
    <3> QED BY <2>2, <3>1, <3>5, <3>6
  <2> QED BY <2>3, <2>4
<1> QED BY <1>1, PagesAlways, PTL

-----------------------------------------------------------------------------
(***************************************************************************)
(* What dmenu offers.  match() and fuzzymatch() compute the list of        *)
(* matches in one go; a menu is right if the list is that of the line as   *)
(* it now is, whichever key, click or paste changed it.  MatchedInv says   *)
(* so.  The rest is about the two functions: the greedy scan of            *)
(* fuzzymatch() finds the bytes of the line if any order of them exists    *)
(* (GreedyLemma), and a line typed in full heads the list of match().      *)
(***************************************************************************)

-----------------------------------------------------------------------------
(* The greedy scan *)

\* Each byte is looked for after the place of the one before it.
LEMMA ScanLemma ==
  ASSUME NEW t \in Texts, NEW s \in Texts
  PROVE  /\ Scan(t, s) \in [0 .. Len(t) -> 0 .. (Len(s) + 1)]
         /\ Scan(t, s)[0] = 0
         /\ \A k \in 1 .. Len(t) :
               /\ \/ Scan(t, s)[k] = Len(s) + 1
                  \/ /\ Scan(t, s)[k] \in (Scan(t, s)[k - 1] + 1) .. Len(s)
                     /\ s[Scan(t, s)[k]] = t[k]
               /\ \A i \in (Scan(t, s)[k - 1] + 1) .. Len(s) :
                     s[i] = t[k] => Scan(t, s)[k] <= i
<1> DEFINE n == Len(t)
           m == Len(s)
           At(k, last) == {i \in (last + 1) .. m : s[i] = t[k]} \cup {m + 1}
<1>1. n \in Nat /\ m \in Nat
  BY DEF Texts
<1> HIDE DEF n, m
<1>2. ASSUME NEW k \in 1 .. n, NEW last \in 0 .. (m + 1)
      PROVE  /\ Min(At(k, last)) \in 0 .. (m + 1)
             /\ \/ Min(At(k, last)) = m + 1
                \/ /\ Min(At(k, last)) \in (last + 1) .. m
                   /\ s[Min(At(k, last))] = t[k]
             /\ \A i \in (last + 1) .. m : s[i] = t[k] => Min(At(k, last)) <= i
  <2>1. At(k, last) \in SUBSET Nat /\ At(k, last) # {}
    BY <1>1
  <2>2. Min(At(k, last)) \in At(k, last) /\ \A y \in At(k, last) : Min(At(k, last)) <= y
    BY <2>1, MinLemma
  <2> DEFINE x == Min(At(k, last))
  <2> HIDE DEF x
  <2>3. x \in At(k, last) /\ \A y \in At(k, last) : x <= y
    BY <2>2 DEF x
  <2>4. /\ x \in 0 .. (m + 1)
        /\ x = m + 1 \/ (x \in (last + 1) .. m /\ s[x] = t[k])
        /\ \A i \in (last + 1) .. m : s[i] = t[k] => x <= i
    BY <1>1, <2>3
  <2> QED BY <2>4 DEF x
<1> DEFINE h == [p \in (1 .. n) \X (0 .. (m + 1)) |-> Min(At(p[1], p[2]))]
<1>3. h \in [(1 .. n) \X (0 .. (m + 1)) -> 0 .. (m + 1)]
  BY <1>2
<1>4. \A k \in 1 .. n, last \in 0 .. (m + 1) : h[<<k, last>>] = Min(At(k, last))
  OBVIOUS
<1> HIDE DEF h, At
<1>5. 0 \in 0 .. (m + 1)
  BY <1>1
<1> DEFINE S == 0 .. (m + 1)
<1>6. \E f : Rec(n, S, 0, h, f)
  <2>1. 0 \in S /\ h \in [(1 .. n) \X S -> S]
    BY <1>3, <1>5
  <2> HIDE DEF S
  <2> QED BY <1>1, <2>1, Recursion
<1>14. PICK f \in [0 .. n -> 0 .. (m + 1)] :
          f[0] = 0 /\ \A k \in 1 .. n : f[k] = h[<<k, f[k - 1]>>]
  BY <1>6 DEF Rec
<1> DEFINE Scanned(e) == [k \in 0 .. n |-> IF k = 0 THEN 0 ELSE Min(At(k, e[k - 1]))]
<1>7. f = Scanned(f)
  <2>1. ASSUME NEW k \in 0 .. n PROVE f[k] = Scanned(f)[k]
    <3>1. CASE k = 0
      BY <1>14, <3>1
    <3>2. CASE k # 0
      <4>1. k \in 1 .. n /\ k - 1 \in 0 .. n
        BY <1>1, <3>2
      <4>2. f[k - 1] \in 0 .. (m + 1)
        BY <4>1
      <4> QED BY <1>4, <1>14, <3>2, <4>1, <4>2
    <3> QED BY <3>1, <3>2
  <2>2. Scanned(f) = [k \in 0 .. n |-> Scanned(f)[k]] /\ f = [k \in 0 .. n |-> f[k]]
    OBVIOUS
  <2> HIDE DEF Scanned
  <2> QED BY <2>1, <2>2
<1>8. Scan(t, s) = CHOOSE e : e = Scanned(e)
  BY DEF Scan, n, m, At
<1> DEFINE F == Scan(t, s)
<1>9. F = Scanned(F)
  <2> HIDE DEF Scanned
  <2> QED BY <1>7, <1>8
<1> HIDE DEF F
<1>10. F[0] = 0 /\ \A k \in 1 .. n : F[k] = Min(At(k, F[k - 1]))
  BY <1>1, <1>9
<1> DEFINE T == {k \in 0 .. n : F[k] \in 0 .. (m + 1)}
<1>11. \A k \in 0 .. n : k \in T
  <2>1. 0 \in T
    BY <1>1, <1>10
  <2>2. ASSUME NEW k \in 0 .. (n - 1), k \in T PROVE k + 1 \in T
    <3>1. k + 1 \in 1 .. n /\ k + 1 - 1 = k /\ k + 1 \in 0 .. n
      BY <1>1
    <3> QED BY <1>2, <1>10, <2>2, <3>1
  <2> HIDE DEF T
  <2> QED BY <1>1, <2>1, <2>2, UpTo
<1>12. F \in [0 .. n -> 0 .. (m + 1)]
  <2>1. F = [k \in 0 .. n |-> F[k]]
    BY <1>9
  <2> QED BY <1>11, <2>1
<1>13. ASSUME NEW k \in 1 .. n
       PROVE  /\ F[k] = m + 1 \/ (F[k] \in (F[k - 1] + 1) .. m /\ s[F[k]] = t[k])
              /\ \A i \in (F[k - 1] + 1) .. m : s[i] = t[k] => F[k] <= i
  <2>1. k - 1 \in 0 .. n
    BY <1>1
  <2>2. F[k - 1] \in 0 .. (m + 1)
    BY <1>12, <2>1
  <2> QED BY <1>2, <1>10, <2>2
<1> QED BY <1>10, <1>12, <1>13 DEF F, n, m
\* g picks the bytes of t from s, in their order.
Picks(g, t, s) ==
  /\ g \in [1 .. Len(t) -> 1 .. Len(s)]
  /\ \A j, k \in 1 .. Len(t) : j < k => g[j] < g[k]
  /\ \A k \in 1 .. Len(t) : s[g[k]] = t[k]

\* The greedy scan finds the last byte of the text if all can be picked.
LEMMA GreedyLemma ==
  ASSUME NEW t \in Texts, NEW s \in Texts
  PROVE  Scan(t, s)[Len(t)] <= Len(s) <=> \E g : Picks(g, t, s)
<1> DEFINE n == Len(t)
           m == Len(s)
           F == Scan(t, s)
<1>1. n \in Nat /\ m \in Nat
  BY DEF Texts
<1>2. /\ F \in [0 .. n -> 0 .. (m + 1)] /\ F[0] = 0
      /\ \A k \in 1 .. n :
            /\ F[k] = m + 1 \/ (F[k] \in (F[k - 1] + 1) .. m /\ s[F[k]] = t[k])
            /\ \A i \in (F[k - 1] + 1) .. m : s[i] = t[k] => F[k] <= i
  BY ScanLemma
<1> HIDE DEF n, m, F
<1>3. ASSUME NEW g, Picks(g, t, s)
      PROVE  F[n] <= m
  <2> DEFINE T == {k \in 0 .. n : F[k] <= m /\ (k = 0 \/ F[k] <= g[k])}
  <2>1. /\ g \in [1 .. n -> 1 .. m]
        /\ \A j, k \in 1 .. n : j < k => g[j] < g[k]
        /\ \A k \in 1 .. n : s[g[k]] = t[k]
    BY <1>3 DEF Picks, n, m
  <2>2. 0 \in T
    BY <1>1, <1>2
  <2>3. ASSUME NEW k \in 0 .. (n - 1), k \in T PROVE k + 1 \in T
    <3>1. k + 1 \in 1 .. n /\ k + 1 - 1 = k /\ k \in 0 .. n /\ k < k + 1 /\ k + 1 \in 0 .. n
      BY <1>1
    <3>2. F[k] \in 0 .. m /\ g[k + 1] \in 1 .. m /\ F[k + 1] \in 0 .. (m + 1)
      BY <1>1, <1>2, <2>1, <2>3, <3>1
    <3>3. F[k] < g[k + 1]
      <4>1. CASE k = 0
        BY <1>2, <3>2, <4>1
      <4>2. CASE k # 0
        <5>1. k \in 1 .. n /\ F[k] <= g[k]
          BY <2>3, <3>1, <4>2
        <5>2. g[k] \in 1 .. m /\ g[k] < g[k + 1]
          BY <2>1, <3>1, <5>1
        <5> QED BY <3>2, <5>1, <5>2
      <4> QED BY <4>1, <4>2
    <3>4. g[k + 1] \in (F[k] + 1) .. m
      BY <1>1, <3>2, <3>3
    <3>5. F[k + 1] <= g[k + 1]
      BY <1>2, <2>1, <3>1, <3>4
    <3>6. F[k + 1] <= m
      BY <1>1, <3>2, <3>5
    <3> QED BY <3>1, <3>5, <3>6
  <2>4. \A k \in 0 .. n : k \in T
    <3> HIDE DEF T
    <3> QED BY <1>1, <2>2, <2>3, UpTo
  <2> QED BY <1>1, <2>4
<1>4. ASSUME F[n] <= m
      PROVE  \E g : Picks(g, t, s)
  <2>1. ASSUME NEW k \in 1 .. n, F[k] <= m
        PROVE  F[k - 1] < F[k] /\ F[k - 1] <= m /\ s[F[k]] = t[k] /\ F[k] \in 1 .. m
    <3>1. F[k - 1] \in 0 .. (m + 1) /\ F[k] \in 0 .. (m + 1) /\ F[k] # m + 1
      BY <1>1, <1>2, <2>1
    <3>2. F[k] \in (F[k - 1] + 1) .. m /\ s[F[k]] = t[k]
      BY <1>2, <3>1
    <3> QED BY <1>1, <3>1, <3>2
  <2> DEFINE T == {d \in 0 .. n : F[n - d] <= m}
  <2>2. 0 \in T
    BY <1>1, <1>4
  <2>3. ASSUME NEW d \in 0 .. (n - 1), d \in T PROVE d + 1 \in T
    <3>1. n - d \in 1 .. n /\ n - (d + 1) = (n - d) - 1 /\ d + 1 \in 0 .. n
      BY <1>1
    <3> QED BY <2>1, <2>3, <3>1
  <2>4. \A d \in 0 .. n : d \in T
    <3> HIDE DEF T
    <3> QED BY <1>1, <2>2, <2>3, UpTo
  <2>5. \A k \in 0 .. n : F[k] <= m
    <3>1. ASSUME NEW k \in 0 .. n PROVE F[k] <= m
      <4>1. n - k \in 0 .. n /\ n - (n - k) = k
        BY <1>1
      <4> QED BY <2>4, <4>1
    <3> QED BY <3>1
  <2> DEFINE U == {k \in 0 .. n : \A j \in 0 .. n : j < k => F[j] < F[k]}
  <2>6. 0 \in U
    BY <1>1
  <2>7. ASSUME NEW k \in 0 .. (n - 1), k \in U PROVE k + 1 \in U
    <3>1. k + 1 \in 1 .. n /\ k + 1 - 1 = k /\ k \in 0 .. n /\ k + 1 \in 0 .. n
      BY <1>1
    <3>2. F[k] < F[k + 1]
      BY <2>1, <2>5, <3>1
    <3>3. ASSUME NEW j \in 0 .. n, j < k + 1 PROVE F[j] < F[k + 1]
      <4>1. j = k \/ j < k
        BY <3>1, <3>3
      <4>2. j < k => F[j] < F[k]
        BY <2>7
      <4>3. {F[j], F[k], F[k + 1]} \subseteq Nat
        BY <1>1, <1>2, <3>1
      <4> QED BY <3>2, <4>1, <4>2, <4>3
    <3> QED BY <3>1, <3>3
  <2>8. \A k \in 0 .. n : k \in U
    <3> HIDE DEF U
    <3> QED BY <1>1, <2>6, <2>7, UpTo
  <2> DEFINE g == [k \in 1 .. n |-> F[k]]
  <2>9. g \in [1 .. n -> 1 .. m] /\ \A k \in 1 .. n : s[g[k]] = t[k]
    BY <1>1, <2>1, <2>5
  <2>10. \A j, k \in 1 .. n : j < k => g[j] < g[k]
    BY <1>1, <2>8
  <2>11. Picks(g, t, s)
    <3> HIDE DEF g
    <3> QED BY <2>9, <2>10 DEF Picks, n, m
  <2> QED BY <2>11
<1> QED BY <1>3, <1>4 DEF F, n, m

\* What is picked from what is picked from s is picked from s.
LEMMA PicksTrans ==
  ASSUME NEW t \in Texts, NEW u \in Texts, NEW s \in Texts,
         NEW g, Picks(g, t, u), NEW h, Picks(h, u, s)
  PROVE  \E f : Picks(f, t, s)
<1> DEFINE f == [k \in 1 .. Len(t) |-> h[g[k]]]
<1>1. Picks(f, t, s)
  BY DEF Picks
<1> QED BY <1>1

-----------------------------------------------------------------------------
(* Counting *)

\* The members of a finite set of numbers can be numbered in their order.
LEMMA RankLemma ==
  ASSUME NEW m \in Nat, NEW D \in SUBSET (1 .. m)
  PROVE  /\ Cardinality(D) \in Nat
         /\ \A i \in D : Cardinality({j \in D : j <= i}) \in 1 .. Cardinality(D)
         /\ \A i, k \in D : i < k => Cardinality({j \in D : j <= i}) < Cardinality({j \in D : j <= k})
         /\ \A k \in 1 .. Cardinality(D) : \E i \in D : Cardinality({j \in D : j <= i}) = k
<1> DEFINE r(i) == Cardinality({j \in D : j <= i})
           n == Cardinality(D)
<1>1. IsFiniteSet(D) /\ n \in Nat
  <2>1. IsFiniteSet(1 .. m)
    BY FS_Interval
  <2>2. IsFiniteSet(D)
    BY <2>1, FS_Subset
  <2> QED BY <2>2, FS_CardinalityType
<1>2. ASSUME NEW i \in D PROVE r(i) \in 1 .. n /\ IsFiniteSet({j \in D : j <= i})
  <2>1. {j \in D : j <= i} \subseteq D /\ i \in {j \in D : j <= i}
    OBVIOUS
  <2>2. IsFiniteSet({j \in D : j <= i}) /\ r(i) <= n
    BY <1>1, <2>1, FS_Subset
  <2>3. r(i) \in Nat /\ r(i) # 0
    BY <2>1, <2>2, FS_CardinalityType, FS_EmptySet
  <2> QED BY <1>1, <2>2, <2>3
<1>3. ASSUME NEW i \in D, NEW k \in D, i < k PROVE r(i) < r(k)
  <2>1. {j \in D : j <= i} \subseteq {j \in D : j <= k} /\ {j \in D : j <= i} # {j \in D : j <= k}
    <3>1. i \in Nat /\ k \in Nat /\ \A j \in D : j \in Nat
      OBVIOUS
    <3>2. k \in {j \in D : j <= k} /\ k \notin {j \in D : j <= i}
      BY <1>3, <3>1
    <3>3. \A j \in D : j <= i => j <= k
      BY <1>3, <3>1
    <3>4. {j \in D : j <= i} \subseteq {j \in D : j <= k}
      BY <3>3
    <3> QED BY <3>2, <3>4
  <2>2. r(i) <= r(k) /\ r(i) # r(k)
    BY <1>2, <2>1, FS_Subset
  <2> QED BY <1>2, <2>2
<1> DEFINE f == [i \in D |-> r(i)]
<1>4. f \in [D -> 1 .. n]
  BY <1>2
<1>5. \A i \in D : f[i] = r(i)
  OBVIOUS
<1> HIDE DEF f, r
<1>6. f \in Injection(D, 1 .. n)
  <2>1. ASSUME NEW i \in D, NEW k \in D, f[i] = f[k] PROVE i = k
    <3>1. i \in Nat /\ k \in Nat /\ f[i] \in Nat
      BY <1>4
    <3>2. ~(i < k) /\ ~(k < i)
      BY <1>3, <1>5, <2>1, <3>1
    <3> QED BY <3>1, <3>2
  <2> QED BY <1>4, <2>1 DEF Injection, IsInjective
<1>7. IsFiniteSet(1 .. n) /\ Cardinality(1 .. n) = n
  BY <1>1, FS_Interval
<1>8. f \in Surjection(D, 1 .. n)
  BY <1>6, <1>7, FS_Injection
<1>9. \A k \in 1 .. n : \E i \in D : r(i) = k
  BY <1>5, <1>8 DEF Surjection
<1> QED BY <1>1, <1>2, <1>3, <1>9 DEF r

\* A list that holds as many different members as the set has holds them all.
LEMMA PermLemma ==
  ASSUME NEW S, IsFiniteSet(S), NEW s \in SetToSeqs(S)
  PROVE  ToSet(s) = S /\ DOMAIN s = 1 .. Cardinality(S) /\ s \in Seq(S) /\ Len(s) = Cardinality(S)
<1> DEFINE n == Cardinality(S)
<1>1. n \in Nat /\ IsFiniteSet(1 .. n) /\ Cardinality(1 .. n) = n
  BY FS_CardinalityType, FS_Interval
<1>2. s \in [1 .. n -> S] /\ \A i, j \in 1 .. n : i # j => s[i] # s[j]
  BY DEF SetToSeqs
<1>3. s \in Injection(1 .. n, S)
  BY <1>2 DEF Injection, IsInjective
<1>4. s \in Surjection(1 .. n, S)
  BY <1>1, <1>3, FS_Injection
<1>5. ToSet(s) = S
  BY <1>2, <1>4 DEF ToSet, Surjection
<1> QED BY <1>1, <1>2, <1>5

\* The bytes of a text are scattered over another in their order exactly if
\* they can be picked from it.
LEMMA ScatteredLemma ==
  ASSUME NEW t \in Texts, NEW s \in Texts
  PROVE  Scattered(t, s) <=> \E g : Picks(g, t, s)
<1> DEFINE n == Len(t)
           m == Len(s)
<1>1. n \in Nat /\ m \in Nat
  BY DEF Texts
<1> HIDE DEF n, m
<1>2. ASSUME NEW D \in SUBSET (1 .. m), Cardinality(D) = n,
             \A i \in D : s[i] = t[Cardinality({j \in D : j <= i})]
      PROVE  \E g : Picks(g, t, s)
  <2> DEFINE r(i) == Cardinality({j \in D : j <= i})
             g == [k \in 1 .. n |-> CHOOSE i \in D : r(i) = k]
  <2>1. /\ \A i \in D : r(i) \in 1 .. n
        /\ \A i, k \in D : i < k => r(i) < r(k)
        /\ \A k \in 1 .. n : \E i \in D : r(i) = k
    BY <1>1, <1>2, RankLemma
  <2>2. \A i \in D : s[i] = t[r(i)]
    BY <1>2
  <2> HIDE DEF r
  <2>3. \A k \in 1 .. n : g[k] \in D /\ r(g[k]) = k
    BY <2>1
  <2>4. g \in [1 .. n -> 1 .. m]
    BY <2>3
  <2> HIDE DEF g
  <2>5. \A k \in 1 .. n : s[g[k]] = t[k]
    BY <2>2, <2>3
  <2>6. ASSUME NEW j \in 1 .. n, NEW k \in 1 .. n, j < k PROVE g[j] < g[k]
    <3>1. g[j] \in D /\ g[k] \in D /\ r(g[j]) = j /\ r(g[k]) = k
      BY <2>3
    <3>2. g[j] \in Nat /\ g[k] \in Nat /\ g[j] # g[k]
      BY <1>1, <2>4, <2>6, <3>1
    <3>3. g[k] < g[j] => k < j
      BY <2>1, <3>1
    <3> QED BY <1>1, <2>6, <3>2, <3>3
  <2>7. Picks(g, t, s)
    BY <2>4, <2>5, <2>6 DEF Picks, n, m
  <2> QED BY <2>7
<1>3. ASSUME NEW g, Picks(g, t, s)
      PROVE  Scattered(t, s)
  <2>1. /\ g \in [1 .. n -> 1 .. m]
        /\ \A j, k \in 1 .. n : j < k => g[j] < g[k]
        /\ \A k \in 1 .. n : s[g[k]] = t[k]
    BY <1>3 DEF Picks, n, m
  <2>2. ASSUME NEW k \in 0 .. n
        PROVE  Cardinality({g[j] : j \in 1 .. k}) = k
    <3> DEFINE R == {g[j] : j \in 1 .. k}
               h == [j \in 1 .. k |-> g[j]]
    <3>1. k \in Nat /\ 1 .. k \subseteq 1 .. n /\ IsFiniteSet(1 .. k) /\ Cardinality(1 .. k) = k
      BY <1>1, FS_Interval
    <3>2. \A i, j \in 1 .. k : g[i] = g[j] => i = j
      <4>1. ASSUME NEW i \in 1 .. k, NEW j \in 1 .. k, g[i] = g[j] PROVE i = j
        <5>1. i \in 1 .. n /\ j \in 1 .. n /\ i \in Nat /\ j \in Nat /\ g[i] \in 1 .. m /\ g[j] \in 1 .. m
          BY <2>1, <3>1
        <5>2. ~(i < j) /\ ~(j < i)
          BY <1>1, <2>1, <4>1, <5>1
        <5> QED BY <5>1, <5>2
      <4> QED BY <4>1
    <3>3. h \in [1 .. k -> R] /\ \A j \in 1 .. k : h[j] = g[j]
      OBVIOUS
    <3> HIDE DEF h
    <3>4. h \in Bijection(1 .. k, R)
      BY <3>2, <3>3 DEF Bijection, Injection, Surjection, IsInjective
    <3>5. ExistsBijection(1 .. k, R)
      BY <3>4 DEF ExistsBijection
    <3> QED BY <3>1, <3>5, FS_Bijection
  <2> DEFINE D == {g[j] : j \in 1 .. n}
  <2>3. D \in SUBSET (1 .. m) /\ Cardinality(D) = n
    BY <1>1, <2>1, <2>2
  <2>4. ASSUME NEW i \in D PROVE s[i] = t[Cardinality({j \in D : j <= i})]
    <3>1. PICK k \in 1 .. n : i = g[k]
      OBVIOUS
    <3>2. \A j \in 1 .. n : g[j] <= i <=> j <= k
      <4>1. ASSUME NEW j \in 1 .. n PROVE g[j] <= g[k] <=> j <= k
        <5>1. g[j] \in 1 .. m /\ g[k] \in 1 .. m /\ j \in Nat /\ k \in Nat
          BY <2>1
        <5>2. j < k \/ j = k \/ k < j
          BY <5>1
        <5>3. /\ j < k => g[j] < g[k]
              /\ k < j => g[k] < g[j]
          BY <2>1
        <5>4. g[j] \in Nat /\ g[k] \in Nat
          BY <1>1, <5>1
        <5> QED BY <5>1, <5>2, <5>3, <5>4
      <4> QED BY <3>1, <4>1
    <3>3. {j \in D : j <= i} = {g[j] : j \in 1 .. k}
      <4>1. \A j \in 1 .. k : j \in 1 .. n /\ j <= k
        BY <1>1
      <4>2. \A j \in 1 .. n : j <= k => j \in 1 .. k
        OBVIOUS
      <4>3. ASSUME NEW x \in D, x <= i PROVE x \in {g[j] : j \in 1 .. k}
        <5>1. PICK j \in 1 .. n : x = g[j]
          OBVIOUS
        <5> QED BY <3>2, <4>2, <4>3, <5>1
      <4>4. ASSUME NEW j \in 1 .. k PROVE g[j] \in D /\ g[j] <= i
        BY <3>2, <4>1
      <4> QED BY <4>3, <4>4
    <3>4. k \in 0 .. n
      BY <1>1
    <3>5. Cardinality({j \in D : j <= i}) = k
      BY <2>2, <3>3, <3>4
    <3> QED BY <2>1, <3>1, <3>5
  <2> QED BY <2>3, <2>4 DEF Scattered, n, m
<1> QED BY <1>2, <1>3 DEF Scattered, n, m

-----------------------------------------------------------------------------
(* match() and fuzzymatch() *)

\* The items that a text calls for.
Wanted(fuzzy, its, t) ==
  {i \in 1 .. Len(its) : IF fuzzy THEN Scattered(t, its[i])
                         ELSE \A tok \in Tokens(t) : tok \in SubSeqs(its[i])}

\* The list names the items that the text calls for.
LEMMA MatchLemma ==
  ASSUME NEW fuzzy \in BOOLEAN, NEW its \in Seq(Texts), NEW t \in Texts,
         NEW ms \in Match(fuzzy, its, t)
  PROVE  ToSet(ms) = Wanted(fuzzy, its, t)
<1> DEFINE n == Len(its)
           all == [i \in 1 .. n |-> i]
<1>1. n \in Nat /\ IsFiniteSet(1 .. n) /\ \A i \in 1 .. n : its[i] \in Texts
  BY FS_Interval
<1>2. ToSet(all) = 1 .. n
  BY <1>1 DEF ToSet
<1> HIDE DEF n
<1>3. CASE fuzzy
  <2> DEFINE found == {i \in 1 .. n : Scan(t, its[i])[Len(t)] <= Len(its[i])}
  <2>1. ms \in FuzzyMatches(its, t)
    BY <1>3 DEF Match
  <2>2. (t = <<>> /\ ms = all) \/ ms \in SetToSeqs(found)
    BY <2>1 DEF FuzzyMatches, n
  <2>3. found = {i \in 1 .. n : Scattered(t, its[i])}
    BY <1>1, GreedyLemma, ScatteredLemma
  <2>4. found = Wanted(fuzzy, its, t)
    BY <1>3, <2>3 DEF Wanted, n
  <2>5. CASE t = <<>> /\ ms = all
    <3>1. ASSUME NEW s \in Texts PROVE Scattered(t, s)
      <4>1. Picks(<<>>, t, s)
        BY <2>5 DEF Picks
      <4> QED BY <3>1, <4>1, ScatteredLemma
    <3>2. found = 1 .. n
      BY <1>1, <2>3, <3>1
    <3> QED BY <1>2, <2>4, <2>5, <3>2
  <2>6. CASE ms \in SetToSeqs(found)
    <3>1. IsFiniteSet(found)
      BY <1>1, FS_Subset
    <3> HIDE DEF found
    <3> QED BY <2>4, <2>6, <3>1, PermLemma
  <2> QED BY <2>2, <2>5, <2>6
<1>4. CASE ~fuzzy
  <2> DEFINE found == Hits(its, t)
  <2>1. ms \in TokenMatches(its, t)
    BY <1>4 DEF Match
  <2>2. (Tokens(t) = {} /\ ms = all) \/ ms \in SetToSeqs(found)
    BY <2>1 DEF TokenMatches, n
  <2>3. found = Wanted(fuzzy, its, t) /\ found \in SUBSET (1 .. n)
    BY <1>4 DEF Wanted, Hits, n
  <2>4. Tokens(t) = {} => found = 1 .. n
    BY DEF Hits, n
  <2> HIDE DEF found
  <2>5. IsFiniteSet(found)
    BY <1>1, <2>3, FS_Subset
  <2> QED BY <1>2, <2>2, <2>3, <2>4, <2>5, PermLemma
<1> QED BY <1>3, <1>4

\* A token is a part of the text.
LEMMA TokenLemma ==
  ASSUME NEW t \in Texts, NEW tok \in Tokens(t)
  PROVE  \E a, b \in 1 .. Len(t) :
            /\ a <= b /\ tok = SubSeq(t, a, b)
            /\ \A k \in a .. b : t[k] # Separator
            /\ a = 1 \/ t[a - 1] = Separator
            /\ b = Len(t) \/ t[b + 1] = Separator
<1>1. PICK ij \in TokenEnds(t) : tok = SubSeq(t, ij[1], ij[2])
  BY DEF Tokens
<1> QED BY <1>1 DEF TokenEnds

LEMMA TokenInText ==
  ASSUME NEW t \in Texts
  PROVE  Tokens(t) \subseteq SubSeqs(t)
<1> SUFFICES ASSUME NEW tok \in Tokens(t) PROVE tok \in SubSeqs(t)
  OBVIOUS
<1>1. PICK a \in 1 .. Len(t), b \in 1 .. Len(t) : tok = SubSeq(t, a, b)
  BY TokenLemma
<1>2. Len(t) \in Nat
  BY DEF Texts
<1> DEFINE i == a - 1
<1>3. i \in 0 .. Len(t) /\ b \in 0 .. Len(t) /\ i + 1 = a
  BY <1>2
<1> HIDE DEF i
<1>4. tok = SubSeq(t, i + 1, b)
  BY <1>1, <1>3
<1> QED BY <1>3, <1>4 DEF SubSeqs

\* An item that is the text heads the list of match().
LEMMA ExactLemma ==
  ASSUME NEW its \in Seq(Texts), NEW t \in Texts, NEW i \in 1 .. Len(its), its[i] = t,
         NEW ms \in TokenMatches(its, t)
  PROVE  ms # <<>> /\ (Tokens(t) # {} => its[ms[1]] = t)
<1> DEFINE list(x) == IF its[x] = t THEN 1
                      ELSE IF IsPrefix(FirstToken(t), its[x]) THEN 2 ELSE 3
           before(x, y) == list(x) < list(y) \/ (list(x) = list(y) /\ x < y)
           found == Hits(its, t)
<1>1. CASE Tokens(t) = {}
  <2>1. ms = [x \in 1 .. Len(its) |-> x]
    BY <1>1 DEF TokenMatches
  <2> QED BY <1>1, <2>1
<1>2. CASE Tokens(t) # {}
  <2>1. ms \in SetToSeqs(found) /\ \A x, y \in DOMAIN ms : x < y => before(ms[x], ms[y])
    BY <1>2 DEF TokenMatches
  <2>2. i \in found
    BY TokenInText DEF Hits
  <2>3. IsFiniteSet(found)
    <3>1. IsFiniteSet(1 .. Len(its))
      BY FS_Interval
    <3> QED BY <3>1, FS_Subset DEF Hits
  <2> HIDE DEF found, before
  <2>4. /\ ToSet(ms) = found /\ DOMAIN ms = 1 .. Cardinality(found)
        /\ ms \in Seq(found) /\ Cardinality(found) \in Nat
    BY <2>1, <2>3, PermLemma, FS_CardinalityType
  <2>5. PICK k \in 1 .. Cardinality(found) : ms[k] = i
    BY <2>2, <2>4 DEF ToSet
  <2>6. 1 \in 1 .. Cardinality(found) /\ k \in Nat /\ (k = 1 \/ 1 < k)
    BY <2>4
  <2>7. CASE k = 1
    BY <2>4, <2>5, <2>6, <2>7
  <2>8. CASE 1 < k
    <3>1. before(ms[1], i)
      BY <2>1, <2>4, <2>5, <2>6, <2>8
    <3>2. list(i) = 1
      OBVIOUS
    <3>3. its[ms[1]] = t
      BY <3>1, <3>2 DEF before
    <3> QED BY <2>4, <2>6, <3>3
  <2> QED BY <2>6, <2>7, <2>8
<1> QED BY <1>1, <1>2

\* Some token of u is part of no text that tok is not part of.
Grown(tok, u) ==
  \E grown \in Tokens(u) : \A s \in Texts : grown \in SubSeqs(s) => tok \in SubSeqs(s)

\* A token may grow when the text does, but what it was stays a part of every
\* text that contains it.
LEMMA GrownLemma ==
  ASSUME NEW t \in Texts, NEW u \in Texts, NEW tok, tok \in Tokens(t), IsPrefix(t, u)
  PROVE  Grown(tok, u)
<1>1. PICK a \in 1 .. Len(t), b \in 1 .. Len(t) :
          /\ a <= b /\ tok = SubSeq(t, a, b)
          /\ \A k \in a .. b : t[k] # Separator
          /\ a = 1 \/ t[a - 1] = Separator
          /\ b = Len(t) \/ t[b + 1] = Separator
  BY TokenLemma
<1>2. Len(t) \in Nat /\ Len(u) \in Nat /\ Len(t) <= Len(u)
  BY DEF Texts, IsPrefix
<1>3. \A k \in 1 .. Len(t) : u[k] = t[k]
  <2>1. ASSUME NEW k \in 1 .. Len(t) PROVE u[k] = t[k]
    <3>1. SubSeq(t, 1, Len(t))[k] = SubSeq(u, 1, Len(t))[k]
      BY DEF IsPrefix
    <3>2. SubSeq(t, 1, Len(t))[k] = t[k] /\ SubSeq(u, 1, Len(t))[k] = u[k]
      BY <1>2 DEF Texts
    <3> QED BY <3>1, <3>2
  <2> QED BY <2>1
<1> DEFINE Run == {k \in a .. Len(u) : \A j \in a .. k : u[j] # Separator}
           c == Max(Run)
<1>4. b \in Run /\ Run \in SUBSET (0 .. Len(u))
  BY <1>1, <1>2, <1>3
<1>5. c \in Run /\ \A k \in Run : c >= k
  BY <1>2, <1>4, MaxLemma
<1> HIDE DEF c
<1>6. c \in a .. Len(u) /\ b <= c /\ \A j \in a .. c : u[j] # Separator
  BY <1>4, <1>5
<1>7. c = Len(u) \/ u[c + 1] = Separator
  <2> SUFFICES ASSUME c # Len(u), u[c + 1] # Separator PROVE FALSE
    OBVIOUS
  <2>1. c + 1 \in a .. Len(u) /\ \A j \in a .. (c + 1) : j \in a .. c \/ j = c + 1
    BY <1>2, <1>6
  <2>2. c + 1 \in Run
    BY <1>6, <2>1
  <2> QED BY <1>2, <1>5, <1>6, <2>2
<1>8. a = 1 \/ u[a - 1] = Separator
  <2>1. a # 1 => a - 1 \in 1 .. Len(t)
    BY <1>2
  <2> QED BY <1>1, <1>3, <2>1
<1>9. SubSeq(u, a, c) \in Tokens(u)
  <2>1. <<a, c>> \in TokenEnds(u)
    BY <1>2, <1>6, <1>7, <1>8 DEF TokenEnds
  <2>2. \A ij \in TokenEnds(u) : SubSeq(u, ij[1], ij[2]) \in Tokens(u)
    BY DEF Tokens
  <2> QED BY <2>1, <2>2
<1>10. ASSUME NEW s \in Texts, SubSeq(u, a, c) \in SubSeqs(s)
       PROVE  tok \in SubSeqs(s)
  <2>1. PICK i \in 0 .. Len(s), j \in 0 .. Len(s) : SubSeq(u, a, c) = SubSeq(s, i + 1, j)
    <3>1. ASSUME NEW r \in SubSeqs(s)
          PROVE  \E i \in 0 .. Len(s), j \in 0 .. Len(s) : r = SubSeq(s, i + 1, j)
      BY <3>1 DEF SubSeqs
    <3> QED BY <1>10, <3>1
  <2> DEFINE d == i + 1 + b - a
  <2>2. Len(s) \in Nat /\ s \in Seq(Byte) /\ u \in Seq(Byte) /\ t \in Seq(Byte)
    BY DEF Texts
  <2>3. Len(SubSeq(u, a, c)) = c - a + 1
    BY <1>2, <1>6, <2>2
  <2>4. j - i = c - a + 1
    BY <1>2, <1>6, <2>1, <2>2, <2>3
  <2>5. d \in 0 .. Len(s) /\ d <= j /\ d - i = b - a + 1
    BY <1>1, <1>2, <1>6, <2>2, <2>4
  <2>6. ASSUME NEW k \in 1 .. (b - a + 1) PROVE s[i + k] = t[a + k - 1]
    <3>1. /\ k \in 1 .. (c - a + 1) /\ a + k - 1 \in 1 .. Len(t) /\ a + k - 1 \in a .. c
          /\ i + k \in 1 .. Len(s)
      BY <1>1, <1>2, <1>6, <2>2, <2>4
    <3>2. SubSeq(u, a, c)[k] = u[a + k - 1]
      BY <1>2, <1>6, <2>2, <3>1
    <3>3. SubSeq(s, i + 1, j)[k] = s[i + k]
      <4>1. k \in 1 .. (j - i)
        BY <2>4, <3>1
      <4> QED BY <2>2, <4>1, SubSeqFacts
    <3> QED BY <1>3, <2>1, <3>1, <3>2, <3>3
  <2>7. tok = SubSeq(s, i + 1, d)
    <3>1. tok = [k \in 1 .. (b - a + 1) |-> t[a + k - 1]]
      BY <1>1, <1>2, <2>2
    <3>2. SubSeq(s, i + 1, d) = [k \in 1 .. (b - a + 1) |-> s[i + k]]
      BY <2>2, <2>5
    <3> QED BY <2>6, <3>1, <3>2
  <2> QED BY <2>5, <2>7 DEF SubSeqs
<1>11. \A s \in Texts : SubSeq(u, a, c) \in SubSeqs(s) => tok \in SubSeqs(s)
  BY <1>10
<1> QED BY <1>9, <1>11 DEF Grown

\* What a longer text calls for, a shorter one did.
LEMMA NarrowLemma ==
  ASSUME NEW fuzzy \in BOOLEAN, NEW its \in Seq(Texts), NEW t \in Texts, NEW u \in Texts,
         IF fuzzy THEN Scattered(t, u) ELSE IsPrefix(t, u)
  PROVE  Wanted(fuzzy, its, u) \subseteq Wanted(fuzzy, its, t)
<1> SUFFICES ASSUME NEW i \in Wanted(fuzzy, its, u) PROVE i \in Wanted(fuzzy, its, t)
  OBVIOUS
<1>1. i \in 1 .. Len(its) /\ its[i] \in Texts
  BY DEF Wanted
<1>2. CASE fuzzy
  <2>1. Scattered(u, its[i])
    BY <1>2 DEF Wanted
  <2>2. Scattered(t, its[i])
    BY <1>1, <1>2, <2>1, ScatteredLemma, PicksTrans
  <2> QED BY <1>1, <1>2, <2>2 DEF Wanted
<1>3. CASE ~fuzzy
  <2>1. \A tok \in Tokens(u) : tok \in SubSeqs(its[i])
    BY <1>3 DEF Wanted
  <2>2. \A tok \in Tokens(t) : tok \in SubSeqs(its[i])
    <3>1. IsPrefix(t, u)
      BY <1>3
    <3> SUFFICES ASSUME NEW tok \in Tokens(t) PROVE tok \in SubSeqs(its[i])
      OBVIOUS
    <3>2. Grown(tok, u)
      BY <3>1, GrownLemma
    <3> QED BY <1>1, <2>1, <3>2 DEF Grown
  <2> QED BY <1>1, <1>3, <2>2 DEF Wanted
<1> QED BY <1>2, <1>3

-----------------------------------------------------------------------------
(* While events are handled, the list is the one that match() leaves for the *)
(* line, and nothing but match() changes it.                                 *)

MatchedInv == proc = "run" => matches \in Match(opt.fuzzy, items, text)

\* The two ways in which a step keeps it.
LEMMA EditMatched ==
  ASSUME UNCHANGED <<opt, items>>, NEW t, NEW c, Edit(t, c)
  PROVE  MatchedInv'
<1>1. PICK ms \in Match(opt.fuzzy, items, t) : matches' = ms
  BY DEF Edit, DoMatch
<1>2. text' = t
  BY DEF Edit
<1> QED BY <1>1, <1>2 DEF MatchedInv

LEMMA SameMatched ==
  ASSUME MatchedInv, UNCHANGED <<opt, items, text, matches>>, proc' = "run" => proc = "run"
  PROVE  MatchedInv'
BY DEF MatchedInv

\* Every key that changes the line ends in match().
LEMMA KeysMatched ==
  ASSUME MatchedInv, proc = "run", keypress
  PROVE  MatchedInv'
<1> USE DEF Quiet, started
<1>1. ASSUME NEW t, NEW c, Edit(t, c), Quiet PROVE MatchedInv'
  BY <1>1, EditMatched
<1>2. ASSUME UNCHANGED <<text, matches>>, Quiet PROVE MatchedInv'
  BY <1>2, SameMatched
<1>3. ASSUME NEW s, Insert(s), Quiet PROVE MatchedInv'
  BY <1>1, <1>2, <1>3 DEF Insert, field, view
<1>4. ASSUME NEW c, DeleteTo(c), Quiet PROVE MatchedInv'
  BY <1>1, <1>4 DEF DeleteTo
<1>5. ASSUME NEW c, MoveCursor(c), Quiet PROVE MatchedInv'
  BY <1>2, <1>5 DEF MoveCursor, view
<1>6. ASSUME Ignored PROVE MatchedInv'
  BY <1>2, <1>6 DEF Ignored, field, view
<1>7. ASSUME Up \/ Down, Quiet PROVE MatchedInv'
  BY <1>2, <1>7 DEF Up, Down, Select, OpenPage, field, view
<1>8. CASE KeyText
  BY <1>3, <1>8 DEF KeyText
<1>9. CASE KeyUnbound
  BY <1>1, <1>2, <1>9 DEF KeyUnbound, field, view
<1>10. CASE KeyTab
  <2>1. CASE sel = NULL
    BY <1>6, <1>10, <2>1 DEF KeyTab
  <2>2. CASE sel # NULL
    <3>1. PICK i \in 1 .. Len(items) : LET t == ToMaxText(items[i]) IN Edit(t, Len(t))
      BY <1>10, <2>2 DEF KeyTab
    <3>2. Quiet
      BY <1>10, <2>2 DEF KeyTab
    <3> QED BY <1>1, <3>1, <3>2
  <2> QED BY <2>1, <2>2
<1>11. CASE KeyEscape \/ \E shift, ctrl \in BOOLEAN : KeyReturn(shift, ctrl)
  BY <1>11, SameMatched DEF KeyEscape, KeyReturn, Exit, field, view
<1>12. CASE KeyKillRight \/ KeyKillLeft \/ KeyKillWord
  <2>1. CASE KeyKillRight
    BY <1>1, <2>1 DEF KeyKillRight
  <2>2. CASE KeyKillLeft
    BY <1>4, <2>2 DEF KeyKillLeft
  <2>3. CASE KeyKillWord
    BY <1>4, <1>6, <2>3 DEF KeyKillWord
  <2> QED BY <1>12, <2>1, <2>2, <2>3
<1>13. CASE KeyDelete \/ KeyBackSpace
  <2>1. CASE KeyDelete
    BY <1>1, <1>6, <2>1 DEF KeyDelete
  <2>2. CASE KeyBackSpace
    BY <1>4, <1>6, <2>2 DEF KeyBackSpace
  <2> QED BY <1>13, <2>1, <2>2
<1>14. CASE KeyWordLeft \/ KeyWordRight
  BY <1>5, <1>14 DEF KeyWordLeft, KeyWordRight
<1>15. CASE KeyUp \/ KeyDown \/ KeyLeft \/ KeyRight
  BY <1>2, <1>5, <1>7, <1>15 DEF KeyUp, KeyDown, KeyLeft, KeyRight, field, view
<1>16. CASE KeyEnd \/ KeyHome
  BY <1>2, <1>5, <1>16 DEF KeyEnd, KeyHome, Select, OpenPage, field
<1>17. CASE ScrollDown \/ ScrollUp
  BY <1>2, <1>17 DEF ScrollDown, ScrollUp, Select, OpenPage, field
<1> QED BY <1>8, <1>9, <1>10, <1>11, <1>12, <1>13, <1>14, <1>15, <1>16, <1>17 DEF keypress

\* So does every other step of dmenu.
LEMMA StepMatched ==
  ASSUME MatchedInv, [Next]_vars
  PROVE  MatchedInv'
<1> USE DEF started, Quiet
<1>1. CASE readstdin
  BY <1>1 DEF readstdin, Doing, MatchedInv
<1>2. CASE grabkeyboard
  BY <1>2 DEF grabkeyboard, Doing, MatchedInv
<1>3. CASE setup
  <2>1. PICK ms \in Match(opt.fuzzy, items, text) : matches' = ms
    BY <1>3 DEF setup, DoMatch
  <2> QED BY <1>3, <2>1 DEF setup, field, MatchedInv
<1>4. CASE run
  <2>1. proc = "run"
    BY <1>4 DEF run
  <2>2. CASE keypress
    BY <2>1, <2>2, KeysMatched
  <2>3. CASE buttonpress
    <3>1. CASE KeyEscape
      BY <3>1, SameMatched DEF KeyEscape, Exit, field, view
    <3>2. ASSUME NEW z \in Positions, ClickInput(z) PROVE MatchedInv'
      BY <3>2, EditMatched DEF ClickInput, DeleteTo
    <3>3. ASSUME NEW z \in Positions, ClickArrow(z) PROVE MatchedInv'
      BY <2>1, <3>3, SameMatched DEF ClickArrow, ScrollUp, ScrollDown, Select, OpenPage, field
    <3>4. ASSUME NEW z \in Positions, NEW ctrl \in BOOLEAN, ClickItem(z, ctrl) PROVE MatchedInv'
      <4>1. UNCHANGED <<opt, items, text, matches>>
        BY <3>4 DEF ClickItem, Exit, Select, field, view
      <4> QED BY <2>1, <4>1, SameMatched
    <3> QED BY <2>3, <3>1, <3>2, <3>3, <3>4 DEF buttonpress
  <2>4. CASE paste
    BY <2>1, <2>4, EditMatched, SameMatched DEF paste, Insert, field, view
  <2>5. CASE focusin
    BY <2>1, <2>5, SameMatched DEF focusin, field, view
  <2>6. CASE destroynotify
    BY <2>6, SameMatched DEF destroynotify, KeyEscape, Exit, field, view
  <2> QED BY <1>4, <2>2, <2>3, <2>4, <2>5, <2>6 DEF run
<1>5. CASE UNCHANGED vars
  BY <1>5, SameMatched DEF vars, field, view
<1> QED BY <1>1, <1>2, <1>3, <1>4, <1>5 DEF Next

LEMMA OffersInv == Init => PagesInv /\ MatchedInv
BY PagesInit DEF Init, MatchedInv

LEMMA OffersStep == PagesInv /\ MatchedInv /\ [Next]_vars => (PagesInv /\ MatchedInv)'
BY PagesStep, StepMatched

LEMMA OffersAlways == Spec => [](PagesInv /\ MatchedInv)
BY OffersInv, OffersStep, PTL DEF Spec

LEMMA OffersFacts ==
  ASSUME PagesInv, MatchedInv, proc = "run"
  PROVE  /\ opt.fuzzy \in BOOLEAN /\ items \in Seq(Texts) /\ text \in Texts
         /\ matches \in Match(opt.fuzzy, items, text)
         /\ ToSet(matches) = Wanted(opt.fuzzy, items, text)
<1>1. opt.fuzzy \in BOOLEAN /\ items \in Seq(Texts) /\ text \in Texts
  BY SettingMenu DEF PagesInv, LineInv, Line
<1>2. matches \in Match(opt.fuzzy, items, text)
  BY DEF MatchedInv
<1> QED BY <1>1, <1>2, MatchLemma

\* The items on offer are those that the line calls for: with -f all that
\* contain its bytes in order, else all that contain each of its tokens.
THEOREM OffersAlwaysFollow == Spec => []OffersFollowText
<1>1. PagesInv /\ MatchedInv => OffersFollowText
  BY OffersFacts DEF OffersFollowText, Wanted
<1> QED BY <1>1, OffersAlways, PTL

\* A line that is an item puts such an item first.
THEOREM ExactAlwaysFirst == Spec => []ExactFirst
<1>1. PagesInv /\ MatchedInv => ExactFirst
  <2> SUFFICES ASSUME PagesInv, MatchedInv, proc = "run", ~opt.fuzzy,
                      NEW i \in 1 .. Len(items), items[i] = text
               PROVE  matches # <<>> /\ (Tokens(text) # {} => items[matches[1]] = text)
    BY DEF ExactFirst
  <2>1. items \in Seq(Texts) /\ text \in Texts /\ matches \in TokenMatches(items, text)
    BY OffersFacts DEF Match
  <2> QED BY <2>1, ExactLemma
<1> QED BY <1>1, OffersAlways, PTL

\* Typing narrows the offer (a property of steps): the line changes only while events are handled, and
\* items and options do not.
THEOREM EnteringAlwaysNarrows == Spec => EnteringNarrows
<1> DEFINE Typing == /\ proc = "run" /\ text' # text
                     /\ IF opt.fuzzy THEN Scattered(text, text') ELSE IsPrefix(text, text')
<1>1. ASSUME PagesInv, MatchedInv, PagesInv', MatchedInv', [Next]_vars, Typing
      PROVE  ToSet(matches') \subseteq ToSet(matches)
  <2>1. Next
    BY <1>1 DEF vars, field
  <2>2. run
    BY <1>1, <2>1 DEF Next, readstdin, grabkeyboard, setup, Doing
  <2>3. proc' = "run" /\ UNCHANGED <<opt, items>>
    <3> USE DEF Quiet, started
    <3>1. CASE keypress
      <4>1. CASE KeyEscape \/ \E shift, ctrl \in BOOLEAN : KeyReturn(shift, ctrl)
        BY <1>1, <4>1 DEF KeyEscape, KeyReturn, Exit, field
      <4>2. CASE Quiet
        BY <1>1, <4>2
      <4> QED BY <3>1, <4>1, <4>2
            DEF keypress, KeyText, KeyUnbound, KeyTab, KeyKillRight, KeyKillLeft, KeyKillWord,
                KeyDelete, KeyBackSpace, KeyWordLeft, KeyWordRight, KeyEnd, KeyHome, KeyUp,
                KeyDown, KeyLeft, KeyRight, ScrollDown, ScrollUp, Ignored
    <3>2. CASE buttonpress
      BY <1>1, <3>2 DEF buttonpress, KeyEscape, ClickInput, ClickArrow, ClickItem, ScrollUp,
                        ScrollDown, Exit, Select, field, view
    <3>3. CASE paste
      BY <1>1, <3>3 DEF paste
    <3>4. CASE focusin \/ destroynotify
      BY <1>1, <3>4 DEF focusin, destroynotify, KeyEscape, Exit, field
    <3> QED BY <2>2, <3>1, <3>2, <3>3, <3>4 DEF run
  <2>4. /\ opt.fuzzy \in BOOLEAN /\ items \in Seq(Texts) /\ text \in Texts
        /\ ToSet(matches) = Wanted(opt.fuzzy, items, text)
    BY <1>1, OffersFacts
  <2>5. text' \in Texts /\ matches' \in Match(opt.fuzzy, items, text')
    BY <1>1, <2>3 DEF PagesInv, LineInv, Line, MatchedInv
  <2>6. ToSet(matches') = Wanted(opt.fuzzy, items, text')
    BY <2>4, <2>5, MatchLemma
  <2> QED BY <1>1, <2>4, <2>5, <2>6, NarrowLemma
<1>2. PagesInv /\ MatchedInv /\ (PagesInv /\ MatchedInv)' /\ [Next]_vars
      => [Typing => ToSet(matches') \subseteq ToSet(matches)]_vars
  BY <1>1
<1>3. EnteringNarrows <=> [][Typing => ToSet(matches') \subseteq ToSet(matches)]_vars
  BY DEF EnteringNarrows
<1> QED BY <1>2, OffersAlways, PTL DEF Spec, EnteringNarrows
=============================================================================
