------------------------- MODULE DwmblocksTimerProofs -------------------------
(***************************************************************************)
(* What gcd() and the folds over the blocks return, for any number of      *)
(* blocks and any intervals.                                               *)
(*                                                                         *)
(* gcd is characterised by its divisors: the numbers that divide it are    *)
(* those that divide both arguments.  That determines it (Determined), and *)
(* the function so determined solves the recursion, so gcd does too.  The  *)
(* fold over the blocks is treated alike.                                  *)
(***************************************************************************)
EXTENDS DwmblocksTimer, FiniteSetTheorems, WellFoundedInduction, TLAPS

Positive == Nat \ {0}

Divides(d, n) == \E q \in Nat : n = d * q

\* g is divided by exactly the numbers that divide everything in A.
IsGcd(g, A) ==
  /\ g \in Nat
  /\ \A d \in Positive : Divides(d, g) <=> \A a \in A : Divides(d, a)

\* A set of numbers has a least element, which Min returns.
LEMMA Least ==
  ASSUME NEW T \in SUBSET Nat, T # {}
  PROVE  Min(T) \in T /\ \A y \in T : Min(T) <= y
<1> DEFINE R == OpToRel(<, Nat)
<1>1. IsWellFoundedOn(R, Nat)
  BY NatLessThanWellFounded
<1>2. \A x, y \in Nat : y < x => <<y, x>> \in R
  BY DEF OpToRel
<1> HIDE DEF R
<1>3. PICK x \in T : \A y \in T : ~ (<<y, x>> \in R)
  BY <1>1, WFMin
<1>4. \A y \in T : y \in Nat /\ x \in Nat /\ ~ (y < x)
  BY <1>2, <1>3
<1>5. \A y \in T : x <= y
  BY <1>4
<1> QED BY <1>5 DEF Min

\* Induction over the numbers, on a set.
LEMMA StrongInduction ==
  ASSUME NEW S, \A n \in Nat : (\A m \in 0 .. (n - 1) : m \in S) => n \in S
  PROVE  Nat \subseteq S
<1> DEFINE Bad == Nat \ S
           x == Min(Bad)
<1>1. SUFFICES ASSUME Bad # {} PROVE FALSE
  OBVIOUS
<1>2. x \in Bad /\ \A y \in Bad : x <= y
  <2>1. Bad \in SUBSET Nat
    OBVIOUS
  <2> HIDE DEF Bad
  <2> QED BY <1>1, <2>1, Least
<1> HIDE DEF x
<1>3. ASSUME NEW y \in 0 .. (x - 1), y \notin S PROVE FALSE
  <2>1. y \in Bad /\ x \in Nat /\ y \in Nat /\ y < x
    BY <1>2, <1>3
  <2> QED BY <1>2, <2>1
<1> QED BY <1>2, <1>3

-----------------------------------------------------------------------------
(* Division.                                                               *)

LEMMA DivMod ==
  ASSUME NEW a \in Nat, NEW b \in Positive
  PROVE  /\ a \div b \in Nat
         /\ a % b \in 0 .. (b - 1)
         /\ a = b * (a \div b) + (a % b)
<1>1. a \div b \in Nat
  BY DEF Positive
<1>2. a % b \in 0 .. (b - 1)
  BY DEF Positive
<1>3. a = b * (a \div b) + (a % b)
  BY DEF Positive
<1> QED BY <1>1, <1>2, <1>3

LEMMA ModUnique ==
  ASSUME NEW b \in Positive, NEW q \in Nat, NEW r \in 0 .. (b - 1)
  PROVE  (b * q + r) % b = r
  BY DEF Positive

LEMMA ModZero ==
  ASSUME NEW d \in Positive, NEW n \in Nat
  PROVE  Divides(d, n) <=> n % d = 0
<1>1. ASSUME NEW q \in Nat, n = d * q PROVE n % d = 0
  BY <1>1 DEF Positive
<1>2. ASSUME n % d = 0 PROVE Divides(d, n)
  <2>1. n = d * (n \div d) + 0 /\ n \div d \in Nat
    BY <1>2, DivMod
  <2>2. d * (n \div d) + 0 = d * (n \div d)
    BY <2>1 DEF Positive
  <2> QED BY <2>1, <2>2 DEF Divides
<1> QED BY <1>1, <1>2 DEF Divides

\* A divisor of two numbers divides their sum, and their difference.
LEMMA DividesSum ==
  ASSUME NEW d \in Positive, NEW m \in Nat, NEW n \in Nat, Divides(d, m)
  PROVE  Divides(d, m + n) <=> Divides(d, n)
<1>1. PICK p \in Nat : m = d * p
  BY DEF Divides
<1>2. ASSUME NEW q \in Nat, n = d * q PROVE Divides(d, m + n)
  <2>1. d * p + d * q = d * (p + q) /\ p + q \in Nat
    BY DEF Positive
  <2> QED BY <1>1, <1>2, <2>1 DEF Divides
<1>3. ASSUME NEW q \in Nat, m + n = d * q PROVE Divides(d, n)
  <2>1. n = d * q - d * p
    BY <1>1, <1>3 DEF Positive
  <2>2. d * q - d * p = d * (q - p)
    BY DEF Positive
  <2>3. q >= p
    <3>1. ASSUME q < p PROVE FALSE
      <4>1. d * q + d <= d * p
        BY <3>1 DEF Positive
      <4> QED BY <1>1, <1>3, <4>1 DEF Positive
    <3> QED BY <3>1
  <2>4. q - p \in Nat
    BY <2>3
  <2> QED BY <2>1, <2>2, <2>4 DEF Divides
<1> QED BY <1>2, <1>3 DEF Divides

LEMMA DividesTimes ==
  ASSUME NEW d \in Positive, NEW n \in Nat, NEW k \in Nat, Divides(d, n)
  PROVE  Divides(d, n * k)
<1>1. PICK q \in Nat : n = d * q
  BY DEF Divides
<1>2. (d * q) * k = d * (q * k) /\ q * k \in Nat
  BY DEF Positive
<1> QED BY <1>1, <1>2 DEF Divides

\* A divisor of a positive number is not greater.
LEMMA DividesLess ==
  ASSUME NEW d \in Positive, NEW n \in Positive, Divides(d, n)
  PROVE  d <= n
<1>1. PICK q \in Nat : n = d * q
  BY DEF Divides
<1>2. q # 0
  BY <1>1 DEF Positive
<1>3. d * q >= d
  BY <1>2 DEF Positive
<1> QED BY <1>1, <1>3 DEF Positive

LEMMA DividesSelf ==
  ASSUME NEW n \in Nat
  PROVE  Divides(n, n) /\ Divides(n, 0)
<1>1. n = n * 1 /\ 0 = n * 0
  OBVIOUS
<1> QED BY <1>1 DEF Divides

\* The numbers that divide g determine it.
LEMMA Determined ==
  ASSUME NEW A, NEW g, NEW h, IsGcd(g, A), IsGcd(h, A)
  PROVE  g = h
<1>1. g \in Nat /\ h \in Nat
  BY DEF IsGcd
<1>2. \A d \in Positive : Divides(d, g) <=> Divides(d, h)
  BY DEF IsGcd
<1>3. ASSUME NEW m \in Nat, NEW n \in Nat, m < n,
             \A d \in Positive : Divides(d, m) <=> Divides(d, n)
      PROVE  m = 0 /\ FALSE
  <2>1. n \in Positive /\ Divides(n, n)
    BY <1>3, DividesSelf DEF Positive
  <2>2. Divides(n, m)
    BY <1>3, <2>1
  <2>3. m = 0
    BY <1>3, <2>1, <2>2, DividesLess DEF Positive
  <2>4. n + 1 \in Positive /\ Divides(n + 1, 0)
    BY DividesSelf DEF Positive
  <2>5. Divides(n + 1, n)
    BY <1>3, <2>3, <2>4
  <2>6. n + 1 <= n
    BY <2>1, <2>4, <2>5, DividesLess
  <2> QED BY <2>6
<1>4. ~(g < h) /\ ~(h < g)
  BY <1>1, <1>2, <1>3
<1> QED BY <1>1, <1>4

-----------------------------------------------------------------------------
(* gcd.                                                                    *)

\* The step of Euclid's algorithm keeps the common divisors.
LEMMA EuclidStep ==
  ASSUME NEW b \in Positive, NEW q \in Nat, NEW r \in Nat, NEW g
  PROVE  IsGcd(g, {b * q + r, b}) <=> IsGcd(g, {b, r})
<1>1. ASSUME NEW d \in Positive, Divides(d, b)
      PROVE  Divides(d, b * q + r) <=> Divides(d, r)
  <2>1. b \in Nat /\ b * q \in Nat
    BY DEF Positive
  <2>2. Divides(d, b * q)
    BY <1>1, <2>1, DividesTimes
  <2> QED BY <2>1, <2>2, DividesSum
<1>2. ASSUME NEW d \in Positive
      PROVE  (\A a \in {b * q + r, b} : Divides(d, a)) <=> (\A a \in {b, r} : Divides(d, a))
  BY <1>1
<1> QED BY <1>2 DEF IsGcd

\* The numbers that divide a are the common divisors of a and 0.
LEMMA EuclidEnd ==
  ASSUME NEW a \in Nat
  PROVE  IsGcd(a, {a, 0})
<1>1. ASSUME NEW d \in Positive PROVE Divides(d, 0)
  <2>1. d \in Nat
    BY DEF Positive
  <2> QED BY <2>1, DividesSelf
<1> QED BY <1>1 DEF IsGcd

\* Any two numbers have a greatest common divisor.
LEMMA GcdExists ==
  ASSUME NEW a \in Nat, NEW b \in Nat
  PROVE  \E g : IsGcd(g, {a, b})
<1> DEFINE S == {n \in Nat : \A k \in Nat : \E g : IsGcd(g, {k, n})}
<1>1. ASSUME NEW n \in Nat, \A m \in 0 .. (n - 1) : m \in S
      PROVE  n \in S
  <2>1. CASE n = 0
    BY <2>1, EuclidEnd
  <2>2. CASE n # 0
    <3>1. n \in Positive
      BY <2>2 DEF Positive
    <3>2. ASSUME NEW k \in Nat PROVE \E g : IsGcd(g, {k, n})
      <4>1. PICK q \in Nat, r \in 0 .. (n - 1) : k = n * q + r
        BY <3>1, DivMod
      <4>2. r \in Nat
        OBVIOUS
      <4>3. PICK g : IsGcd(g, {n, r})
        BY <1>1
      <4> QED BY <3>1, <4>1, <4>2, <4>3, EuclidStep
    <3> QED BY <3>2
  <2> QED BY <2>1, <2>2
<1> HIDE DEF S
<1>2. b \in S
  BY <1>1, StrongInduction
<1> QED BY <1>2 DEF S

\* gcd() returns it.
LEMMA GcdLemma ==
  ASSUME NEW a \in Nat, NEW b \in Nat
  PROVE  IsGcd(gcd[<<a, b>>], {a, b})
<1> DEFINE f == [p \in Nat \X Nat |-> CHOOSE g : IsGcd(g, {p[1], p[2]})]
           Solves(h) == h = [p \in Nat \X Nat |->
                        IF p[2] > 0 THEN h[<<p[2], p[1] % p[2]>>] ELSE p[1]]
<1>1. ASSUME NEW k \in Nat, NEW n \in Nat PROVE IsGcd(f[<<k, n>>], {k, n})
  <2>1. <<k, n>> \in Nat \X Nat
    OBVIOUS
  <2>2. f[<<k, n>>] = CHOOSE g : IsGcd(g, {k, n})
    BY <2>1
  <2> QED BY <2>2, GcdExists
<1>2. ASSUME NEW k \in Nat, NEW n \in Positive
      PROVE  f[<<k, n>>] = f[<<n, k % n>>]
  <2>1. PICK q \in Nat : k = n * q + (k % n)
    BY DivMod
  <2>2. k % n \in Nat /\ n \in Nat
    <3>1. k % n \in 0 .. (n - 1) /\ n \in Nat
      BY DivMod DEF Positive
    <3> QED BY <3>1
  <2>3. IsGcd(f[<<k, n>>], {n, k % n})
    BY <1>1, <2>1, <2>2, EuclidStep
  <2> QED BY <1>1, <2>2, <2>3, Determined
<1>3. ASSUME NEW k \in Nat PROVE f[<<k, 0>>] = k
  BY <1>1, EuclidEnd, Determined
<1> HIDE DEF f
<1>4. Solves(f)
  <2>1. f = [p \in Nat \X Nat |-> f[p]]
    BY DEF f
  <2>2. ASSUME NEW p \in Nat \X Nat
        PROVE  f[p] = IF p[2] > 0 THEN f[<<p[2], p[1] % p[2]>>] ELSE p[1]
    <3>1. p = <<p[1], p[2]>> /\ p[1] \in Nat /\ p[2] \in Nat
      OBVIOUS
    <3>2. CASE p[2] > 0
      <4>1. p[2] \in Positive
        BY <3>1, <3>2 DEF Positive
      <4> QED BY <1>2, <3>1, <3>2, <4>1
    <3>3. CASE ~(p[2] > 0)
      <4>1. p[2] = 0
        BY <3>1, <3>3
      <4> QED BY <1>3, <3>1, <3>3, <4>1
    <3> QED BY <3>2, <3>3
  <2> QED BY <2>1, <2>2
<1>5. gcd = CHOOSE h : Solves(h)
  BY DEF gcd
<1> HIDE DEF Solves
<1>6. Solves(gcd)
  BY <1>4, <1>5
<1>7. ASSUME NEW k \in Nat, NEW n \in Nat
      PROVE  gcd[<<k, n>>] = IF n > 0 THEN gcd[<<n, k % n>>] ELSE k
  <2>1. <<k, n>> \in Nat \X Nat
    OBVIOUS
  <2> QED BY <1>6, <2>1 DEF Solves
<1> DEFINE S == {n \in Nat : \A k \in Nat : IsGcd(gcd[<<k, n>>], {k, n})}
<1>8. ASSUME NEW n \in Nat, \A m \in 0 .. (n - 1) : m \in S
      PROVE  n \in S
  <2>1. CASE n = 0
    <3>1. ASSUME NEW k \in Nat PROVE IsGcd(gcd[<<k, n>>], {k, n})
      <4>1. ~(n > 0)
        BY <2>1
      <4>2. gcd[<<k, n>>] = k
        BY <1>7, <4>1
      <4> QED BY <2>1, <4>2, EuclidEnd
    <3> QED BY <3>1
  <2>2. CASE n # 0
    <3>1. n \in Positive
      BY <2>2 DEF Positive
    <3>2. ASSUME NEW k \in Nat PROVE IsGcd(gcd[<<k, n>>], {k, n})
      <4>1. PICK q \in Nat : k = n * q + (k % n)
        BY <3>1, DivMod
      <4>2. k % n \in 0 .. (n - 1) /\ k % n \in Nat
        <5>1. k % n \in 0 .. (n - 1)
          BY <3>1, DivMod
        <5> QED BY <5>1
      <4>3. IsGcd(gcd[<<n, k % n>>], {n, k % n})
        BY <1>8, <4>2
      <4>4. gcd[<<k, n>>] = gcd[<<n, k % n>>]
        BY <1>7, <2>2
      <4> QED BY <3>1, <4>1, <4>2, <4>3, <4>4, EuclidStep
    <3> QED BY <3>2
  <2> QED BY <2>1, <2>2
<1> HIDE DEF S
<1>9. b \in S
  BY <1>8, StrongInduction
<1> QED BY <1>9 DEF S

-----------------------------------------------------------------------------
(* The folds over the blocks.                                              *)

\* Induction over the subsets of a finite set.
LEMMA SubsetInduction ==
  ASSUME NEW B, IsFiniteSet(B), NEW Q,
         \A s \in SUBSET B : (\A x \in s : s \ {x} \in Q) => s \in Q
  PROVE  SUBSET B \subseteq Q
<1> DEFINE S == {n \in Nat : \A s \in SUBSET B : Cardinality(s) = n => s \in Q}
<1>1. ASSUME NEW s \in SUBSET B PROVE IsFiniteSet(s) /\ Cardinality(s) \in Nat
  BY FS_Subset, FS_CardinalityType
<1>2. ASSUME NEW n \in Nat, \A m \in 0 .. (n - 1) : m \in S
      PROVE  n \in S
  <2>1. ASSUME NEW s \in SUBSET B, Cardinality(s) = n, NEW x \in s
        PROVE  s \ {x} \in Q
    <3>1. s \ {x} \in SUBSET B /\ Cardinality(s \ {x}) = n - 1
      BY <1>1, <2>1, FS_RemoveElement
    <3>2. Cardinality(s \ {x}) \in Nat
      BY <1>1, <3>1
    <3>3. n - 1 \in 0 .. (n - 1)
      BY <3>1, <3>2
    <3> QED BY <1>2, <3>1, <3>3
  <2> QED BY <2>1
<1>3. Nat \subseteq S
  <2> HIDE DEF S
  <2> QED BY <1>2, StrongInduction
<1> QED BY <1>1, <1>3

\* The intervals of the blocks in s.
Of(I, s) == {I[x] : x \in s}

\* The fold of compute_tick returns the greatest common divisor.
LEMMA TickLemma ==
  ASSUME NEW I, IsFiniteSet(DOMAIN I), \A x \in DOMAIN I : I[x] \in Nat
  PROVE  IsGcd(compute_tick(I), Of(I, DOMAIN I))
<1> DEFINE B == DOMAIN I
           pick(s) == CHOOSE x \in s : TRUE
           Solves(h) == h = [s \in SUBSET B |->
                               IF s = {} THEN 0 ELSE gcd[<<I[pick(s)], h[s \ {pick(s)}]>>]]
<1>1. compute_tick(I) = (CHOOSE h : Solves(h))[B]
  BY DEF compute_tick, FoldFunction, FoldFunctionOnSet, MapThenFoldSet
\* gcd adds a block.
<1>2. ASSUME NEW s \in SUBSET B, s # {}, NEW g, IsGcd(g, Of(I, s \ {pick(s)}))
      PROVE  IsGcd(gcd[<<I[pick(s)], g>>], Of(I, s))
  <2> DEFINE x == pick(s)
  <2>1. x \in s /\ I[x] \in Nat
    BY <1>2
  <2>2. IsGcd(gcd[<<I[x], g>>], {I[x], g})
    BY <1>2, <2>1, GcdLemma DEF IsGcd
  <2>3. ASSUME NEW d \in Positive
        PROVE  (\A n \in {I[x], g} : Divides(d, n)) <=> \A n \in Of(I, s) : Divides(d, n)
    <3> HIDE DEF x
    <3>1. Divides(d, g) <=> \A n \in Of(I, s \ {x}) : Divides(d, n)
      BY <1>2 DEF IsGcd, x
    <3>2. Of(I, s) = Of(I, s \ {x}) \cup {I[x]}
      BY <2>1 DEF Of
    <3> QED BY <3>1, <3>2
  <2> QED BY <2>2, <2>3 DEF IsGcd
<1>3. IsGcd(0, Of(I, {}))
  <2>1. \A d \in Positive : Divides(d, 0)
    BY DividesSelf DEF Positive
  <2> QED BY <2>1 DEF IsGcd, Of
<1> DEFINE f == [s \in SUBSET B |-> CHOOSE g : IsGcd(g, Of(I, s))]
           Q == {s \in SUBSET B : \E g : IsGcd(g, Of(I, s))}
<1>4. ASSUME NEW s \in SUBSET B, \A x \in s : s \ {x} \in Q
      PROVE  s \in Q
  <2>1. CASE s = {}
    BY <1>3, <2>1
  <2>2. CASE s # {}
    <3>1. pick(s) \in s
      BY <2>2
    <3>2. PICK g : IsGcd(g, Of(I, s \ {pick(s)}))
      BY <1>4, <3>1
    <3>3. IsGcd(gcd[<<I[pick(s)], g>>], Of(I, s))
      BY <1>2, <2>2, <3>2
    <3> QED BY <3>3
  <2> QED BY <2>1, <2>2
<1>5. SUBSET B \subseteq Q
  <2>1. \A s \in SUBSET B : (\A x \in s : s \ {x} \in Q) => s \in Q
    BY <1>4
  <2>2. IsFiniteSet(B)
    OBVIOUS
  <2> HIDE DEF B, Q
  <2> QED BY <2>1, <2>2, SubsetInduction
<1>6. ASSUME NEW s \in SUBSET B PROVE IsGcd(f[s], Of(I, s))
  <2>1. \E g : IsGcd(g, Of(I, s))
    BY <1>5
  <2>2. f[s] = CHOOSE g : IsGcd(g, Of(I, s))
    OBVIOUS
  <2> QED BY <2>1, <2>2
<1>7. ASSUME NEW s \in SUBSET B
      PROVE  f[s] = IF s = {} THEN 0 ELSE gcd[<<I[pick(s)], f[s \ {pick(s)}]>>]
  <2> HIDE DEF f
  <2>1. CASE s = {}
    BY <1>3, <1>6, <2>1, Determined
  <2>2. CASE s # {}
    <3>1. s \ {pick(s)} \in SUBSET B
      OBVIOUS
    <3>2. IsGcd(gcd[<<I[pick(s)], f[s \ {pick(s)}]>>], Of(I, s))
      BY <1>2, <1>6, <2>2, <3>1
    <3> QED BY <1>6, <2>2, <3>2, Determined
  <2> QED BY <2>1, <2>2
<1>8. Solves(f)
  <2>1. f = [s \in SUBSET B |-> f[s]]
    OBVIOUS
  <2> HIDE DEF f
  <2> QED BY <1>7, <2>1
<1> HIDE DEF Solves, f
<1> DEFINE h == CHOOSE h : Solves(h)
<1>9. Solves(h)
  BY <1>8
<1> HIDE DEF h
<1>10. ASSUME NEW s \in SUBSET B
       PROVE  h[s] = IF s = {} THEN 0 ELSE gcd[<<I[pick(s)], h[s \ {pick(s)}]>>]
  BY <1>9 DEF Solves
<1> DEFINE P == {s \in SUBSET B : IsGcd(h[s], Of(I, s))}
<1>11. ASSUME NEW s \in SUBSET B, \A x \in s : s \ {x} \in P
       PROVE  s \in P
  <2>1. CASE s = {}
    BY <1>3, <1>10, <2>1
  <2>2. CASE s # {}
    <3>1. pick(s) \in s
      BY <2>2
    <3>2. IsGcd(h[s \ {pick(s)}], Of(I, s \ {pick(s)}))
      BY <1>11, <3>1
    <3>3. IsGcd(gcd[<<I[pick(s)], h[s \ {pick(s)}]>>], Of(I, s))
      BY <1>2, <2>2, <3>2
    <3> QED BY <1>10, <2>2, <3>3
  <2> QED BY <2>1, <2>2
<1>12. SUBSET B \subseteq P
  <2>1. \A s \in SUBSET B : (\A x \in s : s \ {x} \in P) => s \in P
    BY <1>11
  <2>2. IsFiniteSet(B)
    OBVIOUS
  <2> HIDE DEF B, P
  <2> QED BY <2>1, <2>2, SubsetInduction
<1>13. B \in P
  BY <1>12
<1> QED BY <1>1, <1>13 DEF h

\* compute_reset_value returns the greatest interval, and at least 1.
LEMMA ResetLemma ==
  ASSUME NEW I, IsFiniteSet(DOMAIN I), \A x \in DOMAIN I : I[x] \in Nat
  PROVE  /\ compute_reset_value(I) \in Positive
         /\ \A x \in DOMAIN I : I[x] <= compute_reset_value(I)
         /\ compute_reset_value(I) = 1 \/ \E x \in DOMAIN I : compute_reset_value(I) = I[x]
<1> DEFINE B == DOMAIN I
           Top(s) == {1} \cup Of(I, s)
           Q == {s \in SUBSET B : \E m \in Top(s) : \A n \in Top(s) : m >= n}
<1>1. \A s \in SUBSET B : Top(s) \subseteq Nat
  BY DEF Of
<1>2. ASSUME NEW s \in SUBSET B, \A x \in s : s \ {x} \in Q
      PROVE  s \in Q
  <2>1. CASE s = {}
    <3>1. Top(s) = {1}
      BY <2>1 DEF Of
    <3>2. 1 >= 1
      OBVIOUS
    <3> QED BY <3>1, <3>2
  <2>2. CASE s # {}
    <3>1. PICK x \in s : TRUE
      BY <2>2
    <3>2. PICK m \in Top(s \ {x}) : \A n \in Top(s \ {x}) : m >= n
      BY <1>2
    <3>3. Top(s) = Top(s \ {x}) \cup {I[x]}
      BY DEF Of
    <3>4. I[x] \in Nat /\ m \in Nat /\ \A n \in Top(s \ {x}) : n \in Nat
      BY <1>1
    <3> HIDE DEF Top
    <3>5. CASE m >= I[x]
      BY <3>2, <3>3, <3>5
    <3>6. CASE ~(m >= I[x])
      <4>1. \A n \in Top(s) : I[x] >= n
        BY <3>2, <3>3, <3>4, <3>6
      <4> QED BY <3>3, <4>1
    <3> QED BY <3>5, <3>6
  <2> QED BY <2>1, <2>2
<1>3. SUBSET B \subseteq Q
  <2>1. \A s \in SUBSET B : (\A x \in s : s \ {x} \in Q) => s \in Q
    BY <1>2
  <2>2. IsFiniteSet(B)
    OBVIOUS
  <2> HIDE DEF B, Q
  <2> QED BY <2>1, <2>2, SubsetInduction
<1>4. \E m \in Top(B) : \A n \in Top(B) : m >= n
  <2>1. B \in Q
    BY <1>3
  <2> QED BY <2>1
<1>5. Top(B) = {1} \cup Range(I)
  BY DEF Of, Range
<1>6. LET R == compute_reset_value(I)
      IN  R \in Top(B) /\ \A n \in Top(B) : R >= n
  <2> HIDE DEF Top, B
  <2> QED BY <1>4, <1>5 DEF compute_reset_value, Max
<1>7. 1 \in Top(B) /\ \A x \in B : I[x] \in Top(B)
  BY DEF Of
<1>8. compute_reset_value(I) = 1 \/ \E x \in B : compute_reset_value(I) = I[x]
  BY <1>6 DEF Of
<1> QED BY <1>1, <1>6, <1>7, <1>8 DEF Positive
===============================================================================
