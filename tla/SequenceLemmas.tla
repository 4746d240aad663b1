--------------------------- MODULE SequenceLemmas ---------------------------
(***************************************************************************)
(* Lemmas that know nothing of the program, for the proofs about Browser,  *)
(* FilteredViews and Display: numbers, recursion along a sequence, and     *)
(* sequences that lose an element, are joined or are cut.  The last are    *)
(* about requests in flight, in the order they were sent, of which any may *)
(* end next.                                                               *)
(***************************************************************************)
EXTENDS Integers, Sequences, SequencesExt, SequenceTheorems, WellFoundedInduction,
        TLAPS

\* A non-empty set of numbers has a least one: what induction is done with.
LEMMA LeastNat ==
  ASSUME NEW T, T \subseteq Nat, T # {}
  PROVE  \E x \in T : \A y \in T : x <= y
<1> DEFINE R == OpToRel(<, Nat)
<1>1. \A a, b \in Nat : a < b => <<a, b>> \in R
  BY DEF OpToRel
<1>2. IsWellFoundedOn(R, Nat)
  BY NatLessThanWellFounded
<1> HIDE DEF R
<1>3. PICK x \in T : \A y \in T : ~ (<<y, x>> \in R)
  BY <1>2, WFMin
<1>4. ASSUME NEW y \in T PROVE x <= y
  <2>1. ~ (y < x)
    BY <1>1, <1>3
  <2>2. QED
    BY <2>1
<1>5. QED
  BY <1>4

\* Min of such a set is in it, and no greater than any other.
LEMMA LeastOf ==
  ASSUME NEW X, X \subseteq Nat, X # {}
  PROVE  Min(X) \in X /\ \A y \in X : Min(X) <= y
<1>1. PICK x \in X : \A y \in X : x <= y
  BY LeastNat
<1>2. QED
  BY <1>1 DEF Min

\* Max of a set of numbers up to N is in it, and no less than any other.
LEMMA MostOf ==
  ASSUME NEW N \in Nat, NEW X, X \subseteq 0 .. N, X # {}
  PROVE  Max(X) \in X /\ \A y \in X : y <= Max(X)
<1> DEFINE Y == {N - x : x \in X}
<1>1. Y \subseteq Nat /\ Y # {}
  <2>1. ASSUME NEW x \in X PROVE N - x \in Nat
    <3>1. x \in 0 .. N
      OBVIOUS
    <3>2. QED
      BY <3>1
  <2>2. QED
    BY <2>1
<1>2. PICK y \in Y : \A z \in Y : y <= z
  BY <1>1, LeastNat
<1>3. PICK x \in X : y = N - x
  BY <1>2
<1>4. \A z \in X : z <= x
  <2>1. SUFFICES ASSUME NEW z \in X PROVE z <= x
    OBVIOUS
  <2>2. y <= N - z
    BY <1>2
  <2>3. x \in 0 .. N /\ z \in 0 .. N
    OBVIOUS
  <2>4. QED
    BY <1>3, <2>2, <2>3
<1>5. \A z \in X : z \in Int
  OBVIOUS
<1>6. QED
  BY <1>3, <1>4, <1>5 DEF Max

\* The least and the most of two.
LEMMA ExtremesOfTwo ==
  ASSUME NEW a \in Int, NEW b \in Int
  PROVE  /\ Max({a, b}) = IF a >= b THEN a ELSE b
         /\ Min({a, b}) = IF a <= b THEN a ELSE b
<1>1. Max({a, b}) = IF a >= b THEN a ELSE b
  <2>1. CASE a >= b
    BY <2>1 DEF Max
  <2>2. CASE ~ (a >= b)
    BY <2>2 DEF Max
  <2>3. QED
    BY <2>1, <2>2
<1>2. Min({a, b}) = IF a <= b THEN a ELSE b
  <2>1. CASE a <= b
    BY <2>1 DEF Min
  <2>2. CASE ~ (a <= b)
    BY <2>2 DEF Min
  <2>3. QED
    BY <2>1, <2>2
<1>3. QED
  BY <1>1, <1>2

-----------------------------------------------------------------------------
(* Induction and recursion up to a number. *)

\* What holds of 0, and of a number when it holds of the one before, holds up to N.
LEMMA UpTo ==
  ASSUME NEW N \in Nat, NEW T, 0 \in T, \A n \in 1 .. N : n - 1 \in T => n \in T
  PROVE  N \in T /\ \A n \in 0 .. N : n \in T
<1> DEFINE X == (0 .. N) \ T
<1>1. SUFFICES ASSUME X # {} PROVE FALSE
  OBVIOUS
<1>2. X \subseteq Nat
  OBVIOUS
<1>3. PICK x \in X : \A y \in X : x <= y
  BY <1>1, <1>2, LeastNat
<1>4. x \in 1 .. N /\ x \notin T
  BY <1>3
<1>5. x - 1 \in T
  BY <1>3, <1>4
<1>6. QED
  BY <1>4, <1>5

\* f is base at 0, and from there on each value is made of the one before.
Steps(N, S) == [1 .. N -> [S -> S]]
IsPath(f, N, S, base, step) ==
  /\ f \in [0 .. N -> S] /\ f[0] = base
  /\ \A n \in 1 .. N : f[n] = step[n][f[n - 1]]

\* There is one, for any such step.
LEMMA PathExists ==
  ASSUME NEW S, NEW N \in Nat, NEW base \in S, NEW step \in Steps(N, S)
  PROVE  \E f : IsPath(f, N, S, base, step)
<1> DEFINE T == {k \in 0 .. N : \E f : IsPath(f, k, S, base, step)}
<1>1. 0 \in T
  <2> DEFINE f == [n \in 0 .. 0 |-> base]
  <2>1. IsPath(f, 0, S, base, step)
    BY DEF IsPath
  <2> HIDE DEF f
  <2>2. QED
    BY <2>1
<1>2. ASSUME NEW k \in 1 .. N, k - 1 \in T PROVE k \in T
  <2>1. PICK g : IsPath(g, k - 1, S, base, step)
    BY <1>2
  <2> DEFINE f == [n \in 0 .. k |-> IF n = k THEN step[k][g[k - 1]] ELSE g[n]]
  <2>2. \A n \in 0 .. k - 1 : f[n] = g[n] /\ g[n] \in S
    BY <2>1 DEF IsPath
  <2>3. f[k] = step[k][f[k - 1]] /\ f[k] \in S
    <3>1. k \in 0 .. k /\ k - 1 \in 0 .. k - 1
      OBVIOUS
    <3>2. g[k - 1] \in S /\ f[k - 1] = g[k - 1]
      BY <2>2, <3>1
    <3>3. step[k][g[k - 1]] \in S
      BY <3>2 DEF Steps
    <3>4. f[k] = step[k][g[k - 1]]
      BY <3>1
    <3>5. QED
      BY <3>2, <3>3, <3>4
  <2>4. f \in [0 .. k -> S] /\ f[0] = base
    BY <2>1, <2>2, <2>3 DEF IsPath
  <2>5. \A n \in 1 .. k - 1 : f[n] = step[n][f[n - 1]]
    <3>1. SUFFICES ASSUME NEW n \in 1 .. k - 1 PROVE f[n] = step[n][f[n - 1]]
      OBVIOUS
    <3>2. f[n] = g[n] /\ f[n - 1] = g[n - 1]
      BY <2>2
    <3> HIDE DEF f
    <3>3. QED
      BY <2>1, <3>2 DEF IsPath
  <2> HIDE DEF f
  <2>6. IsPath(f, k, S, base, step)
    <3>1. \A n \in 1 .. k : n = k \/ n \in 1 .. k - 1
      OBVIOUS
    <3>2. QED
      BY <2>3, <2>4, <2>5, <3>1 DEF IsPath
  <2>7. QED
    BY <2>6
<1> HIDE DEF T
<1>3. N \in T
  BY <1>1, <1>2, UpTo
<1>4. QED
  BY <1>3 DEF T

\* The members of X from o on, and a function that looks for them one by one, n
\* numbers apart or more.
From(X, o) == {p \in X : p >= o}
IsSearch(f, lo, N, X, n) ==
  f = [o \in lo .. N |-> IF From(X, o) = {} THEN {}
                         ELSE {Min(From(X, o))} \cup f[Min(From(X, o)) + n]]

\* The first from o on, and where the search goes on behind it.
LEMMA FromFacts ==
  ASSUME NEW N \in Nat, NEW n \in Nat \ {0}, NEW X, X \subseteq 0 .. (N - n),
         NEW o \in 0 .. N, From(X, o) # {}
  PROVE  /\ Min(From(X, o)) \in X /\ Min(From(X, o)) >= o
         /\ Min(From(X, o)) + n \in (o + 1) .. N
         /\ \A p \in X : p >= o => Min(From(X, o)) <= p
<1>1. /\ From(X, o) \subseteq Nat
      /\ \A p \in X : p \in Int /\ p <= N - n
      /\ \A p : p \in From(X, o) <=> p \in X /\ p >= o
  <2>1. ASSUME NEW p \in X PROVE p \in Nat /\ p <= N - n
    <3>1. p \in 0 .. (N - n)
      OBVIOUS
    <3>2. QED
      BY <3>1
  <2>2. \A p : p \in From(X, o) <=> p \in X /\ p >= o
    BY DEF From
  <2>3. From(X, o) \subseteq Nat
    BY <2>1, <2>2
  <2>4. \A p \in X : p \in Int /\ p <= N - n
    BY <2>1
  <2>5. QED
    BY <2>2, <2>3, <2>4
<1>2. /\ Min(From(X, o)) \in From(X, o)
      /\ \A y \in From(X, o) : Min(From(X, o)) <= y
  BY <1>1, LeastOf
<1>3. /\ Min(From(X, o)) \in X /\ Min(From(X, o)) >= o
      /\ \A p \in X : p >= o => Min(From(X, o)) <= p
  BY <1>1, <1>2
<1>4. Min(From(X, o)) + n \in (o + 1) .. N
  BY <1>1, <1>3
<1>5. QED
  BY <1>3, <1>4

\* There is such a function.
LEMMA SearchExists ==
  ASSUME NEW N \in Nat, NEW n \in Nat \ {0}, NEW X, X \subseteq 0 .. (N - n)
  PROVE  \E f : IsSearch(f, 0, N, X, n)
<1> DEFINE T == {k \in 0 .. N : \E f : IsSearch(f, N - k, N, X, n)}
<1>1. ASSUME NEW k \in 0 .. N, NEW g, k = 0 \/ IsSearch(g, N - k + 1, N, X, n)
      PROVE  \E f : IsSearch(f, N - k, N, X, n)
  <2> DEFINE Value(h, o) == IF From(X, o) = {} THEN {}
                            ELSE {Min(From(X, o))} \cup h[Min(From(X, o)) + n]
             f == [o \in N - k .. N |-> IF o = N - k THEN Value(g, o) ELSE g[o]]
  <2>1. ASSUME NEW o \in N - k .. N PROVE Value(f, o) = Value(g, o)
    <3>1. CASE From(X, o) = {}
      BY <3>1
    <3>2. CASE From(X, o) # {}
      <4> DEFINE m == Min(From(X, o)) + n
      <4>1. m \in (o + 1) .. N
        <5>1. o \in 0 .. N
          OBVIOUS
        <5>2. QED
          BY <3>2, <5>1, FromFacts
      <4>2. m \in N - k .. N /\ m # N - k
        BY <4>1
      <4> HIDE DEF m
      <4>3. f[m] = g[m]
        BY <4>2
      <4> HIDE DEF f
      <4>4. QED
        BY <3>2, <4>3 DEF m
    <3>3. QED
      BY <3>1, <3>2
  <2>2. ASSUME NEW o \in N - k .. N PROVE f[o] = Value(g, o)
    <3>1. CASE o = N - k
      BY <3>1
    <3>2. CASE o # N - k
      <4>1. f[o] = g[o] /\ o \in N - k + 1 .. N /\ k # 0
        BY <3>2
      <4>2. g[o] = Value(g, o)
        BY <1>1, <4>1 DEF IsSearch
      <4>3. QED
        BY <4>1, <4>2
    <3>3. QED
      BY <3>1, <3>2
  <2>3. f = [o \in N - k .. N |-> f[o]]
    OBVIOUS
  <2>4. \A o \in N - k .. N : f[o] = Value(f, o)
    BY <2>1, <2>2
  <2> HIDE DEF f
  <2>5. f = [o \in N - k .. N |-> Value(f, o)]
    BY <2>3, <2>4
  <2>6. IsSearch(f, N - k, N, X, n)
    BY <2>5 DEF IsSearch
  <2>7. QED
    BY <2>6
<1>2. 0 \in T
  BY <1>1
<1>3. ASSUME NEW k \in 1 .. N, k - 1 \in T PROVE k \in T
  <2>1. PICK g : IsSearch(g, N - (k - 1), N, X, n)
    BY <1>3
  <2>2. N - (k - 1) = N - k + 1
    OBVIOUS
  <2>3. QED
    BY <1>1, <2>1, <2>2
<1> HIDE DEF T
<1>4. N \in T
  BY <1>2, <1>3, UpTo
<1>5. QED
  BY <1>4 DEF T

\* Members of X that are n apart; and every member is less than n behind one of them.
Covers(F, X, n) ==
  /\ F \subseteq X
  /\ \A p, q \in F : p < q => p + n <= q
  /\ \A p \in X : \E q \in F : q <= p /\ p < q + n

\* Such are what it finds.
LEMMA SearchFinds ==
  ASSUME NEW N \in Nat, NEW n \in Nat \ {0}, NEW X, X \subseteq 0 .. (N - n),
         NEW f, IsSearch(f, 0, N, X, n)
  PROVE  Covers(f[0], X, n)
<1> DEFINE Good(o) == /\ f[o] \subseteq From(X, o)
                      /\ \A p, q \in f[o] : p < q => p + n <= q
                      /\ \A p \in From(X, o) : \E q \in f[o] : q <= p /\ p < q + n
           T == {k \in 0 .. N : \A j \in 0 .. k : Good(N - j)}
<1>1. ASSUME NEW o \in 0 .. N, \A j \in (o + 1) .. N : Good(j)
      PROVE  Good(o)
  <2>1. f[o] = IF From(X, o) = {} THEN {}
               ELSE {Min(From(X, o))} \cup f[Min(From(X, o)) + n]
    BY DEF IsSearch
  <2>2. CASE From(X, o) = {}
    BY <2>1, <2>2
  <2>3. CASE From(X, o) # {}
    <3> DEFINE m == Min(From(X, o))
    <3>1. /\ m \in X /\ m >= o /\ m + n \in (o + 1) .. N
          /\ \A p \in X : p >= o => m <= p
      BY <2>3, FromFacts
    <3>2. f[o] = {m} \cup f[m + n]
      BY <2>1, <2>3
    <3> HIDE DEF m
    <3>3. Good(m + n)
      BY <1>1, <3>1
    <3>4. \A p \in f[m + n] : p \in X /\ p >= m + n
      BY <3>3 DEF From
    <3>5. X \subseteq Int /\ m \in Int
      BY <3>1
    <3>6. f[o] \subseteq From(X, o)
      <4>1. ASSUME NEW p \in f[o] PROVE p \in X /\ p >= o
        <5>1. CASE p = m
          BY <3>1, <5>1
        <5>2. CASE p \in f[m + n]
          <6>1. p \in X /\ p >= m + n /\ p \in Int
            BY <3>4, <3>5, <5>2
          <6>2. m >= o /\ m \in Int
            BY <3>1, <3>5
          <6>3. QED
            BY <6>1, <6>2
        <5>3. QED
          BY <3>2, <5>1, <5>2
      <4>2. QED
        BY <4>1 DEF From
    <3>7. ASSUME NEW p \in f[o], NEW q \in f[o], p < q PROVE p + n <= q
      <4>1. CASE p = m /\ q = m
        BY <3>5, <3>7, <4>1
      <4>2. CASE p = m /\ q \in f[m + n]
        BY <3>4, <3>5, <4>2
      <4>3. CASE p \in f[m + n] /\ q = m
        <5>1. p >= m + n /\ p \in Int /\ p < m
          BY <3>4, <3>5, <3>7, <4>3
        <5>2. QED
          BY <3>5, <5>1
      <4>4. CASE p \in f[m + n] /\ q \in f[m + n]
        BY <3>3, <3>7, <4>4
      <4>5. QED
        BY <3>2, <4>1, <4>2, <4>3, <4>4
    <3>8. ASSUME NEW p \in From(X, o) PROVE \E q \in f[o] : q <= p /\ p < q + n
      <4>1. p \in X /\ p \in Int /\ m <= p
        BY <3>1, <3>5, <3>8 DEF From
      <4>2. CASE p < m + n
        BY <3>2, <4>1, <4>2
      <4>3. CASE ~ (p < m + n)
        <5>1. p >= m + n
          BY <3>5, <4>1, <4>3
        <5>2. p \in From(X, m + n)
          BY <4>1, <5>1 DEF From
        <5>3. PICK q \in f[m + n] : q <= p /\ p < q + n
          BY <3>3, <5>2
        <5>4. QED
          BY <3>2, <5>3
      <4>4. QED
        BY <4>2, <4>3
    <3>9. QED
      BY <3>6, <3>7, <3>8
  <2>4. QED
    BY <2>2, <2>3
<1> HIDE DEF Good
<1>2. 0 \in T
  <2>1. Good(N)
    BY <1>1
  <2>2. QED
    BY <2>1
<1>3. ASSUME NEW k \in 1 .. N, k - 1 \in T PROVE k \in T
  <2>1. ASSUME NEW j \in (N - k + 1) .. N PROVE Good(j)
    <3>1. N - j \in 0 .. k - 1 /\ N - (N - j) = j
      OBVIOUS
    <3>2. QED
      BY <1>3, <3>1
  <2>2. Good(N - k)
    BY <1>1, <2>1
  <2>3. \A j \in 0 .. k : j = k \/ j \in 0 .. k - 1
    OBVIOUS
  <2>4. QED
    BY <1>3, <2>2, <2>3
<1>4. N \in T
  <2> HIDE DEF T
  <2>1. QED
    BY <1>2, <1>3, UpTo
<1>5. Good(0)
  BY <1>4
<1>6. From(X, 0) = X
  <2>1. ASSUME NEW p \in X PROVE p >= 0
    <3>1. p \in 0 .. (N - n)
      OBVIOUS
    <3>2. QED
      BY <3>1
  <2>2. \A p : p \in From(X, 0) <=> p \in X /\ p >= 0
    BY DEF From
  <2>3. QED
    BY <2>1, <2>2
<1>7. QED
  BY <1>5, <1>6 DEF Good, Covers

-----------------------------------------------------------------------------
(* A sequence without an element, and one at its end instead. *)

\* Position k of a sequence from which element i has been removed.
Shift(i, k) == IF k < i THEN k ELSE k + 1

\* The elements of a sequence without its element i.
LEMMA RemoveAtElements ==
  ASSUME NEW S, NEW s \in Seq(S), NEW i \in DOMAIN s
  PROVE  /\ RemoveAt(s, i) \in Seq(S)
         /\ DOMAIN RemoveAt(s, i) = 1 .. Len(s) - 1
         /\ \A k \in 1 .. Len(s) - 1 :
              Shift(i, k) \in DOMAIN s /\ RemoveAt(s, i)[k] = s[Shift(i, k)]
<1> DEFINE a == SubSeq(s, 1, i - 1)
           b == SubSeq(s, i + 1, Len(s))
<1>1. i \in 1 .. Len(s) /\ Len(s) \in Nat /\ DOMAIN s = 1 .. Len(s)
  BY LenProperties
<1>2. a \in Seq(S) /\ Len(a) = i - 1 /\ \A k \in 1 .. i - 1 : a[k] = s[k]
  <2>1. 1 \in Int /\ i - 1 \in Int /\ \A k \in 1 .. i - 1 : s[k] \in S
    BY <1>1, ElementOfSeq
  <2>2. QED
    BY <1>1, <2>1, SubSeqProperties
<1>3. /\ b \in Seq(S) /\ Len(b) = Len(s) - i
      /\ \A k \in 1 .. Len(s) - i : b[k] = s[k + i]
  <2>1. i + 1 \in Int /\ Len(s) \in Int /\ \A k \in i + 1 .. Len(s) : s[k] \in S
    BY <1>1, ElementOfSeq
  <2>2. QED
    BY <1>1, <2>1, SubSeqProperties
<1> HIDE DEF a, b
<1>4. /\ a \o b \in Seq(S) /\ Len(a \o b) = Len(s) - 1
      /\ \A k \in 1 .. Len(s) - 1 : (a \o b)[k] = IF k <= i - 1 THEN a[k] ELSE b[k - (i - 1)]
  <2>1. /\ a \o b \in Seq(S) /\ Len(a \o b) = Len(a) + Len(b)
        /\ \A k \in 1 .. Len(a) + Len(b) :
             (a \o b)[k] = IF k <= Len(a) THEN a[k] ELSE b[k - Len(a)]
    BY <1>2, <1>3, ConcatProperties
  <2>2. Len(a) + Len(b) = Len(s) - 1 /\ Len(a) = i - 1
    BY <1>1, <1>2, <1>3
  <2>3. QED
    BY <2>1, <2>2
<1>5. DOMAIN (a \o b) = 1 .. Len(s) - 1
  BY <1>4, LenProperties
<1>6. ASSUME NEW k \in 1 .. Len(s) - 1
      PROVE  Shift(i, k) \in DOMAIN s /\ (a \o b)[k] = s[Shift(i, k)]
  <2>1. CASE k < i
    BY <1>1, <1>2, <1>4, <2>1 DEF Shift
  <2>2. CASE ~ (k < i)
    <3>1. Shift(i, k) = k + 1 /\ k + 1 \in DOMAIN s
      BY <1>1, <2>2 DEF Shift
    <3>2. ~ (k <= i - 1) /\ k - (i - 1) \in 1 .. Len(s) - i /\ (k - (i - 1)) + i = k + 1
      BY <1>1, <2>2
    <3>3. (a \o b)[k] = b[k - (i - 1)]
      BY <1>4, <3>2
    <3>4. b[k - (i - 1)] = s[(k - (i - 1)) + i]
      BY <1>3, <3>2
    <3>5. QED
      BY <3>1, <3>2, <3>3, <3>4
  <2>3. QED
    BY <2>1, <2>2
<1>7. RemoveAt(s, i) = a \o b
  BY DEF RemoveAt, a, b
<1>8. QED
  BY <1>4, <1>5, <1>6, <1>7

\* Every other element is still there.
LEMMA RemoveAtOthers ==
  ASSUME NEW S, NEW s \in Seq(S), NEW i \in DOMAIN s, NEW j \in DOMAIN s, j # i
  PROVE  \E k \in DOMAIN RemoveAt(s, i) : Shift(i, k) = j
<1>1. i \in 1 .. Len(s) /\ j \in 1 .. Len(s) /\ Len(s) \in Nat
  BY LenProperties
<1>2. DOMAIN RemoveAt(s, i) = 1 .. Len(s) - 1
  BY RemoveAtElements
<1>3. CASE j < i
  BY <1>1, <1>2, <1>3 DEF Shift
<1>4. CASE j > i
  <2>1. j - 1 \in 1 .. Len(s) - 1 /\ Shift(i, j - 1) = j
    BY <1>1, <1>4 DEF Shift
  <2>2. QED
    BY <1>2, <2>1
<1>5. QED
  BY <1>1, <1>3, <1>4

\* What is there once is removed from its place.
LEMMA RemoveFirstAt ==
  ASSUME NEW S, NEW s \in Seq(S), NEW i \in DOMAIN s, \A j \in DOMAIN s : s[j] = s[i] => j = i
  PROVE  RemoveFirst(s, s[i]) = RemoveAt(s, i)
<1> DEFINE X == {j \in 1 .. Len(s) : s[j] = s[i]}
<1>1. DOMAIN s = 1 .. Len(s) /\ Len(s) \in Nat /\ i \in Nat
  BY LenProperties
<1>2. X = {i}
  BY <1>1
<1>3. Min(X) = i
  <2> HIDE DEF X
  <2>1. X \subseteq Nat /\ X # {}
    BY <1>1, <1>2
  <2>2. Min(X) \in X
    BY <2>1, LeastOf
  <2>3. QED
    BY <1>2, <2>2
<1>4. SelectInSeq(s, LAMBDA e : e = s[i]) = IF X # {} THEN Min(X) ELSE 0
  BY DEF SelectInSeq, Min
<1>5. RemoveFirst(s, s[i]) = IF \E j \in 1 .. Len(s) : s[j] = s[i]
                             THEN RemoveAt(s, SelectInSeq(s, LAMBDA e : e = s[i]))
                             ELSE s
  BY DEF RemoveFirst
<1>6. \E j \in 1 .. Len(s) : s[j] = s[i]
  BY <1>1
<1> HIDE DEF X
<1>7. QED
  BY <1>2, <1>3, <1>4, <1>5, <1>6

\* Element i of a sequence moved to its end, as an element that may be another.
Moved(s, i, e) == Append(RemoveAt(s, i), e)

IsMoved(t, s, i, e, S) ==
  /\ t \in Seq(S) /\ Len(t) = Len(s)
  /\ \A k \in 1 .. Len(s) - 1 : t[k] = s[Shift(i, k)]
  /\ t[Len(s)] = e

LEMMA MovedElements ==
  ASSUME NEW S, NEW s \in Seq(S), NEW i \in DOMAIN s, NEW e \in S
  PROVE  IsMoved(Moved(s, i, e), s, i, e, S)
<1> DEFINE t == RemoveAt(s, i)
           n == Len(s)
<1>1. n \in Nat /\ i \in 1 .. n
  BY LenProperties
<1>2. /\ t \in Seq(S) /\ DOMAIN t = 1 .. n - 1
      /\ \A k \in 1 .. n - 1 : t[k] = s[Shift(i, k)]
  BY RemoveAtElements
<1> HIDE DEF t, n
<1>3. Len(t) = n - 1
  BY <1>1, <1>2, LenProperties
<1>4. /\ Append(t, e) \in Seq(S) /\ Len(Append(t, e)) = n
      /\ \A k \in 1 .. n - 1 : Append(t, e)[k] = t[k]
      /\ Append(t, e)[n] = e
  <2>1. /\ Append(t, e) \in Seq(S) /\ Len(Append(t, e)) = Len(t) + 1
        /\ \A k \in 1 .. Len(t) : Append(t, e)[k] = t[k]
        /\ Append(t, e)[Len(t) + 1] = e
    BY <1>2, AppendProperties
  <2>2. Len(t) + 1 = n
    BY <1>1, <1>3
  <2>3. QED
    BY <1>3, <2>1, <2>2
<1>5. QED
  BY <1>2, <1>4 DEF IsMoved, Moved, t, n

Distinct(s) == \A i, j \in DOMAIN s : s[i] = s[j] => i = j

\* Moving an element keeps them distinct.
LEMMA MovedDistinct ==
  ASSUME NEW S, NEW s \in Seq(S), Distinct(s), NEW i \in DOMAIN s
  PROVE  Distinct(Moved(s, i, s[i]))
<1> DEFINE n == Len(s)
           e == s[i]
<1>0. e \in S /\ e = s[i]
  <2>1. i \in 1 .. Len(s)
    BY LenProperties
  <2>2. QED
    BY <2>1, ElementOfSeq
<1> HIDE DEF e
<1> DEFINE t == Moved(s, i, e)
<1>1. n \in Nat /\ i \in 1 .. n /\ DOMAIN s = 1 .. n
  BY LenProperties
<1>2. /\ t \in Seq(S) /\ Len(t) = n /\ t[n] = s[i]
      /\ \A k \in 1 .. n - 1 : t[k] = s[Shift(i, k)]
  <2>1. IsMoved(t, s, i, e, S)
    BY <1>0, MovedElements
  <2>2. QED
    BY <1>0, <2>1 DEF IsMoved
<1> HIDE DEF t, n
<1>3. DOMAIN t = 1 .. n
  BY <1>2, LenProperties
<1>4. \A k \in 1 .. n - 1 : Shift(i, k) \in 1 .. n /\ Shift(i, k) # i
  BY <1>1 DEF Shift
<1>5. \A j, k \in 1 .. n - 1 : Shift(i, j) = Shift(i, k) => j = k
  BY <1>1 DEF Shift
<1>6. \A j, k \in 1 .. n : s[j] = s[k] => j = k
  BY <1>1 DEF Distinct
<1>7. \A j \in 1 .. n : j = n \/ j \in 1 .. n - 1
  BY <1>1
<1>8. ASSUME NEW j \in 1 .. n, NEW k \in 1 .. n, t[j] = t[k] PROVE j = k
  <2>1. CASE j = n /\ k = n
    BY <2>1
  <2>2. CASE j = n /\ k \in 1 .. n - 1
    <3>1. Shift(i, k) \in 1 .. n /\ Shift(i, k) # i
      BY <1>4, <2>2
    <3>2. s[i] = s[Shift(i, k)]
      BY <1>2, <1>8, <2>2
    <3>3. QED
      BY <1>1, <1>6, <3>1, <3>2
  <2>3. CASE j \in 1 .. n - 1 /\ k = n
    <3>1. Shift(i, j) \in 1 .. n /\ Shift(i, j) # i
      BY <1>4, <2>3
    <3>2. s[i] = s[Shift(i, j)]
      BY <1>2, <1>8, <2>3
    <3>3. QED
      BY <1>1, <1>6, <3>1, <3>2
  <2>4. CASE j \in 1 .. n - 1 /\ k \in 1 .. n - 1
    BY <1>2, <1>4, <1>5, <1>6, <1>8, <2>4
  <2>5. QED
    BY <1>7, <2>1, <2>2, <2>3, <2>4
<1>9. QED
  BY <1>0, <1>3, <1>8 DEF Distinct, t

\* The sequence without its first element, and another at its end.
IsShifted(t, s, e, S) ==
  /\ t \in Seq(S) /\ Len(t) = Len(s)
  /\ \A k \in 1 .. Len(s) - 1 : t[k] = s[k + 1]
  /\ t[Len(s)] = e

LEMMA ShiftedElements ==
  ASSUME NEW S, NEW s \in Seq(S), s # <<>>, NEW e \in S
  PROVE  IsShifted(Append(Tail(s), e), s, e, S)
<1> DEFINE t == Tail(s)
           n == Len(s)
           r == Append(t, e)
<1>1. n \in Nat /\ n >= 1
  BY LenProperties, EmptySeq
<1>2. t \in Seq(S) /\ Len(t) = n - 1 /\ \A k \in 1 .. n - 1 : t[k] = s[k + 1]
  <2>1. Tail(s) \in Seq(S) /\ Len(Tail(s)) = Len(s) - 1
        /\ \A k \in 1 .. Len(Tail(s)) : Tail(s)[k] = s[k + 1]
    BY HeadTailProperties
  <2>2. QED
    BY <2>1
<1> HIDE DEF t, n
<1>3. /\ r \in Seq(S) /\ Len(r) = n
      /\ \A k \in 1 .. n - 1 : r[k] = t[k]
      /\ r[n] = e
  <2>1. /\ r \in Seq(S) /\ Len(r) = Len(t) + 1
        /\ \A k \in 1 .. Len(t) : r[k] = t[k]
        /\ r[Len(t) + 1] = e
    BY <1>2, AppendProperties
  <2>2. Len(t) + 1 = n
    BY <1>1, <1>2
  <2>3. QED
    BY <1>2, <2>1, <2>2
<1>4. QED
  BY <1>2, <1>3 DEF IsShifted, t, n

-----------------------------------------------------------------------------
(* Sequences that are joined, and the beginning of one. *)

\* f[n] is the first n of the sequences, one after the other.
IsFlat(f, seqs, S) ==
  /\ f \in [0 .. Len(seqs) -> Seq(S)] /\ f[0] = <<>>
  /\ \A n \in 1 .. Len(seqs) : f[n] = f[n - 1] \o seqs[n]

\* There is such a function, and FlattenSeq is its last value.
LEMMA FlatExists ==
  ASSUME NEW S, NEW seqs \in Seq(Seq(S))
  PROVE  \E f : IsFlat(f, seqs, S)
<1> DEFINE N == Len(seqs)
           V == Seq(S)
<1>1. N \in Nat /\ (\A n \in 1 .. N : seqs[n] \in V) /\ <<>> \in V
  BY LenProperties, ElementOfSeq
<1> DEFINE step == [n \in 1 .. N |-> [s \in V |-> s \o seqs[n]]]
<1>2. step \in Steps(N, V)
  <2>1. \A n \in 1 .. N : \A s \in V : s \o seqs[n] \in V
    BY <1>1, ConcatProperties
  <2> HIDE DEF V, N
  <2>2. QED
    BY <2>1 DEF Steps
<1>3. \A s \in V, n \in 1 .. N : step[n][s] = s \o seqs[n]
  OBVIOUS
<1> HIDE DEF step, N, V
<1>4. PICK f \in [0 .. N -> V] : f[0] = <<>> /\ \A n \in 1 .. N : f[n] = step[n][f[n - 1]]
  <2>1. N \in Nat
    BY <1>1
  <2>2. <<>> \in V
    BY <1>1
  <2>3. \E f : IsPath(f, N, V, <<>>, step)
    BY <1>2, <2>1, <2>2, PathExists
  <2>4. QED
    BY <2>3 DEF IsPath
<1>5. \A n \in 1 .. N : f[n] = f[n - 1] \o seqs[n]
  <2>1. \A n \in 1 .. N : n - 1 \in 0 .. N
    BY <1>1
  <2>2. \A n \in 1 .. N : f[n - 1] \in V
    BY <1>4, <2>1
  <2>3. QED
    BY <1>3, <1>4, <2>2
<1>6. QED
  BY <1>4, <1>5 DEF IsFlat, N, V

LEMMA FlatIsLast ==
  ASSUME NEW S, NEW seqs \in Seq(Seq(S)), NEW f, IsFlat(f, seqs, S)
  PROVE  FlattenSeq(seqs) = f[Len(seqs)]
<1> DEFINE N == Len(seqs)
<1>1. N \in Nat /\ (\A n \in 1 .. N : seqs[n] \in Seq(S)) /\ \A n \in 0 .. N : f[n] \in Seq(S)
  BY LenProperties, ElementOfSeq DEF IsFlat
<1>2. f[0] = <<>> /\ \A n \in 1 .. N : f[n] = f[n - 1] \o seqs[n]
  BY DEF IsFlat
<1>3. CASE N = 0
  <2>1. seqs = <<>> /\ FlattenSeq(seqs) = seqs
    BY <1>3, EmptySeq DEF FlattenSeq
  <2>2. QED
    BY <1>2, <1>3, <2>1
<1>4. CASE N # 0
  <2> DEFINE h == [n \in 1 .. N |-> f[n]]
             v == CHOOSE g : g = [i \in 1 .. N |-> IF i = 1 THEN seqs[i] ELSE g[i - 1] \o seqs[i]]
             T == {n \in 0 .. N : n = 0 \/ v[n] = f[n]}
  <2>1. f[1] = seqs[1]
    <3>1. 1 \in 1 .. N
      BY <1>1, <1>4
    <3>2. f[1] = f[1 - 1] \o seqs[1]
      BY <1>2, <3>1
    <3>3. f[1 - 1] = <<>>
      BY <1>2
    <3>4. QED
      BY <1>1, <3>1, <3>2, <3>3, ConcatEmptySeq
  <2>2. h = [i \in 1 .. N |-> IF i = 1 THEN seqs[i] ELSE h[i - 1] \o seqs[i]]
    <3>1. ASSUME NEW i \in 1 .. N PROVE h[i] = IF i = 1 THEN seqs[i] ELSE h[i - 1] \o seqs[i]
      <4>1. CASE i = 1
        BY <2>1, <4>1
      <4>2. CASE i # 1
        <5>1. i - 1 \in 1 .. N
          BY <1>1, <4>2
        <5>2. h[i] = f[i] /\ h[i - 1] = f[i - 1]
          BY <5>1
        <5> HIDE DEF h
        <5>3. QED
          BY <1>2, <4>2, <5>2
      <4>3. QED
        BY <4>1, <4>2
    <3>2. h = [i \in 1 .. N |-> h[i]]
      OBVIOUS
    <3> HIDE DEF h
    <3>3. QED
      BY <3>1, <3>2
  <2> HIDE DEF h
  <2>3. v = [i \in 1 .. N |-> IF i = 1 THEN seqs[i] ELSE v[i - 1] \o seqs[i]]
    BY <2>2
  <2>4. FlattenSeq(seqs) = v[N]
    BY <1>4 DEF FlattenSeq
  <2> HIDE DEF v
  <2>5. ASSUME NEW n \in 1 .. N, n - 1 \in T PROVE n \in T
    <3>1. CASE n = 1
      BY <2>1, <2>3, <3>1
    <3>2. CASE n # 1
      <4>1. n - 1 # 0 /\ v[n - 1] = f[n - 1]
        BY <1>1, <2>5, <3>2
      <4>2. v[n] = v[n - 1] \o seqs[n]
        BY <2>3, <3>2
      <4>3. f[n] = f[n - 1] \o seqs[n]
        BY <1>2
      <4>4. v[n] = f[n]
        BY <4>1, <4>2, <4>3
      <4>5. QED
        BY <4>4
    <3>3. QED
      BY <3>1, <3>2
  <2>6. N \in T
    <3>1. 0 \in T
      BY <1>1
    <3>2. \A n \in 1 .. N : n - 1 \in T => n \in T
      BY <2>5
    <3> HIDE DEF T, N
    <3>3. N \in Nat
      BY <1>1
    <3>4. QED
      BY <3>1, <3>2, <3>3, UpTo
  <2>7. QED
    BY <1>4, <2>4, <2>6
<1>5. QED
  BY <1>3, <1>4

\* Joining one more.
LEMMA FlattenAppend ==
  ASSUME NEW S, NEW seqs \in Seq(Seq(S)), NEW x \in Seq(S)
  PROVE  /\ FlattenSeq(seqs) \in Seq(S)
         /\ FlattenSeq(Append(seqs, x)) = FlattenSeq(seqs) \o x
<1> DEFINE N == Len(seqs)
           V == Seq(S)
           all == Append(seqs, x)
<1>1. N \in Nat
  BY LenProperties
<1>2. /\ all \in Seq(V) /\ Len(all) = N + 1
      /\ \A n \in 1 .. N : all[n] = seqs[n]
      /\ all[N + 1] = x
  BY AppendProperties
<1>3. PICK f : IsFlat(f, all, S)
  <2> HIDE DEF all
  <2>1. QED
    BY <1>2, FlatExists
<1>4. /\ f \in [0 .. N + 1 -> V] /\ f[0] = <<>>
      /\ \A n \in 1 .. N + 1 : f[n] = f[n - 1] \o all[n]
  BY <1>2, <1>3 DEF IsFlat
<1> DEFINE g == [n \in 0 .. N |-> f[n]]
<1>5. IsFlat(g, seqs, S)
  <2>1. \A n \in 0 .. N : n \in 0 .. N + 1
    BY <1>1
  <2>2. g \in [0 .. N -> V] /\ g[0] = <<>> /\ \A n \in 0 .. N : g[n] = f[n]
    <3> HIDE DEF V, N
    <3>1. QED
      BY <1>1, <1>4, <2>1
  <2>3. ASSUME NEW n \in 1 .. N PROVE g[n] = g[n - 1] \o seqs[n]
    <3>1. n \in 0 .. N /\ n - 1 \in 0 .. N /\ n \in 1 .. N + 1
      BY <1>1
    <3>2. g[n] = f[n] /\ g[n - 1] = f[n - 1] /\ all[n] = seqs[n]
      BY <1>2, <2>2, <3>1
    <3>3. f[n] = f[n - 1] \o all[n]
      BY <1>4, <3>1
    <3> HIDE DEF g, all, N
    <3>4. QED
      BY <3>2, <3>3
  <2> HIDE DEF g
  <2>4. QED
    BY <2>2, <2>3 DEF IsFlat
<1>6. FlattenSeq(seqs) = g[N] /\ g[N] = f[N]
  <2>1. g[N] = f[N]
    BY <1>1
  <2> HIDE DEF g
  <2>2. QED
    BY <1>5, <2>1, FlatIsLast
<1>7. FlattenSeq(all) = f[N + 1]
  <2> HIDE DEF all, N
  <2>1. FlattenSeq(all) = f[Len(all)]
    BY <1>2, <1>3, FlatIsLast DEF V
  <2>2. QED
    BY <1>2, <2>1
<1>8. f[N + 1] = f[N] \o x /\ f[N] \in V
  <2> HIDE DEF all, N, V
  <2>1. N + 1 \in 1 .. N + 1 /\ N + 1 - 1 = N /\ N \in 0 .. N + 1
    BY <1>1
  <2>2. f[N + 1] = f[N] \o all[N + 1]
    <3> DEFINE M == N + 1
    <3>1. M \in 1 .. M /\ \A n \in 1 .. M : f[n] = f[n - 1] \o all[n]
      BY <1>4, <2>1
    <3> HIDE DEF M
    <3>2. f[M] = f[M - 1] \o all[M]
      BY <3>1
    <3>3. M = N + 1 /\ M - 1 = N
      BY <2>1 DEF M
    <3>4. QED
      BY <3>2, <3>3
  <2>3. f[N] \in V
    <3>1. f \in [0 .. N + 1 -> V] /\ N \in 0 .. N + 1
      BY <1>4, <2>1
    <3>2. QED
      BY <3>1
  <2>4. QED
    BY <1>2, <2>2, <2>3
<1> HIDE DEF g
<1>9. QED
  BY <1>6, <1>7, <1>8

\* The first n elements.
LEMMA PrefixGrows ==
  ASSUME NEW S, NEW s \in Seq(S), NEW n \in 1 .. Len(s)
  PROVE  SubSeq(s, 1, n) = Append(SubSeq(s, 1, n - 1), s[n])
<1> DEFINE a == SubSeq(s, 1, n)
           b == SubSeq(s, 1, n - 1)
           c == Append(b, s[n])
<1>1. Len(s) \in Nat /\ n \in Int /\ n - 1 \in Int /\ \A i \in 1 .. n : s[i] \in S
  BY LenProperties, ElementOfSeq
<1>2. /\ a \in Seq(S) /\ Len(a) = n /\ \A i \in 1 .. n : a[i] = s[i]
  <2>1. /\ a \in Seq(S) /\ Len(a) = IF 1 <= n THEN n - 1 + 1 ELSE 0
        /\ \A i \in 1 .. n - 1 + 1 : a[i] = s[1 + i - 1]
    BY <1>1, SubSeqProperties
  <2>2. n - 1 + 1 = n /\ 1 <= n /\ \A i \in 1 .. n : 1 + i - 1 = i
    BY <1>1
  <2> HIDE DEF a
  <2>3. QED
    BY <2>1, <2>2
<1>3. /\ b \in Seq(S) /\ Len(b) = n - 1 /\ \A i \in 1 .. n - 1 : b[i] = s[i]
  <2>1. \A i \in 1 .. n - 1 : s[i] \in S
    BY <1>1
  <2>2. /\ b \in Seq(S) /\ Len(b) = IF 1 <= n - 1 THEN n - 1 - 1 + 1 ELSE 0
        /\ \A i \in 1 .. n - 1 - 1 + 1 : b[i] = s[1 + i - 1]
    BY <1>1, <2>1, SubSeqProperties
  <2>3. n - 1 - 1 + 1 = n - 1 /\ (1 <= n - 1 \/ n - 1 = 0) /\ \A i \in 1 .. n - 1 : 1 + i - 1 = i
    BY <1>1
  <2> HIDE DEF b
  <2>4. QED
    BY <2>2, <2>3
<1> HIDE DEF a, b
<1>4. /\ c \in Seq(S) /\ Len(c) = n /\ \A i \in 1 .. n - 1 : c[i] = s[i]
      /\ c[n] = s[n]
  <2>1. s[n] \in S
    BY <1>1
  <2>2. /\ c \in Seq(S) /\ Len(c) = Len(b) + 1
        /\ \A i \in 1 .. Len(b) : c[i] = b[i]
        /\ c[Len(b) + 1] = s[n]
    BY <1>3, <2>1, AppendProperties
  <2>3. Len(b) + 1 = n
    BY <1>1, <1>3
  <2> HIDE DEF c
  <2>4. QED
    BY <1>3, <2>2, <2>3
<1> HIDE DEF c
<1>5. \A i \in 1 .. Len(a) : a[i] = c[i]
  <2>1. \A i \in 1 .. n : i = n \/ i \in 1 .. n - 1
    BY <1>1
  <2>2. QED
    BY <1>2, <1>4, <2>1
<1>6. a = c
  BY <1>2, <1>4, <1>5, SeqEqual
<1>7. QED
  BY <1>6 DEF a, b, c

-----------------------------------------------------------------------------
(* Requests in flight. *)

\* The latest request of these kinds: a set of at most one.
Latest(s, kinds) ==
  {s[i] : i \in {k \in DOMAIN s :
                   s[k].kind \in kinds
                   /\ \A j \in DOMAIN s : j > k => s[j].kind \notin kinds}}

\* With a request of another kind over, the latest one stays.
LEMMA LatestOtherOver ==
  ASSUME NEW S, NEW s \in Seq(S), NEW i \in DOMAIN s, NEW kinds, s[i].kind \notin kinds
  PROVE  Latest(RemoveAt(s, i), kinds) = Latest(s, kinds)
<1> DEFINE t == RemoveAt(s, i)
<1>1. /\ DOMAIN t = 1 .. Len(s) - 1 /\ DOMAIN s = 1 .. Len(s) /\ Len(s) \in Nat
      /\ \A k \in DOMAIN t : Shift(i, k) \in DOMAIN s /\ t[k] = s[Shift(i, k)]
  BY RemoveAtElements, LenProperties
<1>2. \A j \in DOMAIN s : j # i => \E k \in DOMAIN t : Shift(i, k) = j
  BY RemoveAtOthers
<1> HIDE DEF t
<1>3. \A k, m \in DOMAIN t : k > m <=> Shift(i, k) > Shift(i, m)
  BY <1>1 DEF Shift
<1>4. ASSUME NEW k \in DOMAIN t, t[k].kind \in kinds,
             \A m \in DOMAIN t : m > k => t[m].kind \notin kinds
      PROVE  t[k] \in Latest(s, kinds)
  <2>1. \A j \in DOMAIN s : j > Shift(i, k) => s[j].kind \notin kinds
    BY <1>1, <1>2, <1>3, <1>4
  <2>2. QED
    BY <1>1, <1>4, <2>1 DEF Latest
<1>5. ASSUME NEW j \in DOMAIN s, s[j].kind \in kinds,
             \A m \in DOMAIN s : m > j => s[m].kind \notin kinds
      PROVE  s[j] \in Latest(t, kinds)
  <2>1. PICK k \in DOMAIN t : Shift(i, k) = j
    BY <1>2, <1>5
  <2>2. \A m \in DOMAIN t : m > k => t[m].kind \notin kinds
    BY <1>1, <1>3, <1>5, <2>1
  <2>3. QED
    BY <1>1, <1>5, <2>1, <2>2 DEF Latest
<1>6. QED
  BY <1>4, <1>5 DEF Latest, t

\* With the earliest of these kinds over, the latest one stays, unless it was it.
LEMMA LatestOver ==
  ASSUME NEW S, NEW s \in Seq(S), NEW i \in DOMAIN s, NEW kinds, s[i].kind \in kinds,
         \A j \in 1 .. i - 1 : s[j].kind \notin kinds
  PROVE  \/ Latest(RemoveAt(s, i), kinds) = Latest(s, kinds)
         \/ Latest(RemoveAt(s, i), kinds) = {} /\ Latest(s, kinds) = {s[i]}
<1> DEFINE t == RemoveAt(s, i)
<1>1. /\ DOMAIN t = 1 .. Len(s) - 1 /\ DOMAIN s = 1 .. Len(s) /\ Len(s) \in Nat
      /\ \A k \in DOMAIN t : Shift(i, k) \in DOMAIN s /\ t[k] = s[Shift(i, k)]
  BY RemoveAtElements, LenProperties
<1>2. \A j \in DOMAIN s : j # i => \E k \in DOMAIN t : Shift(i, k) = j
  BY RemoveAtOthers
<1> HIDE DEF t
<1>3. \A k, m \in DOMAIN t : k > m <=> Shift(i, k) > Shift(i, m)
  BY <1>1 DEF Shift
<1>4. \A k \in DOMAIN t : t[k].kind \in kinds => Shift(i, k) > i
  BY <1>1 DEF Shift
<1>5. CASE \A j \in DOMAIN s : j > i => s[j].kind \notin kinds
  <2>1. \A j \in DOMAIN s : s[j].kind \in kinds => j = i
    BY <1>1, <1>5
  <2>2. Latest(s, kinds) = {s[i]}
    BY <1>5, <2>1 DEF Latest
  <2>3. \A k \in DOMAIN t : t[k].kind \notin kinds
    BY <1>1, <1>4, <1>5
  <2>4. QED
    BY <2>2, <2>3 DEF Latest, t
<1>6. CASE \E j \in DOMAIN s : j > i /\ s[j].kind \in kinds
  <2>1. ASSUME NEW k \in DOMAIN t, t[k].kind \in kinds,
               \A m \in DOMAIN t : m > k => t[m].kind \notin kinds
        PROVE  t[k] \in Latest(s, kinds)
    <3>1. \A j \in DOMAIN s : j > Shift(i, k) => s[j].kind \notin kinds
      BY <1>1, <1>2, <1>3, <1>4, <2>1
    <3>2. QED
      BY <1>1, <2>1, <3>1 DEF Latest
  <2>2. ASSUME NEW j \in DOMAIN s, s[j].kind \in kinds,
               \A m \in DOMAIN s : m > j => s[m].kind \notin kinds
        PROVE  s[j] \in Latest(t, kinds)
    <3>1. j # i
      BY <1>6, <2>2
    <3>2. PICK k \in DOMAIN t : Shift(i, k) = j
      BY <1>2, <2>2, <3>1
    <3>3. \A m \in DOMAIN t : m > k => t[m].kind \notin kinds
      BY <1>1, <1>3, <2>2, <3>2
    <3>4. QED
      BY <1>1, <2>2, <3>2, <3>3 DEF Latest
  <2>3. QED
    BY <2>1, <2>2 DEF Latest, t
<1>7. QED
  BY <1>5, <1>6

\* A request that is sent is the latest of its kind and of no other.
LEMMA LatestSent ==
  ASSUME NEW S, NEW s \in Seq(S), NEW r \in S, NEW kinds
  PROVE  /\ r.kind \in kinds => Latest(Append(s, r), kinds) = {r}
         /\ r.kind \notin kinds => Latest(Append(s, r), kinds) = Latest(s, kinds)
<1> DEFINE t == Append(s, r)
<1>1. /\ DOMAIN t = 1 .. Len(s) + 1 /\ DOMAIN s = 1 .. Len(s) /\ Len(s) \in Nat
      /\ t[Len(s) + 1] = r /\ \A k \in DOMAIN s : t[k] = s[k]
  BY AppendProperties, LenProperties
<1> HIDE DEF t
<1>2. ASSUME r.kind \in kinds PROVE Latest(t, kinds) = {r}
  BY <1>1, <1>2 DEF Latest
<1>3. ASSUME r.kind \notin kinds PROVE Latest(t, kinds) = Latest(s, kinds)
  <2>1. {k \in DOMAIN t : t[k].kind \in kinds
                           /\ \A j \in DOMAIN t : j > k => t[j].kind \notin kinds}
          = {k \in DOMAIN s : s[k].kind \in kinds
                               /\ \A j \in DOMAIN s : j > k => s[j].kind \notin kinds}
    BY <1>1, <1>3
  <2>2. QED
    BY <1>1, <2>1 DEF Latest
<1>4. QED
  BY <1>2, <1>3 DEF t

\* While a request of these kinds is in flight there is a latest one.
LEMMA LatestExists ==
  ASSUME NEW S, NEW s \in Seq(S), NEW kinds, NEW i \in DOMAIN s, s[i].kind \in kinds
  PROVE  Latest(s, kinds) # {}
<1> DEFINE T == {Len(s) - k : k \in {j \in DOMAIN s : s[j].kind \in kinds}}
<1>1. DOMAIN s = 1 .. Len(s) /\ Len(s) \in Nat
  BY LenProperties
<1>2. T \subseteq Nat /\ T # {}
  BY <1>1
<1>3. PICK x \in T : \A y \in T : x <= y
  BY <1>2, LeastNat
<1>4. PICK k \in DOMAIN s : s[k].kind \in kinds /\ x = Len(s) - k
  BY <1>3
<1>5. ASSUME NEW j \in DOMAIN s, j > k, s[j].kind \in kinds PROVE FALSE
  <2>1. Len(s) - j \in T
    BY <1>5
  <2>2. ~ (x <= Len(s) - j)
    BY <1>1, <1>4, <1>5
  <2>3. QED
    BY <1>3, <2>1, <2>2
<1>6. s[k] \in Latest(s, kinds)
  BY <1>4, <1>5 DEF Latest
<1>7. QED
  BY <1>6

=============================================================================
