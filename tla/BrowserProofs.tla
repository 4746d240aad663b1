---------------------------- MODULE BrowserProofs ----------------------------
(***************************************************************************)
(* Theorems about Browser: for any sessions, filters, page size and number *)
(* of requests in flight, the side bar, the panel and the messages show    *)
(* what was selected, under the conditions the properties name.            *)
(***************************************************************************)
EXTENDS Browser, SequenceLemmas, FiniteSetTheorems, TLAPS

-----------------------------------------------------------------------------
(* The order of the list. *)

\* The orders of a set: functions that list it upwards.
Orders(S) ==
  {q \in [1 .. Cardinality(S) -> S] :
     Range(q) = S /\ \A i, j \in DOMAIN q : i < j => q[i] < q[j]}

\* The order of a set begins with its least element.
LEMMA OrderFrom ==
  ASSUME NEW S \in SUBSET Nat, IsFiniteSet(S), NEW m \in S, \A x \in S : m <= x,
         NEW q \in Orders(S \ {m})
  PROVE  [i \in 1 .. Cardinality(S) |-> IF i = 1 THEN m ELSE q[i - 1]] \in Orders(S)
<1> DEFINE n == Cardinality(S)
           r == [i \in 1 .. n |-> IF i = 1 THEN m ELSE q[i - 1]]
<1>1. n \in Nat \ {0} /\ Cardinality(S \ {m}) = n - 1
  <2>1. n \in Nat
    BY FS_CardinalityType
  <2>2. n # 0
    BY FS_EmptySet
  <2>3. Cardinality(S \ {m}) = n - 1
    BY FS_RemoveElement
  <2>4. QED
    BY <2>1, <2>2, <2>3
<1> HIDE DEF n
<1>2. /\ q \in [1 .. n - 1 -> S \ {m}] /\ Range(q) = S \ {m} /\ DOMAIN q = 1 .. n - 1
      /\ \A i, j \in 1 .. n - 1 : i < j => q[i] < q[j]
  BY <1>1 DEF Orders
<1>3. \A i \in 1 .. n : i # 1 => i - 1 \in 1 .. n - 1
  BY <1>1
<1>4. r \in [1 .. n -> S]
  BY <1>2, <1>3
<1>5. Range(r) = S
  <2>1. ASSUME NEW x \in S PROVE \E i \in 1 .. n : r[i] = x
    <3>1. CASE x = m
      BY <1>1, <3>1
    <3>2. CASE x # m
      <4>1. PICK i \in 1 .. n - 1 : q[i] = x
        BY <1>2, <3>2 DEF Range
      <4>2. i + 1 \in 1 .. n /\ i + 1 # 1 /\ (i + 1) - 1 = i
        BY <1>1
      <4>3. QED
        BY <4>1, <4>2
    <3>3. QED
      BY <3>1, <3>2
  <2>2. DOMAIN r = 1 .. n /\ \A i \in 1 .. n : r[i] \in S
    BY <1>4
  <2> HIDE DEF r
  <2>3. QED
    BY <2>1, <2>2 DEF Range
<1>6. ASSUME NEW i \in 1 .. n, NEW j \in 1 .. n, i < j PROVE r[i] < r[j]
  <2>1. j # 1 /\ j - 1 \in 1 .. n - 1 /\ r[j] = q[j - 1]
    BY <1>1, <1>6
  <2>2. CASE i = 1
    <3>1. q[j - 1] \in S \ {m} /\ r[i] = m
      BY <1>2, <2>1, <2>2
    <3>2. m <= q[j - 1] /\ m \in Nat /\ q[j - 1] \in Nat /\ q[j - 1] # m
      BY <3>1
    <3>3. m < q[j - 1]
      BY <3>2
    <3>4. QED
      BY <2>1, <3>1, <3>3
  <2>3. CASE i # 1
    <3>1. i - 1 \in 1 .. n - 1 /\ i - 1 < j - 1 /\ r[i] = q[i - 1]
      BY <1>1, <1>6, <2>3
    <3>2. QED
      BY <1>2, <2>1, <3>1
  <2>4. QED
    BY <2>2, <2>3
<1>7. QED
  BY <1>4, <1>5, <1>6 DEF Orders, n

\* Every finite set of numbers has an order: one without would have a least size.
LEMMA OrderExists ==
  ASSUME NEW S \in SUBSET Nat, IsFiniteSet(S)
  PROVE  Orders(S) # {}
<1> DEFINE Bad == {Cardinality(T) : T \in {X \in SUBSET S : Orders(X) = {}}}
<1>1. SUFFICES ASSUME Orders(S) = {} PROVE FALSE
  OBVIOUS
<1>2. \A T \in SUBSET S : T \subseteq Nat /\ IsFiniteSet(T) /\ Cardinality(T) \in Nat
  BY FS_Subset, FS_CardinalityType
<1>3. Bad \subseteq Nat /\ Bad # {}
  BY <1>1, <1>2
<1>4. PICK n \in Bad : \A k \in Bad : n <= k
  BY <1>3, LeastNat
<1>5. PICK T \in SUBSET S : Orders(T) = {} /\ n = Cardinality(T)
  BY <1>4
<1>6. T # {}
  <2>1. SUFFICES ASSUME T = {} PROVE FALSE
    OBVIOUS
  <2>2. Cardinality(T) = 0 /\ 1 .. 0 = {}
    BY <2>1, FS_EmptySet
  <2>3. [i \in {} |-> i] \in Orders(T)
    BY <2>1, <2>2 DEF Orders, Range
  <2>4. QED
    BY <1>5, <2>3
<1>7. PICK m \in T : \A x \in T : m <= x
  BY <1>2, <1>6, LeastNat
<1>8. T \ {m} \in SUBSET S /\ Cardinality(T \ {m}) = Cardinality(T) - 1
  BY <1>2, FS_RemoveElement
<1>9. Orders(T \ {m}) # {}
  <2>1. Cardinality(T \ {m}) \in Nat /\ ~ (n <= Cardinality(T \ {m}))
    BY <1>2, <1>5, <1>8
  <2>2. QED
    BY <1>4, <1>8, <2>1
<1>10. QED
  <2>1. PICK q : q \in Orders(T \ {m})
    BY <1>9
  <2>2. QED
    BY <1>2, <1>5, <1>7, <2>1, OrderFrom

\* Two orders of a set agree: at the first place where they do not, each would
\* have the smaller element.
LEMMA OrderUnique ==
  ASSUME NEW S \in SUBSET Nat, IsFiniteSet(S), NEW q \in Orders(S), NEW r \in Orders(S)
  PROVE  q = r
<1> DEFINE n == Cardinality(S)
           D == {i \in 1 .. n : q[i] # r[i]}
<1>1. /\ q \in [1 .. n -> S] /\ r \in [1 .. n -> S] /\ Range(q) = S /\ Range(r) = S
      /\ \A i, j \in 1 .. n : i < j => q[i] < q[j] /\ r[i] < r[j]
  BY DEF Orders
<1>2. n \in Nat
  BY FS_CardinalityType
<1> HIDE DEF n
<1>3. SUFFICES ASSUME q # r PROVE FALSE
  OBVIOUS
<1>4. D \subseteq Nat /\ D # {}
  BY <1>1, <1>2, <1>3
<1>5. PICK k \in D : \A i \in D : k <= i
  BY <1>4, LeastNat
<1>6. \A i \in 1 .. n : i < k => q[i] = r[i]
  BY <1>4, <1>5
<1>7. k \in 1 .. n /\ q[k] # r[k] /\ q[k] \in Nat /\ r[k] \in Nat
  BY <1>1, <1>5
<1> HIDE DEF D
<1>8. r[k] < q[k]
  <2>1. PICK j \in 1 .. n : r[j] = q[k]
    BY <1>1, <1>7 DEF Range
  <2>2. j < k => q[j] = q[k] /\ q[j] < q[k]
    BY <1>1, <1>6, <1>7, <2>1
  <2>3. j # k
    BY <1>7, <2>1
  <2>4. k < j
    BY <1>2, <1>7, <2>2, <2>3
  <2>5. QED
    BY <1>1, <1>7, <2>1, <2>4
<1>9. q[k] < r[k]
  <2>1. PICK j \in 1 .. n : q[j] = r[k]
    BY <1>1, <1>7 DEF Range
  <2>2. j < k => r[j] = r[k] /\ r[j] < r[k]
    BY <1>1, <1>6, <1>7, <2>1
  <2>3. j # k
    BY <1>7, <2>1
  <2>4. k < j
    BY <1>2, <1>7, <2>2, <2>3
  <2>5. QED
    BY <1>1, <1>7, <2>1, <2>4
<1>10. QED
  BY <1>7, <1>8, <1>9

\* What the server lists is the set in its order.
LEMMA InOrderIs ==
  ASSUME NEW S \in SUBSET Nat, IsFiniteSet(S)
  PROVE  /\ InOrder(S) \in Orders(S)
         /\ InOrder(S) \in Seq(S) /\ Len(InOrder(S)) = Cardinality(S)
         /\ Cardinality(S) \in Nat
<1> DEFINE n == Cardinality(S)
<1>1. n \in Nat
  BY FS_CardinalityType
<1>2. InOrder(S) \in Orders(S)
  BY OrderExists DEF InOrder, Orders
<1>3. InOrder(S) \in [1 .. n -> S]
  BY <1>2 DEF Orders
<1> HIDE DEF n
<1>4. InOrder(S) \in Seq(S) /\ Len(InOrder(S)) = n
  BY <1>1, <1>3
<1>5. QED
  BY <1>1, <1>2, <1>4 DEF n

\* What comes after an element in the order of a set is in the order of the rest.
LEMMA InOrderAfter ==
  ASSUME NEW S \in SUBSET Nat, IsFiniteSet(S), NEW k \in 1 .. Cardinality(S)
  PROVE  LET q == InOrder(S) T == {x \in S : x > q[k]}
         IN  /\ Len(InOrder(T)) = Len(q) - k
             /\ \A j \in 1 .. Len(q) - k : InOrder(T)[j] = q[k + j]
<1> DEFINE q == InOrder(S)
           T == {x \in S : x > q[k]}
           n == Cardinality(S)
           r == [j \in 1 .. n - k |-> q[k + j]]
<1>1. /\ q \in [1 .. n -> S] /\ Range(q) = S /\ DOMAIN q = 1 .. n
      /\ \A i, j \in 1 .. n : i < j => q[i] < q[j]
      /\ n \in Nat /\ Len(q) = n
  BY InOrderIs DEF Orders
<1> HIDE DEF q, n
<1>2. k \in 1 .. n /\ q[k] \in S /\ n - k \in Nat
  BY <1>1 DEF n
<1>3. \A j \in 1 .. n - k : k + j \in 1 .. n /\ k < k + j
  BY <1>1, <1>2
<1>4. r \in [1 .. n - k -> T]
  BY <1>1, <1>2, <1>3
<1>5. \A i, j \in 1 .. n - k : i < j => r[i] < r[j]
  <2>1. \A i, j \in 1 .. n - k : i < j => k + i < k + j
    BY <1>2
  <2>2. QED
    BY <1>1, <1>3, <2>1
<1>6. ASSUME NEW x \in T PROVE \E j \in 1 .. n - k : r[j] = x
  <2>1. PICK i \in 1 .. n : q[i] = x
    BY <1>1 DEF Range
  <2>2. k < i
    <3>1. x > q[k] /\ x \in Nat /\ q[k] \in Nat
      BY <1>2
    <3>2. i # k
      BY <2>1, <3>1
    <3>3. i < k => x < q[k]
      BY <1>1, <1>2, <2>1
    <3>4. QED
      BY <1>2, <3>1, <3>2, <3>3
  <2>3. i - k \in 1 .. n - k /\ k + (i - k) = i
    BY <1>1, <1>2, <2>2
  <2>4. QED
    BY <2>1, <2>3
<1>7. Range(r) = T /\ DOMAIN r = 1 .. n - k
  BY <1>4, <1>6 DEF Range
<1>8. Cardinality(T) = n - k
  <2>1. \A i, j \in 1 .. n - k : r[i] = r[j] => i = j
    <3>1. \A i, j \in 1 .. n - k : i < j \/ j < i \/ i = j
      OBVIOUS
    <3>2. \A i \in 1 .. n - k : r[i] \in Nat
      BY <1>4
    <3>3. QED
      BY <1>5, <3>1, <3>2
  <2>2. r \in Bijection(1 .. n - k, T)
    BY <1>4, <1>6, <2>1 DEF Bijection, Injection, Surjection, IsInjective
  <2>3. ExistsBijection(1 .. n - k, T)
    BY <2>2 DEF ExistsBijection
  <2>4. QED
    BY <1>2, <2>3, FS_CountingElements
<1>9. r \in Orders(T)
  BY <1>4, <1>5, <1>7, <1>8 DEF Orders
<1>10. T \subseteq Nat /\ IsFiniteSet(T)
  BY FS_Subset
<1>11. InOrder(T) = r /\ Len(InOrder(T)) = n - k
  BY <1>8, <1>9, <1>10, InOrderIs, OrderUnique
<1>12. QED
  BY <1>1, <1>11 DEF q

-----------------------------------------------------------------------------
(* The pages of the server. *)

\* The list holds the first rows of a filter setting; the cursor is the last of
\* them while there are more.
Shows(l, c, f) ==
  /\ l \in Seq(Sessions)
  /\ Len(l) <= Len(Rows(f))
  /\ \A i \in 1 .. Len(l) : l[i] = Rows(f)[i]
  /\ IF Len(l) = Len(Rows(f)) THEN c = None
                              ELSE Len(l) > 0 /\ c = Rows(f)[Len(l)]

\* What the server lists after a cursor: sessions of the filters, numbered higher.
LEMMA AfterIs ==
  ASSUME NEW f \in Filters, NEW c \in Sessions \cup {None}
  PROVE  /\ {s \in Matches[f] : s > c} \in SUBSET Nat
         /\ IsFiniteSet({s \in Matches[f] : s > c})
         /\ After(f, c) \in Seq(Sessions) /\ Len(After(f, c)) \in Nat
         /\ \A i \in 1 .. Len(After(f, c)) : After(f, c)[i] \in Sessions /\ After(f, c)[i] > c
<1> DEFINE S == {s \in Matches[f] : s > c}
<1>1. S \subseteq Sessions /\ S \in SUBSET Nat
  BY SessionsAssumption, MatchesAssumption
<1>2. IsFiniteSet(S)
  BY <1>1, SessionsAssumption, FS_Subset
<1>3. \A s \in S : s > c
  OBVIOUS
<1>4. After(f, c) = InOrder(S)
  BY DEF After
<1> HIDE DEF S
<1>5. InOrder(S) \in Seq(S) /\ Len(InOrder(S)) \in Nat
  BY <1>1, <1>2, InOrderIs
<1>6. \A i \in 1 .. Len(InOrder(S)) : InOrder(S)[i] \in S
  BY <1>5, ElementOfSeq
<1>7. InOrder(S) \in Seq(Sessions)
  BY <1>1, <1>5, SeqMonotonic
<1>8. QED
  BY <1>1, <1>2, <1>3, <1>4, <1>5, <1>6, <1>7 DEF S

\* A page is the beginning of the rows after its cursor.
LEMMA PageIs ==
  ASSUME NEW f \in Filters, NEW c \in Sessions \cup {None}
  PROVE  LET n == Len(After(f, c)) m == IF n < PageSize THEN n ELSE PageSize
         IN  /\ Page(f, c) \in Seq(Sessions) /\ Len(Page(f, c)) = m
             /\ \A i \in 1 .. m : Page(f, c)[i] = After(f, c)[i]
             /\ NextCursor(f, c) \in Sessions \cup {None}
<1> DEFINE a == After(f, c)
           n == Len(a)
           m == IF n < PageSize THEN n ELSE PageSize
<1>1. a \in Seq(Sessions) /\ n \in Nat /\ \A i \in 1 .. n : a[i] \in Sessions
  BY AfterIs
<1>2. Page(f, c) = SubSeq(a, 1, m)
  BY DEF Page
<1>3. NextCursor(f, c) = IF n > PageSize THEN a[PageSize] ELSE None
  BY DEF NextCursor
<1> HIDE DEF a, n
<1>4. m \in Nat /\ m <= n
  BY <1>1, NumbersAssumption
<1> HIDE DEF m
<1>5. \A i \in 1 .. m : a[i] \in Sessions
  BY <1>1, <1>4
<1>6. /\ SubSeq(a, 1, m) \in Seq(Sessions)
      /\ Len(SubSeq(a, 1, m)) = IF 1 <= m THEN m - 1 + 1 ELSE 0
      /\ \A i \in 1 .. m - 1 + 1 : SubSeq(a, 1, m)[i] = a[1 + i - 1]
  BY <1>4, <1>5, SubSeqProperties
<1>7. Len(SubSeq(a, 1, m)) = m /\ \A i \in 1 .. m : SubSeq(a, 1, m)[i] = a[i]
  BY <1>4, <1>6
<1>8. NextCursor(f, c) \in Sessions \cup {None}
  BY <1>1, <1>3, NumbersAssumption
<1>9. QED
  BY <1>2, <1>6, <1>7, <1>8 DEF a, n, m

\* After the first page the list shows the rows.
LEMMA FirstPage ==
  ASSUME NEW f \in Filters
  PROVE  Shows(Page(f, None), NextCursor(f, None), f)
<1> DEFINE n == Len(Rows(f))
           m == IF n < PageSize THEN n ELSE PageSize
<1>1. Rows(f) = After(f, None)
  BY DEF Rows
<1>2. n \in Nat
  BY <1>1, AfterIs
<1>3. /\ Page(f, None) \in Seq(Sessions) /\ Len(Page(f, None)) = m
      /\ \A i \in 1 .. m : Page(f, None)[i] = Rows(f)[i]
  BY <1>1, PageIs
<1>4. NextCursor(f, None) = IF n > PageSize THEN Rows(f)[PageSize] ELSE None
  BY <1>1 DEF NextCursor
<1>5. QED
  BY <1>2, <1>3, <1>4, NumbersAssumption DEF Shows

\* Where the list ends, the server goes on.
LEMMA RowsAfter ==
  ASSUME NEW f \in Filters, NEW k \in 1 .. Len(Rows(f))
  PROVE  LET c == Rows(f)[k]
         IN  /\ c \in Sessions
             /\ Len(After(f, c)) = Len(Rows(f)) - k
             /\ \A j \in 1 .. Len(Rows(f)) - k : After(f, c)[j] = Rows(f)[k + j]
<1> DEFINE S == {s \in Matches[f] : s > None}
           c == Rows(f)[k]
<1>1. Rows(f) = After(f, None) /\ Rows(f) = InOrder(S)
  BY DEF Rows, After
<1>2. S \in SUBSET Nat /\ IsFiniteSet(S) /\ c \in Sessions /\ c > None
  BY <1>1, AfterIs
<1>3. c \in Nat /\ Matches[f] \subseteq Nat
  BY <1>2, SessionsAssumption, MatchesAssumption
<1>4. {x \in S : x > c} = {s \in Matches[f] : s > c}
  BY <1>2, <1>3 DEF None
<1>5. After(f, c) = InOrder({x \in S : x > InOrder(S)[k]})
  BY <1>1, <1>4 DEF After
<1>6. Len(InOrder(S)) = Cardinality(S)
  BY <1>2, InOrderIs
<1> HIDE DEF S
<1>7. /\ Len(InOrder({x \in S : x > InOrder(S)[k]})) = Len(InOrder(S)) - k
      /\ \A j \in 1 .. Len(InOrder(S)) - k :
           InOrder({x \in S : x > InOrder(S)[k]})[j] = InOrder(S)[k + j]
  BY <1>1, <1>2, <1>6, InOrderAfter
<1>8. QED
  BY <1>1, <1>2, <1>5, <1>7

\* And still after the page at its cursor.
LEMMA NextPage ==
  ASSUME NEW f \in Filters, NEW l, NEW c \in Sessions \cup {None}, Shows(l, c, f), c # None
  PROVE  Shows(l \o Page(f, c), NextCursor(f, c), f)
<1> DEFINE n == Len(Rows(f))
           k == Len(l)
           q == Rows(f)
           m == IF n - k < PageSize THEN n - k ELSE PageSize
<1>1. n \in Nat
  BY AfterIs DEF Rows
<1>2. /\ l \in Seq(Sessions) /\ k \in 1 .. n /\ k < n /\ c = q[k]
      /\ \A i \in 1 .. k : l[i] = q[i]
  BY <1>1, LenProperties DEF Shows
<1>3. Len(After(f, c)) = n - k /\ \A j \in 1 .. n - k : After(f, c)[j] = q[k + j]
  BY <1>2, RowsAfter
<1>4. /\ Page(f, c) \in Seq(Sessions) /\ Len(Page(f, c)) = m
      /\ \A i \in 1 .. m : Page(f, c)[i] = After(f, c)[i]
  BY <1>3, PageIs
<1>5. NextCursor(f, c) = IF n - k > PageSize THEN After(f, c)[PageSize] ELSE None
  BY <1>3 DEF NextCursor
<1> HIDE DEF n, k, q
<1>6. m \in 1 .. n - k /\ PageSize \in Nat \ {0}
  BY <1>1, <1>2, NumbersAssumption
<1>7. \A i \in 1 .. m : Page(f, c)[i] = q[k + i]
  BY <1>1, <1>2, <1>3, <1>4, <1>6
<1>8. IF k + m = n THEN NextCursor(f, c) = None
                   ELSE NextCursor(f, c) = q[k + m]
  <2>1. CASE n - k > PageSize
    <3>1. m = PageSize /\ m \in 1 .. n - k
      BY <1>1, <1>2, <1>6, <2>1
    <3>2. After(f, c)[m] = q[k + m]
      BY <1>3, <3>1
    <3>3. k + m # n
      BY <1>1, <1>2, <1>6, <2>1, <3>1
    <3>4. QED
      BY <1>5, <2>1, <3>1, <3>2, <3>3
  <2>2. CASE ~ (n - k > PageSize)
    <3>1. k + m = n
      BY <1>1, <1>2, <1>6, <2>2
    <3>2. QED
      BY <1>5, <2>2, <3>1
  <2>3. QED
    BY <2>1, <2>2
<1> HIDE DEF m
<1>9. /\ l \o Page(f, c) \in Seq(Sessions) /\ Len(l \o Page(f, c)) = k + m
      /\ \A i \in 1 .. k + m :
           (l \o Page(f, c))[i] = IF i <= k THEN l[i] ELSE Page(f, c)[i - k]
  <2>1. l \in Seq(Sessions) /\ Page(f, c) \in Seq(Sessions)
    BY <1>2, <1>4
  <2>2. Len(Page(f, c)) = m /\ Len(l) = k
    BY <1>4 DEF k
  <2>3. /\ l \o Page(f, c) \in Seq(Sessions)
        /\ Len(l \o Page(f, c)) = Len(l) + Len(Page(f, c))
        /\ \A i \in 1 .. Len(l) + Len(Page(f, c)) :
             (l \o Page(f, c))[i] = IF i <= Len(l) THEN l[i] ELSE Page(f, c)[i - Len(l)]
    BY <2>1, ConcatProperties
  <2>4. QED
    BY <2>2, <2>3
<1>10. ASSUME NEW i \in 1 .. k + m PROVE (l \o Page(f, c))[i] = q[i]
  <2>1. CASE i <= k
    BY <1>1, <1>2, <1>6, <1>9, <2>1
  <2>2. CASE ~ (i <= k)
    <3>1. i - k \in 1 .. m /\ k + (i - k) = i
      BY <1>1, <1>2, <1>6, <2>2
    <3>2. QED
      BY <1>7, <1>9, <2>2, <3>1
  <2>3. QED
    BY <2>1, <2>2
<1>11. k + m <= n /\ k + m > 0
  BY <1>1, <1>2, <1>6
<1>12. QED
  BY <1>8, <1>9, <1>10, <1>11 DEF Shows, n, q

\* A list that shows the rows is as the property says.
LEMMA ShownIsPrefix ==
  ASSUME NEW f \in Filters, NEW l, NEW c, Shows(l, c, f)
  PROVE  /\ IsPrefix(l, Rows(f))
         /\ c = IF l = Rows(f) THEN None ELSE Last(l)
<1> DEFINE q == Rows(f)
           k == Len(l)
<1>1. q \in Seq(Sessions) /\ Len(q) \in Nat /\ \A i \in 1 .. Len(q) : q[i] \in Sessions
  BY AfterIs DEF Rows
<1>2. l \in Seq(Sessions) /\ k \in Nat /\ k <= Len(q) /\ \A i \in 1 .. k : l[i] = q[i]
  BY LenProperties DEF Shows
<1>3. l = q <=> k = Len(q)
  BY <1>1, <1>2, SeqEqual
<1>4. IsPrefix(l, q)
  <2>1. \A i \in 1 .. k : q[i] \in Sessions
    BY <1>1, <1>2
  <2>2. \A i \in 1 .. k : l[i] \in Sessions
    BY <1>2, <2>1
  <2>3. /\ SubSeq(q, 1, k) \in Seq(Sessions)
        /\ Len(SubSeq(q, 1, k)) = IF 1 <= k THEN k - 1 + 1 ELSE 0
        /\ \A i \in 1 .. k - 1 + 1 : SubSeq(q, 1, k)[i] = q[1 + i - 1]
    BY <1>2, <2>1, SubSeqProperties
  <2>4. Len(SubSeq(q, 1, k)) = k /\ \A i \in 1 .. k : SubSeq(q, 1, k)[i] = q[i]
    BY <1>2, <2>3
  <2>5. SubSeq(q, 1, k) = l
    BY <1>2, <2>3, <2>4, SeqEqual
  <2>6. SubSeq(l, 1, k) = l
    BY <1>2, SubSeqFull
  <2>7. QED
    BY <1>2, <2>5, <2>6 DEF IsPrefix
<1>5. c = IF l = q THEN None ELSE Last(l)
  <2>1. IF k = Len(q) THEN c = None ELSE k > 0 /\ c = q[k]
    BY DEF Shows
  <2>2. k > 0 => q[k] = l[k]
    BY <1>2
  <2>3. QED
    BY <1>3, <2>1, <2>2 DEF Last
<1>6. QED
  BY <1>4, <1>5

-----------------------------------------------------------------------------
(* What is sent and what is over. *)

LEMMA Sent ==
  ASSUME requests \in Seq(Requests), NEW r \in Requests, requests' = Append(requests, r)
  PROVE  /\ requests' \in Seq(Requests)
         /\ \A i \in DOMAIN requests : i \in DOMAIN requests' /\ requests'[i] = requests[i]
         /\ \A i \in DOMAIN requests' :
              (i \in DOMAIN requests /\ requests'[i] = requests[i]) \/ requests'[i] = r
         /\ \E i \in DOMAIN requests' : requests'[i] = r
<1>1. DOMAIN requests = 1 .. Len(requests) /\ Len(requests) \in Nat
  BY LenProperties
<1>2. /\ requests' \in Seq(Requests) /\ Len(requests') = Len(requests) + 1
      /\ \A i \in 1 .. Len(requests) : requests'[i] = requests[i]
      /\ requests'[Len(requests) + 1] = r
  BY AppendProperties
<1>3. DOMAIN requests' = 1 .. Len(requests) + 1
  BY <1>2, LenProperties
<1>4. QED
  BY <1>1, <1>2, <1>3

\* To concatenate one element is to append it.
LEMMA ConcatOne ==
  ASSUME NEW T, NEW s \in Seq(T), NEW x \in T
  PROVE  s \o <<x>> = Append(s, x) /\ s \o <<>> = s
<1>1. <<x>> \in Seq(T) /\ Len(<<x>>) = 1 /\ <<x>>[1] = x
  OBVIOUS
<1>2. Len(s) \in Nat
  BY LenProperties
<1>3. /\ s \o <<x>> \in Seq(T) /\ Len(s \o <<x>>) = Len(s) + 1
      /\ \A i \in 1 .. Len(s) + 1 :
           (s \o <<x>>)[i] = IF i <= Len(s) THEN s[i] ELSE <<x>>[i - Len(s)]
  BY <1>1, ConcatProperties
<1>4. /\ Append(s, x) \in Seq(T) /\ Len(Append(s, x)) = Len(s) + 1
      /\ \A i \in 1 .. Len(s) : Append(s, x)[i] = s[i]
      /\ Append(s, x)[Len(s) + 1] = x
  BY AppendProperties
<1>5. ASSUME NEW i \in 1 .. Len(s) + 1 PROVE (s \o <<x>>)[i] = Append(s, x)[i]
  <2>1. CASE i <= Len(s)
    BY <1>2, <1>3, <1>4, <2>1
  <2>2. CASE ~ (i <= Len(s))
    <3>1. i = Len(s) + 1 /\ i - Len(s) = 1
      BY <1>2, <2>2
    <3>2. QED
      BY <1>1, <1>3, <1>4, <2>2, <3>1
  <2>3. QED
    BY <2>1, <2>2
<1>6. s \o <<x>> = Append(s, x)
  BY <1>3, <1>4, <1>5, SeqEqual
<1>7. QED
  BY <1>6, ConcatEmptySeq

\* A selection sends for the messages, and for the session if it is not listed.
LEMMA SelectionSent ==
  ASSUME requests \in Seq(Requests), NEW s \in Sessions, SelectAndLoad(s)
  PROVE  /\ requests' \in Seq(Requests)
         /\ \A i \in DOMAIN requests : i \in DOMAIN requests' /\ requests'[i] = requests[i]
         /\ \A i \in DOMAIN requests' :
              \/ i \in DOMAIN requests /\ requests'[i] = requests[i]
              \/ requests'[i].kind \in {"session", "messages"}
         /\ Latest(requests', {"messages"}) = {ItemRequest("messages", s)}
         /\ Latest(requests', {"session"}) = IF s \in Range(list)
                                               THEN Latest(requests, {"session"})
                                               ELSE {ItemRequest("session", s)}
         /\ Latest(requests', ListKinds) = Latest(requests, ListKinds)
<1> DEFINE m == ItemRequest("messages", s)
           f == ItemRequest("session", s)
           r == Append(requests, f)
<1>1. m \in Requests /\ f \in Requests
  BY DEF ItemRequest, Requests, ItemKinds
<1>3. m.kind = "messages" /\ f.kind = "session"
  BY DEF ItemRequest
<1>4. requests' = requests \o FetchIfUnlisted(s) \o <<m>>
  BY DEF SelectAndLoad
<1> HIDE DEF m, f
<1>5. "load" \notin {"messages"} /\ {"messages", "session"} \cap ListKinds = {}
  BY DEF ListKinds
<1>6. CASE s \in Range(list)
  <2>1. requests' = Append(requests, m)
    BY <1>1, <1>4, <1>6, ConcatOne DEF FetchIfUnlisted
  <2>2. QED
    BY <1>1, <1>3, <1>5, <1>6, <2>1, Sent, LatestSent DEF m, f
<1>7. CASE s \notin Range(list)
  <2>1. r \in Seq(Requests)
    BY <1>1, AppendProperties
  <2>2. requests' = Append(r, m)
    BY <1>1, <1>4, <1>7, <2>1, ConcatOne DEF FetchIfUnlisted, f
  <2>3. /\ DOMAIN requests = 1 .. Len(requests) /\ Len(requests) \in Nat
        /\ Len(r) = Len(requests) + 1
        /\ DOMAIN r = 1 .. Len(requests) + 1
        /\ \A i \in DOMAIN requests : r[i] = requests[i]
        /\ r[Len(requests) + 1] = f
    BY <1>1, <2>1, LenProperties, AppendProperties
  <2> HIDE DEF r
  <2>4. /\ DOMAIN requests' = 1 .. Len(requests) + 2
        /\ requests' \in Seq(Requests)
        /\ \A i \in DOMAIN r : requests'[i] = r[i]
        /\ requests'[Len(requests) + 2] = m
    <3>1. Len(requests') = Len(requests) + 2 /\ requests' \in Seq(Requests)
      BY <1>1, <2>1, <2>2, <2>3, AppendProperties
    <3>2. (Len(requests) + 1) + 1 = Len(requests) + 2
      BY <2>3
    <3>3. DOMAIN requests' = 1 .. Len(requests) + 2
      BY <3>1, LenProperties
    <3>4. QED
      BY <1>1, <2>1, <2>2, <2>3, <3>1, <3>2, <3>3, AppendProperties
  <2>5. \A i \in DOMAIN requests : i \in DOMAIN requests' /\ requests'[i] = requests[i]
    BY <2>3, <2>4
  <2>6. ASSUME NEW i \in DOMAIN requests'
        PROVE  \/ i \in DOMAIN requests /\ requests'[i] = requests[i]
               \/ requests'[i].kind \in {"session", "messages"}
    <3>1. i \in DOMAIN requests \/ i = Len(requests) + 1 \/ i = Len(requests) + 2
      BY <2>3, <2>4
    <3>2. Len(requests) + 1 \in DOMAIN r
      BY <2>3
    <3>3. QED
      BY <1>3, <2>3, <2>4, <2>5, <3>1, <3>2
  <2>7. Latest(requests', {"messages"}) = {m}
    BY <1>1, <1>3, <2>1, <2>2, LatestSent
  <2>8. Latest(requests', {"session"}) = {f}
    <3>1. Latest(r, {"session"}) = {f}
      BY <1>1, <1>3, LatestSent DEF r
    <3>2. QED
      BY <1>1, <1>3, <2>1, <2>2, <3>1, LatestSent
  <2>9. Latest(requests', ListKinds) = Latest(requests, ListKinds)
    <3>1. Latest(r, ListKinds) = Latest(requests, ListKinds)
      BY <1>1, <1>3, <1>5, LatestSent DEF r
    <3>2. QED
      BY <1>1, <1>3, <1>5, <2>1, <2>2, <3>1, LatestSent
  <2>10. QED
    BY <1>7, <2>4, <2>5, <2>6, <2>7, <2>8, <2>9 DEF m, f
<1>8. QED
  BY <1>6, <1>7

\* With an answer, one request is over; the others stay as they are.
LEMMA Over ==
  ASSUME requests \in Seq(Requests), NEW i \in DOMAIN requests,
         requests' = RemoveAt(requests, i)
  PROVE  /\ requests' \in Seq(Requests)
         /\ \A k \in DOMAIN requests' :
              Shift(i, k) \in DOMAIN requests /\ requests'[k] = requests[Shift(i, k)]
         /\ \A j \in DOMAIN requests : j # i =>
              \E k \in DOMAIN requests' : Shift(i, k) = j /\ requests'[k] = requests[j]
<1>1. \A k \in DOMAIN requests' :
        Shift(i, k) \in DOMAIN requests /\ requests'[k] = requests[Shift(i, k)]
  BY RemoveAtElements
<1>2. \A j \in DOMAIN requests : j # i => \E k \in DOMAIN requests' : Shift(i, k) = j
  BY RemoveAtOthers
<1>3. QED
  BY <1>1, <1>2, RemoveAtElements

\* The answer to the latest request of a kind leaves none of that kind.
LEMMA LatestAnswered ==
  ASSUME requests \in Seq(Requests), NEW i \in DOMAIN requests, NEW kinds,
         Answered(i, kinds), ~overtaken',
         NEW K, K \in {{"session"}, {"messages"}, ListKinds}
  PROVE  /\ ~overtaken
         /\ requests[i].kind \notin K => Latest(requests', K) = Latest(requests, K)
         /\ requests[i].kind \in K =>
              /\ Latest(requests, K) # {}
              /\ \/ Latest(requests', K) = Latest(requests, K)
                 \/ Latest(requests', K) = {} /\ Latest(requests, K) = {requests[i]}
<1>1. ~overtaken /\ requests' = RemoveAt(requests, i)
  BY DEF Answered
<1>2. ASSUME requests[i].kind \in K
      PROVE  \A j \in 1 .. i - 1 : requests[j].kind \notin K
  <2>1. \A j \in 1 .. i - 1 : /\ ~ ({requests[i].kind, requests[j].kind} \subseteq ListKinds)
                              /\ requests[j].kind # requests[i].kind
    BY DEF Answered
  <2>2. CASE K = ListKinds
    BY <1>2, <2>1, <2>2
  <2>3. CASE K \in {{"session"}, {"messages"}}
    BY <1>2, <2>1, <2>3
  <2>4. QED
    BY <2>2, <2>3
<1>3. QED
  BY <1>1, <1>2, LatestOtherOver, LatestOver, LatestExists

-----------------------------------------------------------------------------
(* Types. *)

\* Links are asked for of sessions that have some.
LinkedInv == \A i \in DOMAIN requests : requests[i].kind = "links" => requests[i].id \in Linked

TypesInv == TypeOK /\ LinkedInv

\* What the assumptions say of the sessions.
LEMMA Constants == Linked \subseteq Sessions /\ None \notin Sessions /\ NoFilters \in Filters
BY SessionsAssumption, LinkedAssumption, FiltersAssumption DEF None

\* Types, step by step.
LEMMA EffectTypes ==
  ASSUME TypesInv, Effect
  PROVE  TypesInv'
<1> USE DEF TypesInv
<1>1. CASE LoadEffect
  <2>1. ListRequest("load", filters, None) \in Requests
    BY DEF ListRequest, Requests, ListKinds, TypeOK
  <2>2. ListRequest("load", filters, None).kind # "links"
    BY DEF ListRequest
  <2>3. requests' = Append(requests, ListRequest("load", filters, None))
    BY <1>1 DEF LoadEffect, Load
  <2>4. requests' \in Seq(Requests) /\ LinkedInv'
    BY <2>1, <2>2, <2>3, Sent DEF TypeOK, LinkedInv
  <2>5. QED
    BY <1>1, <2>4
    DEF LoadEffect, Load, TypeOK, urlVars, activeVars, messageVars, panelVars, history
<1>2. CASE SelectEffect
  <2>1. CASE route = None
    BY <1>2, <2>1
    DEF SelectEffect, TypeOK, LinkedInv, PanelIfChanged, EffectNames, urlVars, listVars,
        messageVars, panelVars, history
  <2>2. CASE route # None
    <3>1. route \in Sessions /\ SelectAndLoad(route)
      BY <1>2, <2>2 DEF SelectEffect, TypeOK
    <3>2. requests' \in Seq(Requests) /\ LinkedInv'
      BY <3>1, SelectionSent DEF TypeOK, LinkedInv
    <3>3. QED
      BY <1>2, <3>1, <3>2
      DEF SelectEffect, SelectAndLoad, TypeOK, PanelIfChanged, EffectNames, urlVars,
          listVars, panelVars, history
  <2>3. QED
    BY <2>1, <2>2
<1>3. CASE AnchorEffect
  BY <1>3
  DEF AnchorEffect, TypeOK, LinkedInv, urlVars, listVars, activeVars, messageVars,
      panelVars, history
<1>4. CASE ScrollEffect
  BY <1>4
  DEF ScrollEffect, TypeOK, LinkedInv, urlVars, listVars, activeVars, messageVars, history
<1>5. CASE PanelEffect
  <2>1. requests' \in Seq(Requests) /\ LinkedInv'
    <3>1. CASE Shown \in Linked
      <4>1. ItemRequest("links", Shown) \in Requests /\ ItemRequest("links", Shown).id = Shown
        BY <3>1, Constants DEF ItemRequest, Requests, ItemKinds
      <4>2. requests' = Append(requests, ItemRequest("links", Shown))
        BY <1>5, <3>1 DEF PanelEffect
      <4>3. QED
        BY <3>1, <4>1, <4>2, Sent DEF TypeOK, LinkedInv
    <3>2. CASE Shown \notin Linked
      BY <1>5, <3>2 DEF PanelEffect, TypeOK, LinkedInv
    <3>3. QED
      BY <3>1, <3>2
  <2>2. QED
    BY <1>5, <2>1
    DEF PanelEffect, TypeOK, urlVars, listVars, activeVars, messageVars, history
<1>6. QED
  BY <1>1, <1>2, <1>3, <1>4, <1>5 DEF Effect

LEMMA EventTypes ==
  ASSUME TypesInv, Event
  PROVE  TypesInv'
<1> USE DEF TypesInv
<1>1. ASSUME NEW s \in Sessions \cup {None}, NEW o \in Ordinals \cup {None}, Navigate(s, o)
      PROVE  TypesInv'
  BY <1>1
  DEF Navigate, TypeOK, LinkedInv, EffectNames, listVars, activeVars, messageVars,
      panelVars, history
<1>2. ASSUME NEW f \in Filters, UpdateFilters(f) PROVE TypesInv'
  <2>1. ListRequest("load", f, None) \in Requests
    BY DEF ListRequest, Requests, ListKinds
  <2>2. ListRequest("load", f, None).kind # "links"
    BY DEF ListRequest
  <2>3. requests' = Append(requests, ListRequest("load", f, None))
    BY <1>2 DEF UpdateFilters, Load
  <2>4. requests' \in Seq(Requests) /\ LinkedInv'
    BY <2>1, <2>2, <2>3, Sent DEF TypeOK, LinkedInv
  <2>5. QED
    BY <1>2, <2>4
    DEF UpdateFilters, Load, TypeOK, PanelIfChanged, EffectNames, urlVars, messageVars,
        panelVars, history
<1>3. CASE LoadMore
  <2>1. ListRequest("more", filters, cursor) \in Requests
    BY DEF ListRequest, Requests, ListKinds, TypeOK
  <2>2. ListRequest("more", filters, cursor).kind # "links"
    BY DEF ListRequest
  <2>3. requests' = Append(requests, ListRequest("more", filters, cursor))
    BY <1>3 DEF LoadMore
  <2>4. requests' \in Seq(Requests) /\ LinkedInv'
    BY <2>1, <2>2, <2>3, Sent DEF TypeOK, LinkedInv
  <2>5. QED
    BY <1>3, <2>4
    DEF LoadMore, ListRequested, TypeOK, urlVars, activeVars, messageVars, panelVars
<1>4. ASSUME NEW s \in Sessions, NEW o \in Ordinals, SelectResult(s, o) PROVE TypesInv'
  <2>1. SelectAndLoad(s)
    BY <1>4 DEF SelectResult
  <2>2. requests' \in Seq(Requests) /\ LinkedInv'
    BY <2>1, SelectionSent DEF TypeOK, LinkedInv
  <2>3. QED
    BY <1>4, <2>2
    DEF SelectResult, SelectAndLoad, TypeOK, PanelIfChanged, EffectNames, urlVars,
        listVars, panelVars
<1>5. ASSUME NEW o \in Ordinals, ScrollToMessage(o) PROVE TypesInv'
  BY <1>5
  DEF ScrollToMessage, TypeOK, LinkedInv, urlVars, listVars, activeVars, messageVars,
      panelVars, history
<1>6. QED
  BY <1>1, <1>2, <1>3, <1>4, <1>5 DEF Event

LEMMA AnswerTypes ==
  ASSUME TypesInv, NEW i \in DOMAIN requests, Answer(i)
  PROVE  TypesInv'
<1> USE DEF TypesInv
<1>1. requests' \in Seq(Requests) /\ LinkedInv' /\ overtaken' \in BOOLEAN
  <2>1. PICK kinds : Answered(i, kinds)
    BY DEF Answer, LoadAnswered, MoreAnswered, SessionAnswered, MessagesAnswered,
           LinksAnswered, RequestFails
  <2>2. requests' = RemoveAt(requests, i)
    BY <2>1 DEF Answered
  <2>3. overtaken' \in BOOLEAN
    BY <2>1 DEF Answered, TypeOK
  <2>4. QED
    BY <2>2, <2>3, Over DEF TypeOK, LinkedInv
<1>2. requests[i] \in Requests
  BY LenProperties, ElementOfSeq DEF TypeOK
<1>3. requests[i].kind \in ListKinds
        => requests[i].filters \in Filters /\ requests[i].after \in Sessions \cup {None}
  BY <1>2 DEF Requests, ListKinds, ItemKinds
<1>4. requests[i].kind \in ItemKinds => requests[i].id \in Sessions
  BY <1>2 DEF Requests, ListKinds, ItemKinds
<1>5. CASE LoadAnswered(i)
  <2>1. requests[i].filters \in Filters
    BY <1>3, <1>5 DEF LoadAnswered, Answered, ListKinds
  <2>2. /\ Page(requests[i].filters, None) \in Seq(Sessions)
        /\ NextCursor(requests[i].filters, None) \in Sessions \cup {None}
    BY <2>1, PageIs
  <2>3. QED
    BY <1>1, <1>5, <2>2
    DEF LoadAnswered, Answered, TypeOK, SelectIfRouted, PanelIfChanged, EffectNames,
        urlVars, activeVars, messageVars, panelVars
<1>6. CASE MoreAnswered(i)
  <2>1. requests[i].filters \in Filters /\ requests[i].after \in Sessions \cup {None}
    BY <1>3, <1>6 DEF MoreAnswered, Answered, ListKinds
  <2>2. /\ Page(requests[i].filters, requests[i].after) \in Seq(Sessions)
        /\ NextCursor(requests[i].filters, requests[i].after) \in Sessions \cup {None}
    BY <2>1, PageIs
  <2>3. list' \in Seq(Sessions)
    BY <1>6, <2>2, ConcatProperties DEF MoreAnswered, TypeOK
  <2>4. QED
    BY <1>1, <1>6, <2>2, <2>3
    DEF MoreAnswered, Answered, TypeOK, SelectIfRouted, PanelIfChanged, EffectNames,
        urlVars, activeVars, messageVars, panelVars
<1>7. CASE SessionAnswered(i)
  <2>1. requests[i].id \in Sessions
    BY <1>4, <1>7 DEF SessionAnswered, Answered, ItemKinds
  <2>2. QED
    BY <1>1, <1>7, <2>1
    DEF SessionAnswered, Answered, TypeOK, PanelIfChanged, EffectNames, urlVars, listVars,
        messageVars, panelVars
<1>8. CASE MessagesAnswered(i)
  <2>1. requests[i].id \in Sessions
    BY <1>4, <1>8 DEF MessagesAnswered, Answered, ItemKinds
  <2>2. QED
    BY <1>1, <1>8, <2>1
    DEF MessagesAnswered, Answered, TypeOK, urlVars, listVars, activeVars, panelVars
<1>9. CASE LinksAnswered(i)
  <2>1. requests[i].id \in Linked
    BY <1>9 DEF LinksAnswered, Answered, LinkedInv
  <2>2. QED
    BY <1>1, <1>9, <2>1, Constants
    DEF LinksAnswered, Answered, TypeOK, urlVars, listVars, activeVars, messageVars
<1>10. CASE RequestFails(i)
  BY <1>1, <1>10
  DEF RequestFails, Answered, TypeOK, urlVars, activeVars, panelVars
<1>11. QED
  BY <1>5, <1>6, <1>7, <1>8, <1>9, <1>10 DEF Answer

LEMMA StepTypes ==
  ASSUME TypesInv, [Next]_vars
  PROVE  TypesInv'
<1>1. CASE Effect BY <1>1, EffectTypes
<1>2. CASE Event BY <1>2, EventTypes
<1>3. CASE \E i \in DOMAIN requests : Answer(i) BY <1>3, AnswerTypes
<1>4. CASE UNCHANGED vars
  BY <1>4
  DEF vars, TypesInv, TypeOK, LinkedInv, urlVars, listVars, activeVars, messageVars,
      panelVars, history
<1>5. QED BY <1>1, <1>2, <1>3, <1>4 DEF Next

LEMMA InitTypes == Init => TypesInv
<1>1. SUFFICES ASSUME Init PROVE TypesInv
  OBVIOUS
<1>2. route \in Sessions \cup {None}
  BY <1>1 DEF Init
<1>3. anchor \in Ordinals \cup {None}
  BY <1>1 DEF Init
<1>4. list = <<>> /\ requests = <<>> /\ filters = NoFilters
  BY <1>1 DEF Init
<1>5. effects = {"load", "select", "anchor"}
  BY <1>1 DEF Init
<1>6. /\ active = None /\ fetched = None /\ msgs = None /\ target = None /\ links = None
      /\ highlight = None /\ cursor = None
  BY <1>1 DEF Init
<1>7. {listLoading, msgsLoading, overtaken, overlapped, early, failed} \subseteq BOOLEAN
  BY <1>1 DEF Init
<1>8. list \in Seq(Sessions) /\ requests \in Seq(Requests) /\ LinkedInv
  BY <1>4 DEF LinkedInv
<1>9. QED
  BY <1>2, <1>3, <1>4, <1>5, <1>6, <1>7, <1>8, Constants DEF TypesInv, TypeOK, EffectNames

LEMMA TypesAlways == Spec => []TypesInv
<1>1. Init => TypesInv
  BY InitTypes
<1>2. TypesInv /\ [Next]_vars => TypesInv'
  BY StepTypes
<1>3. QED
  BY <1>1, <1>2, PTL DEF Spec

\* The variables keep their types, and the links held are of a session that has some.
THEOREM TypeCorrect == Spec => []TypeOK
<1>1. TypesInv => TypeOK
  BY DEF TypesInv
<1>2. QED
  BY <1>1, TypesAlways, PTL

-----------------------------------------------------------------------------
(* The links in the panel. *)

\* Until its effect has run, the panel may hold the links of the session before.
LinksInv == "panel" \notin effects /\ Shown # None => links \in {None, Shown}

\* What LinksInv looks at.
Selection == <<list, active, fetched>>

\* If the panel's effect is not scheduled, the session shown is the same.
LEMMA UnchangedShown ==
  ASSUME NEW new, PanelIfChanged(new) = {}
  PROVE  Shown' = Shown
  <1> DEFINE before == Object(list, active, fetched)
             after == Object(list', active', fetched')
  <1>1. after = before BY DEF PanelIfChanged
  <1>2. before # <<>> => active' = active
    <2> SUFFICES ASSUME before # <<>> PROVE active' = active
      OBVIOUS
    <2>1. before[2] = active BY DEF Object
    <2>2. after[2] = active' BY <1>1 DEF Object
    <2> QED BY <1>1, <2>1, <2>2
  <1> QED BY <1>1, <1>2 DEF Shown

\* A step that schedules the effect if the session shown becomes another.
LEMMA ScheduledStep ==
  ASSUME LinksInv, "panel" \notin effects, links' = links,
         NEW new, PanelIfChanged(new) \subseteq effects'
  PROVE  LinksInv'
  <1> SUFFICES ASSUME "panel" \notin effects' PROVE Shown' = Shown
    BY DEF LinksInv
  <1>1. PanelIfChanged(new) = {}
    BY DEF PanelIfChanged
  <1> QED BY <1>1, UnchangedShown

\* The same, for a step that keeps what is scheduled.
LEMMA SelectStep ==
  ASSUME LinksInv, SelectEffect
  PROVE  LinksInv'
  <1>1. CASE "panel" \in effects
    BY <1>1 DEF SelectEffect, LinksInv
  <1>2. CASE "panel" \notin effects
    BY <1>2, ScheduledStep DEF SelectEffect, panelVars
  <1> QED BY <1>1, <1>2

\* A step that changes neither the selection nor the links, and unschedules
\* nothing.
LEMMA OtherStep ==
  ASSUME LinksInv, UNCHANGED <<Selection, links>>,
         "panel" \in effects => "panel" \in effects'
  PROVE  LinksInv'
  BY DEF LinksInv, Selection, Shown, Object

\* LinksInv, step by step.
LEMMA EffectStep ==
  ASSUME LinksInv, Effect
  PROVE  LinksInv'
  <1>1. CASE LoadEffect
    BY <1>1, OtherStep DEF LoadEffect, Load, Selection, activeVars, panelVars
  <1>2. CASE SelectEffect BY <1>2, SelectStep
  <1>3. CASE AnchorEffect
    BY <1>3, OtherStep
    DEF AnchorEffect, Selection, listVars, activeVars, panelVars
  <1>4. CASE ScrollEffect
    BY <1>4, OtherStep DEF ScrollEffect, Selection, listVars, activeVars
  <1>5. CASE PanelEffect BY <1>5 DEF PanelEffect, LinksInv
  <1> QED BY <1>1, <1>2, <1>3, <1>4, <1>5 DEF Effect

LEMMA EventStep ==
  ASSUME LinksInv, Event
  PROVE  LinksInv'
  <1>1. CASE \E s \in Sessions \cup {None}, o \in Ordinals \cup {None} : Navigate(s, o)
    BY <1>1, OtherStep
    DEF Navigate, Ready, Idle, Selection, listVars, activeVars, panelVars
  <1>2. CASE \E f \in Filters : UpdateFilters(f)
    BY <1>2, ScheduledStep DEF UpdateFilters, Ready, Idle, panelVars
  <1>3. CASE LoadMore
    BY <1>3, OtherStep DEF LoadMore, Selection, activeVars, panelVars
  <1>4. CASE \E s \in Sessions, o \in Ordinals : SelectResult(s, o)
    BY <1>4, ScheduledStep DEF SelectResult, Ready, Idle, panelVars
  <1>5. CASE \E o \in Ordinals : ScrollToMessage(o)
    BY <1>5, OtherStep
    DEF ScrollToMessage, Selection, listVars, activeVars, panelVars
  <1> QED BY <1>1, <1>2, <1>3, <1>4, <1>5 DEF Event

LEMMA AnswerStep ==
  ASSUME LinksInv, NEW i \in DOMAIN requests, Answer(i)
  PROVE  LinksInv'
  <1>1. CASE LoadAnswered(i)
    BY <1>1, ScheduledStep DEF LoadAnswered, Answered, Idle, panelVars
  <1>2. CASE MoreAnswered(i)
    BY <1>2, ScheduledStep DEF MoreAnswered, Answered, Idle, panelVars
  <1>3. CASE SessionAnswered(i)
    BY <1>3, ScheduledStep DEF SessionAnswered, Answered, Idle, panelVars
  <1>4. CASE MessagesAnswered(i)
    BY <1>4, OtherStep
    DEF MessagesAnswered, Selection, listVars, activeVars, panelVars
  <1>5. CASE LinksAnswered(i)
    BY <1>5
    DEF LinksAnswered, LinksInv, Shown, Object, listVars, activeVars
  <1>6. CASE RequestFails(i)
    BY <1>6, OtherStep DEF RequestFails, Selection, activeVars, panelVars
  <1> QED BY <1>1, <1>2, <1>3, <1>4, <1>5, <1>6 DEF Answer

\* The git links in the panel are those of the session it shows, for any
\* sessions, filters and pages and any number of requests in flight.
THEOREM LinksAreOfShown == Spec => []LinksOfShown
  <1>1. Init => LinksInv BY DEF Init, LinksInv
  <1>2. LinksInv /\ [Next]_vars => LinksInv'
    <2> SUFFICES ASSUME LinksInv, [Next]_vars PROVE LinksInv'
      OBVIOUS
    <2>1. CASE Effect BY <2>1, EffectStep
    <2>2. CASE Event BY <2>2, EventStep
    <2>3. CASE \E i \in DOMAIN requests : Answer(i) BY <2>3, AnswerStep
    <2>4. CASE UNCHANGED vars
      BY <2>4, OtherStep DEF vars, Selection, listVars, activeVars, panelVars
    <2> QED BY <2>1, <2>2, <2>3, <2>4 DEF Next
  <1>3. LinksInv => LinksOfShown BY DEF LinksInv, LinksOfShown, Idle
  <1> QED BY <1>1, <1>2, <1>3, PTL DEF Spec

\* The links of the session shown are there or on their way, once the effect
\* that asks for them has run.
LinksComing ==
  ~failed /\ "panel" \notin effects /\ Shown \in Linked =>
    \/ links = Shown
    \/ \E i \in DOMAIN requests : requests[i].kind = "links" /\ requests[i].id = Shown

\* No request for links is over.
LinksRequestsStay ==
  \A i \in DOMAIN requests : requests[i].kind = "links" =>
    \E k \in DOMAIN requests' : requests'[k] = requests[i]

\* An answer of another kind.
LEMMA OtherOver ==
  ASSUME TypesInv, NEW i \in DOMAIN requests, NEW kinds, Answered(i, kinds),
         requests[i].kind # "links"
  PROVE  LinksRequestsStay
BY Over DEF Answered, LinksRequestsStay, TypesInv, TypeOK

\* A step that schedules the panel's effect if the session shown becomes another.
LEMMA ComingScheduled ==
  ASSUME LinksComing, "panel" \notin effects, links' = links, failed' = failed,
         LinksRequestsStay, NEW new, PanelIfChanged(new) \subseteq effects'
  PROVE  LinksComing'
<1> SUFFICES ASSUME "panel" \notin effects' PROVE LinksComing'
  BY DEF LinksComing
<1>1. PanelIfChanged(new) = {}
  BY DEF PanelIfChanged
<1>2. Shown' = Shown
  BY <1>1, UnchangedShown
<1>3. QED
  BY <1>2 DEF LinksComing, LinksRequestsStay

\* A step that changes neither the selection nor the links, and unschedules nothing.
LEMMA ComingOther ==
  ASSUME LinksComing, UNCHANGED <<Selection, links, failed>>, LinksRequestsStay,
         "panel" \in effects => "panel" \in effects'
  PROVE  LinksComing'
<1>1. Shown' = Shown
  BY DEF Selection, Shown, Object
<1>2. QED
  BY <1>1 DEF LinksComing, LinksRequestsStay

\* LinksComing, step by step.
LEMMA EffectComing ==
  ASSUME TypesInv, LinksComing, Effect
  PROVE  LinksComing'
<1>1. CASE LoadEffect
  <2>1. ListRequest("load", filters, None) \in Requests
    BY DEF ListRequest, Requests, ListKinds, TypeOK, TypesInv
  <2>2. LinksRequestsStay
    BY <1>1, <2>1, Sent DEF LoadEffect, Load, LinksRequestsStay, TypeOK, TypesInv
  <2>3. QED
    BY <1>1, <2>2, ComingOther
    DEF LoadEffect, Load, Selection, activeVars, panelVars, history
<1>2. CASE SelectEffect
  <2>1. LinksRequestsStay
    <3>1. CASE route = None
      BY <1>2, <3>1 DEF SelectEffect, LinksRequestsStay
    <3>2. CASE route # None
      BY <1>2, <3>2, SelectionSent DEF SelectEffect, LinksRequestsStay, TypeOK, TypesInv
    <3>3. QED
      BY <3>1, <3>2
  <2>2. /\ links' = links /\ failed' = failed
        /\ effects' = (effects \ {"select"}) \cup PanelIfChanged("none")
    BY <1>2 DEF SelectEffect, panelVars, history
  <2>3. CASE "panel" \in effects
    BY <2>2, <2>3 DEF LinksComing
  <2>4. CASE "panel" \notin effects
    BY <2>1, <2>2, <2>4, ComingScheduled
  <2>5. QED
    BY <2>3, <2>4
<1>3. CASE AnchorEffect
  BY <1>3, ComingOther
  DEF AnchorEffect, Selection, LinksRequestsStay, listVars, activeVars, panelVars, history
<1>4. CASE ScrollEffect
  BY <1>4, ComingOther
  DEF ScrollEffect, Selection, LinksRequestsStay, listVars, activeVars, history
<1>5. CASE PanelEffect
  <2>1. Shown' = Shown
    BY <1>5 DEF PanelEffect, Shown, Object, listVars, activeVars
  <2>2. ASSUME Shown \in Linked
        PROVE  \E i \in DOMAIN requests' : requests'[i].kind = "links" /\ requests'[i].id = Shown
    <3>1. /\ ItemRequest("links", Shown) \in Requests /\ ItemRequest("links", Shown).id = Shown
          /\ ItemRequest("links", Shown).kind = "links"
      BY <2>2, Constants DEF ItemRequest, Requests, ItemKinds
    <3>2. requests' = Append(requests, ItemRequest("links", Shown))
      BY <1>5, <2>2 DEF PanelEffect
    <3>3. QED
      BY <3>1, <3>2, Sent DEF TypeOK, TypesInv
  <2>3. QED
    BY <2>1, <2>2 DEF LinksComing
<1>6. QED
  BY <1>1, <1>2, <1>3, <1>4, <1>5 DEF Effect

LEMMA EventComing ==
  ASSUME TypesInv, LinksComing, Event
  PROVE  LinksComing'
<1>1. ASSUME NEW s \in Sessions \cup {None}, NEW o \in Ordinals \cup {None}, Navigate(s, o)
      PROVE  LinksComing'
  BY <1>1, ComingOther
  DEF Navigate, Ready, Idle, Selection, LinksRequestsStay, listVars, activeVars, panelVars,
      history
<1>2. ASSUME NEW f \in Filters, UpdateFilters(f) PROVE LinksComing'
  <2>1. ListRequest("load", f, None) \in Requests
    BY DEF ListRequest, Requests, ListKinds
  <2>2. LinksRequestsStay
    BY <1>2, <2>1, Sent DEF UpdateFilters, Load, LinksRequestsStay, TypeOK, TypesInv
  <2>3. QED
    BY <1>2, <2>2, ComingScheduled DEF UpdateFilters, Ready, Idle, panelVars, history
<1>3. CASE LoadMore
  <2>1. ListRequest("more", filters, cursor) \in Requests
    BY DEF ListRequest, Requests, ListKinds, TypeOK, TypesInv
  <2>2. LinksRequestsStay
    BY <1>3, <2>1, Sent DEF LoadMore, LinksRequestsStay, TypeOK, TypesInv
  <2>3. QED
    BY <1>3, <2>2, ComingOther DEF LoadMore, Selection, activeVars, panelVars
<1>4. ASSUME NEW s \in Sessions, NEW o \in Ordinals, SelectResult(s, o) PROVE LinksComing'
  <2>1. LinksRequestsStay
    BY <1>4, SelectionSent DEF SelectResult, LinksRequestsStay, TypeOK, TypesInv
  <2>2. QED
    BY <1>4, <2>1, ComingScheduled DEF SelectResult, Ready, Idle, panelVars
<1>5. ASSUME NEW o \in Ordinals, ScrollToMessage(o) PROVE LinksComing'
  BY <1>5, ComingOther
  DEF ScrollToMessage, Selection, LinksRequestsStay, listVars, activeVars, panelVars, history
<1>6. QED
  BY <1>1, <1>2, <1>3, <1>4, <1>5 DEF Event

LEMMA AnswerComing ==
  ASSUME TypesInv, LinksComing, NEW i \in DOMAIN requests, Answer(i)
  PROVE  LinksComing'
<1>1. CASE LoadAnswered(i)
  <2>1. LinksRequestsStay
    BY <1>1, OtherOver DEF LoadAnswered, Answered
  <2>2. QED
    BY <1>1, <2>1, ComingScheduled DEF LoadAnswered, Answered, Idle, panelVars
<1>2. CASE MoreAnswered(i)
  <2>1. LinksRequestsStay
    BY <1>2, OtherOver DEF MoreAnswered, Answered
  <2>2. QED
    BY <1>2, <2>1, ComingScheduled DEF MoreAnswered, Answered, Idle, panelVars
<1>3. CASE SessionAnswered(i)
  <2>1. LinksRequestsStay
    BY <1>3, OtherOver DEF SessionAnswered, Answered
  <2>2. QED
    BY <1>3, <2>1, ComingScheduled DEF SessionAnswered, Answered, Idle, panelVars
<1>4. CASE MessagesAnswered(i)
  <2>1. LinksRequestsStay
    BY <1>4, OtherOver DEF MessagesAnswered, Answered
  <2>2. QED
    BY <1>4, <2>1, ComingOther
    DEF MessagesAnswered, Selection, listVars, activeVars, panelVars
<1>5. CASE LinksAnswered(i)
  <2>1. /\ Shown' = Shown /\ failed' = failed /\ effects' = effects
        /\ requests' = RemoveAt(requests, i)
        /\ links' = IF active = requests[i].id THEN requests[i].id ELSE links
    BY <1>5 DEF LinksAnswered, Answered, Shown, Object, listVars, activeVars
  <2>2. SUFFICES ASSUME ~failed, "panel" \notin effects, Shown \in Linked, links' # Shown
                 PROVE  \E k \in DOMAIN requests' :
                          requests'[k].kind = "links" /\ requests'[k].id = Shown
    BY <2>1 DEF LinksComing
  <2>3. active = Shown
    BY <2>2, Constants DEF Shown
  <2>4. requests[i].id # Shown /\ links # Shown
    BY <2>1, <2>2, <2>3
  <2>5. PICK j \in DOMAIN requests : requests[j].kind = "links" /\ requests[j].id = Shown
    BY <2>2, <2>4 DEF LinksComing
  <2>6. QED
    BY <2>1, <2>4, <2>5, Over DEF TypeOK, TypesInv
<1>6. CASE RequestFails(i)
  BY <1>6 DEF RequestFails, LinksComing
<1>7. QED
  BY <1>1, <1>2, <1>3, <1>4, <1>5, <1>6 DEF Answer

\* When all answers are in and none has failed, the links of the session shown
\* are in the panel.
THEOREM LinksOfShownArrive == Spec => []LinksArrive
<1>1. Init => LinksComing
  BY Constants DEF Init, LinksComing, Shown, Object
<1>2. TypesInv /\ LinksComing /\ [Next]_vars => LinksComing'
  <2> SUFFICES ASSUME TypesInv, LinksComing, [Next]_vars PROVE LinksComing'
    OBVIOUS
  <2>1. CASE Effect BY <2>1, EffectComing
  <2>2. CASE Event BY <2>2, EventComing
  <2>3. CASE \E i \in DOMAIN requests : Answer(i) BY <2>3, AnswerComing
  <2>4. CASE UNCHANGED vars
    BY <2>4, ComingOther
    DEF vars, Selection, LinksRequestsStay, listVars, activeVars, panelVars, history
  <2> QED BY <2>1, <2>2, <2>3, <2>4 DEF Next
<1>3. LinksComing => LinksArrive
  BY DEF LinksComing, LinksArrive, Settled, Idle
<1>4. QED
  BY <1>1, <1>2, <1>3, TypesAlways, PTL DEF Spec

-----------------------------------------------------------------------------
(* The session selected and the list. *)

\* The messages held are those of the active session, or their request is the
\* latest for messages.
MessagesInv ==
  ~failed /\ ~overtaken /\ active # None =>
    \/ \E r \in Latest(requests, {"messages"}) : r.id = active
    \/ Latest(requests, {"messages"}) = {} /\ msgs = active

\* A step that does not select, nor answer a request for messages.
LEMMA MessagesOther ==
  ASSUME MessagesInv, UNCHANGED <<active, msgs>>, failed => failed', overtaken => overtaken',
         Latest(requests', {"messages"}) = Latest(requests, {"messages"})
  PROVE  MessagesInv'
BY DEF MessagesInv

\* A selection sends the latest request for messages.
LEMMA MessagesSelected ==
  ASSUME TypesInv, NEW s \in Sessions, SelectAndLoad(s)
  PROVE  MessagesInv'
<1>1. Latest(requests', {"messages"}) = {ItemRequest("messages", s)} /\ active' = s
  BY SelectionSent DEF SelectAndLoad, TypesInv, TypeOK
<1>2. ItemRequest("messages", s).id = s
  BY DEF ItemRequest
<1>3. QED
  BY <1>1, <1>2 DEF MessagesInv

-----------------------------------------------------------------------------
\* The active session is in the list, or was fetched, or its request is the
\* latest for a session; else it is about to be selected again, or the history
\* says that it was picked from a list about to be replaced.
ActiveInv ==
  ~failed /\ ~overtaken /\ active # None /\ "select" \notin effects
      /\ (route # None \/ ~early) =>
    \/ active \in Range(list)
    \/ \E r \in Latest(requests, {"session"}) : r.id = active
    \/ Latest(requests, {"session"}) = {} /\ fetched = active

\* Without a session in the URL, no list is on its way that may lack it.
UnroutedInv ==
  route = None /\ ~early /\ active # None /\ "select" \notin effects =>
    "load" \notin effects /\ \A i \in DOMAIN requests : requests[i].kind # "load"

\* A step that leaves the session active and what is known of it.
LEMMA ActiveOther ==
  ASSUME ActiveInv, UNCHANGED <<route, active, fetched, early>>,
         Range(list) \subseteq Range(list)',
         failed => failed', overtaken => overtaken',
         "select" \in effects => "select" \in effects',
         Latest(requests', {"session"}) = Latest(requests, {"session"})
  PROVE  ActiveInv'
BY DEF ActiveInv

\* And the latest for a session, unless it is in the list.
LEMMA ActiveSelected ==
  ASSUME TypesInv, NEW s \in Sessions, SelectAndLoad(s), list' = list
  PROVE  ActiveInv'
<1>1. Latest(requests', {"session"}) = IF s \in Range(list)
                                         THEN Latest(requests, {"session"})
                                         ELSE {ItemRequest("session", s)}
  BY SelectionSent DEF TypesInv, TypeOK
<1>2. active' = s /\ ItemRequest("session", s).id = s
  BY DEF SelectAndLoad, ItemRequest
<1>3. QED
  BY <1>1, <1>2 DEF ActiveInv

-----------------------------------------------------------------------------
\* The list is the beginning of the rows for the filters, or will be: a page load
\* for them is the latest request for the list; or the only one asks for the page
\* at the cursor.
ListInv ==
  ~failed /\ ~overtaken /\ ~overlapped =>
    \/ "load" \in effects
    \/ \E r \in Latest(requests, ListKinds) : r.kind = "load" /\ r.filters = filters
    \/ /\ \E r \in Latest(requests, ListKinds) :
            r.kind = "more" /\ r.filters = filters /\ r.after = cursor
       /\ \A i, j \in DOMAIN requests :
            {requests[i].kind, requests[j].kind} \subseteq ListKinds => i = j
       /\ cursor # None /\ Shows(list, cursor, filters)
    \/ Latest(requests, ListKinds) = {} /\ Shows(list, cursor, filters)

\* A step that neither sends for the list nor answers such a request.
LEMMA ListOther ==
  ASSUME ListInv, UNCHANGED <<list, cursor, filters, overlapped>>,
         failed => failed', overtaken => overtaken',
         "load" \in effects => "load" \in effects',
         Latest(requests', ListKinds) = Latest(requests, ListKinds),
         \A i \in DOMAIN requests' : requests'[i].kind \in ListKinds =>
           i \in DOMAIN requests /\ requests'[i] = requests[i]
  PROVE  ListInv'
BY DEF ListInv

\* The same for the answer to another request.
LEMMA ListOtherAnswered ==
  ASSUME TypesInv, ListInv, NEW i \in DOMAIN requests, NEW kinds, Answered(i, kinds),
         requests[i].kind \notin ListKinds, UNCHANGED <<list, cursor, filters, failed>>
  PROVE  ListInv'
<1>1. SUFFICES ASSUME ~failed, ~overtaken', ~overlapped PROVE ListInv'
  BY DEF ListInv, Answered
<1>2. ~overtaken /\ Latest(requests', ListKinds) = Latest(requests, ListKinds)
  BY <1>1, LatestAnswered DEF TypesInv, TypeOK
<1>3. \A k \in DOMAIN requests' :
        Shift(i, k) \in DOMAIN requests /\ requests'[k] = requests[Shift(i, k)]
  BY Over DEF Answered, TypesInv, TypeOK
<1>4. \A k, m \in DOMAIN requests' : Shift(i, k) = Shift(i, m) => k = m
  <2>1. requests' \in Seq(Requests) /\ DOMAIN requests' = 1 .. Len(requests') /\ DOMAIN requests = 1 .. Len(requests)
    BY Over, LenProperties DEF Answered, TypesInv, TypeOK
  <2>2. QED
    BY <2>1 DEF Shift
<1>5. (\A k, m \in DOMAIN requests :
         {requests[k].kind, requests[m].kind} \subseteq ListKinds => k = m)
      => (\A k, m \in DOMAIN requests' :
            {requests'[k].kind, requests'[m].kind} \subseteq ListKinds => k = m)
  BY <1>3, <1>4
<1>6. effects = {} /\ overlapped' = overlapped
  BY DEF Answered, Idle
<1>7. QED
  BY <1>1, <1>2, <1>5, <1>6 DEF ListInv

\* The answer to a page load: the list is the first page.
LEMMA LoadListed ==
  ASSUME TypesInv, ListInv, NEW i \in DOMAIN requests, LoadAnswered(i)
  PROVE  ListInv'
<1>1. SUFFICES ASSUME ~failed, ~overtaken', ~overlapped PROVE ListInv'
  BY DEF ListInv, LoadAnswered, Answered
<1>2. /\ requests[i].kind = "load" /\ "load" \in ListKinds /\ effects = {}
      /\ list' = Page(requests[i].filters, None) /\ filters' = filters
      /\ cursor' = NextCursor(requests[i].filters, None)
  BY DEF LoadAnswered, Answered, Idle, ListKinds
<1>3. /\ ~overtaken /\ Latest(requests, ListKinds) # {}
      /\ \/ Latest(requests', ListKinds) = Latest(requests, ListKinds)
         \/ Latest(requests', ListKinds) = {} /\ Latest(requests, ListKinds) = {requests[i]}
  BY <1>1, <1>2, LatestAnswered DEF LoadAnswered, TypesInv, TypeOK
<1>4. PICK r \in Latest(requests, ListKinds) :
        \/ r.kind = "load" /\ r.filters = filters
        \/ /\ r.kind = "more"
           /\ \A k, m \in DOMAIN requests :
                {requests[k].kind, requests[m].kind} \subseteq ListKinds => k = m
  BY <1>1, <1>2, <1>3 DEF ListInv
<1>5. r.kind = "load" /\ r.filters = filters
  <2>1. PICK k \in DOMAIN requests : requests[k].kind \in ListKinds /\ r = requests[k]
    BY DEF Latest
  <2>2. QED
    BY <1>2, <1>4, <2>1
<1>6. CASE Latest(requests', ListKinds) = Latest(requests, ListKinds)
  BY <1>2, <1>5, <1>6 DEF ListInv
<1>7. CASE Latest(requests', ListKinds) = {} /\ Latest(requests, ListKinds) = {requests[i]}
  <2>1. requests[i].filters = filters
    BY <1>4, <1>5, <1>7
  <2>2. Shows(list', cursor', filters')
    BY <1>2, <2>1, FirstPage DEF TypesInv, TypeOK
  <2>3. QED
    BY <1>7, <2>2 DEF ListInv
<1>8. QED
  BY <1>3, <1>6, <1>7

\* The answer to "Load more": the list goes on.
LEMMA MoreListed ==
  ASSUME TypesInv, ListInv, NEW i \in DOMAIN requests, MoreAnswered(i)
  PROVE  ListInv'
<1>1. SUFFICES ASSUME ~failed, ~overtaken', ~overlapped PROVE ListInv'
  BY DEF ListInv, MoreAnswered, Answered
<1>2. /\ requests[i].kind = "more" /\ "more" \in ListKinds /\ effects = {}
      /\ list' = list \o Page(requests[i].filters, requests[i].after) /\ filters' = filters
      /\ cursor' = NextCursor(requests[i].filters, requests[i].after)
  BY DEF MoreAnswered, Answered, Idle, ListKinds
<1>3. /\ ~overtaken /\ Latest(requests, ListKinds) # {}
      /\ \/ Latest(requests', ListKinds) = Latest(requests, ListKinds)
         \/ Latest(requests', ListKinds) = {} /\ Latest(requests, ListKinds) = {requests[i]}
  BY <1>1, <1>2, LatestAnswered DEF MoreAnswered, TypesInv, TypeOK
<1>4. CASE \E r \in Latest(requests, ListKinds) : r.kind = "load" /\ r.filters = filters
  <2>1. Latest(requests', ListKinds) = Latest(requests, ListKinds)
    BY <1>2, <1>3, <1>4
  <2>2. QED
    BY <1>2, <1>4, <2>1 DEF ListInv
<1>5. CASE /\ \E r \in Latest(requests, ListKinds) :
                r.kind = "more" /\ r.filters = filters /\ r.after = cursor
           /\ \A k, m \in DOMAIN requests :
                {requests[k].kind, requests[m].kind} \subseteq ListKinds => k = m
           /\ cursor # None /\ Shows(list, cursor, filters)
  <2>1. requests[i].filters = filters /\ requests[i].after = cursor
    <3>1. PICK r \in Latest(requests, ListKinds) : r.filters = filters /\ r.after = cursor
      BY <1>5
    <3>2. PICK k \in DOMAIN requests : requests[k].kind \in ListKinds /\ r = requests[k]
      BY DEF Latest
    <3>3. k = i
      BY <1>2, <1>5, <3>2
    <3>4. QED
      BY <3>1, <3>2, <3>3
  <2>2. Latest(requests', ListKinds) = {}
    <3>1. SUFFICES ASSUME NEW k \in DOMAIN requests', requests'[k].kind \in ListKinds
                   PROVE  FALSE
      BY DEF Latest
    <3>2. Shift(i, k) \in DOMAIN requests /\ requests'[k] = requests[Shift(i, k)]
      BY Over DEF MoreAnswered, Answered, TypesInv, TypeOK
    <3>3. Shift(i, k) # i
      <4>1. requests' \in Seq(Requests) /\ DOMAIN requests' = 1 .. Len(requests')
            /\ DOMAIN requests = 1 .. Len(requests)
        BY Over, LenProperties DEF MoreAnswered, Answered, TypesInv, TypeOK
      <4>2. QED
        BY <4>1 DEF Shift
    <3>4. QED
      BY <1>2, <1>5, <3>1, <3>2, <3>3
  <2>3. filters \in Filters /\ cursor \in Sessions \cup {None}
    BY DEF TypesInv, TypeOK
  <2>4. Shows(list', cursor', filters')
    BY <1>2, <1>5, <2>1, <2>3, NextPage
  <2>5. QED
    BY <2>2, <2>4 DEF ListInv
<1>6. QED
  BY <1>1, <1>2, <1>3, <1>4, <1>5 DEF ListInv

\* What is selected and what the list shows, step by step.
IInv == TypesInv /\ MessagesInv /\ ActiveInv /\ UnroutedInv /\ ListInv

\* A request that is neither for the list nor for the item of these kinds.
LEMMA SentElse ==
  ASSUME TypesInv, NEW r \in Requests, requests' = Append(requests, r)
  PROVE  /\ r.kind # "messages" =>
              Latest(requests', {"messages"}) = Latest(requests, {"messages"})
         /\ r.kind # "session" =>
              Latest(requests', {"session"}) = Latest(requests, {"session"})
         /\ r.kind \notin ListKinds =>
              /\ Latest(requests', ListKinds) = Latest(requests, ListKinds)
              /\ \A i \in DOMAIN requests' : requests'[i].kind \in ListKinds =>
                   i \in DOMAIN requests /\ requests'[i] = requests[i]
         /\ r.kind \in ListKinds => Latest(requests', ListKinds) = {r}
         /\ \A i \in DOMAIN requests' :
              (i \in DOMAIN requests /\ requests'[i] = requests[i]) \/ requests'[i] = r
BY LatestSent, Sent DEF TypesInv, TypeOK

\* A step that sends and answers nothing, and selects nothing.
LEMMA StillStep ==
  ASSUME IInv,
         UNCHANGED <<active, fetched, msgs, list, cursor, filters, overlapped, early,
                     failed, overtaken, requests, route>>,
         \A e \in {"load", "select"} : e \in effects <=> e \in effects'
  PROVE  MessagesInv' /\ ActiveInv' /\ UnroutedInv' /\ ListInv'
<1>1. MessagesInv'
  BY MessagesOther DEF IInv
<1>2. ActiveInv'
  BY ActiveOther DEF IInv
<1>3. UnroutedInv'
  BY DEF IInv, UnroutedInv
<1>4. ListInv'
  BY ListOther DEF IInv
<1>5. QED
  BY <1>1, <1>2, <1>3, <1>4

\* The invariant, step by step.
LEMMA EffectSelects ==
  ASSUME IInv, Effect
  PROVE  MessagesInv' /\ ActiveInv' /\ UnroutedInv' /\ ListInv'
<1>0. TypesInv /\ MessagesInv /\ ActiveInv /\ UnroutedInv /\ ListInv
  BY DEF IInv
<1>1. CASE LoadEffect
  <2> DEFINE r == ListRequest("load", filters, None)
  <2>1. r \in Requests /\ r.kind = "load" /\ r.filters = filters /\ "load" \in ListKinds
    BY <1>0 DEF ListRequest, Requests, ListKinds, TypeOK, TypesInv
  <2>2. /\ requests' = Append(requests, r) /\ "load" \in effects
        /\ effects' = effects \ {"load"}
        /\ UNCHANGED <<active, fetched, msgs, list, filters, early, failed, overtaken, route>>
    BY <1>1
    DEF LoadEffect, Load, activeVars, messageVars, history, urlVars
  <2> HIDE DEF r
  <2>3. MessagesInv'
    BY <1>0, <2>1, <2>2, SentElse, MessagesOther
  <2>4. ActiveInv'
    BY <1>0, <2>1, <2>2, SentElse, ActiveOther
  <2>5. UnroutedInv'
    BY <1>0, <2>2 DEF UnroutedInv
  <2>6. ListInv'
    BY <1>0, <2>1, <2>2, SentElse DEF ListInv
  <2>7. QED
    BY <2>3, <2>4, <2>5, <2>6
<1>2. CASE SelectEffect
  <2>1. /\ UNCHANGED <<route, list, cursor, filters, overtaken, overlapped, failed, early>>
        /\ "load" \notin effects /\ effects \subseteq EffectNames
        /\ "load" \in effects' => "load" \in effects
    BY <1>0, <1>2
    DEF SelectEffect, PanelIfChanged, EffectNames, TypesInv, TypeOK, urlVars, listVars, history
  <2>2. CASE route = None
    <3>1. active' = None /\ requests' = requests
      BY <1>2, <2>2 DEF SelectEffect
    <3>2. ListInv'
      BY <1>0, <2>1, <3>1, ListOther
    <3>3. QED
      BY <3>1, <3>2 DEF MessagesInv, ActiveInv, UnroutedInv
  <2>3. CASE route # None
    <3>1. route \in Sessions /\ SelectAndLoad(route)
      BY <1>0, <1>2, <2>3 DEF SelectEffect, TypesInv, TypeOK
    <3>2. MessagesInv' /\ ActiveInv'
      BY <1>0, <2>1, <3>1, MessagesSelected, ActiveSelected
    <3>3. UnroutedInv'
      BY <2>1, <2>3 DEF UnroutedInv
    <3>4. /\ Latest(requests', ListKinds) = Latest(requests, ListKinds)
          /\ \A i \in DOMAIN requests' : requests'[i].kind \in ListKinds =>
               i \in DOMAIN requests /\ requests'[i] = requests[i]
      BY <1>0, <3>1, SelectionSent DEF ListKinds, TypesInv, TypeOK
    <3>5. ListInv'
      BY <1>0, <2>1, <3>4, ListOther
    <3>6. QED
      BY <3>2, <3>3, <3>5
  <2>4. QED
    BY <2>2, <2>3
<1>3. CASE AnchorEffect
  BY <1>3, StillStep
  DEF AnchorEffect, urlVars, listVars, activeVars, messageVars, history
<1>4. CASE ScrollEffect
  BY <1>4, StillStep
  DEF ScrollEffect, urlVars, listVars, activeVars, messageVars, history
<1>5. CASE PanelEffect
  <2>1. /\ UNCHANGED <<active, fetched, msgs, list, cursor, filters, overlapped, early,
                       failed, overtaken, route>>
        /\ effects = {"panel"} /\ effects' = {}
    BY <1>5 DEF PanelEffect, urlVars, listVars, activeVars, messageVars, history
  <2>2. CASE Shown \in Linked
    <3> DEFINE r == ItemRequest("links", Shown)
    <3>1. r \in Requests /\ r.kind = "links" /\ "links" \notin ListKinds
      BY <2>2, Constants DEF ItemRequest, Requests, ItemKinds, ListKinds
    <3>2. requests' = Append(requests, r)
      BY <1>5, <2>2 DEF PanelEffect
    <3> HIDE DEF r
    <3>3. MessagesInv'
      BY <1>0, <2>1, <3>1, <3>2, SentElse, MessagesOther
    <3>4. ActiveInv'
      BY <1>0, <2>1, <3>1, <3>2, SentElse, ActiveOther
    <3>5. UnroutedInv'
      BY <1>0, <2>1, <3>1, <3>2, SentElse DEF UnroutedInv
    <3>6. ListInv'
      BY <1>0, <2>1, <3>1, <3>2, SentElse, ListOther
    <3>7. QED
      BY <3>3, <3>4, <3>5, <3>6
  <2>3. CASE Shown \notin Linked
    <3>1. requests' = requests
      BY <1>5, <2>3 DEF PanelEffect
    <3>2. QED
      BY <2>1, <3>1, StillStep
  <2>4. QED
    BY <2>2, <2>3
<1>6. QED
  BY <1>1, <1>2, <1>3, <1>4, <1>5 DEF Effect

LEMMA EventSelects ==
  ASSUME IInv, Event
  PROVE  MessagesInv' /\ ActiveInv' /\ UnroutedInv' /\ ListInv'
<1>0. TypesInv /\ MessagesInv /\ ActiveInv /\ UnroutedInv /\ ListInv
  BY DEF IInv
<1>1. ASSUME NEW s \in Sessions \cup {None}, NEW o \in Ordinals \cup {None}, Navigate(s, o)
      PROVE  MessagesInv' /\ ActiveInv' /\ UnroutedInv' /\ ListInv'
  <2>1. /\ effects = {} /\ "load" \notin effects' /\ route' = s
        /\ s = route => "select" \notin effects'
        /\ s # route => "select" \in effects'
        /\ UNCHANGED <<active, fetched, msgs, list, cursor, filters, overlapped, early,
                       failed, overtaken, requests>>
    BY <1>1
    DEF Navigate, Ready, Idle, listVars, activeVars, messageVars, history
  <2>2. CASE s = route
    BY <2>1, <2>2, StillStep
  <2>3. CASE s # route
    BY <1>0, <2>1, <2>3, MessagesOther, ListOther DEF ActiveInv, UnroutedInv
  <2>4. QED
    BY <2>2, <2>3
<1>2. ASSUME NEW f \in Filters, UpdateFilters(f)
      PROVE  MessagesInv' /\ ActiveInv' /\ UnroutedInv' /\ ListInv'
  BY <1>2 DEF UpdateFilters, MessagesInv, ActiveInv, UnroutedInv, ListInv
<1>3. CASE LoadMore
  <2> DEFINE r == ListRequest("more", filters, cursor)
  <2>1. /\ r \in Requests /\ r.kind = "more" /\ r.filters = filters /\ r.after = cursor
        /\ "more" \in ListKinds
    BY <1>0 DEF ListRequest, Requests, ListKinds, TypeOK, TypesInv
  <2>2. /\ requests' = Append(requests, r) /\ effects = {} /\ effects' = effects
        /\ cursor # None /\ overlapped' = (overlapped \/ ListRequested)
        /\ UNCHANGED <<active, fetched, msgs, list, cursor, filters, early, failed,
                       overtaken, route>>
    BY <1>3 DEF LoadMore, Ready, Idle, activeVars, messageVars, urlVars
  <2> HIDE DEF r
  <2>3. MessagesInv'
    BY <1>0, <2>1, <2>2, SentElse, MessagesOther
  <2>4. ActiveInv'
    BY <1>0, <2>1, <2>2, SentElse, ActiveOther
  <2>5. UnroutedInv'
    BY <1>0, <2>1, <2>2, SentElse DEF UnroutedInv
  <2>6. ListInv'
    <3>1. SUFFICES ASSUME ~failed, ~overtaken, ~overlapped, ~ListRequested PROVE ListInv'
      BY <2>2 DEF ListInv
    <3>2. \A i \in DOMAIN requests : requests[i].kind \notin ListKinds
      BY <3>1 DEF ListRequested
    <3>3. Latest(requests, ListKinds) = {}
      BY <3>2 DEF Latest
    <3>4. Shows(list, cursor, filters)
      BY <1>0, <2>2, <3>1, <3>3 DEF ListInv
    <3>5. /\ Latest(requests', ListKinds) = {r}
          /\ \A i \in DOMAIN requests' :
               (i \in DOMAIN requests /\ requests'[i] = requests[i]) \/ requests'[i] = r
      BY <1>0, <2>1, <2>2, SentElse
    <3>6. ASSUME NEW i \in DOMAIN requests', requests'[i].kind \in ListKinds
          PROVE  i = Len(requests) + 1
      <4>1. requests \in Seq(Requests)
        BY <1>0 DEF TypesInv, TypeOK
      <4>2. /\ DOMAIN requests = 1 .. Len(requests) /\ Len(requests) \in Nat
            /\ requests' \in Seq(Requests) /\ Len(requests') = Len(requests) + 1
            /\ \A k \in 1 .. Len(requests) : requests'[k] = requests[k]
        BY <2>1, <2>2, <4>1, LenProperties, AppendProperties
      <4>3. DOMAIN requests' = 1 .. Len(requests) + 1
        BY <4>2, LenProperties
      <4>4. QED
        BY <3>2, <3>6, <4>2, <4>3
    <3>7. QED
      BY <2>1, <2>2, <3>4, <3>5, <3>6 DEF ListInv
  <2>7. QED
    BY <2>3, <2>4, <2>5, <2>6
<1>4. ASSUME NEW s \in Sessions, NEW o \in Ordinals, SelectResult(s, o)
      PROVE  MessagesInv' /\ ActiveInv' /\ UnroutedInv' /\ ListInv'
  <2>1. /\ UNCHANGED <<route, list, cursor, filters, overtaken, overlapped, failed>>
        /\ SelectAndLoad(s) /\ effects = {} /\ effects' \subseteq {"panel"}
        /\ early' = (early \/ \E i \in DOMAIN requests : requests[i].kind = "load")
    BY <1>4 DEF SelectResult, Ready, Idle, PanelIfChanged, urlVars, listVars
  <2>2. MessagesInv' /\ ActiveInv'
    BY <1>0, <2>1, MessagesSelected, ActiveSelected
  <2>3. /\ Latest(requests', ListKinds) = Latest(requests, ListKinds)
        /\ \A i \in DOMAIN requests' : requests'[i].kind \in ListKinds =>
             i \in DOMAIN requests /\ requests'[i] = requests[i]
    BY <1>0, <2>1, SelectionSent DEF ListKinds, TypesInv, TypeOK
  <2>4. UnroutedInv'
    BY <2>1, <2>3 DEF UnroutedInv, ListKinds
  <2>5. ListInv'
    BY <1>0, <2>1, <2>3, ListOther
  <2>6. QED
    BY <2>2, <2>4, <2>5
<1>5. ASSUME NEW o \in Ordinals, ScrollToMessage(o)
      PROVE  MessagesInv' /\ ActiveInv' /\ UnroutedInv' /\ ListInv'
  BY <1>5, StillStep
  DEF ScrollToMessage, urlVars, listVars, activeVars, messageVars, history
<1>6. QED
  BY <1>1, <1>2, <1>3, <1>4, <1>5 DEF Event

\* An answer that leaves the active session and loads no list.
LEMMA UnroutedAnswered ==
  ASSUME TypesInv, UnroutedInv, NEW i \in DOMAIN requests, NEW kinds, Answered(i, kinds),
         UNCHANGED <<route, active>>, "load" \notin effects'
  PROVE  UnroutedInv'
<1>1. effects = {} /\ early' = early /\ requests' = RemoveAt(requests, i)
  BY DEF Answered, Idle
<1>2. \A k \in DOMAIN requests' : \E j \in DOMAIN requests : requests'[k] = requests[j]
  BY <1>1, Over DEF TypesInv, TypeOK
<1>3. QED
  BY <1>1, <1>2 DEF UnroutedInv

\* An answer to a request that is not for messages.
LEMMA MessagesOtherAnswered ==
  ASSUME TypesInv, MessagesInv, NEW i \in DOMAIN requests, NEW kinds, Answered(i, kinds),
         UNCHANGED <<active, msgs, failed>>, requests[i].kind # "messages"
  PROVE  MessagesInv'
<1>1. SUFFICES ASSUME ~overtaken' PROVE MessagesInv'
  BY DEF MessagesInv
<1>2. ~overtaken /\ Latest(requests', {"messages"}) = Latest(requests, {"messages"})
  BY <1>1, LatestAnswered DEF TypesInv, TypeOK
<1>3. QED
  BY <1>1, <1>2 DEF MessagesInv

\* An answer to a request that is not for a session; if it replaces the list, the
\* session of the URL is selected again.
LEMMA ActiveOtherAnswered ==
  ASSUME TypesInv, ActiveInv, NEW i \in DOMAIN requests, NEW kinds, Answered(i, kinds),
         UNCHANGED <<route, active, fetched, failed>>, requests[i].kind # "session",
         \/ Range(list) \subseteq Range(list)'
         \/ route # None /\ "select" \in effects'
  PROVE  ActiveInv'
<1>1. SUFFICES ASSUME ~overtaken' PROVE ActiveInv'
  BY DEF ActiveInv
<1>2. /\ ~overtaken /\ Latest(requests', {"session"}) = Latest(requests, {"session"})
      /\ effects = {} /\ early' = early
  BY <1>1, LatestAnswered DEF Answered, Idle, TypesInv, TypeOK
<1>3. QED
  BY <1>1, <1>2 DEF ActiveInv

LEMMA AnswerSelects ==
  ASSUME IInv, NEW i \in DOMAIN requests, Answer(i)
  PROVE  MessagesInv' /\ ActiveInv' /\ UnroutedInv' /\ ListInv'
<1>0. TypesInv /\ MessagesInv /\ ActiveInv /\ UnroutedInv /\ ListInv
  BY DEF IInv
<1>1. CASE LoadAnswered(i)
  <2>1. /\ Answered(i, {"load"}) /\ requests[i].kind = "load"
        /\ UNCHANGED <<route, active, fetched, msgs, failed>>
        /\ effects' = SelectIfRouted \cup PanelIfChanged("list")
        /\ early' = early /\ effects = {}
    BY <1>1 DEF LoadAnswered, Answered, Idle, urlVars, activeVars, messageVars
  <2>2. "load" \notin effects' /\ (route # None => "select" \in effects')
    BY <2>1 DEF SelectIfRouted, PanelIfChanged
  <2>3. MessagesInv'
    BY <1>0, <2>1, MessagesOtherAnswered
  <2>4. UnroutedInv'
    BY <1>0, <2>1, <2>2, UnroutedAnswered
  <2>5. ActiveInv'
    <3>1. CASE route # None
      BY <1>0, <2>1, <2>2, <3>1, ActiveOtherAnswered
    <3>2. CASE route = None
      <4>1. early \/ active = None
        BY <1>0, <2>1, <3>2 DEF UnroutedInv
      <4>2. QED
        BY <2>1, <3>2, <4>1 DEF ActiveInv
    <3>3. QED
      BY <3>1, <3>2
  <2>6. QED
    BY <1>0, <1>1, <2>3, <2>4, <2>5, LoadListed
<1>2. CASE MoreAnswered(i)
  <2>1. /\ Answered(i, {"more"}) /\ requests[i].kind = "more"
        /\ UNCHANGED <<route, active, fetched, msgs, failed>>
        /\ effects' = SelectIfRouted \cup PanelIfChanged("none")
        /\ list' = list \o Page(requests[i].filters, requests[i].after)
    BY <1>2 DEF MoreAnswered, Answered, urlVars, activeVars, messageVars
  <2>2. "load" \notin effects'
    BY <2>1 DEF SelectIfRouted, PanelIfChanged
  <2>3. Range(list) \subseteq Range(list)'
    <3>1. requests[i] \in Requests /\ "more" \notin ItemKinds
      BY <1>0, LenProperties, ElementOfSeq DEF TypesInv, TypeOK, ItemKinds
    <3>2. requests[i].filters \in Filters /\ requests[i].after \in Sessions \cup {None}
      BY <2>1, <3>1 DEF Requests, ListKinds, ItemKinds
    <3>3. Page(requests[i].filters, requests[i].after) \in Seq(Sessions) /\ list \in Seq(Sessions)
      BY <1>0, <3>2, PageIs DEF TypesInv, TypeOK
    <3> DEFINE p == Page(requests[i].filters, requests[i].after)
    <3> HIDE DEF p
    <3>4. /\ DOMAIN list = 1 .. Len(list) /\ Len(list) \in Nat /\ Len(p) \in Nat
          /\ DOMAIN list' = 1 .. Len(list) + Len(p)
          /\ \A k \in 1 .. Len(list) + Len(p) :
               list'[k] = IF k <= Len(list) THEN list[k] ELSE p[k - Len(list)]
      BY <2>1, <3>3, ConcatProperties, LenProperties DEF p
    <3>5. \A k \in DOMAIN list : k \in DOMAIN list' /\ list'[k] = list[k]
      BY <3>4
    <3>6. QED
      BY <3>5 DEF Range
  <2>4. MessagesInv' /\ ActiveInv' /\ UnroutedInv'
    BY <1>0, <2>1, <2>2, <2>3, MessagesOtherAnswered, ActiveOtherAnswered, UnroutedAnswered
  <2>5. QED
    BY <1>0, <1>2, <2>4, MoreListed
<1>3. CASE SessionAnswered(i)
  <2>1. /\ Answered(i, {"session"}) /\ requests[i].kind = "session"
        /\ fetched' = requests[i].id /\ "session" \notin ListKinds
        /\ UNCHANGED <<route, list, cursor, filters, active, msgs, failed>>
        /\ effects' = PanelIfChanged("fetched") /\ effects = {} /\ early' = early
    BY <1>3
    DEF SessionAnswered, Answered, Idle, ListKinds, urlVars, listVars, messageVars
  <2>2. "load" \notin effects'
    BY <2>1 DEF PanelIfChanged
  <2>3. MessagesInv' /\ UnroutedInv' /\ ListInv'
    BY <1>0, <2>1, <2>2, MessagesOtherAnswered, UnroutedAnswered, ListOtherAnswered
  <2>4. ActiveInv'
    <3>1. SUFFICES ASSUME ~failed, ~overtaken', active # None, route # None \/ ~early
                   PROVE  \/ active \in Range(list)
                          \/ \E r \in Latest(requests', {"session"}) : r.id = active
                          \/ Latest(requests', {"session"}) = {} /\ requests[i].id = active
      BY <2>1 DEF ActiveInv
    <3>2. /\ ~overtaken /\ Latest(requests, {"session"}) # {}
          /\ \/ Latest(requests', {"session"}) = Latest(requests, {"session"})
             \/ /\ Latest(requests', {"session"}) = {}
                /\ Latest(requests, {"session"}) = {requests[i]}
      BY <1>0, <2>1, <3>1, LatestAnswered DEF TypesInv, TypeOK
    <3>3. \/ active \in Range(list)
          \/ \E r \in Latest(requests, {"session"}) : r.id = active
      BY <1>0, <2>1, <3>1, <3>2 DEF ActiveInv
    <3>4. QED
      BY <3>2, <3>3
  <2>5. QED
    BY <2>3, <2>4
<1>4. CASE MessagesAnswered(i)
  <2>1. /\ Answered(i, {"messages"}) /\ requests[i].kind = "messages"
        /\ msgs' = requests[i].id /\ "messages" \notin ListKinds
        /\ UNCHANGED <<route, list, cursor, filters, active, fetched, failed, effects>>
        /\ effects = {}
    BY <1>4
    DEF MessagesAnswered, Answered, Idle, ListKinds, urlVars, listVars, activeVars
  <2>2. ActiveInv' /\ UnroutedInv' /\ ListInv'
    BY <1>0, <2>1, ActiveOtherAnswered, UnroutedAnswered, ListOtherAnswered
  <2>3. MessagesInv'
    <3>1. SUFFICES ASSUME ~failed, ~overtaken', active # None
                   PROVE  \/ \E r \in Latest(requests', {"messages"}) : r.id = active
                          \/ Latest(requests', {"messages"}) = {} /\ requests[i].id = active
      BY <2>1 DEF MessagesInv
    <3>2. /\ ~overtaken /\ Latest(requests, {"messages"}) # {}
          /\ \/ Latest(requests', {"messages"}) = Latest(requests, {"messages"})
             \/ /\ Latest(requests', {"messages"}) = {}
                /\ Latest(requests, {"messages"}) = {requests[i]}
      BY <1>0, <2>1, <3>1, LatestAnswered DEF TypesInv, TypeOK
    <3>3. \E r \in Latest(requests, {"messages"}) : r.id = active
      BY <1>0, <3>1, <3>2 DEF MessagesInv
    <3>4. QED
      BY <3>2, <3>3
  <2>4. QED
    BY <2>2, <2>3
<1>5. CASE LinksAnswered(i)
  <2>1. /\ Answered(i, {"links"}) /\ requests[i].kind = "links" /\ "links" \notin ListKinds
        /\ UNCHANGED <<route, list, cursor, filters, active, fetched, msgs, failed, effects>>
        /\ effects = {}
    BY <1>5
    DEF LinksAnswered, Answered, Idle, ListKinds, urlVars, listVars, activeVars, messageVars
  <2>2. QED
    BY <1>0, <2>1, MessagesOtherAnswered, ActiveOtherAnswered, UnroutedAnswered,
       ListOtherAnswered
<1>6. CASE RequestFails(i)
  <2>1. /\ Answered(i, ListKinds \cup ItemKinds) /\ failed' = TRUE
        /\ UNCHANGED <<route, active, effects>> /\ effects = {}
    BY <1>6 DEF RequestFails, Answered, Idle, urlVars, activeVars
  <2>2. UnroutedInv'
    BY <1>0, <2>1, UnroutedAnswered
  <2>3. QED
    BY <2>1, <2>2 DEF MessagesInv, ActiveInv, ListInv
<1>7. QED
  BY <1>1, <1>2, <1>3, <1>4, <1>5, <1>6 DEF Answer

LEMMA InitSelects == Init => IInv
<1>1. SUFFICES ASSUME Init PROVE IInv
  OBVIOUS
<1>2. active = None /\ "load" \in effects
  BY <1>1 DEF Init
<1>3. TypesInv
  BY <1>1, InitTypes
<1>4. QED
  BY <1>2, <1>3 DEF IInv, MessagesInv, ActiveInv, UnroutedInv, ListInv

LEMMA InvariantAlways == Spec => []IInv
<1>1. Init => IInv
  BY InitSelects
<1>2. IInv /\ [Next]_vars => IInv'
  <2> SUFFICES ASSUME IInv, [Next]_vars PROVE IInv'
    OBVIOUS
  <2>1. TypesInv'
    BY StepTypes DEF IInv
  <2>2. CASE Effect BY <2>1, <2>2, EffectSelects DEF IInv
  <2>3. CASE Event BY <2>1, <2>3, EventSelects DEF IInv
  <2>4. CASE \E i \in DOMAIN requests : Answer(i)
    <3>1. PICK i \in DOMAIN requests : Answer(i)
      BY <2>4
    <3>2. QED
      BY <2>1, <3>1, AnswerSelects DEF IInv
  <2>5. CASE UNCHANGED vars
    BY <2>1, <2>5, StillStep
    DEF vars, IInv, urlVars, listVars, activeVars, messageVars, history
  <2> QED BY <2>2, <2>3, <2>4, <2>5 DEF Next
<1>3. QED
  BY <1>1, <1>2, PTL DEF Spec

\* When the answers to requests of one kind have come in the order of the
\* requests, the messages held are those of the session selected last, and it is
\* the one shown, unless it is not in the URL and was picked from a list about to
\* be replaced: for any pages, filters and number of requests in flight.
THEOREM SelectionIsShown == Spec => []SelectedIsShown
<1>1. IInv => SelectedIsShown
  <2>1. SUFFICES ASSUME IInv, Settled, ~failed, ~overtaken, active # None
                 PROVE  msgs = active /\ (route # None \/ ~early => Shown = active)
    BY DEF SelectedIsShown
  <2>2. requests = <<>> /\ effects = {}
    BY <2>1 DEF Settled, Idle
  <2>3. \A K : Latest(requests, K) = {}
    BY <2>2 DEF Latest
  <2>4. msgs = active
    BY <2>1, <2>3 DEF IInv, MessagesInv
  <2>5. route # None \/ ~early => active \in Range(list) \/ fetched = active
    BY <2>1, <2>2, <2>3 DEF IInv, ActiveInv
  <2>6. active \in Range(list) \/ fetched = active => Shown = active
    BY <2>1 DEF Shown, Object
  <2>7. QED
    BY <2>4, <2>5, <2>6
<1>2. QED
  BY <1>1, InvariantAlways, PTL

\* And the list is a beginning of the rows for the filters, with the cursor where
\* it goes on, if "Load more" was not clicked while a page was on its way.
THEOREM ListShowsRows == Spec => []ListIsPrefix
<1>1. IInv => ListIsPrefix
  <2>1. SUFFICES ASSUME IInv, Settled, ~failed, ~overtaken, ~overlapped
                 PROVE  /\ IsPrefix(list, Rows(filters))
                        /\ cursor = IF list = Rows(filters) THEN None ELSE Last(list)
    BY DEF ListIsPrefix
  <2>2. requests = <<>> /\ effects = {}
    BY <2>1 DEF Settled, Idle
  <2>3. Latest(requests, ListKinds) = {}
    BY <2>2 DEF Latest
  <2>4. Shows(list, cursor, filters) /\ filters \in Filters
    BY <2>1, <2>2, <2>3 DEF IInv, ListInv, TypesInv, TypeOK
  <2>5. QED
    BY <2>4, ShownIsPrefix
<1>2. QED
  BY <1>1, InvariantAlways, PTL

=============================================================================
