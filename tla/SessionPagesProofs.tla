-------------------------- MODULE SessionPagesProofs --------------------------
(* Proofs about SessionPages, for any table, limits and number of writes. *)
EXTENDS SessionPages, FiniteSetTheorems, TLAPS

Active == phase \in {"ready", "count", "select"}

\* The cursor of a walk under way is the last key that was walked through.
CursorInv ==
  /\ \A c \in cursor, k \in Walked : k = c \/ Before(k, c)
  /\ Active /\ cursor = {} => Walked = {}

\* What the walk has neither reached nor cut off lies behind the cursor.
Missed(k) == \E c \in ends : Before(c, k) /\ CutOff(k, c)

AheadInv ==
  /\ cursor \subseteq ends
  /\ \A k \in always :
       \/ k \in Walked
       \/ Missed(k)
       \/ Active /\ \A c \in cursor : Before(c, k)

HistoryInv == always \subseteq Browsable /\ Browsable \subseteq ever /\ Walked \subseteq ever

LEMMA KeysFacts ==
  ASSUME NEW k \in Keys
  PROVE  k.id \in Int /\ k.start \in Nat
<1>1. k.id \in Sessions /\ k.start \in Times
  BY DEF Keys
<1>2. k.id \in Int
  BY <1>1, SessionsAssumption
<1>3. k.start \in Nat
  BY <1>1, NumbersAssumption DEF Times, Null
<1>4. QED
  BY <1>2, <1>3

LEMMA BeforeTransitive ==
  ASSUME NEW a \in Keys, NEW b \in Keys, NEW c \in Keys, Before(a, b), Before(b, c)
  PROVE  Before(a, c)
BY KeysFacts DEF Before

\* The driver may round the time of a cursor, but never up.
LEMMA BoundTimeBelow ==
  ASSUME NEW t \in Nat
  PROVE  BoundTime(t) \in Int /\ BoundTime(t) <= t
BY NumbersAssumption DEF BoundTime

LEMMA AfterIsBehind ==
  ASSUME NEW k \in Keys, NEW c \in Keys, After(k, c)
  PROVE  Before(c, k)
BY KeysFacts, BoundTimeBelow DEF After, Before

LEMMA BehindIsAfter ==
  ASSUME NEW k \in Keys, NEW c \in Keys, Before(c, k), ~CutOff(k, c)
  PROVE  After(k, c)
BY KeysFacts, BoundTimeBelow DEF After, Before, CutOff

LEMMA ListedKeys ==
  ASSUME NEW st \in [Sessions -> Times], NEW br \in SUBSET Sessions
  PROVE  Listed(st, br) \subseteq Keys
BY DEF Listed, Keys

LEMMA ListedFinite ==
  ASSUME NEW st, NEW br \in SUBSET Sessions
  PROVE  IsFiniteSet(Listed(st, br)) /\ Cardinality(Listed(st, br)) \in Nat
<1> DEFINE f == [s \in br |-> [id |-> s, start |-> st[s]]]
<1>1. IsFiniteSet(br)
  BY SessionsAssumption, FS_Subset
<1>2. f \in Surjection(br, Listed(st, br))
  BY DEF Surjection, Listed
<1>3. IsFiniteSet(Listed(st, br))
  BY <1>1, <1>2, FS_Surjection
<1>4. QED
  BY <1>3, FS_CardinalityType

LEMMA ClampInRange == ASSUME NEW l \in Limits PROVE Clamp(l) \in 1 .. MaxLimit
BY LimitsAssumption, NumbersAssumption DEF Clamp

-----------------------------------------------------------------------------
LEMMA InitTypeOK == Init => TypeOK
<1>1. SUFFICES ASSUME Init PROVE TypeOK
  OBVIOUS
<1>2. Browsable \subseteq Keys
  BY <1>1, ListedKeys DEF Init, Browsable
<1>3. limit \in 1 .. MaxLimit
  BY <1>1, ClampInRange DEF Init
<1>4. QED
  BY <1>1, <1>2, <1>3, NumbersAssumption DEF Init, TypeOK, Phases

LEMMA NextTypeOK == TypeOK /\ [Next]_vars => TypeOK'
<1>1. SUFFICES ASSUME TypeOK, [Next]_vars PROVE TypeOK'
  OBVIOUS
<1>2. Browsable \subseteq Keys /\ Cardinality(Browsable) \in Nat
  BY <1>1, ListedKeys, ListedFinite DEF TypeOK, Browsable
<1> USE DEF TypeOK, Phases, tableVars, clientVars
<1>3. ASSUME NEW s \in Sessions, NEW t \in Times, NEW shown \in BOOLEAN,
             WriteRow(s, t, shown)
      PROVE  TypeOK'
  <2>1. start' \in [Sessions -> Times] /\ browsable' \subseteq Sessions
    BY <1>1, <1>3 DEF WriteRow
  <2>2. Listed(start', browsable') \subseteq Keys
    BY <2>1, ListedKeys
  <2>3. writes' \in 0 .. MaxWrites
    BY <1>1, <1>3, NumbersAssumption DEF WriteRow
  <2>4. QED
    BY <1>1, <1>3, <2>1, <2>2, <2>3 DEF WriteRow
<1>4. CASE Restart
  BY <1>1, <1>2, <1>4, NumbersAssumption DEF Restart
<1>5. CASE Request
  BY <1>1, <1>5, ClampInRange DEF Request
<1>6. CASE Count
  BY <1>1, <1>2, <1>6 DEF Count
<1>7. CASE Select
  BY <1>1, <1>2, <1>7 DEF Select, Matching
<1>8. CASE Refuse \/ QueryFails \/ UNCHANGED vars
  BY <1>1, <1>8 DEF Refuse, QueryFails, vars
<1>9. QED
  BY <1>1, <1>3, <1>4, <1>5, <1>6, <1>7, <1>8 DEF Next

\* The state of a walk through the pages is well-typed.
THEOREM TypeCorrect == Spec => []TypeOK
BY InitTypeOK, NextTypeOK, PTL DEF Spec

-----------------------------------------------------------------------------
LEMMA SelectCursorInv ==
  ASSUME TypeOK, TypeOK', CursorInv, Select
  PROVE  CursorInv' /\ PagesDescend'
<1>1. PICK P \in SUBSET Matching :
        /\ page' = P
        /\ \/ phase' = "done" /\ cursor' = {}
           \/ \E last \in P : /\ \A p \in P \ {last} : Before(p, last)
                              /\ cursor' = {last}
  BY DEF Select
<1>2. got' = Walked
  BY DEF Select, Walked
<1>3. ASSUME NEW k \in P, NEW old \in Walked PROVE Before(old, k)
  <2>1. old \in Keys /\ k \in Keys
    BY <1>1, TypeOK, TypeOK' DEF TypeOK, Walked
  <2>2. PICK c \in cursor : TRUE
    BY DEF CursorInv, Select, Active
  <2>3. c \in Keys /\ Before(c, k)
    BY <2>1, <2>2, AfterIsBehind DEF Matching, TypeOK
  <2>4. old = c \/ Before(old, c)
    BY <2>2 DEF CursorInv
  <2>5. QED
    BY <2>1, <2>3, <2>4, BeforeTransitive
<1>4. PagesDescend'
  BY <1>1, <1>2, <1>3 DEF PagesDescend
<1>5. CASE cursor' = {} /\ phase' = "done"
  BY <1>4, <1>5 DEF CursorInv, Active
<1>6. ASSUME NEW last \in P, \A p \in P \ {last} : Before(p, last), cursor' = {last}
      PROVE  CursorInv'
  BY <1>1, <1>2, <1>3, <1>6 DEF CursorInv, Walked
<1>7. QED
  BY <1>1, <1>4, <1>5, <1>6

LEMMA NextCursorInv ==
  TypeOK /\ CursorInv /\ PagesDescend /\ [Next]_vars => CursorInv' /\ PagesDescend'
<1>1. SUFFICES ASSUME TypeOK, CursorInv, PagesDescend, [Next]_vars
               PROVE  CursorInv' /\ PagesDescend'
  OBVIOUS
<1> USE DEF CursorInv, PagesDescend, Walked, Active, tableVars, clientVars
<1>2. ASSUME NEW s \in Sessions, NEW t \in Times, NEW shown \in BOOLEAN,
             WriteRow(s, t, shown)
      PROVE  CursorInv' /\ PagesDescend'
  BY <1>1, <1>2 DEF WriteRow, Before
<1>3. CASE Restart \/ Request \/ Count \/ Refuse \/ QueryFails \/ UNCHANGED vars
  BY <1>1, <1>3 DEF Restart, Request, Count, Refuse, QueryFails, vars, Before
<1>4. CASE Select
  BY <1>1, <1>4, NextTypeOK, SelectCursorInv
<1>5. QED
  BY <1>1, <1>2, <1>3, <1>4 DEF Next

\* Each page comes after all earlier ones in the order of the list, whatever the
\* sync writes and however the driver rounds the time of the cursor: no session
\* is listed twice with the same start time.
THEOREM PagesAreDescending == Spec => []PagesDescend
<1>1. Init => TypeOK /\ CursorInv /\ PagesDescend
  BY InitTypeOK DEF Init, CursorInv, PagesDescend, Walked
<1>2. QED
  BY <1>1, NextTypeOK, NextCursorInv, PTL DEF Spec

-----------------------------------------------------------------------------
LEMMA SelectAheadInv ==
  ASSUME TypeOK, TypeOK', AheadInv, HistoryInv, Select
  PROVE  AheadInv'
<1>1. PICK P \in SUBSET Matching :
        /\ IsPage(P, Matching, limit)
        /\ page' = P
        /\ \/ P = Matching /\ phase' = "done" /\ cursor' = {}
           \/ phase' = "ready" /\ \E last \in P : cursor' = {last}
  BY DEF Select
<1>2. /\ Walked' = Walked \cup P /\ always' = always
      /\ ends' = ends \cup cursor'
  BY <1>1 DEF Select, Walked, tableVars
<1>3. SUFFICES ASSUME NEW k \in always, k \notin Walked, k \notin P, ~Missed(k)'
               PROVE  Active' /\ \A c \in cursor' : Before(c, k)
  BY <1>2 DEF AheadInv
<1>4. k \in Keys /\ k \in Browsable
  BY <1>3 DEF TypeOK, HistoryInv
<1>5. \A c \in cursor : After(k, c)
  <2>1. ~Missed(k)
    BY <1>2, <1>3 DEF Missed, Before, CutOff, BoundTime
  <2>2. \A c \in cursor : c \in Keys /\ Before(c, k) /\ ~CutOff(k, c)
    BY <1>3, <2>1 DEF AheadInv, Missed, TypeOK
  <2>3. QED
    BY <1>4, <2>2, BehindIsAfter
<1>6. k \in Matching \ P
  BY <1>3, <1>4, <1>5 DEF Matching
<1>7. \A p \in P : Before(p, k)
  BY <1>1, <1>6 DEF IsPage
<1>8. QED
  BY <1>1, <1>6, <1>7 DEF Active

LEMMA NextAheadInv == TypeOK /\ AheadInv /\ HistoryInv /\ [Next]_vars => AheadInv'
<1>1. SUFFICES ASSUME TypeOK, AheadInv, HistoryInv, [Next]_vars PROVE AheadInv'
  OBVIOUS
<1> USE DEF AheadInv, Missed, Walked, Active, tableVars, clientVars, Before, CutOff, BoundTime
<1>2. ASSUME NEW s \in Sessions, NEW t \in Times, NEW shown \in BOOLEAN,
             WriteRow(s, t, shown)
      PROVE  AheadInv'
  BY <1>1, <1>2 DEF WriteRow
<1>3. CASE Restart
  BY <1>1, <1>3 DEF Restart
<1>4. CASE Request \/ Count \/ QueryFails \/ UNCHANGED vars
  BY <1>1, <1>4 DEF Request, Count, QueryFails, vars
<1>5. CASE Refuse
  <2>1. PICK c \in cursor : c.start = Null
    BY <1>5 DEF Refuse
  <2>2. ASSUME NEW k \in always, Before(c, k) PROVE CutOff(k, c)
    <3>1. c \in Keys /\ k \in Keys
      BY <1>1, <2>1 DEF TypeOK
    <3>2. k.start = Null
      BY <2>1, <2>2, <3>1, KeysFacts DEF Null
    <3>3. QED
      BY <3>2
  <2>3. \A k \in always : k \in Walked \/ Missed(k)
    BY <1>1, <2>1, <2>2
  <2>4. UNCHANGED <<always, Walked, ends, cursor>>
    BY <1>5 DEF Refuse
  <2>5. QED
    BY <1>1, <2>3, <2>4
<1>6. CASE Select
  BY <1>1, <1>6, NextTypeOK, SelectAheadInv
<1>7. QED
  BY <1>1, <1>2, <1>3, <1>4, <1>5, <1>6 DEF Next

LEMMA NextHistoryInv == HistoryInv /\ [Next]_vars => HistoryInv'
<1>1. SUFFICES ASSUME HistoryInv, [Next]_vars PROVE HistoryInv'
  OBVIOUS
<1> USE DEF HistoryInv, Walked, Browsable, tableVars, clientVars
<1>2. ASSUME NEW s \in Sessions, NEW t \in Times, NEW shown \in BOOLEAN,
             WriteRow(s, t, shown)
      PROVE  HistoryInv'
  BY <1>1, <1>2 DEF WriteRow
<1>3. CASE Restart \/ Request \/ Count \/ Refuse \/ QueryFails \/ UNCHANGED vars
  BY <1>1, <1>3 DEF Restart, Request, Count, Refuse, QueryFails, vars
<1>4. CASE Select
  BY <1>1, <1>4 DEF Select, Matching
<1>5. QED
  BY <1>1, <1>2, <1>3, <1>4 DEF Next

\* Whatever is written and however the driver rounds the time of a cursor, a walk
\* sees only sessions that were in the list, and misses of those that were there
\* throughout only the undated ones and the rest of a second in which a page ends.
THEOREM WalksAreComplete == Spec => []WalkComplete
<1>1. Init => TypeOK /\ AheadInv /\ HistoryInv
  BY InitTypeOK DEF Init, AheadInv, HistoryInv, Walked, Active
<1>2. AheadInv /\ HistoryInv => WalkComplete
  BY DEF AheadInv, Missed, HistoryInv, WalkComplete, Active
<1>3. TypeOK /\ AheadInv /\ HistoryInv /\ [Next]_vars => TypeOK' /\ AheadInv' /\ HistoryInv'
  BY NextTypeOK, NextAheadInv, NextHistoryInv
<1>4. QED
  BY <1>1, <1>2, <1>3, PTL DEF Spec

=============================================================================
