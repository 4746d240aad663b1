-------------------------- MODULE StoreReadsProofs ---------------------------
(* Proofs about StoreReads, for any sessions, batches, filters and days.   *)
EXTENDS StoreReads, FiniteSetTheorems, WellFoundedInduction, TLAPS

-----------------------------------------------------------------------------
(* Ranges of days. *)

\* Days are numbered without a gap.
LEMMA DaysAreNumbered == Days \subseteq Nat /\ \A d, g \in Days : d < g => d + 1 \in Days
<1>1. Cardinality(Days) \in Nat
  BY DaysAssumption, FS_CardinalityType
<1>2. QED
  BY <1>1, DaysAssumption

\* A later day has a later first moment.
LEMMA FirstsAscend ==
  ASSUME NEW x \in Nat, NEW y \in Nat, x <= y
  PROVE  FirstOf(x) \in Int /\ FirstOf(y) \in Int /\ FirstOf(x) <= FirstOf(y)
<1>1. PICK k \in Nat : y = x + k
  <2>1. y - x \in Nat /\ y = x + (y - x)
    OBVIOUS
  <2>2. QED
    BY <2>1
<1>2. TicksPerDay \in Nat
  BY DaysAssumption
<1>3. k * TicksPerDay \in Nat
  BY <1>2
<1>4. FirstOf(y) = FirstOf(x) + k * TicksPerDay
  BY <1>1, <1>2 DEF FirstOf
<1>5. FirstOf(x) \in Int
  BY <1>2 DEF FirstOf
<1>6. QED
  BY <1>3, <1>4, <1>5

\* A moment of a range lies in exactly one of the two parts it is cut into.
LEMMA CutRange ==
  ASSUME NEW row \in Rows, NEW d \in Days, NEW e \in Days, NEW g \in Days, d <= e, e < g
  PROVE  /\ ~(Until(row, e) /\ Since(row, e + 1))
         /\ Since(row, d) /\ Until(row, g)
              <=> \/ Since(row, d) /\ Until(row, e)
                  \/ Since(row, e + 1) /\ Until(row, g)
<1>1. {d, e, g, e + 1} \subseteq Nat \cap Days
  BY DaysAreNumbered
<1>2. All \notin {d, e, g, e + 1}
  BY <1>1, FiltersAssumption
<1>3. /\ FirstOf(d) \in Int /\ FirstOf(e + 1) \in Int /\ FirstOf(g + 1) \in Int
      /\ FirstOf(d) <= FirstOf(e + 1) /\ FirstOf(e + 1) <= FirstOf(g + 1)
  <2>1. d <= e + 1 /\ e + 1 <= g + 1 /\ g + 1 \in Nat
    BY <1>1
  <2>2. QED
    BY <1>1, <2>1, FirstsAscend
<1>4. row.at \in Int
  <2>1. TicksPerDay * Cardinality(Days) \in Int
    BY DaysAssumption, FS_CardinalityType
  <2>2. QED
    BY <2>1 DEF Rows, Times, Null
<1>5. QED
  BY <1>2, <1>3, <1>4 DEF Since, Until

-----------------------------------------------------------------------------
(* The tables. *)

\* The session of a batch is stored before anything else of it.
BatchStored ==
  /\ step # "collect" => batch \in Batches
  /\ step \in {"messages", "calls", "links"} => batch.session \in DOMAIN sessions

\* Whatever belongs to a session is stored with it.
SessionStored ==
  \A x \in messages \cup toolCalls \cup links : x.session \in DOMAIN sessions

\* Of the session a request is about, what was stored still is, with its key.
RequestKept ==
  /\ phase # "idle" => \A m \in read, c \in stored : m.session = c.session
  /\ phase = "calls" => \A c \in stored : \E d \in toolCalls : CallKey(d) = CallKey(c)

IInv == TypeOK /\ BatchStored /\ SessionStored /\ RequestKept /\ AnswerIsWhole

\* What a batch writes is of its session, its messages with different keys.
LEMMA BatchRows ==
  ASSUME NEW b \in Batches
  PROVE  /\ b.session \in Sessions /\ b.row \in Rows
         /\ b.messages \subseteq Messages /\ b.calls \subseteq ToolCalls
         /\ b.links \subseteq Links
         /\ \A x \in b.messages \cup b.calls \cup b.links : x.session = b.session
         /\ \A m, n \in b.messages : MessageKey(m) = MessageKey(n) => m = n
BY BatchesAssumption DEF Sessions, Messages, ToolCalls, Links, MessageKey

\* Of the rows with one key, one is inserted.
LEMMA KeptAreKeyed ==
  ASSUME NEW rows, NEW kept \in OneOfEach(rows, CallKey)
  PROVE  /\ kept \subseteq rows
         /\ \A c, d \in kept : CallKey(c) = CallKey(d) => c = d
BY DEF OneOfEach

\* IInv is inductive.
LEMMA InitIInv == Init => IInv
BY DEF Init, IInv, TypeOK, BatchStored, SessionStored, RequestKept, AnswerIsWhole

LEMMA NextIInv == IInv /\ [Next]_vars => IInv'
<1> SUFFICES ASSUME IInv, [Next]_vars PROVE IInv'
  OBVIOUS
<1> USE DEF IInv
<1>1. ASSUME NEW b \in Batches, Collect(b) PROVE IInv'
  BY <1>1 DEF Collect, tables, reader, TypeOK, BatchStored, SessionStored, RequestKept,
              AnswerIsWhole
<1>2. CASE InsertSessions
  <2>1. batch \in Batches
    BY <1>2 DEF InsertSessions, BatchStored
  <2>2. /\ DOMAIN sessions' = DOMAIN sessions \cup {batch.session}
        /\ \A s \in DOMAIN sessions' :
             sessions'[s] = IF s = batch.session THEN batch.row ELSE sessions[s]
    BY <1>2 DEF InsertSessions
  <2>3. TypeOK'
    BY <1>2, <2>1, <2>2, BatchRows DEF InsertSessions, TypeOK, reader
  <2>4. QED
    BY <1>2, <2>1, <2>2, <2>3
       DEF InsertSessions, reader, BatchStored, SessionStored, RequestKept, AnswerIsWhole
<1>3. CASE InsertMessages
  <2>1. batch \in Batches /\ batch.session \in DOMAIN sessions
    BY <1>3 DEF InsertMessages, BatchStored
  <2>2. messages' = Inserted(messages, batch.messages, MessageKey)
    BY <1>3 DEF InsertMessages
  <2>3. messages' \subseteq messages \cup batch.messages
    BY <2>2 DEF Inserted
  <2>4. \A m, n \in messages' : MessageKey(m) = MessageKey(n) => m = n
    <3>1. \A m, n \in messages : MessageKey(m) = MessageKey(n) => m = n
      BY DEF TypeOK
    <3>2. \A m, n \in batch.messages : MessageKey(m) = MessageKey(n) => m = n
      BY <2>1, BatchRows
    <3>3. QED
      BY <2>2, <3>1, <3>2 DEF Inserted
  <2>5. TypeOK'
    BY <1>3, <2>1, <2>3, <2>4, BatchRows DEF InsertMessages, TypeOK, reader
  <2>6. SessionStored'
    BY <1>3, <2>1, <2>3, BatchRows DEF InsertMessages, SessionStored
  <2>7. QED
    BY <1>3, <2>1, <2>5, <2>6
       DEF InsertMessages, reader, BatchStored, RequestKept, AnswerIsWhole
<1>4. CASE InsertToolCalls
  <2>1. batch \in Batches /\ batch.session \in DOMAIN sessions
    BY <1>4 DEF InsertToolCalls, BatchStored
  <2>2. PICK kept \in OneOfEach(batch.calls, CallKey) :
          toolCalls' = Inserted(toolCalls, kept, CallKey)
    BY <1>4 DEF InsertToolCalls
  <2>3. /\ kept \subseteq batch.calls
        /\ \A c, d \in kept : CallKey(c) = CallKey(d) => c = d
    BY <2>2, KeptAreKeyed
  <2>4. toolCalls' \subseteq toolCalls \cup batch.calls
    BY <2>2, <2>3 DEF Inserted
  <2>5. \A c, d \in toolCalls' : CallKey(c) = CallKey(d) => c = d
    <3>1. \A c, d \in toolCalls : CallKey(c) = CallKey(d) => c = d
      BY DEF TypeOK
    <3>2. QED
      BY <2>2, <2>3, <3>1 DEF Inserted
  <2>6. \A d \in toolCalls : \E e \in toolCalls' : CallKey(e) = CallKey(d)
    BY <2>2 DEF Inserted
  <2>7. TypeOK'
    BY <1>4, <2>1, <2>4, <2>5, BatchRows DEF InsertToolCalls, TypeOK, reader
  <2>8. SessionStored'
    BY <1>4, <2>1, <2>4, BatchRows DEF InsertToolCalls, SessionStored
  <2>9. RequestKept'
    <3>1. UNCHANGED <<phase, read, stored>>
      BY <1>4 DEF InsertToolCalls, reader
    <3>2. ASSUME phase = "calls", NEW c \in stored
          PROVE  \E e \in toolCalls' : CallKey(e) = CallKey(c)
      <4>1. PICK d \in toolCalls : CallKey(d) = CallKey(c)
        BY <3>2 DEF RequestKept
      <4>2. QED
        BY <2>6, <4>1
    <3>3. QED
      BY <3>1, <3>2 DEF RequestKept, CallKey
  <2>10. QED
    BY <1>4, <2>1, <2>7, <2>8, <2>9 DEF InsertToolCalls, reader, BatchStored, AnswerIsWhole
<1>5. CASE InsertLinks
  <2>1. batch \in Batches /\ batch.session \in DOMAIN sessions
    BY <1>5 DEF InsertLinks, BatchStored
  <2>2. links' \subseteq links \cup batch.links
    BY <1>5 DEF InsertLinks, Inserted
  <2>3. TypeOK'
    BY <1>5, <2>1, <2>2, BatchRows DEF InsertLinks, TypeOK, reader
  <2>4. SessionStored'
    BY <1>5, <2>1, <2>2, BatchRows DEF InsertLinks, SessionStored
  <2>5. QED
    BY <1>5, <2>3, <2>4 DEF InsertLinks, reader, BatchStored, RequestKept, AnswerIsWhole
<1>6. CASE InsertFails
  BY <1>6 DEF InsertFails, tables, reader, TypeOK, BatchStored, SessionStored, RequestKept,
              AnswerIsWhole
<1>7. ASSUME NEW s \in Sessions, ReadMessages(s) PROVE IInv'
  <2>1. /\ read' = {m \in messages : m.session = s}
        /\ stored' = {c \in toolCalls : c.session = s}
    BY <1>7 DEF ReadMessages, CallsOf
  <2>2. TypeOK'
    BY <1>7, <2>1 DEF ReadMessages, tables, TypeOK
  <2>3. RequestKept'
    BY <1>7, <2>1 DEF ReadMessages, tables, RequestKept
  <2>4. QED
    BY <1>7, <2>2, <2>3 DEF ReadMessages, tables, BatchStored, SessionStored, AnswerIsWhole
<1>8. CASE ReadToolCalls
  <2>1. answer' = {[message |-> m,
                    calls |-> {c \in CallsOf(m.session) : c.ordinal = m.ordinal}] : m \in read}
    BY <1>8 DEF ReadToolCalls
  <2>2. TypeOK'
    <3>1. read \subseteq Messages /\ toolCalls \subseteq ToolCalls
      BY DEF TypeOK
    <3>2. answer' \subseteq [message : Messages, calls : SUBSET ToolCalls]
      BY <2>1, <3>1 DEF CallsOf
    <3>3. QED
      BY <1>8, <3>2 DEF ReadToolCalls, tables, TypeOK
  <2>3. AnswerIsWhole'
    <3>1. SUFFICES ASSUME NEW m \in read, NEW c \in stored, c.ordinal = m.ordinal
                   PROVE  \E d \in {x \in CallsOf(m.session) : x.ordinal = m.ordinal} :
                            CallKey(d) = CallKey(c)
      BY <1>8, <2>1 DEF ReadToolCalls, AnswerIsWhole, CallKey
    <3>2. m.session = c.session
      BY <1>8 DEF ReadToolCalls, RequestKept
    <3>3. PICK d \in toolCalls : CallKey(d) = CallKey(c)
      BY <1>8 DEF ReadToolCalls, RequestKept
    <3>4. d.session = m.session /\ d.ordinal = m.ordinal
      BY <3>1, <3>2, <3>3 DEF CallKey
    <3>5. QED
      BY <3>3, <3>4 DEF CallsOf
  <2>4. QED
    BY <1>8, <2>2, <2>3 DEF ReadToolCalls, tables, BatchStored, SessionStored, RequestKept
<1>9. CASE Answered
  BY <1>9 DEF Answered, tables, TypeOK, BatchStored, SessionStored, RequestKept, AnswerIsWhole
<1>10. CASE UNCHANGED vars
  BY <1>10 DEF vars, tables, reader, TypeOK, BatchStored, SessionStored, RequestKept,
               AnswerIsWhole, CallKey, MessageKey
<1>11. QED
  BY <1>1, <1>2, <1>3, <1>4, <1>5, <1>6, <1>7, <1>8, <1>9, <1>10 DEF Next

\* The inductive invariant, for any batches the sync may write.
THEOREM Invariance == Spec => []IInv
BY InitIInv, NextIInv, PTL DEF Spec

\* The tables and the request are well-typed, and no key has two rows.
THEOREM TypeCorrect == Spec => []TypeOK
<1>1. IInv => TypeOK
  BY DEF IInv
<1>2. QED
  BY <1>1, Invariance, PTL

\* No link, message or tool call is ever stored without its session, whichever
\* insert fails and however often a session is written.
THEOREM StoredResolve == Spec => []LinksResolve
<1>1. IInv => LinksResolve
  BY DEF IInv, SessionStored, LinksResolve, LookupGitLinks
<1>2. QED
  BY <1>1, Invariance, PTL

\* The two queries of handleGetMessages lose no tool call between them.
THEOREM AnswersAreWhole == Spec => []AnswerIsWhole
<1>1. IInv => AnswerIsWhole
  BY DEF IInv
<1>2. QED
  BY <1>1, Invariance, PTL

\* Ranges of days that meet share no session and leave none out, for any number of
\* days and any precision of the clock.
THEOREM RangesTile == Spec => []WindowsTile
<1>1. ASSUME TypeOK PROVE WindowsTile
  <2> DEFINE W(x, y) == Browsable([user |-> All, project |-> All, from |-> x, to |-> y])
  <2>1. SUFFICES ASSUME NEW d \in Days, NEW e \in Days, NEW g \in Days, d <= e, e < g
                 PROVE  /\ W(d, e) \cap W(e + 1, g) = {}
                        /\ W(d, e) \cup W(e + 1, g) = W(d, g)
    BY DEF WindowsTile
  <2>2. \A x, y :
          W(x, y) = {s \in DOMAIN sessions :
                       /\ ~sessions[s].child /\ sessions[s].replied
                       /\ Since(sessions[s], x) /\ Until(sessions[s], y)}
    BY DEF Browsable, Fits
  <2>3. \A s \in DOMAIN sessions : sessions[s] \in Rows
    BY <1>1 DEF TypeOK
  <2>4. \A s \in DOMAIN sessions :
          LET row == sessions[s]
          IN /\ ~(Until(row, e) /\ Since(row, e + 1))
             /\ Since(row, d) /\ Until(row, g)
                  <=> \/ Since(row, d) /\ Until(row, e)
                      \/ Since(row, e + 1) /\ Until(row, g)
    BY <2>1, <2>3, CutRange
  <2>5. QED
    BY <2>2, <2>4
<1>2. QED
  BY <1>1, TypeCorrect, PTL

-----------------------------------------------------------------------------
(* Search. *)

\* The tables stay finite, so that their rows can be counted.
TablesFinite ==
  /\ IsFiniteSet(DOMAIN sessions)
  /\ IsFiniteSet(messages) /\ IsFiniteSet(toolCalls) /\ IsFiniteSet(links)

\* A finite table to which finitely many rows are added stays finite.
LEMMA InsertedFinite ==
  ASSUME NEW table, NEW rows, NEW new \in SUBSET (table \cup rows),
         IsFiniteSet(table), IsFiniteSet(rows)
  PROVE  IsFiniteSet(new)
<1>1. IsFiniteSet(table \cup rows)
  BY FS_Union
<1>2. QED
  BY <1>1, FS_Subset

LEMMA NextFinite == IInv /\ TablesFinite /\ [Next]_vars => TablesFinite'
<1> SUFFICES ASSUME IInv, TablesFinite, [Next]_vars PROVE TablesFinite'
  OBVIOUS
<1>1. CASE InsertMessages
  <2>1. batch \in Batches
    BY <1>1 DEF InsertMessages, IInv, BatchStored
  <2>2. IsFiniteSet(batch.messages) /\ messages' \in SUBSET (messages \cup batch.messages)
    BY <1>1, <2>1, BatchesAssumption DEF InsertMessages, Inserted
  <2>3. IsFiniteSet(messages')
    BY <2>2, InsertedFinite DEF TablesFinite
  <2>4. QED
    BY <1>1, <2>3 DEF InsertMessages, TablesFinite
<1>2. CASE InsertToolCalls
  <2>1. batch \in Batches
    BY <1>2 DEF InsertToolCalls, IInv, BatchStored
  <2>2. PICK kept \in OneOfEach(batch.calls, CallKey) :
          toolCalls' = Inserted(toolCalls, kept, CallKey)
    BY <1>2 DEF InsertToolCalls
  <2>3. /\ IsFiniteSet(batch.calls)
        /\ toolCalls' \in SUBSET (toolCalls \cup batch.calls)
    BY <2>1, <2>2, BatchesAssumption, KeptAreKeyed DEF Inserted
  <2>4. IsFiniteSet(toolCalls')
    BY <2>3, InsertedFinite DEF TablesFinite
  <2>5. QED
    BY <1>2, <2>4 DEF InsertToolCalls, TablesFinite
<1>3. CASE InsertSessions
  <2>1. DOMAIN sessions' = DOMAIN sessions \cup {batch.session}
    BY <1>3 DEF InsertSessions
  <2>2. IsFiniteSet(DOMAIN sessions \cup {batch.session})
    BY FS_AddElement DEF TablesFinite
  <2>3. QED
    BY <1>3, <2>1, <2>2 DEF InsertSessions, TablesFinite
<1>4. CASE InsertLinks
  <2>1. batch \in Batches
    BY <1>4 DEF InsertLinks, IInv, BatchStored
  <2>2. IsFiniteSet(batch.links) /\ links' \in SUBSET (links \cup batch.links)
    BY <1>4, <2>1, BatchesAssumption DEF InsertLinks, Inserted
  <2>3. IsFiniteSet(links')
    BY <2>2, InsertedFinite DEF TablesFinite
  <2>4. QED
    BY <1>4, <2>3 DEF InsertLinks, TablesFinite
<1>5. CASE UNCHANGED tables
  BY <1>5 DEF TablesFinite, tables
<1>6. QED
  BY <1>1, <1>2, <1>3, <1>4, <1>5
  DEF Next, vars, Collect, InsertFails, ReadMessages, ReadToolCalls, Answered

\* What a LIMIT leaves: everything, or as many rows as it has room for.
LEMMA FirstCounts ==
  ASSUME NEW S, IsFiniteSet(S), NEW n \in Nat, NEW T \in First(S, Started, n)
  PROVE  /\ T \subseteq S /\ IsFiniteSet(T)
         /\ (T = S /\ Cardinality(S) < n) \/ Cardinality(T) = n
<1>1. T \in SUBSET S /\ Cardinality(T) = IF Cardinality(S) < n THEN Cardinality(S) ELSE n
  BY DEF First
<1>2. IsFiniteSet(T) /\ (Cardinality(S) = Cardinality(T) => S = T)
  BY <1>1, FS_Subset
<1>3. QED
  BY <1>1, <1>2

\* Two lists put together up to a limit, the first one first.
LEMMA PageOfTwo ==
  ASSUME NEW A, NEW B, IsFiniteSet(A), IsFiniteSet(B), A \cap B = {}, NEW n \in Nat,
         NEW M \in First(A, Started, n), NEW C \in First(B, Started, n - Cardinality(M))
  PROVE  /\ M \subseteq A /\ C \subseteq B
         /\ M \cup C = A \cup B \/ Cardinality(M \cup C) = n
         /\ M = A \/ C = {}
<1>1. /\ M \subseteq A /\ IsFiniteSet(M)
      /\ (M = A /\ Cardinality(A) < n) \/ Cardinality(M) = n
  BY FirstCounts
<1>2. Cardinality(M) \in Nat /\ Cardinality(M) <= n
  BY <1>1, FS_CardinalityType
<1>3. n - Cardinality(M) \in Nat
  BY <1>2
<1>4. /\ C \subseteq B /\ IsFiniteSet(C)
      /\ C = B \/ Cardinality(C) = n - Cardinality(M)
  BY <1>3, FirstCounts
<1>5. M \cap C = {}
  BY <1>1, <1>4
<1>6. Cardinality(C) \in Nat /\ Cardinality(M \cup C) = Cardinality(M) + Cardinality(C)
  <2>1. Cardinality(M \cup C) = Cardinality(M) + Cardinality(C) - Cardinality(M \cap C)
    BY <1>1, <1>4, FS_Union
  <2>2. Cardinality(M \cap C) = 0
    BY <1>5, FS_EmptySet
  <2>3. Cardinality(C) \in Nat
    BY <1>4, FS_CardinalityType
  <2>4. QED
    BY <1>2, <2>1, <2>2, <2>3
<1>7. CASE Cardinality(M) = n
  <2>1. C \in First(B, Started, 0)
    BY <1>2, <1>7
  <2>2. Cardinality(B) \in Nat
    BY FS_CardinalityType
  <2>3. Cardinality(C) = 0
    BY <2>1, <2>2 DEF First
  <2>4. C = {}
    BY <1>4, <2>3, FS_EmptySet
  <2>5. QED
    BY <1>1, <1>4, <1>7, <2>4
<1>8. CASE M = A /\ Cardinality(A) < n
  BY <1>1, <1>2, <1>4, <1>6, <1>8
<1>9. QED
  BY <1>1, <1>7, <1>8

\* A search for a text that is neither a commit nor a pull request finds, within the
\* filters, as much as its limit has room for, and messages before tool calls: for
\* any tables, texts and limits.
THEOREM SearchesFind == Spec => []SearchFinds
<1>1. ASSUME TypeOK, TablesFinite PROVE SearchFinds
  <2>1. SUFFICES ASSUME NEW q \in Texts, NEW n \in Limits, NEW f \in Filters, q \notin References,
                        NEW R \in HandleSearch(q, f, n)
                 PROVE  LET hits == {x \in messages \cup toolCalls :
                                       q \in x.text /\ x.session \in Browsable(f)}
                        IN /\ R \subseteq hits
                           /\ R = hits \/ Cardinality(R) = Clamp(n)
                           /\ \A x \in R \cap toolCalls : hits \cap messages \subseteq R
    BY DEF SearchFinds
  <2> DEFINE A == {m \in MessagesIn(f) : q \in m.text}
             B == {c \in CallsIn(f) : q \in c.text}
  <2>2. Clamp(n) \in Nat
    BY NumbersAssumption DEF Clamp
  <2>3. IsFiniteSet(A) /\ IsFiniteSet(B)
    <3>1. A \in SUBSET messages /\ B \in SUBSET toolCalls
      BY DEF MessagesIn, CallsIn
    <3>2. QED
      BY <1>1, <3>1, FS_Subset DEF TablesFinite
  <2>4. messages \cap toolCalls = {}
    BY <1>1, TablesAssumption DEF TypeOK
  <2>5. A \cap B = {}
    BY <2>4 DEF MessagesIn, CallsIn
  <2>6. PICK M \in First(A, Started, Clamp(n)) :
          \E C \in First(B, Started, Clamp(n) - Cardinality(M)) : R = M \cup C
    <3>1. R \in SearchPages(q, f, Clamp(n))
      BY <2>1 DEF HandleSearch
    <3>2. QED
      BY <3>1 DEF SearchPages, Hits
  <2>7. PICK C \in First(B, Started, Clamp(n) - Cardinality(M)) : R = M \cup C
    BY <2>6
  <2>8. /\ M \subseteq A /\ C \subseteq B
        /\ M \cup C = A \cup B \/ Cardinality(M \cup C) = Clamp(n)
        /\ M = A \/ C = {}
    BY <2>2, <2>3, <2>5, PageOfTwo
  <2>9. {x \in messages \cup toolCalls : q \in x.text /\ x.session \in Browsable(f)} = A \cup B
    BY DEF MessagesIn, CallsIn
  <2>10. (A \cup B) \cap messages = A /\ A \cap toolCalls = {}
    BY <2>4 DEF MessagesIn, CallsIn
  <2>11. QED
    BY <2>7, <2>8, <2>9, <2>10
<1>2. Init => TablesFinite
  BY FS_EmptySet DEF Init, TablesFinite
<1>3. Spec => []TablesFinite
  BY <1>2, NextFinite, Invariance, PTL DEF Spec
<1>4. QED
  BY <1>1, <1>3, TypeCorrect, PTL

-----------------------------------------------------------------------------
(* Sums over finite sets.  SumFunctionOnSet adds up F[x] for the members x  *)
(* of a set in an order that is chosen; that it does so at all, and that    *)
(* the order does not matter, is shown by taking a smallest set for which it *)
(* would not be so.                                                        *)

\* Among subsets of a finite set, one has none of the others as a subset.
LEMMA SmallestSet ==
  ASSUME NEW U, IsFiniteSet(U), NEW X \in SUBSET (SUBSET U), X # {}
  PROVE  \E T \in X : /\ IsFiniteSet(T)
                      /\ \A V \in SUBSET T : V # T => V \notin X
<1> DEFINE R == OpToRel(<, Nat)
           N == {Cardinality(T) : T \in X}
<1>1. \A T \in X : IsFiniteSet(T) /\ Cardinality(T) \in Nat
  BY FS_Subset, FS_CardinalityType
<1>2. \A a, b \in Nat : a < b => <<a, b>> \in R
  BY DEF OpToRel
<1>3. IsWellFoundedOn(R, Nat)
  BY NatLessThanWellFounded
<1>4. N \subseteq Nat /\ N # {}
  BY <1>1
<1> HIDE DEF R, N
<1>5. PICK n \in N : \A m \in N : ~ (<<m, n>> \in R)
  BY <1>3, <1>4, WFMin
<1>6. PICK T \in X : n = Cardinality(T)
  BY <1>5 DEF N
<1>7. ASSUME NEW V \in SUBSET T, V # T, V \in X PROVE FALSE
  <2>1. Cardinality(V) < Cardinality(T)
    BY <1>1, <1>7, FS_Subset
  <2>2. Cardinality(V) \in N
    BY <1>7 DEF N
  <2>3. QED
    BY <1>1, <1>2, <1>5, <1>6, <1>7, <2>1, <2>2
<1>8. QED
  BY <1>1, <1>7

\* The member that is added next.  Functions from sets to what their members add up to.
Picked(T) == CHOOSE x \in T : TRUE
PartialSums(F, S, g) ==
  g = [T \in SUBSET S |-> IF T = {} THEN 0 ELSE F[Picked(T)] + g[T \ {Picked(T)}]]

\* On the subsets both are about, two such functions are the same.
LEMMA PartialUnique ==
  ASSUME NEW F, NEW S, IsFiniteSet(S), NEW U, S \subseteq U, NEW g, PartialSums(F, S, g),
         NEW h, PartialSums(F, U, h)
  PROVE  \A T \in SUBSET S : g[T] = h[T]
<1> DEFINE X == {T \in SUBSET S : g[T] # h[T]}
<1>1. SUFFICES ASSUME X # {} PROVE FALSE
  OBVIOUS
<1>2. PICK T \in X : \A V \in SUBSET T : V # T => V \notin X
  <2>1. X \in SUBSET (SUBSET S)
    OBVIOUS
  <2> HIDE DEF X
  <2>2. QED
    BY <1>1, <2>1, SmallestSet
<1>3. \A V \in SUBSET S : /\ g[V] = IF V = {} THEN 0 ELSE F[Picked(V)] + g[V \ {Picked(V)}]
                          /\ h[V] = IF V = {} THEN 0 ELSE F[Picked(V)] + h[V \ {Picked(V)}]
  BY DEF PartialSums
<1>4. T # {}
  BY <1>2, <1>3
<1>5. Picked(T) \in T
  BY <1>4 DEF Picked
<1>6. g[T \ {Picked(T)}] = h[T \ {Picked(T)}]
  BY <1>2, <1>5
<1>7. QED
  BY <1>2, <1>3, <1>4, <1>6

\* There is such a function for every finite set.
LEMMA PartialExists ==
  ASSUME NEW F, NEW U, IsFiniteSet(U)
  PROVE  \E g : PartialSums(F, U, g)
<1> DEFINE X == {S \in SUBSET U : ~ \E g : PartialSums(F, S, g)}
<1>1. SUFFICES ASSUME X # {} PROVE FALSE
  OBVIOUS
<1>2. PICK S \in X : /\ IsFiniteSet(S)
                     /\ \A V \in SUBSET S : V # S => V \notin X
  <2>1. X \in SUBSET (SUBSET U)
    OBVIOUS
  <2> HIDE DEF X
  <2>2. QED
    BY <1>1, <2>1, SmallestSet
<1>3. \A V \in SUBSET S : V # S => \E g : PartialSums(F, V, g)
  BY <1>2
<1> DEFINE G(V) == CHOOSE g : PartialSums(F, V, g)
           h == [T \in SUBSET S |-> IF T = {} THEN 0
                  ELSE F[Picked(T)] + G(T \ {Picked(T)})[T \ {Picked(T)}]]
<1>4. \A V \in SUBSET S : V # S => PartialSums(F, V, G(V))
  BY <1>3
<1>5. ASSUME NEW T \in SUBSET S, T # S PROVE h[T] = G(T)[T]
  <2>1. PartialSums(F, T, G(T)) /\ IsFiniteSet(T)
    BY <1>2, <1>4, <1>5, FS_Subset
  <2>2. CASE T = {}
    BY <2>1, <2>2 DEF PartialSums
  <2>3. CASE T # {}
    <3>1. Picked(T) \in T
      BY <2>3 DEF Picked
    <3> DEFINE V == T \ {Picked(T)}
    <3>2. V \in SUBSET T /\ V # T /\ V \in SUBSET S /\ V # S
      BY <3>1
    <3>3. PartialSums(F, V, G(V)) /\ IsFiniteSet(V)
      BY <1>4, <2>1, <3>2, FS_Subset
    <3>4. G(V)[V] = G(T)[V]
      <4>1. V \subseteq T /\ V \in SUBSET V
        BY <3>2
      <4> HIDE DEF G, V, X, h
      <4>2. \A W \in SUBSET V : G(V)[W] = G(T)[W]
        BY <2>1, <3>3, <4>1, PartialUnique
      <4>3. QED
        BY <4>1, <4>2
    <3>5. G(T)[T] = F[Picked(T)] + G(T)[V]
      BY <2>1, <2>3 DEF PartialSums
    <3>6. h[T] = F[Picked(T)] + G(V)[V]
      BY <2>3
    <3>7. QED
      BY <3>4, <3>5, <3>6
  <2>4. QED
    BY <2>2, <2>3
<1>6. ASSUME NEW T \in SUBSET S, T # {} PROVE h[T] = F[Picked(T)] + h[T \ {Picked(T)}]
  <2> DEFINE V == T \ {Picked(T)}
  <2>1. Picked(T) \in T
    BY <1>6 DEF Picked
  <2>2. V \in SUBSET S /\ V # S
    BY <2>1
  <2>3. h[V] = G(V)[V]
    BY <1>5, <2>2
  <2>4. QED
    BY <1>6, <2>3
<1>7. h = [T \in SUBSET S |-> IF T = {} THEN 0 ELSE h[T]]
  OBVIOUS
<1> HIDE DEF h
<1>8. PartialSums(F, S, h)
  BY <1>6, <1>7 DEF PartialSums
<1>9. QED
  BY <1>2, <1>8

\* The library's sum is the value of one.
LEMMA SumIsPartial ==
  ASSUME NEW F, NEW S
  PROVE  SumFunctionOnSet(F, S) = (CHOOSE g : PartialSums(F, S, g))[S]
BY DEF SumFunctionOnSet, FoldFunctionOnSet, MapThenFoldSet, PartialSums, Picked

\* A sum is that without the next member, and that member's.
LEMMA SumNext ==
  ASSUME NEW F, NEW S, IsFiniteSet(S)
  PROVE  /\ SumFunctionOnSet(F, {}) = 0
         /\ S # {} => /\ Picked(S) \in S
                      /\ SumFunctionOnSet(F, S) =
                           F[Picked(S)] + SumFunctionOnSet(F, S \ {Picked(S)})
<1> DEFINE G(V) == CHOOSE g : PartialSums(F, V, g)
           V == S \ {Picked(S)}
<1>1. \A T \in SUBSET S : IsFiniteSet(T) /\ PartialSums(F, T, G(T))
  <2>1. ASSUME NEW T \in SUBSET S PROVE IsFiniteSet(T) /\ \E g : PartialSums(F, T, g)
    BY FS_Subset, PartialExists
  <2>2. QED
    BY <2>1
<1>2. \A T \in SUBSET S : SumFunctionOnSet(F, T) = G(T)[T]
  BY SumIsPartial
<1>3. G({})[{}] = 0
  BY <1>1 DEF PartialSums
<1>4. ASSUME S # {}
      PROVE Picked(S) \in S /\ G(S)[S] = F[Picked(S)] + G(V)[V]
  <2>1. Picked(S) \in S
    BY <1>4 DEF Picked
  <2>2. V \in SUBSET S
    OBVIOUS
  <2>3. IsFiniteSet(V) /\ PartialSums(F, V, G(V)) /\ PartialSums(F, S, G(S))
    BY <1>1
  <2> HIDE DEF G
  <2>4. G(S)[S] = F[Picked(S)] + G(S)[V]
    BY <1>4, <2>3 DEF PartialSums
  <2>5. G(S)[V] = G(V)[V]
    BY <2>2, <2>3, PartialUnique
  <2>6. QED
    BY <2>1, <2>4, <2>5
<1>5. QED
  BY <1>2, <1>3, <1>4

SumOf(F, S) == SumFunctionOnSet(F, S)

\* The same with SumOf, which is kept folded from here on.
LEMMA SumSteps ==
  ASSUME NEW F, NEW S, IsFiniteSet(S)
  PROVE  /\ SumOf(F, {}) = 0
         /\ S # {} => Picked(S) \in S /\ SumOf(F, S) = F[Picked(S)] + SumOf(F, S \ {Picked(S)})
BY SumNext DEF SumOf

\* Only the values at the members count.
LEMMA SumSame ==
  ASSUME NEW F, NEW G, NEW S, IsFiniteSet(S), \A x \in S : F[x] = G[x]
  PROVE  SumOf(F, S) = SumOf(G, S)
<1> DEFINE X == {T \in SUBSET S : SumOf(F, T) # SumOf(G, T)}
<1>1. X \in SUBSET (SUBSET S)
  OBVIOUS
<1>2. ASSUME X # {} PROVE FALSE
  <2>1. PICK T \in X : IsFiniteSet(T) /\ \A V \in SUBSET T : V # T => V \notin X
    <3> HIDE DEF X
    <3>1. QED
      BY <1>1, <1>2, SmallestSet
  <2>2. T # {}
    BY <2>1, SumSteps
  <2>3. /\ Picked(T) \in T
        /\ SumOf(F, T) = F[Picked(T)] + SumOf(F, T \ {Picked(T)})
        /\ SumOf(G, T) = G[Picked(T)] + SumOf(G, T \ {Picked(T)})
    BY <2>1, <2>2, SumSteps
  <2>4. SumOf(F, T \ {Picked(T)}) = SumOf(G, T \ {Picked(T)})
    BY <2>1, <2>3
  <2>5. QED
    BY <2>1, <2>3, <2>4
<1>3. QED
  BY <1>2

\* A sum of natural numbers is one.
LEMMA SumType ==
  ASSUME NEW F, NEW S, IsFiniteSet(S), \A x \in S : F[x] \in Nat
  PROVE  SumOf(F, S) \in Nat
<1> DEFINE X == {T \in SUBSET S : SumOf(F, T) \notin Nat}
<1>1. X \in SUBSET (SUBSET S)
  OBVIOUS
<1>2. ASSUME X # {} PROVE FALSE
  <2>1. PICK T \in X : IsFiniteSet(T) /\ \A V \in SUBSET T : V # T => V \notin X
    <3> HIDE DEF X
    <3>1. QED
      BY <1>1, <1>2, SmallestSet
  <2>2. T # {}
    <3>1. SumOf(F, T) \notin Nat
      BY <2>1
    <3>2. SumOf(F, {}) = 0
      BY SumSteps, FS_EmptySet
    <3>3. QED
      BY <3>1, <3>2
  <2>3. /\ Picked(T) \in T
        /\ SumOf(F, T) = F[Picked(T)] + SumOf(F, T \ {Picked(T)})
    BY <2>1, <2>2, SumSteps
  <2>4. SumOf(F, T \ {Picked(T)}) \in Nat /\ F[Picked(T)] \in Nat
    BY <2>1, <2>3
  <2>5. QED
    BY <2>1, <2>3, <2>4
<1>3. QED
  BY <1>2

\* Any member may be added last.
LEMMA SumMember ==
  ASSUME NEW F, NEW S, IsFiniteSet(S), \A x \in S : F[x] \in Nat, NEW y \in S
  PROVE  SumOf(F, S) = F[y] + SumOf(F, S \ {y})
<1> DEFINE X == {T \in SUBSET S : \E x \in T : SumOf(F, T) # F[x] + SumOf(F, T \ {x})}
<1>1. X \in SUBSET (SUBSET S)
  OBVIOUS
<1>2. ASSUME X # {} PROVE FALSE
  <2>1. PICK T \in X : IsFiniteSet(T) /\ \A V \in SUBSET T : V # T => V \notin X
    <3> HIDE DEF X
    <3>1. QED
      BY <1>1, <1>2, SmallestSet
  <2>2. PICK x \in T : SumOf(F, T) # F[x] + SumOf(F, T \ {x})
    BY <2>1
  <2> DEFINE c == Picked(T)
  <2>3. c \in T /\ SumOf(F, T) = F[c] + SumOf(F, T \ {c})
    BY <2>1, <2>2, SumSteps
  <2> HIDE DEF c
  <2>4. x # c
    BY <2>2, <2>3
  <2>5. SumOf(F, T \ {c}) = F[x] + SumOf(F, (T \ {c}) \ {x})
    <3>1. T \ {c} \in SUBSET T /\ T \ {c} # T /\ T \ {c} \in SUBSET S /\ x \in T \ {c}
      BY <2>1, <2>2, <2>3, <2>4
    <3>2. T \ {c} \notin X
      BY <2>1, <3>1
    <3>3. QED
      BY <3>1, <3>2
  <2>6. SumOf(F, T \ {x}) = F[c] + SumOf(F, (T \ {x}) \ {c})
    <3>1. T \ {x} \in SUBSET T /\ T \ {x} # T /\ T \ {x} \in SUBSET S /\ c \in T \ {x}
      BY <2>1, <2>2, <2>3, <2>4
    <3>2. T \ {x} \notin X
      BY <2>1, <3>1
    <3>3. QED
      BY <3>1, <3>2
  <2>7. (T \ {c}) \ {x} = (T \ {x}) \ {c}
    OBVIOUS
  <2>8. SumOf(F, (T \ {x}) \ {c}) \in Nat /\ F[x] \in Nat /\ F[c] \in Nat
    <3>1. (T \ {x}) \ {c} \in SUBSET S
      BY <2>1
    <3>2. IsFiniteSet((T \ {x}) \ {c})
      BY <3>1, FS_Subset
    <3>3. QED
      BY <2>1, <2>2, <2>3, <3>1, <3>2, SumType
  <2> HIDE DEF X
  <2>9. F[c] + (F[x] + SumOf(F, (T \ {x}) \ {c})) = F[x] + (F[c] + SumOf(F, (T \ {x}) \ {c}))
    BY <2>8
  <2>10. SumOf(F, T) = F[x] + SumOf(F, T \ {x})
    BY <2>3, <2>5, <2>6, <2>7, <2>9
  <2>11. QED
    BY <2>2, <2>10
<1>3. S \notin X
  BY <1>2
<1>4. QED
  BY <1>3

\* Sums over disjoint sets add up.
LEMMA SumOfTwo ==
  ASSUME NEW F, NEW A, NEW B, IsFiniteSet(A), IsFiniteSet(B), A \cap B = {},
         \A x \in A \cup B : F[x] \in Nat
  PROVE  SumOf(F, A \cup B) = SumOf(F, A) + SumOf(F, B)
<1> DEFINE X == {T \in SUBSET B : SumOf(F, A \cup T) # SumOf(F, A) + SumOf(F, T)}
<1>1. X \in SUBSET (SUBSET B)
  OBVIOUS
<1>2. ASSUME X # {} PROVE FALSE
  <2>1. PICK T \in X : IsFiniteSet(T) /\ \A V \in SUBSET T : V # T => V \notin X
    <3> HIDE DEF X
    <3>1. QED
      BY <1>1, <1>2, SmallestSet
  <2>2. /\ T \in SUBSET B /\ SumOf(F, A \cup T) # SumOf(F, A) + SumOf(F, T)
        /\ IsFiniteSet(T) /\ IsFiniteSet(A \cup T)
    BY <2>1, FS_Union
  <2>3. SumOf(F, A) \in Nat
    BY SumType
  <2>4. T # {}
    <3>1. ASSUME T = {} PROVE SumOf(F, A \cup T) = SumOf(F, A) + SumOf(F, T)
      <4>1. A \cup T = A /\ SumOf(F, T) = 0
        BY <3>1, SumSteps, FS_EmptySet
      <4> HIDE DEF X
      <4>2. SumOf(F, A) + 0 = SumOf(F, A)
        BY <2>3
      <4>3. QED
        BY <4>1, <4>2
    <3>2. QED
      BY <2>2, <3>1
  <2>5. PICK c \in T : TRUE
    BY <2>4
  <2>6. SumOf(F, T) = F[c] + SumOf(F, T \ {c})
    BY <2>2, <2>5, SumMember
  <2>7. SumOf(F, A \cup T) = F[c] + SumOf(F, A \cup (T \ {c}))
    <3>1. (A \cup T) \ {c} = A \cup (T \ {c})
      BY <2>2, <2>5
    <3>2. c \in A \cup T /\ \A x \in A \cup T : F[x] \in Nat
      BY <2>2, <2>5
    <3> HIDE DEF X
    <3>3. SumOf(F, A \cup T) = F[c] + SumOf(F, (A \cup T) \ {c})
      BY <2>2, <3>2, SumMember
    <3>4. QED
      BY <3>1, <3>3
  <2>8. SumOf(F, A \cup (T \ {c})) = SumOf(F, A) + SumOf(F, T \ {c})
    BY <2>1, <2>2, <2>5
  <2>9. SumOf(F, T \ {c}) \in Nat /\ F[c] \in Nat
    <3>1. T \ {c} \in SUBSET T /\ IsFiniteSet(T \ {c})
      BY <2>2, FS_Subset
    <3>2. QED
      BY <2>2, <2>5, <3>1, SumType
  <2>10. QED
    BY <2>2, <2>3, <2>6, <2>7, <2>8, <2>9
<1>3. B \notin X
  BY <1>2
<1>4. QED
  BY <1>3

\* The members with key c, those with a key in K, and the values of f at all of them.
Having(S, key, c) == {s \in S : key[s] = c}
HavingIn(S, key, K) == {s \in S : key[s] \in K}
Image(f, S) == {f[s] : s \in S}

\* Groups add up to the whole.
LEMMA SumOfGroups ==
  ASSUME NEW F, NEW S, IsFiniteSet(S), \A x \in S : F[x] \in Nat,
         NEW key, NEW K, IsFiniteSet(K), NEW G,
         \A c \in K : G[c] = SumOf(F, Having(S, key, c))
  PROVE  SumOf(G, K) = SumOf(F, HavingIn(S, key, K))
<1> DEFINE In(J) == {s \in S : key[s] \in J}
           X == {J \in SUBSET K : SumOf(G, J) # SumOf(F, In(J))}
<1>1. X \in SUBSET (SUBSET K)
  OBVIOUS
<1>2. ASSUME NEW J PROVE IsFiniteSet(In(J)) /\ In(J) \subseteq S
  <2>1. In(J) \in SUBSET S
    OBVIOUS
  <2>2. QED
    BY <2>1, FS_Subset
<1>3. ASSUME NEW c \in K PROVE IsFiniteSet(Having(S, key, c)) /\ G[c] \in Nat
  <2>1. Having(S, key, c) \in SUBSET S
    BY DEF Having
  <2>2. IsFiniteSet(Having(S, key, c))
    BY <2>1, FS_Subset
  <2>3. QED
    BY <2>1, <2>2, SumType
<1>4. ASSUME X # {} PROVE FALSE
  <2>1. PICK J \in X : IsFiniteSet(J) /\ \A V \in SUBSET J : V # J => V \notin X
    <3> HIDE DEF X
    <3>1. QED
      BY <1>1, <1>4, SmallestSet
  <2>2. J \in SUBSET K /\ SumOf(G, J) # SumOf(F, In(J))
    BY <2>1
  <2>3. J # {}
    <3>1. ASSUME J = {} PROVE FALSE
      <4>1. In(J) = {}
        BY <3>1
      <4>2. SumOf(G, {}) = 0 /\ SumOf(F, {}) = 0
        BY SumSteps, FS_EmptySet
      <4>3. QED
        BY <2>2, <3>1, <4>1, <4>2
    <3>2. QED
      BY <3>1
  <2>4. PICK c \in J : TRUE
    BY <2>3
  <2>5. SumOf(G, J) = G[c] + SumOf(G, J \ {c})
    BY <1>3, <2>1, <2>2, <2>4, SumMember
  <2>6. SumOf(G, J \ {c}) = SumOf(F, In(J \ {c}))
    <3>1. J \ {c} \in SUBSET J /\ J \ {c} # J /\ J \ {c} \in SUBSET K
      BY <2>2, <2>4
    <3>2. QED
      BY <2>1, <3>1
  <2>7. G[c] = SumOf(F, Having(S, key, c)) /\ IsFiniteSet(Having(S, key, c))
    BY <1>3, <2>2, <2>4
  <2>8. /\ Having(S, key, c) \cap In(J \ {c}) = {}
        /\ Having(S, key, c) \cup In(J \ {c}) = In(J)
        /\ Having(S, key, c) \cup In(J \ {c}) \subseteq S
    BY <2>4 DEF Having
  <2>9. IsFiniteSet(In(J \ {c}))
    BY <1>2
  <2>10. SumOf(F, In(J)) = SumOf(F, Having(S, key, c)) + SumOf(F, In(J \ {c}))
    <3> DEFINE A == Having(S, key, c)
               B == In(J \ {c})
    <3>1. IsFiniteSet(A) /\ IsFiniteSet(B) /\ A \cap B = {} /\ In(J) = A \cup B
          /\ \A x \in A \cup B : F[x] \in Nat
      BY <2>7, <2>8, <2>9
    <3> HIDE DEF A, B, In, X
    <3>2. SumOf(F, A \cup B) = SumOf(F, A) + SumOf(F, B)
      BY <3>1, SumOfTwo
    <3>3. QED
      BY <3>1, <3>2 DEF A, B
  <2> HIDE DEF In, X
  <2>11. QED
    BY <2>2, <2>5, <2>6, <2>7, <2>10
<1>5. K \notin X
  BY <1>4
<1>6. In(K) = HavingIn(S, key, K)
  BY DEF HavingIn
<1>7. QED
  BY <1>5, <1>6

\* Sums over the rows of a report are sums over their keys.
LEMMA SumOfImage ==
  ASSUME NEW K, IsFiniteSet(K), NEW h, \A c, d \in K : h[c] = h[d] => c = d,
         NEW v, NEW G, \A c \in K : G[c] = v[h[c]] /\ G[c] \in Nat
  PROVE  IsFiniteSet(Image(h, K)) /\ SumOf(v, Image(h, K)) = SumOf(G, K)
<1> DEFINE RowsOf(J) == {h[c] : c \in J}
           X == {J \in SUBSET K : ~(IsFiniteSet(RowsOf(J)) /\ SumOf(v, RowsOf(J)) = SumOf(G, J))}
<1>1. X \in SUBSET (SUBSET K)
  OBVIOUS
<1>2. ASSUME X # {} PROVE FALSE
  <2>1. PICK J \in X : IsFiniteSet(J) /\ \A V \in SUBSET J : V # J => V \notin X
    <3> HIDE DEF X
    <3>1. QED
      BY <1>1, <1>2, SmallestSet
  <2>2. J \in SUBSET K /\ ~(IsFiniteSet(RowsOf(J)) /\ SumOf(v, RowsOf(J)) = SumOf(G, J))
    BY <2>1
  <2>3. J # {}
    <3>1. ASSUME J = {} PROVE FALSE
      <4>1. RowsOf(J) = {}
        BY <3>1
      <4>2. SumOf(G, {}) = 0 /\ SumOf(v, {}) = 0 /\ IsFiniteSet({})
        BY SumSteps, FS_EmptySet
      <4> HIDE DEF RowsOf
      <4>3. QED
        BY <2>2, <3>1, <4>1, <4>2
    <3>2. QED
      BY <3>1
  <2>4. PICK c \in J : TRUE
    BY <2>3
  <2>5. SumOf(G, J) = G[c] + SumOf(G, J \ {c})
    BY <2>1, <2>2, <2>4, SumMember
  <2>6. IsFiniteSet(RowsOf(J \ {c})) /\ SumOf(v, RowsOf(J \ {c})) = SumOf(G, J \ {c})
    <3>1. J \ {c} \in SUBSET J /\ J \ {c} # J /\ J \ {c} \in SUBSET K
      BY <2>2, <2>4
    <3>2. QED
      BY <2>1, <3>1
  <2>7. RowsOf(J) = RowsOf(J \ {c}) \cup {h[c]} /\ h[c] \notin RowsOf(J \ {c}) /\ h[c] \in RowsOf(J)
    BY <2>2, <2>4
  <2>8. \A r \in RowsOf(J) : v[r] \in Nat
    BY <2>2
  <2> HIDE DEF RowsOf, X
  <2>9. IsFiniteSet(RowsOf(J)) /\ RowsOf(J) \ {h[c]} = RowsOf(J \ {c})
    <3>1. IsFiniteSet(RowsOf(J \ {c}) \cup {h[c]})
      BY <2>6, FS_AddElement
    <3>2. QED
      BY <2>7, <3>1
  <2>10. SumOf(v, RowsOf(J)) = v[h[c]] + SumOf(v, RowsOf(J) \ {h[c]})
    <3>1. h[c] \in RowsOf(J) /\ IsFiniteSet(RowsOf(J))
      BY <2>7, <2>9
    <3>2. QED
      BY <2>8, <3>1, SumMember
  <2>11. SumOf(v, RowsOf(J)) = SumOf(G, J)
    BY <2>2, <2>4, <2>5, <2>6, <2>9, <2>10
  <2>12. QED
    BY <2>2, <2>9, <2>11
<1>3. K \notin X
  BY <1>2
<1>4. RowsOf(K) = Image(h, K)
  BY DEF Image
<1>5. QED
  BY <1>3, <1>4

\* The size of a set is a sum of ones.
LEMMA CardinalityIsSum ==
  ASSUME NEW S, IsFiniteSet(S), NEW F, \A x \in S : F[x] = 1
  PROVE  SumOf(F, S) = Cardinality(S)
<1> DEFINE X == {T \in SUBSET S : SumOf(F, T) # Cardinality(T)}
<1>1. X \in SUBSET (SUBSET S)
  OBVIOUS
<1>2. ASSUME X # {} PROVE FALSE
  <2>1. PICK T \in X : IsFiniteSet(T) /\ \A V \in SUBSET T : V # T => V \notin X
    <3> HIDE DEF X
    <3>1. QED
      BY <1>1, <1>2, SmallestSet
  <2>2. T # {}
    <3>1. SumOf(F, T) # Cardinality(T)
      BY <2>1
    <3>2. SumOf(F, {}) = 0 /\ Cardinality({}) = 0
      BY SumSteps, FS_EmptySet
    <3>3. QED
      BY <3>1, <3>2
  <2> DEFINE c == Picked(T)
  <2>3. c \in T /\ SumOf(F, T) = F[c] + SumOf(F, T \ {c})
    BY <2>1, <2>2, SumSteps
  <2> HIDE DEF c
  <2>4. Cardinality(T \ {c}) = Cardinality(T) - 1 /\ Cardinality(T) \in Nat
    BY <2>1, <2>3, FS_RemoveElement, FS_CardinalityType
  <2>5. SumOf(F, T \ {c}) = Cardinality(T \ {c}) /\ F[c] = 1 /\ SumOf(F, T) # Cardinality(T)
    BY <2>1, <2>3
  <2> HIDE DEF X
  <2>6. QED
    BY <2>3, <2>4, <2>5
<1>3. S \notin X
  BY <1>2
<1>4. QED
  BY <1>3

-----------------------------------------------------------------------------
(* Reports.  A report has a row for each key that one of the things it is    *)
(* about has, and a number in the row that adds up those with the key.       *)

\* The numbers of a report add up to those of the things it is about.
LEMMA ReportTotal ==
  ASSUME NEW S, IsFiniteSet(S), NEW F, \A x \in S : F[x] \in Nat, NEW key,
         NEW h, \A x, y \in S : h[key[x]] = h[key[y]] => key[x] = key[y],
         NEW v, \A x \in S : v[h[key[x]]] = SumOf(F, Having(S, key, key[x]))
  PROVE  SumOf(v, Image(h, Image(key, S))) = SumOf(F, S)
<1> DEFINE K == {key[x] : x \in S}
           G == [c \in K |-> SumOf(F, Having(S, key, c))]
<1>1. IsFiniteSet(K)
  <2>1. [x \in S |-> key[x]] \in Surjection(S, K)
    BY DEF Surjection
  <2> HIDE DEF K
  <2>2. QED
    BY <2>1, FS_Surjection
<1>2. /\ \A c \in K : G[c] = SumOf(F, Having(S, key, c))
      /\ \A c \in K : G[c] = v[h[c]]
  OBVIOUS
<1>3. \A c \in K : G[c] \in Nat
  <2>1. ASSUME NEW c \in K PROVE SumOf(F, Having(S, key, c)) \in Nat
    <3>1. Having(S, key, c) \in SUBSET S
      BY DEF Having
    <3>2. IsFiniteSet(Having(S, key, c)) /\ \A x \in Having(S, key, c) : F[x] \in Nat
      BY <3>1, FS_Subset
    <3>3. QED
      BY <3>2, SumType
  <2>2. QED
    BY <1>2, <2>1
<1>4. \A c, d \in K : h[c] = h[d] => c = d
  OBVIOUS
<1>5. HavingIn(S, key, K) = S /\ K = Image(key, S)
  BY DEF HavingIn, Image
<1> HIDE DEF G, K
<1>6. SumOf(v, Image(h, K)) = SumOf(G, K)
  <2>1. \A c \in K : G[c] = v[h[c]] /\ G[c] \in Nat
    BY <1>2, <1>3
  <2>2. QED
    BY <1>1, <1>4, <2>1, SumOfImage
<1>7. SumOf(G, K) = SumOf(F, HavingIn(S, key, K))
  BY <1>1, <1>2, SumOfGroups
<1>8. QED
  BY <1>5, <1>6, <1>7

\* Counting is adding ones.
LEMMA ReportCount ==
  ASSUME NEW S, IsFiniteSet(S), NEW key,
         NEW h, \A x, y \in S : h[key[x]] = h[key[y]] => key[x] = key[y],
         NEW v, \A x \in S : v[h[key[x]]] = Cardinality(Having(S, key, key[x]))
  PROVE  SumOf(v, Image(h, Image(key, S))) = Cardinality(S)
<1> DEFINE F == [x \in S |-> 1]
<1>1. \A x \in S : F[x] = 1 /\ F[x] \in Nat
  OBVIOUS
<1> HIDE DEF F
<1>2. ASSUME NEW x \in S PROVE v[h[key[x]]] = SumOf(F, Having(S, key, key[x]))
  <2>1. Having(S, key, key[x]) \in SUBSET S
    BY DEF Having
  <2>2. IsFiniteSet(Having(S, key, key[x])) /\ \A y \in Having(S, key, key[x]) : F[y] = 1
    BY <1>1, <2>1, FS_Subset
  <2>3. QED
    BY <2>2, CardinalityIsSum
<1>3. SumOf(v, Image(h, Image(key, S))) = SumOf(F, S)
  BY <1>1, <1>2, ReportTotal
<1>4. QED
  BY <1>1, <1>3, CardinalityIsSum

\* The sessions of a report are finitely many, and each one's numbers are numbers.
LEMMA BrowsableNumbers ==
  ASSUME TypeOK, TablesFinite, NEW f
  PROVE  /\ IsFiniteSet(Browsable(f))
         /\ \A s \in Browsable(f) :
              MessagesOf(s) \in Nat /\ TokensOf(s) \in Nat /\ CommitsOf(s) \in Nat
<1>1. Browsable(f) \in SUBSET (DOMAIN sessions)
  BY DEF Browsable
<1>2. IsFiniteSet(Browsable(f))
  BY <1>1, FS_Subset DEF TablesFinite
<1>3. ASSUME NEW s \in Browsable(f) PROVE MessagesOf(s) \in Nat /\ TokensOf(s) \in Nat
  <2>1. sessions[s] \in Rows
    BY <1>1 DEF TypeOK
  <2>2. QED
    BY <2>1 DEF Rows, MessagesOf, TokensOf
<1>4. ASSUME NEW s PROVE CommitsOf(s) \in Nat
  <2>1. {l \in links : l.session = s} \in SUBSET links
    OBVIOUS
  <2>2. IsFiniteSet({l \in links : l.session = s})
    BY <2>1, FS_Subset DEF TablesFinite
  <2>3. QED
    BY <2>2, FS_CardinalityType DEF CommitsOf
<1>5. QED
  BY <1>2, <1>3, <1>4

\* The commits of sessions are the links that lead to one of them.
LEMMA CommitsTotal ==
  ASSUME TablesFinite, NEW S, IsFiniteSet(S)
  PROVE  SumOf([s \in S |-> CommitsOf(s)], S) = Cardinality({l \in links : l.session \in S})
<1> DEFINE F == [l \in links |-> 1]
           key == [l \in links |-> l.session]
           G == [s \in S |-> CommitsOf(s)]
           L == {l \in links : key[l] \in S}
<1>1. /\ IsFiniteSet(links)
      /\ \A l \in links : F[l] = 1 /\ F[l] \in Nat
  BY DEF TablesFinite
<1>2. L \in SUBSET links /\ L = {l \in links : l.session \in S}
  OBVIOUS
<1>3. ASSUME NEW s \in S PROVE G[s] = SumOf(F, Having(links, key, s))
  <2>1. /\ Having(links, key, s) = {l \in links : l.session = s}
        /\ Having(links, key, s) \in SUBSET links
    BY DEF Having
  <2> HIDE DEF F, key
  <2>2. /\ IsFiniteSet(Having(links, key, s))
        /\ \A l \in Having(links, key, s) : F[l] = 1
    BY <1>1, <2>1, FS_Subset
  <2>3. SumOf(F, Having(links, key, s)) = Cardinality(Having(links, key, s))
    BY <2>2, CardinalityIsSum
  <2>4. QED
    BY <2>1, <2>3 DEF CommitsOf
<1> HIDE DEF F, key, G
<1>4. SumOf(G, S) = SumOf(F, HavingIn(links, key, S))
  BY <1>1, <1>3, SumOfGroups
<1>5. IsFiniteSet(L) /\ \A l \in L : F[l] = 1
  BY <1>1, <1>2, FS_Subset
<1>6. HavingIn(links, key, S) = L
  BY DEF HavingIn
<1> HIDE DEF L
<1>7. SumOf(F, L) = Cardinality(L)
  BY <1>5, CardinalityIsSum
<1>8. QED
  BY <1>2, <1>4, <1>6, <1>7 DEF G

\* UsageByUser reports every session of the filters once, with what it adds.
LEMMA UsageTotals ==
  ASSUME TypeOK, TablesFinite, NEW f
  PROVE  LET S == Browsable(f)
             usage == UsageByUser(f)
         IN /\ Total(usage, LAMBDA r : r.sessions) = Cardinality(S)
            /\ Total(usage, LAMBDA r : r.messages) = SumOf([s \in S |-> MessagesOf(s)], S)
            /\ Total(usage, LAMBDA r : r.tokens) = SumOf([s \in S |-> TokensOf(s)], S)
            /\ Total(usage, LAMBDA r : r.commits) = Cardinality({l \in links : l.session \in S})
<1> DEFINE S == Browsable(f)
           key == [s \in S |-> <<sessions[s].user, sessions[s].project>>]
           K == {key[s] : s \in S}
           group(g) == {s \in S : sessions[s].user = g[1] /\ sessions[s].project = g[2]}
           row(g) == [user |-> g[1], project |-> g[2], sessions |-> Cardinality(group(g)),
                      messages |-> Sum(MessagesOf, group(g)),
                      tokens |-> Sum(TokensOf, group(g)), commits |-> Sum(CommitsOf, group(g))]
           h == [g \in K |-> row(g)]
           M == [s \in S |-> MessagesOf(s)]
           T == [s \in S |-> TokensOf(s)]
           C == [s \in S |-> CommitsOf(s)]
           usage == UsageByUser(f)
<1>1. /\ IsFiniteSet(S)
      /\ \A s \in S : M[s] \in Nat
      /\ \A s \in S : T[s] \in Nat
      /\ \A s \in S : C[s] \in Nat
  BY BrowsableNumbers
<1>2. usage = {h[g] : g \in K}
  <2>1. K = {<<sessions[s].user, sessions[s].project>> : s \in S}
    OBVIOUS
  <2>2. usage = {row(g) : g \in {<<sessions[s].user, sessions[s].project>> : s \in S}}
    BY DEF UsageByUser
  <2> HIDE DEF K, row, usage
  <2>3. QED
    BY <2>1, <2>2
<1>3. ASSUME NEW x \in S
      PROVE  /\ group(key[x]) = Having(S, key, key[x])
             /\ group(key[x]) \in SUBSET S /\ IsFiniteSet(group(key[x]))
  <2>1. key[x] = <<sessions[x].user, sessions[x].project>>
    OBVIOUS
  <2>2. group(key[x]) = Having(S, key, key[x]) /\ group(key[x]) \in SUBSET S
    BY <2>1 DEF Having
  <2>3. QED
    BY <1>1, <2>2, FS_Subset
<1>4. ASSUME NEW x \in S
      PROVE  /\ Sum(MessagesOf, group(key[x])) = SumOf(M, Having(S, key, key[x]))
             /\ Sum(TokensOf, group(key[x])) = SumOf(T, Having(S, key, key[x]))
             /\ Sum(CommitsOf, group(key[x])) = SumOf(C, Having(S, key, key[x]))
  <2> DEFINE A == group(key[x])
             Ma == [s \in A |-> MessagesOf(s)]
             Ta == [s \in A |-> TokensOf(s)]
             Ca == [s \in A |-> CommitsOf(s)]
  <2>1. A = Having(S, key, key[x]) /\ A \in SUBSET S /\ IsFiniteSet(A)
    BY <1>3
  <2> HIDE DEF A
  <2>2. \A s \in A : Ma[s] = M[s] /\ Ta[s] = T[s] /\ Ca[s] = C[s]
    BY <2>1
  <2>3. Sum(MessagesOf, A) = SumOf(Ma, A) /\ Sum(TokensOf, A) = SumOf(Ta, A)
        /\ Sum(CommitsOf, A) = SumOf(Ca, A)
    BY DEF Sum, SumOf
  <2> HIDE DEF Ma, Ta, Ca, M, T, C
  <2>4. SumOf(Ma, A) = SumOf(M, A) /\ SumOf(Ta, A) = SumOf(T, A) /\ SumOf(Ca, A) = SumOf(C, A)
    BY <2>1, <2>2, SumSame
  <2> HIDE DEF S, key, group
  <2>5. QED
    BY <2>1, <2>3, <2>4 DEF A
<1>5. ASSUME NEW x \in S
      PROVE  /\ h[key[x]].sessions = Cardinality(Having(S, key, key[x]))
             /\ h[key[x]].messages = SumOf(M, Having(S, key, key[x]))
             /\ h[key[x]].tokens = SumOf(T, Having(S, key, key[x]))
             /\ h[key[x]].commits = SumOf(C, Having(S, key, key[x]))
             /\ h[key[x]].user = key[x][1] /\ h[key[x]].project = key[x][2]
             /\ h[key[x]] \in usage
  <2>1. key[x] \in K
    OBVIOUS
  <2> HIDE DEF K
  <2>2. h[key[x]] = row(key[x])
    BY <2>1
  <2> HIDE DEF h, S, key, group, M, T, C, usage
  <2>3. QED
    BY <1>2, <1>3, <1>4, <2>1, <2>2
<1>6. \A x, y \in S : h[key[x]] = h[key[y]] => key[x] = key[y]
  <2>1. \A x \in S : key[x] = <<key[x][1], key[x][2]>>
    OBVIOUS
  <2>2. ASSUME NEW x \in S, NEW y \in S, h[key[x]] = h[key[y]] PROVE key[x] = key[y]
    <3> HIDE DEF h, S, key, usage, M, T, C, group, row, K
    <3>1. key[x][1] = key[y][1] /\ key[x][2] = key[y][2]
      BY <1>5, <2>2
    <3>2. QED
      BY <2>1, <3>1
  <2>3. QED
    BY <2>2
<1> DEFINE vs == [r \in usage |-> r.sessions]
           vm == [r \in usage |-> r.messages]
           vt == [r \in usage |-> r.tokens]
           vc == [r \in usage |-> r.commits]
<1>7. /\ Total(usage, LAMBDA r : r.sessions) = SumOf(vs, usage)
      /\ Total(usage, LAMBDA r : r.messages) = SumOf(vm, usage)
      /\ Total(usage, LAMBDA r : r.tokens) = SumOf(vt, usage)
      /\ Total(usage, LAMBDA r : r.commits) = SumOf(vc, usage)
  BY DEF Total, Sum, SumOf
<1> HIDE DEF h, S, key, M, T, C, usage
<1>8. usage = Image(h, Image(key, S))
  BY <1>2 DEF Image
<1> HIDE DEF K
<1>9. SumOf(vs, usage) = Cardinality(S)
  <2>1. \A x \in S : vs[h[key[x]]] = Cardinality(Having(S, key, key[x]))
    BY <1>5
  <2> HIDE DEF vs
  <2>2. SumOf(vs, Image(h, Image(key, S))) = Cardinality(S)
    BY <1>1, <1>6, <2>1, ReportCount
  <2>3. QED
    BY <1>8, <2>2
<1>10. SumOf(vm, usage) = SumOf(M, S)
  <2>1. \A x \in S : vm[h[key[x]]] = SumOf(M, Having(S, key, key[x]))
    BY <1>5
  <2> HIDE DEF vm
  <2>2. SumOf(vm, Image(h, Image(key, S))) = SumOf(M, S)
    BY <1>1, <1>6, <2>1, ReportTotal
  <2>3. QED
    BY <1>8, <2>2
<1>11. SumOf(vt, usage) = SumOf(T, S)
  <2>1. \A x \in S : vt[h[key[x]]] = SumOf(T, Having(S, key, key[x]))
    BY <1>5
  <2> HIDE DEF vt
  <2>2. SumOf(vt, Image(h, Image(key, S))) = SumOf(T, S)
    BY <1>1, <1>6, <2>1, ReportTotal
  <2>3. QED
    BY <1>8, <2>2
<1>12. SumOf(vc, usage) = Cardinality({l \in links : l.session \in S})
  <2>1. SumOf(vc, usage) = SumOf(C, S)
    <3>1. \A x \in S : vc[h[key[x]]] = SumOf(C, Having(S, key, key[x]))
      BY <1>5
    <3> HIDE DEF vc
    <3>2. SumOf(vc, Image(h, Image(key, S))) = SumOf(C, S)
      BY <1>1, <1>6, <3>1, ReportTotal
    <3>3. QED
      BY <1>8, <3>2
  <2>2. SumOf(C, S) = Cardinality({l \in links : l.session \in S})
    BY <1>1, CommitsTotal DEF C
  <2>3. QED
    BY <2>1, <2>2
<1> HIDE DEF vs, vm, vt, vc
<1>13. QED
  BY <1>7, <1>9, <1>10, <1>11, <1>12 DEF S, M, T, usage

\* DailyActivity reports every session of the filters once, too.
LEMMA DailyTotals ==
  ASSUME TypeOK, TablesFinite, NEW f
  PROVE  LET S == Browsable(f)
             daily == DailyActivity(f)
         IN /\ Total(daily, LAMBDA r : r.sessions) = Cardinality(S)
            /\ Total(daily, LAMBDA r : r.messages) = SumOf([s \in S |-> MessagesOf(s)], S)
            /\ Total(daily, LAMBDA r : r.tokens) = SumOf([s \in S |-> TokensOf(s)], S)
<1> DEFINE S == Browsable(f)
           key == [s \in S |-> DayOf(s)]
           K == {key[s] : s \in S}
           group(d) == {s \in S : DayOf(s) = d}
           row(d) == [date |-> d, sessions |-> Cardinality(group(d)),
                      messages |-> Sum(MessagesOf, group(d)),
                      tokens |-> Sum(TokensOf, group(d))]
           h == [d \in K |-> row(d)]
           M == [s \in S |-> MessagesOf(s)]
           T == [s \in S |-> TokensOf(s)]
           daily == DailyActivity(f)
<1>1. /\ IsFiniteSet(S)
      /\ \A s \in S : M[s] \in Nat
      /\ \A s \in S : T[s] \in Nat
  BY BrowsableNumbers
<1>2. daily = {h[d] : d \in K}
  <2>1. K = {DayOf(s) : s \in S}
    OBVIOUS
  <2>2. daily = {row(d) : d \in {DayOf(s) : s \in S}}
    BY DEF DailyActivity
  <2> HIDE DEF K, row, daily
  <2>3. QED
    BY <2>1, <2>2
<1>3. ASSUME NEW x \in S
      PROVE  /\ group(key[x]) = Having(S, key, key[x])
             /\ group(key[x]) \in SUBSET S /\ IsFiniteSet(group(key[x]))
  <2>1. group(key[x]) = Having(S, key, key[x]) /\ group(key[x]) \in SUBSET S
    BY DEF Having
  <2>2. QED
    BY <1>1, <2>1, FS_Subset
<1>4. ASSUME NEW x \in S
      PROVE  /\ Sum(MessagesOf, group(key[x])) = SumOf(M, Having(S, key, key[x]))
             /\ Sum(TokensOf, group(key[x])) = SumOf(T, Having(S, key, key[x]))
  <2> DEFINE A == group(key[x])
             Ma == [s \in A |-> MessagesOf(s)]
             Ta == [s \in A |-> TokensOf(s)]
  <2>1. A = Having(S, key, key[x]) /\ A \in SUBSET S /\ IsFiniteSet(A)
    BY <1>3
  <2> HIDE DEF A
  <2>2. \A s \in A : Ma[s] = M[s] /\ Ta[s] = T[s]
    BY <2>1
  <2>3. Sum(MessagesOf, A) = SumOf(Ma, A) /\ Sum(TokensOf, A) = SumOf(Ta, A)
    BY DEF Sum, SumOf
  <2> HIDE DEF Ma, Ta, M, T
  <2>4. SumOf(Ma, A) = SumOf(M, A) /\ SumOf(Ta, A) = SumOf(T, A)
    BY <2>1, <2>2, SumSame
  <2> HIDE DEF S, key, group
  <2>5. QED
    BY <2>1, <2>3, <2>4 DEF A
<1>5. ASSUME NEW x \in S
      PROVE  /\ h[key[x]].sessions = Cardinality(Having(S, key, key[x]))
             /\ h[key[x]].messages = SumOf(M, Having(S, key, key[x]))
             /\ h[key[x]].tokens = SumOf(T, Having(S, key, key[x]))
             /\ h[key[x]].date = key[x]
             /\ h[key[x]] \in daily
  <2>1. key[x] \in K
    OBVIOUS
  <2> HIDE DEF K
  <2>2. h[key[x]] = row(key[x])
    BY <2>1
  <2> HIDE DEF h, S, key, group, M, T, daily
  <2>3. QED
    BY <1>2, <1>3, <1>4, <2>1, <2>2
<1> HIDE DEF h, S, key, M, T, daily, group, row
<1>6. \A x, y \in S : h[key[x]] = h[key[y]] => key[x] = key[y]
  <2>1. ASSUME NEW x \in S, NEW y \in S, h[key[x]] = h[key[y]] PROVE key[x] = key[y]
    BY <1>5, <2>1
  <2>2. QED
    BY <2>1
<1> DEFINE vs == [r \in daily |-> r.sessions]
           vm == [r \in daily |-> r.messages]
           vt == [r \in daily |-> r.tokens]
<1>7. /\ Total(daily, LAMBDA r : r.sessions) = SumOf(vs, daily)
      /\ Total(daily, LAMBDA r : r.messages) = SumOf(vm, daily)
      /\ Total(daily, LAMBDA r : r.tokens) = SumOf(vt, daily)
  BY DEF Total, Sum, SumOf
<1>8. daily = Image(h, Image(key, S))
  BY <1>2 DEF Image
<1> HIDE DEF K
<1>9. SumOf(vs, daily) = Cardinality(S)
  <2>1. \A x \in S : vs[h[key[x]]] = Cardinality(Having(S, key, key[x]))
    BY <1>5
  <2> HIDE DEF vs
  <2>2. SumOf(vs, Image(h, Image(key, S))) = Cardinality(S)
    BY <1>1, <1>6, <2>1, ReportCount
  <2>3. QED
    BY <1>8, <2>2
<1>10. SumOf(vm, daily) = SumOf(M, S)
  <2>1. \A x \in S : vm[h[key[x]]] = SumOf(M, Having(S, key, key[x]))
    BY <1>5
  <2> HIDE DEF vm
  <2>2. SumOf(vm, Image(h, Image(key, S))) = SumOf(M, S)
    BY <1>1, <1>6, <2>1, ReportTotal
  <2>3. QED
    BY <1>8, <2>2
<1>11. SumOf(vt, daily) = SumOf(T, S)
  <2>1. \A x \in S : vt[h[key[x]]] = SumOf(T, Having(S, key, key[x]))
    BY <1>5
  <2> HIDE DEF vt
  <2>2. SumOf(vt, Image(h, Image(key, S))) = SumOf(T, S)
    BY <1>1, <1>6, <2>1, ReportTotal
  <2>3. QED
    BY <1>8, <2>2
<1> HIDE DEF vs, vm, vt
<1>12. QED
  BY <1>7, <1>9, <1>10, <1>11 DEF S, M, T, daily

\* A report that only counts.
LEMMA CountReport ==
  ASSUME NEW S, IsFiniteSet(S), NEW key,
         NEW h, \A x, y \in S : h[key[x]] = h[key[y]] => key[x] = key[y],
         NEW count, \A x \in S : count[h[key[x]]] = Cardinality(Having(S, key, key[x]))
  PROVE  /\ IsFiniteSet(Image(h, Image(key, S)))
         /\ SumOf(count, Image(h, Image(key, S))) = Cardinality(S)
<1>1. ASSUME NEW A, IsFiniteSet(A), NEW f PROVE IsFiniteSet(Image(f, A))
  <2>1. [x \in A |-> f[x]] \in Surjection(A, Image(f, A))
    BY DEF Surjection, Image
  <2>2. QED
    BY <1>1, <2>1, FS_Surjection
<1>2. IsFiniteSet(Image(key, S))
  BY <1>1
<1>3. IsFiniteSet(Image(h, Image(key, S)))
  BY <1>1, <1>2
<1>4. SumOf(count, Image(h, Image(key, S))) = Cardinality(S)
  BY ReportCount
<1>5. QED
  BY <1>3, <1>4

\* ActivityHeatmap reports every session of the filters once.
LEMMA HeatmapTotal ==
  ASSUME TypeOK, TablesFinite, NEW f
  PROVE  Total(ActivityHeatmap(f), LAMBDA r : r.sessions) = Cardinality(Browsable(f))
<1> DEFINE S == Browsable(f)
           key == [s \in S |-> <<WeekdayOf(s), HourOf(s)>>]
           K == {key[s] : s \in S}
           group(c) == {s \in S : WeekdayOf(s) = c[1] /\ HourOf(s) = c[2]}
           row(c) == [day |-> c[1], hour |-> c[2], sessions |-> Cardinality(group(c))]
           h == [c \in K |-> row(c)]
           heatmap == ActivityHeatmap(f)
           vs == [r \in heatmap |-> r.sessions]
<1>1. IsFiniteSet(S)
  BY BrowsableNumbers
<1>2. heatmap = {h[c] : c \in K}
  <2>1. K = {<<WeekdayOf(s), HourOf(s)>> : s \in S}
    OBVIOUS
  <2>2. heatmap = {row(c) : c \in {<<WeekdayOf(s), HourOf(s)>> : s \in S}}
    BY DEF ActivityHeatmap
  <2> HIDE DEF K, row, heatmap
  <2>3. QED
    BY <2>1, <2>2
<1>3. ASSUME NEW x \in S
      PROVE  /\ h[key[x]].day = key[x][1] /\ h[key[x]].hour = key[x][2]
             /\ h[key[x]].sessions = Cardinality(Having(S, key, key[x]))
             /\ h[key[x]] \in heatmap
             /\ key[x] = <<key[x][1], key[x][2]>>
  <2>1. key[x] \in K /\ key[x] = <<WeekdayOf(x), HourOf(x)>>
    OBVIOUS
  <2>2. group(key[x]) = Having(S, key, key[x])
    BY <2>1 DEF Having
  <2> HIDE DEF K
  <2>3. h[key[x]] = row(key[x])
    BY <2>1
  <2>4. key[x] = <<key[x][1], key[x][2]>>
    BY <2>1
  <2> HIDE DEF h, S, key, group, heatmap
  <2>5. QED
    BY <1>2, <2>1, <2>2, <2>3, <2>4
<1>4. Total(heatmap, LAMBDA r : r.sessions) = SumOf(vs, heatmap)
  BY DEF Total, Sum, SumOf
<1>5. heatmap = Image(h, Image(key, S))
  BY <1>2 DEF Image
<1> HIDE DEF h, S, key, group, row, heatmap, K
<1>6. \A x, y \in S : h[key[x]] = h[key[y]] => key[x] = key[y]
  <2>1. ASSUME NEW x \in S, NEW y \in S, h[key[x]] = h[key[y]] PROVE key[x] = key[y]
    <3>1. key[x][1] = key[y][1] /\ key[x][2] = key[y][2]
      BY <1>3, <2>1
    <3>2. QED
      BY <1>3, <3>1
  <2>2. QED
    BY <2>1
<1>7. \A x \in S : vs[h[key[x]]] = Cardinality(Having(S, key, key[x]))
  BY <1>3
<1> HIDE DEF vs
<1>8. SumOf(vs, heatmap) = Cardinality(S)
  BY <1>1, <1>5, <1>6, <1>7, CountReport
<1>9. QED
  BY <1>4, <1>8 DEF S, heatmap

\* A LIMIT that does not leave its number of rows leaves all of them.
LEMMA LimitLeaves ==
  ASSUME NEW S, IsFiniteSet(S), NEW n \in Nat, NEW T \in SUBSET S,
         Cardinality(T) = IF Cardinality(S) < n THEN Cardinality(S) ELSE n
  PROVE  T = S \/ Cardinality(T) = n
<1>1. Cardinality(S) = Cardinality(T) => S = T
  BY FS_Subset
<1>2. QED
  BY <1>1

\* The tool report counts every tool call of the filters once, unless it is cut.
LEMMA ToolTotal ==
  ASSUME TypeOK, TablesFinite, NEW f, NEW T \in ToolUsageDistribution(f)
  PROVE  \/ Cardinality(T) = TopN
         \/ Total(T, LAMBDA r : r.uses) = Cardinality(CallsIn(f))
<1> DEFINE S == CallsIn(f)
           key == [c \in S |-> c.tool]
           K == {key[c] : c \in S}
           row(t) == [tool |-> t, uses |-> Cardinality({c \in S : c.tool = t})]
           h == [t \in K |-> row(t)]
           report == {row(t) : t \in {c.tool : c \in S}}
           vs == [r \in report |-> r.uses]
<1>1. IsFiniteSet(S)
  <2>1. S \in SUBSET toolCalls
    BY DEF CallsIn
  <2>2. QED
    BY <2>1, FS_Subset DEF TablesFinite
<1>2. report = {h[c] : c \in K}
  <2>1. K = {c.tool : c \in S}
    OBVIOUS
  <2> HIDE DEF K, row
  <2>2. QED
    BY <2>1
<1>3. ASSUME NEW x \in S
      PROVE  /\ h[key[x]].tool = key[x]
             /\ h[key[x]].uses = Cardinality(Having(S, key, key[x]))
             /\ h[key[x]] \in report
  <2>1. key[x] \in K
    OBVIOUS
  <2>2. {c \in S : c.tool = key[x]} = Having(S, key, key[x])
    BY DEF Having
  <2> HIDE DEF K
  <2>3. h[key[x]] = row(key[x])
    BY <2>1
  <2> HIDE DEF h, S, key, report
  <2>4. h[key[x]] \in report
    BY <1>2, <2>1
  <2>5. QED
    BY <2>2, <2>3, <2>4
<1>4. Total(report, LAMBDA r : r.uses) = SumOf(vs, report)
  BY DEF Total, Sum, SumOf
<1>5. /\ T \in SUBSET report
      /\ Cardinality(T) = IF Cardinality(report) < TopN THEN Cardinality(report) ELSE TopN
  BY DEF ToolUsageDistribution, First
<1>6. report = Image(h, Image(key, S))
  BY <1>2 DEF Image
<1> HIDE DEF h, S, key, row, report, K
<1>7. \A x, y \in S : h[key[x]] = h[key[y]] => key[x] = key[y]
  <2>1. ASSUME NEW x \in S, NEW y \in S, h[key[x]] = h[key[y]] PROVE key[x] = key[y]
    BY <1>3, <2>1
  <2>2. QED
    BY <2>1
<1>8. \A x \in S : vs[h[key[x]]] = Cardinality(Having(S, key, key[x]))
  BY <1>3
<1> HIDE DEF vs
<1>9. IsFiniteSet(report) /\ SumOf(vs, report) = Cardinality(S)
  BY <1>1, <1>6, <1>7, <1>8, CountReport
<1>10. T = report \/ Cardinality(T) = TopN
  BY <1>5, <1>9, NumbersAssumption, LimitLeaves
<1>11. QED
  BY <1>4, <1>9, <1>10 DEF S

\* The model report counts every message with tokens once, unless it is cut.
LEMMA ModelTotal ==
  ASSUME TypeOK, TablesFinite, NEW f, NEW T \in TokenUsageByModel(f)
  PROVE  \/ Cardinality(T) = TopN
         \/ Total(T, LAMBDA r : r.messages) = Cardinality(Spent(f))
<1> DEFINE S == Spent(f)
           key == [m \in S |-> m.model]
           K == {key[m] : m \in S}
           row(x) == [model |-> x, tokens |-> Sum(LAMBDA m : m.tokens, {m \in S : m.model = x}),
                      messages |-> Cardinality({m \in S : m.model = x})]
           h == [x \in K |-> row(x)]
           report == {row(x) : x \in {m.model : m \in S}}
           vs == [r \in report |-> r.messages]
<1>1. IsFiniteSet(S)
  <2>1. S \in SUBSET messages
    BY DEF Spent, MessagesIn
  <2>2. QED
    BY <2>1, FS_Subset DEF TablesFinite
<1>2. report = {h[c] : c \in K}
  <2>1. K = {m.model : m \in S}
    OBVIOUS
  <2> HIDE DEF K, row
  <2>2. QED
    BY <2>1
<1>3. ASSUME NEW x \in S
      PROVE  /\ h[key[x]].model = key[x]
             /\ h[key[x]].messages = Cardinality(Having(S, key, key[x]))
             /\ h[key[x]] \in report
  <2>1. key[x] \in K
    OBVIOUS
  <2>2. {m \in S : m.model = key[x]} = Having(S, key, key[x])
    BY DEF Having
  <2> HIDE DEF K
  <2>3. h[key[x]] = row(key[x])
    BY <2>1
  <2> HIDE DEF h, S, key, report
  <2>4. h[key[x]] \in report
    BY <1>2, <2>1
  <2>5. QED
    BY <2>2, <2>3, <2>4
<1>4. Total(report, LAMBDA r : r.messages) = SumOf(vs, report)
  BY DEF Total, Sum, SumOf
<1>5. /\ T \in SUBSET report
      /\ Cardinality(T) = IF Cardinality(report) < TopN THEN Cardinality(report) ELSE TopN
  BY DEF TokenUsageByModel, First
<1>6. report = Image(h, Image(key, S))
  BY <1>2 DEF Image
<1> HIDE DEF h, S, key, row, report, K
<1>7. \A x, y \in S : h[key[x]] = h[key[y]] => key[x] = key[y]
  <2>1. ASSUME NEW x \in S, NEW y \in S, h[key[x]] = h[key[y]] PROVE key[x] = key[y]
    BY <1>3, <2>1
  <2>2. QED
    BY <2>1
<1>8. \A x \in S : vs[h[key[x]]] = Cardinality(Having(S, key, key[x]))
  BY <1>3
<1> HIDE DEF vs
<1>9. IsFiniteSet(report) /\ SumOf(vs, report) = Cardinality(S)
  BY <1>1, <1>6, <1>7, <1>8, CountReport
<1>10. T = report \/ Cardinality(T) = TopN
  BY <1>5, <1>9, NumbersAssumption, LimitLeaves
<1>11. QED
  BY <1>4, <1>9, <1>10 DEF S

\* What is reported has a name the filters offer: that of a session they all show.
LEMMA NamesOffered ==
  ASSUME NEW f
  PROVE  /\ {r.user : r \in UsageByUser(f)} \subseteq ListUsers
         /\ {r.project : r \in UsageByUser(f)} \subseteq ListProjects \cup {NoName}
<1>1. Browsable(f) \subseteq Browsable(NoFilters)
  <2>1. ASSUME NEW row PROVE Fits(row, NoFilters)
    BY DEF Fits, NoFilters, Since, Until
  <2>2. QED
    BY <2>1 DEF Browsable
<1>2. ASSUME NEW r \in UsageByUser(f)
      PROVE  \E s \in Browsable(f) : r.user = sessions[s].user /\ r.project = sessions[s].project
  <2> DEFINE group(g) ==
               {s \in Browsable(f) : sessions[s].user = g[1] /\ sessions[s].project = g[2]}
             number(g) == Cardinality(group(g))
             talk(g) == Sum(MessagesOf, group(g))
             spent(g) == Sum(TokensOf, group(g))
             linked(g) == Sum(CommitsOf, group(g))
             row(g) == [user |-> g[1], project |-> g[2], sessions |-> number(g),
                        messages |-> talk(g), tokens |-> spent(g), commits |-> linked(g)]
  <2>1. PICK s \in Browsable(f) : r = row(<<sessions[s].user, sessions[s].project>>)
    <3>1. UsageByUser(f) =
            {row(g) : g \in {<<sessions[s].user, sessions[s].project>> : s \in Browsable(f)}}
      BY DEF UsageByUser
    <3> HIDE DEF row
    <3>2. QED
      BY <1>2, <3>1
  <2> HIDE DEF number, talk, spent, linked
  <2>2. QED
    BY <2>1
<1>3. QED
  BY <1>1, <1>2 DEF ListUsers, ListProjects

\* The reports of the dashboard agree with each other and with the session list, for
\* any sessions, filters and days: no join or group counts a session twice or leaves
\* one out, and a LIMIT is all that cuts a report.
THEOREM ReportsAddUp == Spec => []ReportsAgree
<1>1. ASSUME TypeOK, TablesFinite PROVE ReportsAgree
  BY <1>1, UsageTotals, DailyTotals, HeatmapTotal, ToolTotal, ModelTotal, NamesOffered
  DEF ReportsAgree
<1>2. Init => TablesFinite
  BY FS_EmptySet DEF Init, TablesFinite
<1>3. Spec => []TablesFinite
  BY <1>2, NextFinite, Invariance, PTL DEF Spec
<1>4. QED
  BY <1>1, <1>3, TypeCorrect, PTL

=============================================================================
