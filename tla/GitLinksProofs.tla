--------------------------- MODULE GitLinksProofs ---------------------------
(* Proofs about GitLinks, for any tool calls and bounds.                   *)
EXTENDS GitLinks, TLAPS, WellFoundedInduction

-----------------------------------------------------------------------------
(* ReplacingMergeTree. *)

\* What a set of rows needs for its versions to be compared.
IsTable(rows) == \A r \in rows : r.version \in Nat /\ r.insert \in Nat

LEMMA SupersedesIsOrder ==
  ASSUME NEW a, NEW b, NEW c, IsTable({a, b, c})
  PROVE  /\ ~Supersedes(a, a)
         /\ Supersedes(a, b) /\ Supersedes(b, c) => Supersedes(a, c)
BY DEF IsTable, Supersedes

\* A merge changes nothing a query with FINAL can see.
LEMMA MergeKeepsFinal ==
  ASSUME NEW rows, NEW left, IsTable(rows), IsMerge(rows, left)
  PROVE  Final(left) = Final(rows)
<1>1. ASSUME NEW r \in Final(rows) PROVE r \in Final(left)
  BY <1>1 DEF Final, IsMerge
<1>2. ASSUME NEW r \in Final(left), NEW q \in rows, Supersedes(q, r) PROVE FALSE
  <2>1. r \in rows /\ q \notin left
    BY <1>2 DEF Final, IsMerge
  <2>2. PICK t \in left : Supersedes(t, q)
    BY <2>1 DEF IsMerge
  <2>3. IsTable({t, q, r})
    BY <2>1, <2>2 DEF IsTable, IsMerge
  <2>4. Supersedes(t, r)
    BY <1>2, <2>2, <2>3, SupersedesIsOrder
  <2>5. QED
    BY <1>2, <2>2, <2>4 DEF Final
<1>3. QED
  BY <1>1, <1>2 DEF Final, IsMerge

\* What a query sees when new rows take the place of those with their keys.
Replaced(rows, new) == new \cup {r \in Final(rows) : \A n \in new : n.key # r.key}

\* An insert that is later than all before it, and not of a smaller version,
\* takes the place of what had its keys.
LEMMA LatestInsertWins ==
  ASSUME NEW rows, NEW new, NEW v \in Nat, NEW i \in Nat, IsTable(rows),
         \A r \in rows : r.version <= v /\ r.insert < i,
         \A n \in new : n.version = v /\ n.insert = i
  PROVE  Final(rows \cup new) = Replaced(rows, new)
<1>1. \A n \in new, q \in rows \cup new : ~Supersedes(q, n)
  BY DEF Supersedes, IsTable
<1>2. \A n \in new, r \in rows : Supersedes(n, r) <=> n.key = r.key
  BY DEF Supersedes, IsTable
<1>3. QED
  BY <1>1, <1>2 DEF Final, Replaced

\* Every key of the table has a row that FINAL sees.
HasFinal(rows) == \A r \in rows : \E f \in Final(rows) : f.key = r.key

\* An insert leaves it so, whatever its version.
LEMMA InsertHasFinal ==
  ASSUME NEW rows, NEW new, NEW v \in Nat, NEW i \in Nat, IsTable(rows), HasFinal(rows),
         \A r \in rows : r.insert < i,
         \A n \in new : n.version = v /\ n.insert = i
  PROVE  HasFinal(rows \cup new)
<1>1. ASSUME NEW f \in Final(rows), \A n \in new : ~Supersedes(n, f)
      PROVE  f \in Final(rows \cup new)
  BY <1>1 DEF Final
<1>2. ASSUME NEW f \in Final(rows), NEW n \in new, Supersedes(n, f)
      PROVE  n \in Final(rows \cup new) /\ n.key = f.key
  <2>1. n.key = f.key /\ f \in rows
    BY <1>2 DEF Supersedes, Final
  <2>2. ASSUME NEW q \in rows, Supersedes(q, n) PROVE FALSE
    <3>1. IsTable({q, n, f})
      BY <2>1 DEF IsTable
    <3>2. Supersedes(q, f)
      BY <1>2, <2>2, <3>1, SupersedesIsOrder
    <3>3. QED
      BY <2>2, <3>2 DEF Final
  <2>3. \A q \in new : ~Supersedes(q, n)
    BY DEF Supersedes
  <2>4. QED
    BY <2>1, <2>2, <2>3 DEF Final
<1>3. ASSUME NEW r \in rows PROVE \E f \in Final(rows \cup new) : f.key = r.key
  <2>1. PICK f \in Final(rows) : f.key = r.key
    BY DEF HasFinal
  <2>2. QED
    BY <1>1, <1>2, <2>1
<1>4. ASSUME NEW n \in new PROVE \E f \in Final(rows \cup new) : f.key = n.key
  <2>1. CASE \E r \in rows : r.key = n.key
    BY <1>3, <2>1
  <2>2. CASE \A r \in rows : r.key # n.key
    BY <2>2 DEF Final, Supersedes
  <2>3. QED
    BY <2>1, <2>2
<1>5. QED
  BY <1>3, <1>4 DEF HasFinal

-----------------------------------------------------------------------------
(* ExtractGitLinks. *)

LEMMA Least ==
  ASSUME NEW T \in SUBSET Nat, T # {}
  PROVE  \E x \in T : \A y \in T : x <= y
<1>1. PICK x \in T : \A y \in T : <<y, x>> \notin OpToRel(<, Nat)
  BY WFMin, NatLessThanWellFounded, Zenon
<1>2. \A y \in T : ~(y < x)
  BY <1>1, Zenon DEF OpToRel
<1>3. QED
  BY <1>2

LEMMA LinkFacts ==
  ASSUME NEW o, NEW k
  PROVE  Link(o, k).key = k /\ Link(o, k).ordinal = o
BY DEF Link

\* The links of a batch are for just the keys its calls show.
LEMMA ExtractKeys ==
  ASSUME NEW from \in Nat, NEW to \in Nat, NEW have
  PROVE  KeysIn(Extract(from, to, have)) = UNION {KeysShown(o, have) : o \in from .. to}
<1>1. ASSUME NEW o \in from .. to, NEW k \in KeysShown(o, have)
      PROVE  k \in KeysIn(Extract(from, to, have))
  <2> DEFINE T == {j \in from .. to : k \in KeysShown(j, have)}
  <2>1. T \in SUBSET Nat /\ T # {}
    BY <1>1
  <2>2. PICK m \in T : \A j \in T : m <= j
    BY <2>1, Least
  <2>3. m \in from .. to /\ k \in KeysShown(m, have)
    OBVIOUS
  <2>4. \A j \in from .. (m - 1) : k \notin KeysShown(j, have)
    BY <2>2, <2>3
  <2>5. Link(m, k) \in Extract(from, to, have)
    BY <2>3, <2>4 DEF Extract, NewKeys
  <2>6. QED
    BY <2>5, LinkFacts DEF KeysIn
<1>2. ASSUME NEW l \in Extract(from, to, have)
      PROVE  \E o \in from .. to : l.key \in KeysShown(o, have)
  BY <1>2, LinkFacts DEF Extract, NewKeys
<1>3. QED
  BY <1>1, <1>2 DEF KeysIn

-----------------------------------------------------------------------------
(* Type correctness. *)

LEMMA KeysOfType ==
  ASSUME NEW c \in ToolCalls
  PROVE  KeysOf(c) \subseteq Keys
BY DEF KeysOf, Keys, ToolCalls

LEMMA ExtractType ==
  ASSUME TypeOK, NEW from \in Nat, NEW to \in 0 .. Len(calls), from > 0, NEW have
  PROVE  Extract(from, to, have) \subseteq Links
<1>1. ASSUME NEW o \in from .. to, NEW k \in KeysShown(o, have) PROVE Link(o, k) \in Links
  <2>1. o \in Nat /\ calls[o] \in ToolCalls
    BY DEF TypeOK
  <2>2. k \in Keys
    BY <2>1, KeysOfType DEF KeysShown
  <2>3. QED
    BY <2>1, <2>2 DEF Link, Links
<1>2. QED
  BY <1>1 DEF Extract, NewKeys

LEMMA InitTypeOK == Init => TypeOK
<1>1. SUFFICES ASSUME Init PROVE TypeOK
  OBVIOUS
<1>2. calls \in Seq(ToolCalls)
  BY <1>1 DEF Init
<1>3. mem \in 0 .. Len(calls) /\ file \in 0 .. Len(calls) /\ upTo \in 0 .. Len(calls)
  <2>1. Len(calls) = 0
    BY <1>1 DEF Init
  <2>2. QED
    BY <1>1, <2>1 DEF Init
<1>4. version \in 0 .. MaxTime /\ now \in 0 .. MaxTime
  BY <1>1, BoundsAssumption DEF Init
<1>5. QED
  BY <1>1, <1>2, <1>3, <1>4 DEF Init, TypeOK

LEMMA InsertedType ==
  ASSUME TypeOK
  PROVE  Inserted \subseteq Rows
BY DEF TypeOK, Inserted, RowOf, Links, Rows

LEMMA NextTypeOK == TypeOK /\ [Next]_vars => TypeOK'
<1>1. SUFFICES ASSUME TypeOK, [Next]_vars PROVE TypeOK'
  OBVIOUS
<1> USE DEF sourceVars, batchVars, processVars, tableVars, clockVars
<1>2. Len(calls) \in Nat /\ 0 \in 0 .. MaxTime
  BY <1>1, BoundsAssumption DEF TypeOK
<1>3. CASE (\E c \in CallKinds, whole \in BOOLEAN : Ingest(c, whole))
           \/ (\E o \in 1 .. Len(calls) : LateResult(o))
  <2>1. CASE \E c \in CallKinds, whole \in BOOLEAN : Ingest(c, whole)
    <3>1. PICK c \in ToolCalls, whole \in BOOLEAN : Ingest(c, whole)
      BY <2>1, CallKindsAssumption
    <3>2. calls' \in Seq(ToolCalls) /\ Len(calls') = Len(calls) + 1
      BY <1>1, <3>1 DEF TypeOK, Ingest
    <3>3. done' \subseteq 1 .. Len(calls') /\ read' \subseteq done'
      <4>1. done \subseteq done' /\ done' \subseteq done \cup {Len(calls) + 1} /\ read' = read
        BY <3>1, Zenon DEF Ingest
      <4>2. done \subseteq 1 .. Len(calls) /\ read \subseteq done
        BY <1>1 DEF TypeOK
      <4>3. 1 .. Len(calls) \cup {Len(calls) + 1} \subseteq 1 .. Len(calls')
        BY <1>2, <3>2
      <4>4. QED
        BY <4>1, <4>2, <4>3
    <3>4. QED
      BY <1>1, <1>2, <3>1, <3>2, <3>3 DEF TypeOK, Ingest
  <2>2. ASSUME NEW o \in 1 .. Len(calls), LateResult(o) PROVE TypeOK'
    <3>1. KeysOf(calls[o]) \subseteq Keys
      BY <1>1, KeysOfType DEF TypeOK
    <3>2. done' \subseteq 1 .. Len(calls) /\ read' \subseteq done'
      BY <1>1, <2>2 DEF TypeOK, LateResult
    <3>3. late' \subseteq Keys
      BY <1>1, <2>2, <3>1 DEF TypeOK, LateResult
    <3>4. QED
      BY <1>1, <2>2, <3>2, <3>3 DEF TypeOK, LateResult
  <2>3. QED
    BY <1>3, <2>1, <2>2
<1>4. CASE Tick \/ SetClockBack
  <2>1. now' \in 0 .. MaxTime
    BY <1>1, <1>4, BoundsAssumption DEF TypeOK, Tick, SetClockBack
  <2>2. setBack' \in BOOLEAN
    BY <1>1, <1>4 DEF TypeOK, Tick, SetClockBack
  <2>3. QED
    BY <1>1, <1>4, <2>1, <2>2 DEF TypeOK, Tick, SetClockBack
<1>5. CASE Merge
  BY <1>1, <1>5 DEF TypeOK, Merge
<1>6. CASE Prepare
  <2>1. Extract(mem + 1, Len(calls), done) \subseteq Links
    BY <1>1, <1>2, ExtractType DEF TypeOK
  <2>2. QED
    BY <1>1, <1>2, <1>6, <2>1 DEF TypeOK, Prepare, Goto
<1>7. CASE WriteBatch \/ WriteBatchFails
  <2>1. CASE WriteBatch
    BY <1>1, <1>2, <2>1 DEF TypeOK, WriteBatch, Goto
  <2>2. CASE WriteBatchFails
    BY <1>1, <1>2, <2>2 DEF TypeOK, WriteBatchFails, Goto, NoBatch
  <2>3. QED
    BY <1>7, <2>1, <2>2
<1>8. CASE SendLinks
  BY <1>1, <1>8, InsertedType DEF TypeOK, SendLinks, Goto
<1>9. CASE SendLinksFails
  <2>1. KeysIn(batch) \subseteq Keys
    BY <1>1 DEF TypeOK, KeysIn, Links
  <2>2. QED
    BY <1>1, <1>9, <2>1 DEF TypeOK, SendLinksFails, Goto
<1>10. CASE MarkSynced \/ Save \/ Restart
  <2>1. CASE MarkSynced
    BY <1>1, <1>2, <2>1 DEF TypeOK, MarkSynced, Goto, NoBatch
  <2>2. CASE Save
    BY <1>1, <2>2 DEF TypeOK, Save, Goto
  <2>3. CASE Restart
    BY <1>1, <1>2, <2>3 DEF TypeOK, Restart, NoBatch
  <2>4. QED
    BY <1>10, <2>1, <2>2, <2>3
<1>11. CASE UNCHANGED vars
  BY <1>1, <1>11 DEF TypeOK, vars
<1>12. QED
  BY <1>1, <1>3, <1>4, <1>5, <1>6, <1>7, <1>8, <1>9, <1>10, <1>11 DEF Next

\* The process, the table and the clock are well-typed.
THEOREM TypeCorrect == Spec => []TypeOK
<1>1. QED
  BY InitTypeOK, NextTypeOK, PTL DEF Spec

-----------------------------------------------------------------------------
(* The inductive invariant.                                                *)
(*                                                                         *)
(* Inserts are numbered, so that the rows of the next one are new; and as  *)
(* long as the clock has not been set back, no row has a larger version    *)
(* than the one the process is about to use.  Between Prepare and the      *)
(* watermark, the batch stays the links of the calls in between; what they *)
(* have come to show since is late.                                        *)

\* The keys that are written or given up; a step never takes one away.
Accounted == KeysIn(table) \cup lost \cup late

\* Every key that the first n calls show is accounted for.
Complete(n) == \A o \in 1 .. n : KeysShown(o, done) \subseteq Accounted

TableInv ==
  /\ HasFinal(table)
  /\ \A r \in table : r.insert <= inserts
  /\ ~setBack => version <= now /\ \A r \in table : r.version <= now
  /\ ~setBack /\ pc = "send" => \A r \in table : r.version <= version
  /\ \A r \in table : r.ordinal \in 1 .. Len(calls) /\ r.key \in KeysShown(r.ordinal, done)

\* The batch is what the calls above the watermark showed when they were read.
BatchIsRead ==
  /\ mem <= upTo
  /\ batch = Extract(mem + 1, upTo, read)
  /\ \A r \in table : r.ordinal <= upTo /\ r.ordinal \in read

\* What they have shown since is accounted for.
LateIsKnown == \A o \in (mem + 1) .. upTo : o \notin read => KeysShown(o, done) \subseteq Accounted

BatchInv ==
  /\ pc \in {"batch", "send"} => BatchIsRead /\ LateIsKnown
  /\ pc = "mark" => Complete(upTo)
  /\ Complete(mem) /\ Complete(file)

IInv == TypeOK /\ TableInv /\ BatchInv

LEMMA InitIInv == Init => IInv
<1>1. SUFFICES ASSUME Init PROVE TypeOK /\ TableInv /\ BatchInv
  BY DEF IInv
<1>2. TypeOK
  BY <1>1, InitTypeOK
<1>3. TableInv /\ BatchInv
  BY <1>1 DEF Init, TableInv, BatchInv, HasFinal, Complete
<1>4. QED
  BY <1>2, <1>3

LEMMA TypedTable ==
  ASSUME TypeOK
  PROVE  IsTable(table)
BY DEF TypeOK, IsTable, Rows

\* Extraction looks only at the calls it is given.
LEMMA ExtractSame ==
  ASSUME NEW from \in Nat, NEW to \in Nat, \A o \in from .. to : calls'[o] = calls[o],
         read' = read
  PROVE  Extract(from, to, read)' = Extract(from, to, read)
<1>1. ASSUME NEW o \in from .. to PROVE KeysShown(o, read)' = KeysShown(o, read)
  BY DEF KeysShown
<1>2. ASSUME NEW o \in from .. to PROVE NewKeys(from, o, read)' = NewKeys(from, o, read)
  <2>1. \A j \in from .. (o - 1) : KeysShown(j, read)' = KeysShown(j, read)
    BY <1>1
  <2>2. QED
    BY <1>1, <2>1 DEF NewKeys
<1>3. ASSUME NEW o \in from .. to, NEW k PROVE Link(o, k)' = Link(o, k)
  BY DEF Link
<1>4. \A l : l \in Extract(from, to, read)' <=>
             \E o \in from .. to : \E k \in NewKeys(from, o, read)' : l = Link(o, k)'
  BY DEF Extract
<1>5. \A l : l \in Extract(from, to, read) <=>
             \E o \in from .. to : \E k \in NewKeys(from, o, read) : l = Link(o, k)
  BY DEF Extract
<1>6. \A l : l \in Extract(from, to, read)' <=> l \in Extract(from, to, read)
  BY <1>2, <1>3, <1>4, <1>5
<1>7. QED
  BY <1>6

\* A first call of the source is the same call after any step, and keeps its
\* result.
LEMMA CallsKept ==
  ASSUME TypeOK, [Next]_vars
  PROVE  /\ Len(calls) <= Len(calls')
         /\ \A o \in 1 .. Len(calls) : calls'[o] = calls[o]
         /\ done \subseteq done'
<1>1. CASE \E c \in CallKinds, whole \in BOOLEAN : Ingest(c, whole)
  BY <1>1 DEF TypeOK, Ingest
<1>2. CASE calls' = calls /\ done \subseteq done'
  BY <1>2 DEF TypeOK
<1>3. QED
  BY <1>1, <1>2 DEF Next, vars, sourceVars, LateResult, Tick, SetClockBack, Merge, Prepare,
     WriteBatch, WriteBatchFails, SendLinks, SendLinksFails, MarkSynced, Save, Restart

\* The calls show what they did, and a new key only by a late result, which is
\* accounted for wherever a watermark or the running sync has passed it.
LEMMA ShownLater ==
  ASSUME TypeOK, [Next]_vars, NEW o \in 1 .. Len(calls)
  PROVE  /\ KeysShown(o, done) \subseteq KeysShown(o, done)'
         /\ \/ KeysShown(o, done)' = KeysShown(o, done)
            \/ TooLate(o) => KeysShown(o, done)' \subseteq late'
<1>1. Len(calls) \in Nat /\ calls'[o] = calls[o] /\ done \subseteq done'
  BY CallsKept DEF TypeOK
<1>2. KeysShown(o, done) \subseteq KeysShown(o, done)'
  BY <1>1 DEF KeysShown
<1>3. CASE o \in done <=> o \in done'
  BY <1>1, <1>2, <1>3 DEF KeysShown
<1>4. CASE o \notin done /\ o \in done'
  <2>1. LateResult(o)
    <3>1. CASE \E c \in CallKinds, whole \in BOOLEAN : Ingest(c, whole)
      BY <1>1, <1>4, <3>1 DEF Ingest
    <3>2. CASE \E p \in 1 .. Len(calls) : LateResult(p)
      <4>1. PICK p \in 1 .. Len(calls) : LateResult(p)
        BY <3>2
      <4>2. p = o
        BY <1>4, <4>1 DEF LateResult
      <4>3. QED
        BY <4>1, <4>2
    <3>3. QED
      BY <1>4, <3>1, <3>2 DEF Next, vars, sourceVars, Tick, SetClockBack, Merge, Prepare,
         WriteBatch, WriteBatchFails, SendLinks, SendLinksFails, MarkSynced, Save, Restart
  <2>2. KeysShown(o, done)' = KeysOf(calls[o])
    BY <1>1, <1>4 DEF KeysShown
  <2>3. QED
    BY <1>2, <2>1, <2>2 DEF LateResult
<1>5. QED
  BY <1>1, <1>3, <1>4

\* FINAL hides no key.
LEMMA VisibleKeys ==
  ASSUME HasFinal(table)
  PROVE  KeysIn(Visible(table)) = KeysIn(table)
<1>1. ASSUME NEW r \in table PROVE r.key \in KeysIn(Visible(table))
  <2>1. PICK f \in Final(table) : f.key = r.key
    BY DEF HasFinal
  <2>2. LinkIn(f) \in Visible(table) /\ LinkIn(f).key = r.key
    BY <2>1 DEF Visible, LinkIn
  <2>3. QED
    BY <2>2 DEF KeysIn
<1>2. ASSUME NEW l \in Visible(table) PROVE l.key \in KeysIn(table)
  BY <1>2 DEF Visible, LinkIn, Final, KeysIn
<1>3. QED
  BY <1>1, <1>2 DEF KeysIn

LEMMA InsertedFacts ==
  /\ \A n \in Inserted : n.version = version /\ n.insert = inserts + 1
  /\ KeysIn(Inserted) = KeysIn(batch)
<1>1. \A l : RowOf(l).key = l.key /\ RowOf(l).version = version /\ RowOf(l).insert = inserts + 1
  BY DEF RowOf
<1>2. QED
  BY <1>1 DEF Inserted, KeysIn

\* The links of a batch name a call of the batch that shows their key.
LEMMA ExtractOrdinals ==
  ASSUME NEW from \in Nat, NEW to \in Nat, NEW have, NEW l \in Extract(from, to, have)
  PROVE  l.ordinal \in from .. to /\ l.key \in KeysShown(l.ordinal, have)
BY LinkFacts DEF Extract, NewKeys

\* A batch makes up for the calls above the watermark.
LEMMA BatchCompletes ==
  ASSUME TypeOK, Complete(mem), BatchIsRead, LateIsKnown,
         NEW S, Accounted \cup KeysIn(batch) \subseteq S
  PROVE  \A o \in 1 .. upTo : KeysShown(o, done) \subseteq S
<1>1. mem \in Nat /\ upTo \in Nat
  BY DEF TypeOK
<1>2. ASSUME NEW o \in (mem + 1) .. upTo PROVE KeysShown(o, done) \subseteq S
  <2>1. CASE o \in read
    <3>1. KeysShown(o, done) = KeysShown(o, read)
      BY <2>1 DEF TypeOK, KeysShown
    <3>2. KeysIn(batch) = UNION {KeysShown(p, read) : p \in (mem + 1) .. upTo}
      BY <1>1, ExtractKeys DEF BatchIsRead
    <3>3. QED
      BY <3>1, <3>2
  <2>2. CASE o \notin read
    BY <2>2 DEF LateIsKnown
  <2>3. QED
    BY <2>1, <2>2
<1>3. \A o \in 1 .. upTo : o \in 1 .. mem \/ o \in (mem + 1) .. upTo
  BY <1>1
<1>4. QED
  BY <1>2, <1>3 DEF Complete

\* What a step leaves accounted for, and what comes to be shown in a step.
LEMMA AccountedKept ==
  ASSUME TypeOK, [Next]_vars
  PROVE  Accounted \subseteq Accounted'
<1> USE DEF sourceVars, batchVars, processVars, tableVars, clockVars
<1>1. CASE UNCHANGED <<table, lost>> /\ late \subseteq late'
  BY <1>1 DEF Accounted
<1>2. CASE Merge
  <2>1. \A r \in table : \E q \in table' : q.key = r.key
    BY <1>2 DEF Merge, IsMerge, Supersedes
  <2>2. KeysIn(table) \subseteq KeysIn(table')
    BY <2>1 DEF KeysIn
  <2>3. QED
    BY <1>2, <2>2 DEF Merge, Accounted
<1>3. CASE SendLinks
  <2>1. KeysIn(table') = KeysIn(table) \cup KeysIn(batch)
    BY <1>3, InsertedFacts DEF SendLinks, KeysIn
  <2>2. QED
    BY <1>3, <2>1 DEF SendLinks, Accounted
<1>4. CASE SendLinksFails
  BY <1>4 DEF SendLinksFails, Accounted
<1>5. QED
  BY <1>1, <1>2, <1>3, <1>4 DEF Next, vars, Ingest, LateResult, Tick, SetClockBack, Prepare,
     WriteBatch, WriteBatchFails, MarkSynced, Save, Restart

\* The calls that a watermark or the running sync has passed stay accounted for.
LEMMA PassedKept ==
  ASSUME TypeOK, [Next]_vars, NEW o \in 1 .. Len(calls), TooLate(o),
         KeysShown(o, done) \subseteq Accounted
  PROVE  KeysShown(o, done)' \subseteq Accounted'
<1>1. Accounted \subseteq Accounted' /\ late' \subseteq Accounted'
  BY AccountedKept DEF Accounted
<1>2. QED
  BY <1>1, ShownLater

LEMMA CompleteKept ==
  ASSUME TypeOK, [Next]_vars, NEW n, n = mem \/ n = file \/ n = upTo, Complete(n), n' = n
  PROVE  Complete(n)'
<1>1. n \in 0 .. Len(calls) /\ Len(calls) \in Nat
  BY DEF TypeOK
<1>2. ASSUME NEW o \in 1 .. n PROVE KeysShown(o, done)' \subseteq Accounted'
  <2>1. o \in 1 .. Len(calls) /\ TooLate(o)
    BY <1>1 DEF TooLate
  <2>2. QED
    BY <2>1, PassedKept DEF Complete
<1>3. QED
  BY <1>2 DEF Complete

LEMMA NextTableInv ==
  ASSUME IInv, TypeOK', [Next]_vars
  PROVE  TableInv'
<1> USE DEF sourceVars, batchVars, processVars, tableVars, clockVars
<1>1. TypeOK /\ TableInv /\ BatchInv /\ IsTable(table)
  BY TypedTable DEF IInv
<1>2. ASSUME NEW r \in table
      PROVE  r.ordinal \in 1 .. Len(calls)' /\ r.key \in KeysShown(r.ordinal, done)'
  <2>1. r.ordinal \in 1 .. Len(calls) /\ r.key \in KeysShown(r.ordinal, done)
    BY <1>1 DEF TableInv
  <2>2. Len(calls) \in Nat /\ Len(calls') \in Nat /\ Len(calls) <= Len(calls')
    <3>1. Len(calls) <= Len(calls')
      BY <1>1, CallsKept
    <3>2. QED
      BY <1>1, <3>1 DEF TypeOK
  <2>3. KeysShown(r.ordinal, done) \subseteq KeysShown(r.ordinal, done)'
    BY <1>1, <2>1, ShownLater
  <2>4. QED
    BY <2>1, <2>2, <2>3
<1>3. now \in Nat /\ version \in Nat
  BY <1>1 DEF TypeOK
<1>4. CASE UNCHANGED table /\ ~(WriteBatch \/ Tick \/ SetClockBack \/ Merge \/ SendLinks)
  <2>1. UNCHANGED <<inserts, now, setBack>>
    BY <1>4 DEF Next, vars, Ingest, LateResult, Prepare, WriteBatchFails, SendLinksFails,
       MarkSynced, Save, Restart
  <2>2. \/ UNCHANGED version /\ (pc' = "send" => pc = "send")
        \/ version' = 0 /\ pc' # "send"
    BY <1>4 DEF Next, vars, Ingest, LateResult, Prepare, WriteBatchFails, SendLinksFails,
       MarkSynced, Save, Restart, Goto, NoBatch
  <2>3. 0 <= now
    BY <1>3
  <2>4. QED
    BY <1>1, <1>2, <1>4, <2>1, <2>2, <2>3 DEF TableInv
<1>5. CASE WriteBatch
  BY <1>1, <1>2, <1>3, <1>5 DEF WriteBatch, TableInv, Goto
<1>6. CASE Tick
  <2>1. \A r \in table : r.version \in Nat
    BY <1>1 DEF IsTable
  <2>2. QED
    BY <1>1, <1>2, <1>3, <1>6, <2>1 DEF Tick, TableInv
<1>7. CASE SetClockBack
  BY <1>1, <1>2, <1>7 DEF SetClockBack, TableInv
<1>8. CASE Merge
  <2>1. Final(table') = Final(table) /\ table' \subseteq table
    BY <1>1, <1>8, MergeKeepsFinal DEF Merge, IsMerge
  <2>2. QED
    BY <1>1, <1>2, <1>8, <2>1 DEF Merge, TableInv, HasFinal
<1>9. CASE SendLinks
  <2>1. /\ table' = table \cup Inserted /\ inserts' = inserts + 1
        /\ UNCHANGED <<version, now, setBack, calls, done, upTo, mem>>
        /\ pc = "send" /\ pc' = "mark"
    BY <1>9 DEF SendLinks, Goto
  <2>2. inserts + 1 \in Nat /\ \A r \in table : r.insert \in Nat /\ r.insert < inserts + 1
    <3>1. inserts \in Nat
      BY <1>1 DEF TypeOK
    <3>2. \A r \in table : r.insert \in Nat
      BY <1>1 DEF IsTable
    <3>3. \A r \in table : r.insert <= inserts
      BY <1>1 DEF TableInv
    <3>4. QED
      BY <3>1, <3>2, <3>3
  <2>3. HasFinal(table')
    BY <1>1, <1>3, <2>1, <2>2, InsertedFacts, InsertHasFinal DEF TableInv
  <2>4. \A r \in table' : r.insert <= inserts'
    BY <2>1, <2>2, InsertedFacts
  <2>5. ~setBack => \A r \in table' : r.version <= now
    BY <1>1, <2>1, InsertedFacts DEF TableInv
  <2>6. ASSUME NEW n \in Inserted
        PROVE  n.ordinal \in 1 .. Len(calls) /\ n.key \in KeysShown(n.ordinal, done)
    <3>1. PICK l \in batch : n.key = l.key /\ n.ordinal = l.ordinal
      BY DEF Inserted, RowOf
    <3>2. l \in Extract(mem + 1, upTo, read) /\ mem \in Nat /\ upTo \in 0 .. Len(calls)
      BY <1>1, <2>1, <3>1 DEF BatchInv, BatchIsRead, TypeOK
    <3>3. l.ordinal \in (mem + 1) .. upTo /\ l.key \in KeysShown(l.ordinal, read)
      BY <3>2, ExtractOrdinals
    <3>4. KeysShown(l.ordinal, read) \subseteq KeysShown(l.ordinal, done)
      BY <1>1 DEF TypeOK, KeysShown
    <3>5. QED
      BY <3>1, <3>2, <3>3, <3>4
  <2>7. \A r \in table' : r.ordinal \in 1 .. Len(calls)' /\ r.key \in KeysShown(r.ordinal, done)'
    BY <1>2, <2>1, <2>6 DEF KeysShown
  <2>8. QED
    BY <1>1, <2>1, <2>3, <2>4, <2>5, <2>7 DEF TableInv
<1>10. QED
  BY <1>4, <1>5, <1>6, <1>7, <1>8, <1>9 DEF Next, vars, Ingest, LateResult, Prepare,
     WriteBatchFails, SendLinksFails, MarkSynced, Save, Restart

LEMMA NextBatchInv ==
  ASSUME IInv, TypeOK', [Next]_vars
  PROVE  BatchInv'
<1> USE DEF sourceVars, batchVars, processVars, tableVars, clockVars
<1>1. TypeOK /\ TableInv /\ BatchInv
  BY DEF IInv
<1>2. /\ mem \in 0 .. Len(calls) /\ file \in 0 .. Len(calls) /\ upTo \in 0 .. Len(calls)
      /\ Len(calls) \in Nat /\ read \subseteq done
  BY <1>1 DEF TypeOK
<1>3. Complete(0) /\ Complete(mem) /\ Complete(file)
  BY <1>1 DEF BatchInv, Complete
<1>4. CASE UNCHANGED <<mem, file, pc, upTo, batch, read>> /\ table' \subseteq table
  <2>1. Complete(mem)' /\ Complete(file)'
    BY <1>1, <1>3, <1>4, CompleteKept DEF Complete
  <2>2. pc = "mark" => Complete(upTo)'
    BY <1>1, <1>4, CompleteKept DEF BatchInv, Complete
  <2>3. ASSUME BatchIsRead PROVE BatchIsRead'
    <3>1. \A o \in (mem + 1) .. upTo : calls'[o] = calls[o]
      BY <1>1, <1>2, CallsKept
    <3>2. (mem + 1)' = mem + 1 /\ upTo' = upTo /\ mem + 1 \in Nat /\ upTo \in Nat
      BY <1>2, <1>4
    <3>3. Extract(mem + 1, upTo, read)' = Extract(mem + 1, upTo, read)
      BY <1>4, <3>1, <3>2, ExtractSame
    <3>4. QED
      BY <1>4, <2>3, <3>3 DEF BatchIsRead
  <2>4. ASSUME LateIsKnown PROVE LateIsKnown'
    <3>1. ASSUME NEW o \in (mem + 1) .. upTo, o \notin read
          PROVE  KeysShown(o, done)' \subseteq Accounted'
      <4>1. o \in 1 .. Len(calls) /\ TooLate(o)
        BY <1>2 DEF TooLate
      <4>2. QED
        BY <1>1, <2>4, <3>1, <4>1, PassedKept DEF LateIsKnown
    <3>2. QED
      BY <1>4, <3>1 DEF LateIsKnown
  <2>5. QED
    BY <1>1, <1>4, <2>1, <2>2, <2>3, <2>4 DEF BatchInv
<1>5. CASE \/ \E c \in CallKinds, whole \in BOOLEAN : Ingest(c, whole)
           \/ \E o \in 1 .. Len(calls) : LateResult(o)
           \/ Tick \/ SetClockBack \/ Merge \/ UNCHANGED vars
  BY <1>4, <1>5 DEF Ingest, LateResult, Tick, SetClockBack, Merge, IsMerge, vars
<1>6. ASSUME UNCHANGED <<calls, done, table, lost, late>>, NEW n, Complete(n), n' = n
      PROVE  Complete(n)'
  BY <1>6 DEF Complete, Accounted, KeysShown
<1>7. CASE Prepare
  <2>1. /\ UNCHANGED <<mem, file, table, lost, late, calls, done>> /\ pc' = "batch"
        /\ upTo' = Len(calls) /\ batch' = Extract(mem + 1, Len(calls), done) /\ read' = done
        /\ mem < Len(calls)
    BY <1>7 DEF Prepare, Goto
  <2>2. batch' = Extract(mem + 1, upTo, read)'
    BY <2>1 DEF Extract, NewKeys, KeysShown, Link
  <2>3. \A r \in table : r.ordinal <= Len(calls) /\ r.ordinal \in done
    BY <1>1, <1>2 DEF TableInv, KeysShown
  <2>4. BatchIsRead'
    BY <1>2, <2>1, <2>2, <2>3 DEF BatchIsRead
  <2>5. LateIsKnown'
    BY <2>1 DEF LateIsKnown, KeysShown
  <2>6. Complete(mem)' /\ Complete(file)'
    BY <1>3, <1>6, <2>1 DEF Complete
  <2>7. QED
    BY <2>1, <2>4, <2>5, <2>6 DEF BatchInv
<1>8. CASE WriteBatch
  <2>1. /\ UNCHANGED <<mem, file, upTo, batch, read, table, lost, late, calls, done>>
        /\ pc = "batch" /\ pc' = IF batch = {} THEN "mark" ELSE "send"
    BY <1>8 DEF WriteBatch, Goto
  <2>2. BatchIsRead /\ LateIsKnown
    BY <1>1, <2>1 DEF BatchInv
  <2>3. BatchIsRead' /\ LateIsKnown'
    BY <2>1, <2>2
    DEF BatchIsRead, LateIsKnown, Extract, NewKeys, KeysShown, Link, Accounted
  <2>4. ASSUME batch = {} PROVE Complete(upTo)
    <3>1. KeysIn(batch) = {}
      BY <2>4 DEF KeysIn
    <3>2. \A o \in 1 .. upTo : KeysShown(o, done) \subseteq Accounted
      BY <1>1, <1>3, <2>2, <3>1, BatchCompletes
    <3>3. QED
      BY <3>2 DEF Complete
  <2>5. Complete(mem)' /\ Complete(file)' /\ (batch = {} => Complete(upTo)')
    BY <1>3, <1>6, <2>1, <2>4 DEF Complete
  <2>6. QED
    BY <2>1, <2>3, <2>5 DEF BatchInv
<1>9. CASE SendLinks \/ SendLinksFails
  <2>1. UNCHANGED <<mem, file, upTo, batch, calls, done>> /\ pc = "send" /\ pc' = "mark"
    BY <1>9 DEF SendLinks, SendLinksFails, Goto
  <2>2. Accounted \cup KeysIn(batch) \subseteq Accounted'
    <3>1. Accounted \subseteq Accounted'
      BY <1>1, AccountedKept
    <3>2. CASE SendLinks
      <4>1. KeysIn(table') = KeysIn(table) \cup KeysIn(batch)
        BY <3>2, InsertedFacts DEF SendLinks, KeysIn
      <4>2. QED
        BY <3>1, <4>1 DEF Accounted
    <3>3. CASE SendLinksFails
      BY <3>1, <3>3 DEF SendLinksFails, Accounted
    <3>4. QED
      BY <1>9, <3>2, <3>3
  <2>3. \A o \in 1 .. upTo : KeysShown(o, done) \subseteq Accounted'
    BY <1>1, <1>3, <2>1, <2>2, BatchCompletes DEF BatchInv
  <2>4. Complete(upTo)'
    BY <2>1, <2>3 DEF Complete, KeysShown
  <2>5. Complete(mem)' /\ Complete(file)'
    BY <1>1, <1>3, <2>1, CompleteKept DEF Complete
  <2>6. QED
    BY <2>1, <2>4, <2>5 DEF BatchInv
<1>10. CASE MarkSynced \/ WriteBatchFails \/ Save \/ Restart
  <2>1. UNCHANGED <<calls, done, table, lost, late>> /\ pc' \in {"save", "idle"}
    BY <1>10 DEF MarkSynced, WriteBatchFails, Save, Restart, Goto
  <2>2. (pc = "mark" /\ mem' = upTo) \/ mem' = mem \/ mem' = file \/ mem' = 0
    BY <1>10 DEF MarkSynced, WriteBatchFails, Save, Restart, Goto
  <2>3. file' = file \/ file' = mem
    BY <1>10 DEF MarkSynced, WriteBatchFails, Save, Restart
  <2>4. Accounted' = Accounted /\ \A o : KeysShown(o, done)' = KeysShown(o, done)
    BY <2>1 DEF Accounted, KeysShown
  <2>5. Complete(mem') /\ Complete(file')
    BY <1>1, <1>3, <2>2, <2>3 DEF BatchInv
  <2>6. Complete(mem)' /\ Complete(file)'
    BY <2>4, <2>5 DEF Complete
  <2>7. QED
    BY <2>1, <2>6 DEF BatchInv
<1>11. QED
  BY <1>5, <1>7, <1>8, <1>9, <1>10 DEF Next

\* Every key a synced call shows is in the table, lost or late, and the version
\* and the number of the next insert are good to supersede it.
THEOREM Invariance == Spec => []IInv
<1>1. IInv /\ [Next]_vars => IInv'
  <2>1. SUFFICES ASSUME IInv, [Next]_vars PROVE IInv'
    OBVIOUS
  <2>2. TypeOK'
    BY <2>1, NextTypeOK DEF IInv
  <2>3. QED
    BY <2>1, <2>2, NextTableInv, NextBatchInv DEF IInv
<1>2. QED
  BY <1>1, InitIInv, PTL DEF Spec

\* What a synced call shows and has no link for is just what engine.go gives up:
\* a link whose insert failed (it logs that and sets the watermark all the same),
\* or one from a result that came after the sync of its message (it asks only for
\* calls above the watermark).
THEOREM LinksAreComplete == Spec => []LinksComplete
<1>1. IInv => LinksComplete
  BY VisibleKeys DEF IInv, TableInv, BatchInv, Complete, Accounted, LinksComplete
<1>2. QED
  BY <1>1, Invariance, PTL

-----------------------------------------------------------------------------
(* The table as a map. *)

\* While the clock has not been set back, an insert takes the place of what the
\* table showed for its keys.
LEMMA SendIsPut ==
  ASSUME IInv, SendLinks, ~setBack
  PROVE  Visible(table') = batch \cup {l \in Visible(table) : \A b \in batch : b.key # l.key}
<1>1. TypeOK /\ TableInv /\ BatchInv /\ IsTable(table)
  BY TypedTable DEF IInv
<1>2. table' = table \cup Inserted /\ pc = "send"
  BY DEF SendLinks, Goto
<1>3. version \in Nat /\ inserts \in Nat /\ inserts + 1 \in Nat
  BY <1>1 DEF TypeOK
<1>4. \A r \in table : r.version <= version /\ r.insert < inserts + 1
  BY <1>1, <1>2, <1>3 DEF TableInv, IsTable
<1>5. Final(table') = Inserted \cup {r \in Final(table) : \A n \in Inserted : n.key # r.key}
  <2>1. \A n \in Inserted : n.version = version /\ n.insert = inserts + 1
    BY InsertedFacts
  <2>2. Final(table \cup Inserted) = Replaced(table, Inserted)
    BY <1>1, <1>3, <1>4, <2>1, LatestInsertWins, Zenon
  <2>3. QED
    BY <1>2, <2>2 DEF Replaced
<1>6. \A l \in batch : LinkIn(RowOf(l)) = l /\ RowOf(l).key = l.key
  BY <1>1 DEF TypeOK, Links, LinkIn, RowOf
<1>7. \A r : LinkIn(r).key = r.key
  BY DEF LinkIn
<1>8. \A r : (\A n \in Inserted : n.key # r.key) <=> (\A b \in batch : b.key # LinkIn(r).key)
  BY <1>6, <1>7 DEF Inserted
<1>9. {LinkIn(n) : n \in Inserted} = batch
  BY <1>6 DEF Inserted
<1>10. QED
  BY <1>5, <1>8, <1>9 DEF Visible

\* After a resync of the whole session the links are those of the whole session.
THEOREM ResyncsAreCanonical == Spec => ResyncIsCanonical
<1>1. ASSUME IInv, SendLinks, mem = 0, ~setBack
      PROVE  Visible(table') = Extract(1, upTo, read)
  <2>1. TypeOK /\ TableInv /\ BatchIsRead /\ read \subseteq done
    BY <1>1 DEF IInv, BatchInv, TypeOK, SendLinks, Goto
  <2>2. upTo \in Nat /\ batch = Extract(1, upTo, read)
    BY <1>1, <2>1 DEF BatchIsRead, TypeOK
  <2>3. KeysIn(batch) = UNION {KeysShown(o, read) : o \in 1 .. upTo}
    BY <2>2, ExtractKeys
  <2>4. ASSUME NEW r \in table PROVE r.key \in KeysIn(batch)
    <3>1. r.ordinal \in 1 .. Len(calls) /\ r.ordinal <= upTo /\ r.ordinal \in read
      BY <2>1 DEF TableInv, BatchIsRead
    <3>2. r.ordinal \in 1 .. upTo
      BY <2>1, <2>2, <3>1 DEF TypeOK
    <3>3. r.key \in KeysShown(r.ordinal, read)
      BY <2>1, <3>1 DEF TableInv, KeysShown
    <3>4. QED
      BY <2>3, <3>2, <3>3
  <2>5. \A l \in Visible(table) : \E b \in batch : b.key = l.key
    BY <2>4 DEF Visible, LinkIn, Final, KeysIn
  <2>6. QED
    BY <1>1, <2>2, <2>5, SendIsPut
<1>2. IInv /\ [Next]_vars
        => [SendLinks /\ mem = 0 /\ ~setBack => Visible(table') = Extract(1, upTo, read)]_vars
  BY <1>1
<1>3. QED
  BY <1>2, Invariance, PTL DEF Spec, ResyncIsCanonical

\* The table, with its versions, duplicates and merges, is a map that the last
\* write wins, as long as the clock has not been set back.
THEOREM TableImplementsMap == Spec => ImplementsMap
<1>1. Init => Map!Init
  BY DEF Init, Map!Init, Visible, Final
<1>2. ASSUME IInv, [Next]_vars PROVE [Map!Next]_(Map!vars)
  <2> USE DEF sourceVars, batchVars, processVars, tableVars, clockVars
  <2>1. CASE SetClockBack
    BY <2>1 DEF SetClockBack, Map!Next, Map!Distrust
  <2>2. CASE SendLinks /\ ~setBack
    BY <1>2, <2>2, SendIsPut DEF SendLinks, Map!Next, Map!Put
  <2>3. CASE SendLinks /\ setBack
    BY <2>3 DEF SendLinks, Map!Next, Map!Distrust
  <2>4. CASE Merge
    <3>1. Final(table') = Final(table)
      BY <1>2, <2>4, TypedTable, MergeKeepsFinal DEF IInv, Merge
    <3>2. Visible(table)' = Visible(table)
      BY <3>1 DEF Visible
    <3>3. QED
      BY <2>4, <3>2 DEF Merge, Map!Next, Map!Collect
  <2>5. CASE UNCHANGED <<table, setBack>>
    <3>1. Visible(table)' = Visible(table)
      BY <2>5 DEF Visible, Final, Supersedes, LinkIn
    <3>2. QED
      BY <2>5, <3>1 DEF Map!Next, Map!Collect
  <2>6. QED
    BY <1>2, <2>1, <2>2, <2>3, <2>4, <2>5 DEF Next, vars, Ingest, LateResult, Tick, Prepare,
       WriteBatch, WriteBatchFails, SendLinksFails, MarkSynced, Save, Restart
<1>3. QED
  BY <1>1, <1>2, Invariance, PTL DEF Spec, ImplementsMap, Map!Spec

=============================================================================
