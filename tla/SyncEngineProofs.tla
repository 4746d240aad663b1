-------------------------- MODULE SyncEngineProofs --------------------------
(* Proofs about SyncEngine, for any processes, sessions and bounds. *)
EXTENDS SyncEngine, TLAPS

-----------------------------------------------------------------------------
(* Type correctness. *)

LEMMA EmptyTypes ==
  /\ NoCounts \in [Sessions -> Nat]
  /\ NoOrdinals \in [Sessions -> SUBSET Nat]
  /\ EmptyState \in SyncState
  /\ ResetForResync \in SyncState
  /\ {MissingFile, TruncatedFile, GarbledFile} \subseteq Files
BY DEF NoCounts, NoOrdinals, EmptyState, ResetForResync, SyncState, EmptySessions,
       Untracked, Watermark, Ordinals, MissingFile, TruncatedFile, GarbledFile, Files,
       SyncVersion, OldVersion

LEMMA InitTypeOK == Init => TypeOK
<1>1. SUFFICES ASSUME Init PROVE TypeOK
  OBVIOUS
<1>2. file \in Files
  BY <1>1, EmptyTypes, OldWatermarksAssumption
  DEF Init, Files, StateFile, SyncState, OldVersion, SyncVersion, Watermark, Ordinals,
      Untracked
<1>3. QED
  BY <1>1, <1>2, EmptyTypes, BoundsAssumption
  DEF Init, TypeOK, PCs, Kinds, NoCounts, NoOrdinals

LEMMA SourceStepTypeOK == TypeOK /\ SourceStep => TypeOK'
<1>1. SUFFICES ASSUME TypeOK, SourceStep PROVE TypeOK'
  OBVIOUS
<1>2. CASE \E s \in Sessions, hasTool \in BOOLEAN : Ingest(s, hasTool)
  BY <1>1, <1>2, BoundsAssumption DEF TypeOK, Ingest, procVars, runVars, batchVars, storeVars
<1>3. CASE \E s \in Sessions : Touch(s)
  BY <1>1, <1>3, BoundsAssumption DEF TypeOK, Touch, procVars, runVars, batchVars, storeVars
<1>4. CASE \E s \in Sessions : \E o \in 0 .. (len[s] - 1) : LateResult(s, o)
  BY <1>1, <1>4, BoundsAssumption DEF TypeOK, LateResult, procVars, runVars, batchVars, storeVars
<1>5. CASE \E k \in Kinds, m \in Marks : ToggleMark(k, m)
  BY <1>1, <1>5 DEF TypeOK, ToggleMark, procVars, runVars, batchVars, storeVars
<1>6. QED
  BY <1>1, <1>2, <1>3, <1>4, <1>5 DEF SourceStep

LEMMA GotoType ==
  ASSUME pc \in [Procs -> PCs], NEW p \in Procs, NEW a, NEW b \in PCs, Goto(p, a, b)
  PROVE  pc' \in [Procs -> PCs]
BY DEF Goto

LEMMA NoRunType ==
  ASSUME TypeOK, NEW p \in Procs, NoRun(p)
  PROVE  /\ todo' \in [Procs -> SUBSET Sessions]
         /\ listed' \in [Procs -> [Sessions -> Nat]]
         /\ changed' \in [Procs -> BOOLEAN]
         /\ chunk' \in [Procs -> SUBSET Sessions]
         /\ cur' \in [Procs -> SUBSET Sessions]
         /\ ready' \in [Procs -> SUBSET Sessions]
         /\ upTo' \in [Procs -> [Sessions -> Nat]]
         /\ newTCs' \in [Procs -> [Sessions -> SUBSET Nat]]
BY EmptyTypes DEF TypeOK, NoRun, NoBatch

LEMMA LifeTypeOK ==
  ASSUME TypeOK, NEW p \in Procs,
         \/ \E f \in BOOLEAN : Launch(p, f)
         \/ LaunchReset(p) \/ NewEngine(p) \/ NewEngineFails(p) \/ Crash(p)
  PROVE  TypeOK'
<1>1. CASE \E f \in BOOLEAN : Launch(p, f)
  BY <1>1, GotoType DEF TypeOK, Launch, PCs, runVars, batchVars, storeVars, sourceVars
<1>2. CASE LaunchReset(p)
  BY <1>2, GotoType, EmptyTypes
  DEF TypeOK, LaunchReset, PCs, runVars, batchVars, sourceVars, Kinds
<1>3. CASE NewEngine(p)
  BY <1>3, GotoType, EmptyTypes
  DEF TypeOK, NewEngine, PCs, runVars, batchVars, storeVars, sourceVars, Files
<1>4. CASE NewEngineFails(p)
  BY <1>4, GotoType
  DEF TypeOK, NewEngineFails, PCs, runVars, batchVars, storeVars, sourceVars
<1>5. CASE Crash(p)
  BY <1>5, NoRunType, EmptyTypes DEF TypeOK, Crash, PCs, storeVars, sourceVars
<1>6. QED
  BY <1>1, <1>2, <1>3, <1>4, <1>5

LEMMA MarkSyncedType ==
  ASSUME NEW st \in SyncState, NEW S \in SUBSET Sessions,
         NEW h \in [Sessions -> Nat], NEW o \in [Sessions -> Ordinals]
  PROVE  MarkSynced(st, S, h, o) \in SyncState
BY DEF MarkSynced, SyncState, Watermark

LEMMA MaxOrdinalType ==
  ASSUME TypeOK, NEW p \in Procs, NEW s \in Sessions
  PROVE  /\ GetLastOrdinal(mem[p], s) \in Ordinals
         /\ MaxOrdinal(p, s) \in Ordinals
         /\ NewMessages(p, s) \subseteq Nat
<1>1. GetLastOrdinal(mem[p], s) \in Ordinals
  BY DEF TypeOK, SyncState, Watermark, GetLastOrdinal
<1>2. upTo[p][s] \in Nat
  BY DEF TypeOK
<1>3. QED
  BY <1>1, <1>2 DEF MaxOrdinal, NewMessages, Ordinals

LEMMA TableTypes ==
  ASSUME TypeOK, NEW p \in Procs
  PROVE  /\ SessionsAfter(p) \in [Sessions -> Nat]
         /\ MessagesAfter(p) \in [Sessions -> SUBSET Nat]
         /\ WithNewTCs(p, tcs) \in [Sessions -> SUBSET Nat]
         /\ WithNewTCs(p, links) \in [Sessions -> SUBSET Nat]
<1>1. \A s \in Sessions : NewMessages(p, s) \subseteq Nat
  BY MaxOrdinalType
<1>2. QED
  BY <1>1 DEF TypeOK, SessionsAfter, MessagesAfter, WithNewTCs

LEMMA ListTypeOK ==
  ASSUME TypeOK, NEW p \in Procs,
         ListSessions(p) \/ ListFails(p) \/ \E c \in SUBSET Sessions : NextChunk(p, c)
  PROVE  TypeOK'
<1>1. CheckedState(p) \in SyncState
  BY EmptyTypes DEF TypeOK, CheckedState
<1>2. \A s \in Sessions : FileHash(s) \in Nat
  BY BoundsAssumption DEF TypeOK, FileHash, NoHash
<1>3. CASE ListSessions(p)
  BY <1>1, <1>2, <1>3, GotoType
  DEF TypeOK, ListSessions, PCs, NoHash, batchVars, storeVars, sourceVars
<1>4. CASE ListFails(p)
  BY <1>1, <1>4 DEF TypeOK, ListFails, runVars, batchVars, storeVars, sourceVars
<1>5. CASE \E c \in SUBSET Sessions : NextChunk(p, c)
  BY <1>5, GotoType DEF TypeOK, NextChunk, PCs, storeVars, sourceVars
<1>6. QED
  BY <1>3, <1>4, <1>5

LEMMA PrepareTypeOK ==
  ASSUME TypeOK, NEW p \in Procs, NEW s \in Sessions,
         ReadMessages(p, s) \/ ReadToolCalls(p, s) \/ ReadFails(p, s)
  PROVE  TypeOK'
<1>1. \A rest, good : AfterPrepare(rest, good) \in PCs
  BY DEF AfterPrepare, PCs
<1>2. CASE ReadMessages(p, s)
  BY <1>2, BoundsAssumption DEF TypeOK, ReadMessages, storeVars, sourceVars
<1>3. CASE ReadToolCalls(p, s)
  BY <1>1, <1>3, GotoType DEF TypeOK, ReadToolCalls, storeVars, sourceVars
<1>4. CASE ReadFails(p, s)
  BY <1>1, <1>4, GotoType DEF TypeOK, ReadFails, storeVars, sourceVars
<1>5. QED
  BY <1>2, <1>3, <1>4

LEMMA NoBatchType ==
  ASSUME TypeOK, NEW p \in Procs, NoBatch(p)
  PROVE  /\ chunk' \in [Procs -> SUBSET Sessions]
         /\ cur' \in [Procs -> SUBSET Sessions]
         /\ ready' \in [Procs -> SUBSET Sessions]
         /\ upTo' \in [Procs -> [Sessions -> Nat]]
         /\ newTCs' \in [Procs -> [Sessions -> SUBSET Nat]]
BY EmptyTypes DEF TypeOK, NoBatch

LEMMA WriteTypeOK ==
  ASSUME TypeOK, NEW p \in Procs,
         \/ SendSessions(p) \/ SendMessages(p) \/ SendToolCalls(p) \/ SendFails(p)
         \/ WriteGitLinks(p) \/ WriteGitLinksFails(p) \/ AdvanceWatermarks(p)
  PROVE  TypeOK'
<1>1. CASE SendSessions(p)
  BY <1>1, GotoType, TableTypes
  DEF TypeOK, SendSessions, PCs, sourceVars, runVars, batchVars
<1>2. CASE SendMessages(p)
  BY <1>2, GotoType, TableTypes
  DEF TypeOK, SendMessages, PCs, sourceVars, runVars, batchVars
<1>3. CASE SendToolCalls(p)
  BY <1>3, GotoType, TableTypes
  DEF TypeOK, SendToolCalls, PCs, sourceVars, runVars, batchVars
<1>4. CASE SendFails(p)
  BY <1>4, GotoType, TableTypes, NoBatchType DEF TypeOK, SendFails, PCs, sourceVars
<1>5. CASE WriteGitLinks(p)
  BY <1>5, GotoType, TableTypes
  DEF TypeOK, WriteGitLinks, PCs, sourceVars, runVars, batchVars
<1>6. CASE WriteGitLinksFails(p)
  BY <1>6, GotoType
  DEF TypeOK, WriteGitLinksFails, PCs, sourceVars, storeVars, runVars, batchVars
<1>7. CASE AdvanceWatermarks(p)
  <2> DEFINE o == [s \in Sessions |-> MaxOrdinal(p, s)]
  <2>1. o \in [Sessions -> Ordinals]
    BY MaxOrdinalType
  <2>2. MarkSynced(mem[p], ready[p], listed[p], o) \in SyncState
    BY <2>1, MarkSyncedType DEF TypeOK
  <2>3. QED
    BY <1>7, <2>2, GotoType, NoBatchType
    DEF TypeOK, AdvanceWatermarks, PCs, sourceVars, storeVars
<1>8. QED
  BY <1>1, <1>2, <1>3, <1>4, <1>5, <1>6, <1>7

LEMMA SaveTypeOK ==
  ASSUME TypeOK, NEW p \in Procs,
         \/ SaveTruncate(p) \/ SaveWrite(p) \/ SaveFails(p)
         \/ SyncUserActions(p) \/ SyncUserActionsFails(p)
  PROVE  TypeOK'
<1>1. CASE SaveTruncate(p)
  BY <1>1, GotoType, EmptyTypes
  DEF TypeOK, SaveTruncate, PCs, sourceVars, storeVars, runVars, batchVars
<1>2. CASE SaveWrite(p)
  <2>1. StateFile(mem[p]) \in Files
    BY DEF TypeOK, StateFile, Files
  <2>2. AfterSave(p) \in PCs
    BY DEF AfterSave, PCs
  <2>3. QED
    BY <1>2, <2>1, <2>2, GotoType, EmptyTypes
    DEF TypeOK, SaveWrite, sourceVars, storeVars, runVars, batchVars
<1>3. CASE SaveFails(p)
  BY <1>3, GotoType, EmptyTypes, NoRunType DEF TypeOK, SaveFails, PCs, sourceVars, storeVars
<1>4. \A K : WithMarked(K) \in [Kinds -> SUBSET Marks]
  BY DEF TypeOK, WithMarked
<1>5. CASE SyncUserActions(p) \/ SyncUserActionsFails(p)
  <2>1. marks' \in [Kinds -> SUBSET Marks]
    BY <1>4, <1>5 DEF SyncUserActions, SyncUserActionsFails
  <2>2. EndUserActions(p)
    BY <1>5 DEF SyncUserActions, SyncUserActionsFails
  <2>3. QED
    BY <2>1, <2>2, GotoType, NoRunType DEF TypeOK, EndUserActions, PCs, sourceVars
<1>6. QED
  BY <1>1, <1>2, <1>3, <1>5

LEMMA NextTypeOK == TypeOK /\ [Next]_vars => TypeOK'
<1>1. SUFFICES ASSUME TypeOK, [Next]_vars PROVE TypeOK'
  OBVIOUS
<1>2. CASE SourceStep
  BY <1>1, <1>2, SourceStepTypeOK
<1>3. CASE RemoveStateFile
  BY <1>1, <1>3, EmptyTypes
  DEF TypeOK, RemoveStateFile, sourceVars, storeVars, procVars, runVars, batchVars
<1>4. ASSUME NEW p \in Procs, Progress(p) \/ Failure(p) PROVE TypeOK'
  BY <1>1, <1>4, LifeTypeOK, ListTypeOK, PrepareTypeOK, WriteTypeOK, SaveTypeOK
  DEF Progress, Prepare, Failure, Setback
<1>5. CASE UNCHANGED vars
  BY <1>1, <1>5
  DEF TypeOK, vars, sourceVars, storeVars, procVars, runVars, batchVars
<1>6. QED
  BY <1>1, <1>2, <1>3, <1>4, <1>5 DEF Next

\* Every variable keeps its type, whatever fails and whoever runs beside.
THEOREM TypeCorrect == Spec => []TypeOK
<1>1. QED
  BY InitTypeOK, NextTypeOK, PTL DEF Spec

-----------------------------------------------------------------------------
(* The inductive invariant behind WatermarkSound and SkippedIsSynced, for  *)
(* deployments where the store is not dropped under a watermark file.      *)
(*                                                                         *)
(* The argument: a batch is prepared from reads made after its listing, so *)
(* as long as the listed hash is still the current one, the reads have     *)
(* seen everything; the source and the store only grow, so what a batch    *)
(* has read stays below what exists, and what it has written stays         *)
(* written, until its watermarks are advanced.                             *)

SourceInv == \A s \in Sessions : calls[s] \subseteq 0 .. (len[s] - 1)

\* What a watermark of session s may say.
GoodMark(st, s) ==
  /\ st.wm[s].last < len[s]
  /\ st.wm[s].hash <= rev[s]
  /\ Covered(st, s)
  /\ Skipped(st, s) => st.wm[s].last = len[s] - 1

Good(st) == st.version = SyncVersion => \A s \in Sessions : GoodMark(st, s)

Syncing == {"chunk", "read", "sessions", "messages", "tool_calls", "git_links", "mark",
            "save", "saving", "user_actions"}

Batching == {"read", "sessions", "messages", "tool_calls", "git_links", "mark"}

\* What process p knows of the session s it has read the messages of.
ReadInv(p, s) ==
  /\ upTo[p][s] <= len[s]
  /\ Exists(s) /\ s \notin Unhashed /\ listed[p][s] = rev[s] => upTo[p][s] = len[s]

\* What it knows of the session s it has prepared.
ReadyInv(p, s) ==
  /\ ~LateResults =>
       \A o \in calls[s] : o > mem[p].wm[s].last /\ o < upTo[p][s] => o \in newTCs[p][s]
  /\ pc[p] \in {"tool_calls", "git_links", "mark"} => NewMessages(p, s) \subseteq msgs[s]
  /\ pc[p] \in {"git_links", "mark"} => newTCs[p][s] \subseteq tcs[s]

ProcInv(p) ==
  /\ Good(mem[p])
  /\ pc[p] \in Syncing => mem[p].version = SyncVersion
  /\ pc[p] \notin Batching => chunk[p] = {} /\ cur[p] = {} /\ ready[p] = {}
  /\ chunk[p] \cap ready[p] = {}
  /\ \A s \in Sessions : listed[p][s] <= rev[s]
  /\ \A s \in cur[p] \cup ready[p] : ReadInv(p, s)
  /\ \A s \in ready[p] : ReadyInv(p, s)

IInv ==
  /\ TypeOK
  /\ SourceInv
  /\ Good(file.state)
  /\ \A p \in Procs : ProcInv(p)

\* Source and store only grow, and a session that gains a message gains a
\* revision with it.
Extends ==
  \A s \in Sessions :
    /\ rev[s] <= rev'[s] /\ len[s] <= len'[s]
    /\ rev'[s] = rev[s] => len'[s] = len[s]
    /\ msgs[s] \subseteq msgs'[s] /\ tcs[s] \subseteq tcs'[s]
    /\ calls'[s] \subseteq 0 .. (len'[s] - 1)
    /\ ~LateResults => \A o \in calls'[s] : o < len[s] => o \in calls[s]

LEMMA InitIInv == Init => IInv
<1>1. SUFFICES ASSUME Init PROVE IInv
  OBVIOUS
<1>2. TypeOK
  BY <1>1, InitTypeOK
<1>3. SourceInv
  BY <1>1 DEF Init, SourceInv, NoOrdinals
<1>4. file.state.version # SyncVersion
  BY <1>1 DEF Init, MissingFile, StateFile, EmptyState, SyncVersion, OldVersion
<1>5. \A p \in Procs : ProcInv(p)
  BY <1>1 DEF Init, ProcInv, Good, Syncing, Batching, EmptyState, SyncVersion, NoCounts
<1>6. QED
  BY <1>2, <1>3, <1>4, <1>5 DEF IInv, Good

LEMMA TypeFacts ==
  ASSUME TypeOK
  PROVE  /\ \A s \in Sessions : rev[s] \in Nat /\ len[s] \in Nat
         /\ \A s \in Sessions : calls[s] \subseteq Nat /\ msgs[s] \subseteq Nat
         /\ \A s \in Sessions : FileHash(s) \in Nat
         /\ \A p \in Procs, s \in Sessions :
              /\ listed[p][s] \in Nat /\ upTo[p][s] \in Nat
              /\ newTCs[p][s] \subseteq Nat
              /\ mem[p].wm[s].last \in Ordinals /\ mem[p].wm[s].hash \in Int
BY BoundsAssumption DEF TypeOK, SyncState, Watermark, FileHash, NoHash

\* A watermark that was good stays good.
LEMMA GoodStable ==
  ASSUME TypeOK, TypeOK', SourceInv, Extends, NEW st \in SyncState, Good(st)
  PROVE  Good(st)'
<1>1. SUFFICES ASSUME st.version = SyncVersion, NEW s \in Sessions
               PROVE  GoodMark(st, s)'
  BY DEF Good
<1>2. GoodMark(st, s)
  BY <1>1 DEF Good
<1>3. /\ st.wm[s].last \in Ordinals /\ st.wm[s].hash \in Int
      /\ rev[s] \in Nat /\ rev'[s] \in Nat /\ len[s] \in Nat /\ len'[s] \in Nat
      /\ calls[s] \subseteq Nat /\ calls'[s] \subseteq Nat
  BY BoundsAssumption DEF SyncState, Watermark, TypeOK
<1>4. st.wm[s].last < len'[s] /\ st.wm[s].hash <= rev'[s]
  BY <1>2, <1>3 DEF GoodMark, Extends, Ordinals
<1>5. Covered(st, s)'
  BY <1>2, <1>3 DEF GoodMark, Covered, Extends, Ordinals
<1>6. ASSUME Skipped(st, s)' PROVE st.wm[s].last = len'[s] - 1
  <2>1. s \notin Unhashed /\ st.wm[s].hash = rev'[s] /\ rev'[s] > 0
    BY <1>6 DEF Skipped, Exists, IsSessionChanged, FileHash
  <2>2. rev'[s] = rev[s] /\ len'[s] = len[s]
    BY <2>1, <1>2, <1>3 DEF GoodMark, Extends
  <2>3. Skipped(st, s)
    BY <2>1, <2>2, <1>1 DEF Skipped, Exists, IsSessionChanged, FileHash
  <2>4. QED
    BY <2>2, <2>3, <1>2 DEF GoodMark
<1>7. QED
  BY <1>4, <1>5, <1>6 DEF GoodMark

\* So does what a process knows that does not move itself.
LEMMA ProcStable ==
  ASSUME TypeOK, TypeOK', SourceInv, Extends, NEW p \in Procs, ProcInv(p),
         UNCHANGED <<pc[p], mem[p], listed[p], chunk[p], cur[p], ready[p], upTo[p], newTCs[p]>>
  PROVE  ProcInv(p)'
<1>1. /\ \A s \in Sessions : /\ rev[s] \in Nat /\ rev'[s] \in Nat
                             /\ len[s] \in Nat /\ len'[s] \in Nat
                             /\ listed[p][s] \in Nat /\ upTo[p][s] \in Nat
                             /\ mem[p].wm[s].last \in Ordinals
                             /\ calls[s] \subseteq Nat /\ calls'[s] \subseteq Nat
      /\ cur[p] \subseteq Sessions /\ ready[p] \subseteq Sessions
      /\ mem[p] \in SyncState
  BY BoundsAssumption DEF TypeOK, SyncState, Watermark
<1>2. Good(mem[p])'
  BY <1>1, GoodStable DEF ProcInv, Good, GoodMark, Covered, Skipped, Exists,
     IsSessionChanged, FileHash
<1>3. \A s \in Sessions : listed'[p][s] <= rev'[s]
  BY <1>1 DEF ProcInv, Extends
<1>4. ASSUME NEW s \in cur[p] \cup ready[p] PROVE ReadInv(p, s)'
  BY <1>1, <1>4 DEF ProcInv, ReadInv, Extends, Exists
<1>5. ASSUME NEW s \in ready[p] PROVE ReadyInv(p, s)'
  <2>1. ReadyInv(p, s) /\ ReadInv(p, s)
    BY <1>5 DEF ProcInv
  <2>2. NewMessages(p, s)' = NewMessages(p, s)
    BY DEF NewMessages, GetLastOrdinal
  <2>3. ASSUME ~LateResults, NEW o \in calls'[s], o > mem[p].wm[s].last, o < upTo[p][s]
        PROVE  o \in newTCs[p][s]
    <3>1. o < len[s]
      BY <1>1, <1>5, <2>1, <2>3 DEF ReadInv
    <3>2. o \in calls[s]
      BY <1>1, <1>5, <2>3, <3>1 DEF Extends
    <3>3. QED
      BY <2>1, <2>3, <3>2 DEF ReadyInv
  <2>4. QED
    BY <1>1, <1>5, <2>1, <2>2, <2>3 DEF ReadyInv, Extends
<1>6. QED
  BY <1>2, <1>3, <1>4, <1>5 DEF ProcInv

LEMMA SourceStepExtends ==
  ASSUME TypeOK, TypeOK', SourceInv, SourceStep
  PROVE  Extends /\ SourceInv'
<1>1. \A s \in Sessions : /\ rev[s] \in Nat /\ len[s] \in Nat /\ calls[s] \subseteq Nat
                          /\ calls[s] \subseteq 0 .. (len[s] - 1)
  BY TypeFacts DEF SourceInv
<1>2. /\ rev \in [Sessions -> 0 .. MaxRev] /\ len \in [Sessions -> 0 .. MaxLen]
      /\ calls \in [Sessions -> SUBSET Nat]
  BY DEF TypeOK
<1>3. msgs' = msgs /\ tcs' = tcs
  BY DEF SourceStep, Ingest, Touch, LateResult, ToggleMark, storeVars
<1>4. CASE \E s \in Sessions, hasTool \in BOOLEAN : Ingest(s, hasTool)
  BY <1>1, <1>2, <1>3, <1>4 DEF Ingest, Extends, SourceInv
<1>5. CASE \E s \in Sessions : Touch(s)
  BY <1>1, <1>2, <1>3, <1>5 DEF Touch, Extends, SourceInv
<1>6. CASE \E s \in Sessions : \E o \in 0 .. (len[s] - 1) : LateResult(s, o)
  BY <1>1, <1>2, <1>3, <1>6 DEF LateResult, Extends, SourceInv
<1>7. CASE \E k \in Kinds, m \in Marks : ToggleMark(k, m)
  BY <1>1, <1>3, <1>7 DEF ToggleMark, Extends, SourceInv
<1>8. QED
  BY <1>4, <1>5, <1>6, <1>7 DEF SourceStep

\* A step that leaves the source alone and lets the two tables grow.
LEMMA StoreGrows ==
  ASSUME TypeOK, SourceInv, UNCHANGED <<rev, len, calls>>,
         \A s \in Sessions : msgs[s] \subseteq msgs'[s] /\ tcs[s] \subseteq tcs'[s]
  PROVE  Extends /\ SourceInv'
BY TypeFacts DEF Extends, SourceInv

LEMMA TablesGrow ==
  ASSUME TypeOK, NEW p \in Procs
  PROVE  \A s \in Sessions : /\ msgs[s] \subseteq MessagesAfter(p)[s]
                             /\ tcs[s] \subseteq WithNewTCs(p, tcs)[s]
BY DEF MessagesAfter, WithNewTCs

LEMMA ProcStepExtends ==
  ASSUME TypeOK, SourceInv, NEW p \in Procs, Progress(p) \/ Failure(p), ~LaunchReset(p)
  PROVE  Extends /\ SourceInv'
<1>1. SUFFICES /\ UNCHANGED <<rev, len, calls>>
               /\ \A s \in Sessions : msgs[s] \subseteq msgs'[s] /\ tcs[s] \subseteq tcs'[s]
  BY StoreGrows
<1>2. CASE \/ \E f \in BOOLEAN : Launch(p, f)
           \/ NewEngine(p) \/ NewEngineFails(p) \/ Crash(p)
           \/ ListSessions(p) \/ ListFails(p) \/ \E c \in SUBSET Sessions : NextChunk(p, c)
  BY <1>2 DEF Launch, NewEngine, NewEngineFails, Crash, ListSessions, ListFails, NextChunk,
     sourceVars, storeVars
<1>3. CASE \E s \in Sessions : ReadMessages(p, s) \/ ReadToolCalls(p, s) \/ ReadFails(p, s)
  BY <1>3 DEF ReadMessages, ReadToolCalls, ReadFails, sourceVars, storeVars
<1>4. CASE \/ SendSessions(p) \/ SendMessages(p) \/ SendToolCalls(p) \/ SendFails(p)
           \/ WriteGitLinks(p) \/ WriteGitLinksFails(p) \/ AdvanceWatermarks(p)
  BY <1>4, TablesGrow DEF SendSessions, SendMessages, SendToolCalls, SendFails,
     WriteGitLinks, WriteGitLinksFails, AdvanceWatermarks, sourceVars, storeVars
<1>5. CASE \/ SaveTruncate(p) \/ SaveWrite(p) \/ SaveFails(p)
           \/ SyncUserActions(p) \/ SyncUserActionsFails(p)
  BY <1>5 DEF SaveTruncate, SaveWrite, SaveFails, SyncUserActions, SyncUserActionsFails,
     EndUserActions, sourceVars, storeVars
<1>6. QED
  BY <1>2, <1>3, <1>4, <1>5 DEF Progress, Failure, Setback, Prepare

\* A step of one process touches the variables of no other.
LEMMA OthersUnchanged ==
  ASSUME TypeOK, NEW p \in Procs, NEW q \in Procs, q # p, Progress(p) \/ Failure(p)
  PROVE  UNCHANGED <<pc[q], mem[q], listed[q], chunk[q], cur[q], ready[q], upTo[q], newTCs[q]>>
<1>1. CASE \/ \E f \in BOOLEAN : Launch(p, f)
           \/ LaunchReset(p) \/ NewEngine(p) \/ NewEngineFails(p) \/ Crash(p)
           \/ ListSessions(p) \/ ListFails(p) \/ \E c \in SUBSET Sessions : NextChunk(p, c)
  BY <1>1 DEF TypeOK, Launch, LaunchReset, NewEngine, NewEngineFails, Crash, ListSessions,
     ListFails, NextChunk, Goto, NoRun, NoBatch, runVars, batchVars
<1>2. CASE \E s \in Sessions : ReadMessages(p, s) \/ ReadToolCalls(p, s) \/ ReadFails(p, s)
  BY <1>2 DEF TypeOK, ReadMessages, ReadToolCalls, ReadFails, Goto
<1>3. CASE \/ SendSessions(p) \/ SendMessages(p) \/ SendToolCalls(p) \/ SendFails(p)
           \/ WriteGitLinks(p) \/ WriteGitLinksFails(p) \/ AdvanceWatermarks(p)
  BY <1>3 DEF TypeOK, SendSessions, SendMessages, SendToolCalls, SendFails, WriteGitLinks,
     WriteGitLinksFails, AdvanceWatermarks, Goto, NoBatch, runVars, batchVars
<1>4. CASE \/ SaveTruncate(p) \/ SaveWrite(p) \/ SaveFails(p)
           \/ SyncUserActions(p) \/ SyncUserActionsFails(p)
  BY <1>4 DEF TypeOK, SaveTruncate, SaveWrite, SaveFails, SyncUserActions,
     SyncUserActionsFails, EndUserActions, Goto, NoRun, NoBatch, runVars, batchVars
<1>5. QED
  BY <1>1, <1>2, <1>3, <1>4 DEF Progress, Failure, Setback, Prepare

\* Claims that are good for want of any.
LEMMA EmptyGood ==
  ASSUME TypeOK, SourceInv
  PROVE  Good(EmptyState) /\ Good(ResetForResync)
<1>1. Good(EmptyState)
  BY DEF Good, EmptyState, SyncVersion
<1>2. ASSUME NEW s \in Sessions PROVE GoodMark(ResetForResync, s)
  <2>1. ResetForResync.wm[s] = [hash |-> -1, last |-> -1]
    BY DEF ResetForResync, EmptySessions, Untracked
  <2>2. Covered(ResetForResync, s)
    BY <2>1, TypeFacts DEF Covered
  <2>3. ~Skipped(ResetForResync, s)
    BY <2>1, TypeFacts DEF Skipped, IsSessionChanged
  <2>4. QED
    BY <2>1, <2>2, <2>3, TypeFacts DEF GoodMark
<1>3. QED
  BY <1>1, <1>2 DEF Good

\* What is written to the file is what some process holds, or nothing.
LEMMA FileStep ==
  ASSUME IInv, TypeOK', SourceInv', Extends, NEW p \in Procs, Progress(p) \/ Failure(p)
  PROVE  Good(file.state)'
<1>1. file' = file \/ file' = StateFile(mem[p]) \/ file'.state = EmptyState
  <2>1. CASE \/ \E f \in BOOLEAN : Launch(p, f)
             \/ LaunchReset(p) \/ NewEngine(p) \/ NewEngineFails(p) \/ Crash(p)
             \/ ListSessions(p) \/ ListFails(p) \/ \E c \in SUBSET Sessions : NextChunk(p, c)
    BY <2>1 DEF Launch, LaunchReset, NewEngine, NewEngineFails, Crash, ListSessions,
       ListFails, NextChunk
  <2>2. CASE \E s \in Sessions : ReadMessages(p, s) \/ ReadToolCalls(p, s) \/ ReadFails(p, s)
    BY <2>2 DEF ReadMessages, ReadToolCalls, ReadFails
  <2>3. CASE \/ SendSessions(p) \/ SendMessages(p) \/ SendToolCalls(p) \/ SendFails(p)
             \/ WriteGitLinks(p) \/ WriteGitLinksFails(p) \/ AdvanceWatermarks(p)
    BY <2>3 DEF SendSessions, SendMessages, SendToolCalls, SendFails, WriteGitLinks,
       WriteGitLinksFails, AdvanceWatermarks
  <2>4. CASE \/ SaveTruncate(p) \/ SaveWrite(p) \/ SaveFails(p)
             \/ SyncUserActions(p) \/ SyncUserActionsFails(p)
    BY <2>4 DEF SaveTruncate, SaveWrite, SaveFails, SyncUserActions, SyncUserActionsFails,
       EndUserActions, TruncatedFile, GarbledFile
  <2>5. QED
    BY <2>1, <2>2, <2>3, <2>4 DEF Progress, Failure, Setback, Prepare
<1>2. file.state \in SyncState /\ mem[p] \in SyncState /\ EmptyState \in SyncState
  BY EmptyTypes DEF IInv, TypeOK, Files
<1>3. \A st \in {file.state, mem[p], EmptyState} : Good(st)'
  <2>1. Good(file.state) /\ Good(mem[p]) /\ Good(EmptyState)
    BY EmptyGood DEF IInv, ProcInv
  <2>2. TypeOK /\ SourceInv
    BY DEF IInv
  <2>3. SUFFICES ASSUME NEW st \in {file.state, mem[p], EmptyState} PROVE Good(st)'
    OBVIOUS
  <2>4. st \in SyncState /\ Good(st)
    BY <1>2, <2>1
  <2>5. QED
    BY <2>2, <2>4, GoodStable
<1>4. file'.state \in {file.state, mem[p], EmptyState}
  BY <1>1 DEF StateFile
<1>5. QED
  BY <1>3, <1>4 DEF Good, GoodMark, Covered, Skipped, Exists, IsSessionChanged, FileHash

\* A process goes on with what it holds, or with nothing, or with a good file.
LEMMA KnownGood ==
  ASSUME TypeOK, TypeOK', SourceInv, Extends, NEW p \in Procs, Good(mem[p]),
         \/ mem'[p] \in {mem[p], EmptyState, ResetForResync}
         \/ mem'[p] = file.state /\ Good(file.state)
  PROVE  Good(mem[p])'
<1>1. PICK st \in {mem[p], EmptyState, ResetForResync, file.state} : mem'[p] = st /\ Good(st)
  BY EmptyGood
<1>2. st \in SyncState
  BY EmptyTypes DEF TypeOK, Files
<1>3. Good(st)'
  BY <1>1, <1>2, GoodStable
<1>4. QED
  BY <1>1, <1>3 DEF Good, GoodMark, Covered, Skipped, Exists, IsSessionChanged, FileHash

\* A process without a batch in hand has little to keep.
LEMMA NoBatchInv ==
  ASSUME TypeOK, TypeOK', Extends, NEW p \in Procs, Good(mem[p])',
         pc'[p] \in Syncing => mem'[p].version = SyncVersion,
         chunk'[p] = {}, cur'[p] = {}, ready'[p] = {},
         \A s \in Sessions : listed'[p][s] \in {0, listed[p][s], FileHash(s)},
         \A s \in Sessions : listed[p][s] <= rev[s]
  PROVE  ProcInv(p)'
<1>1. ASSUME NEW s \in Sessions PROVE listed'[p][s] <= rev'[s]
  <2>1. rev[s] \in Nat /\ rev'[s] \in Nat /\ rev[s] <= rev'[s]
    BY BoundsAssumption DEF TypeOK, Extends
  <2>2. FileHash(s) \in Nat /\ FileHash(s) <= rev[s]
    BY <2>1 DEF FileHash, NoHash
  <2>3. listed[p][s] \in Nat /\ listed[p][s] <= rev[s]
    BY DEF TypeOK
  <2>4. QED
    BY <2>1, <2>2, <2>3
<1>2. QED
  BY <1>1 DEF ProcInv

LEMMA LifeInv ==
  ASSUME TypeOK, TypeOK', SourceInv, Extends, NEW p \in Procs, ProcInv(p),
         \/ \E f \in BOOLEAN : Launch(p, f)
         \/ NewEngine(p) \/ NewEngineFails(p) \/ Crash(p)
         \/ ListSessions(p) \/ ListFails(p)
         \/ SaveTruncate(p) \/ SaveWrite(p) \/ SaveFails(p)
         \/ SyncUserActions(p) \/ SyncUserActionsFails(p),
         NewEngine(p) /\ ~force[p] => Good(file.state)
  PROVE  ProcInv(p)'
<1>1. TypeOK /\ SourceInv /\ ProcInv(p)
  OBVIOUS
<1>2. pc[p] \notin Batching \/ Crash(p)
  BY DEF Launch, NewEngine, NewEngineFails, ListSessions, ListFails, SaveTruncate, SaveWrite,
     SaveFails, SyncUserActions, SyncUserActionsFails, EndUserActions, Goto, Batching
<1>3. CheckedState(p) \in {mem[p], ResetForResync} /\ CheckedState(p).version = SyncVersion
  <2>1. mem[p].version \in {0, OldVersion, SyncVersion}
    BY <1>1 DEF TypeOK, SyncState
  <2>2. NeedsFullResync(mem[p]) \/ mem[p].version = SyncVersion
    BY <2>1 DEF NeedsFullResync, OldVersion, SyncVersion
  <2>3. ResetForResync.version = SyncVersion
    BY DEF ResetForResync
  <2>4. QED
    BY <2>2, <2>3 DEF CheckedState
<1>4. \/ mem'[p] \in {mem[p], EmptyState, ResetForResync}
      \/ mem'[p] = file.state /\ Good(file.state)
  BY <1>1, <1>3 DEF Launch, NewEngine, NewEngineFails, Crash, ListSessions, ListFails,
     SaveTruncate, SaveWrite, SaveFails, SyncUserActions, SyncUserActionsFails,
     EndUserActions, TypeOK
<1>5. pc'[p] \in Syncing => mem'[p].version = SyncVersion
  BY <1>1, <1>3 DEF ProcInv, Syncing, Launch, NewEngine, NewEngineFails, Crash, ListSessions,
     ListFails, SaveTruncate, SaveWrite, SaveFails, SyncUserActions, SyncUserActionsFails,
     EndUserActions, Goto, TypeOK
<1>6. chunk'[p] = {} /\ cur'[p] = {} /\ ready'[p] = {}
  BY <1>1, <1>2 DEF ProcInv, Launch, NewEngine, NewEngineFails, Crash, ListSessions,
     ListFails, SaveTruncate, SaveWrite, SaveFails, SyncUserActions, SyncUserActionsFails,
     EndUserActions, TypeOK, NoRun, NoBatch, runVars, batchVars
<1>7. \A s \in Sessions : listed'[p][s] \in {0, listed[p][s], FileHash(s)}
  BY <1>1 DEF Launch, NewEngine, NewEngineFails, Crash, ListSessions,
     ListFails, SaveTruncate, SaveWrite, SaveFails, SyncUserActions, SyncUserActionsFails,
     EndUserActions, TypeOK, NoRun, NoCounts, NoHash, runVars
<1>8. QED
  BY <1>1, <1>4, <1>5, <1>6, <1>7, KnownGood, NoBatchInv DEF ProcInv

LEMMA PrepareInv ==
  ASSUME TypeOK, TypeOK', SourceInv, Extends, NEW p \in Procs, ProcInv(p),
         \/ \E c \in SUBSET Sessions : NextChunk(p, c)
         \/ \E s \in Sessions : ReadMessages(p, s) \/ ReadToolCalls(p, s) \/ ReadFails(p, s)
  PROVE  ProcInv(p)'
<1>1. TypeOK /\ SourceInv /\ ProcInv(p)
  OBVIOUS
<1>2. UNCHANGED <<rev, len, calls, msgs, tcs, mem, listed>>
  BY DEF NextChunk, ReadMessages, ReadToolCalls, ReadFails, sourceVars, storeVars
<1>3. Good(mem[p])'
  BY <1>1, <1>2, KnownGood DEF ProcInv
<1>4. pc[p] \in {"chunk", "read"} /\ mem'[p].version = SyncVersion
  BY <1>1, <1>2 DEF ProcInv, Syncing, NextChunk, ReadMessages, ReadToolCalls, ReadFails, Goto
<1>5. CASE \E c \in SUBSET Sessions : NextChunk(p, c)
  BY <1>1, <1>2, <1>3, <1>4, <1>5
  DEF ProcInv, NextChunk, Goto, TypeOK, Batching
<1>6. CASE \E s \in Sessions : ReadMessages(p, s)
  <2>1. PICK t \in Sessions : ReadMessages(p, t)
    BY <1>6
  <2>2. t \notin ready[p] /\ t \in chunk[p]
    BY <1>1, <2>1 DEF ProcInv, ReadMessages
  <2>3. /\ pc'[p] = "read" /\ cur'[p] = {t} /\ chunk'[p] = chunk[p] /\ ready'[p] = ready[p]
        /\ newTCs'[p] = newTCs[p] /\ upTo'[p][t] = len[t]
        /\ \A s \in Sessions : s # t => upTo'[p][s] = upTo[p][s]
    BY <1>1, <2>1 DEF TypeOK, ReadMessages
  <2>4. ReadInv(p, t)'
    BY <1>1, <1>2, <2>3, TypeFacts DEF ReadInv
  <2>5. ASSUME NEW s \in ready[p] PROVE ReadInv(p, s)' /\ ReadyInv(p, s)'
    <3>1. s \in Sessions /\ s # t /\ upTo'[p][s] = upTo[p][s] /\ ReadInv(p, s) /\ ReadyInv(p, s)
      BY <1>1, <1>2, <2>2, <2>3, <2>5 DEF ProcInv, TypeOK
    <3>2. /\ UNCHANGED <<rev, len, calls, msgs, tcs, listed, mem>> /\ newTCs'[p] = newTCs[p]
          /\ pc'[p] # "tool_calls" /\ pc'[p] # "git_links" /\ pc'[p] # "mark"
      BY <1>2, <2>3
    <3>3. QED
      BY <3>1, <3>2 DEF ReadInv, ReadyInv, Exists, NewMessages, GetLastOrdinal
  <2>6. QED
    BY <1>1, <1>2, <1>3, <1>4, <2>3, <2>4, <2>5 DEF ProcInv, Batching
<1>7. CASE \E s \in Sessions : ReadToolCalls(p, s)
  <2>1. PICK t \in Sessions : ReadToolCalls(p, t)
    BY <1>7
  <2>2. /\ pc'[p] \in {"read", "sessions"} /\ cur[p] = {t} /\ cur'[p] = {}
        /\ chunk'[p] = chunk[p] \ {t} /\ ready'[p] = ready[p] \cup {t}
        /\ upTo'[p] = upTo[p]
        /\ newTCs'[p][t] = {o \in calls[t] : o > mem[p].wm[t].last}
        /\ \A s \in Sessions : s # t => newTCs'[p][s] = newTCs[p][s]
    <3>1. pc'[p] \in {"read", "sessions"}
      BY <1>1, <2>1 DEF TypeOK, ReadToolCalls, Goto, AfterPrepare
    <3>2. /\ cur[p] = {t} /\ cur'[p] = {} /\ chunk'[p] = chunk[p] \ {t}
          /\ ready'[p] = ready[p] \cup {t} /\ upTo'[p] = upTo[p]
      BY <1>1, <2>1 DEF TypeOK, ReadToolCalls
    <3>3. /\ newTCs'[p][t] = {o \in calls[t] : o > mem[p].wm[t].last}
          /\ \A s \in Sessions : s # t => newTCs'[p][s] = newTCs[p][s]
      <4>1. newTCs' = [newTCs EXCEPT ![p][t] = {o \in calls[t] : o > mem[p].wm[t].last}]
        BY <2>1 DEF ReadToolCalls, GetLastOrdinal
      <4>2. newTCs \in [Procs -> [Sessions -> SUBSET Nat]]
        BY <1>1 DEF TypeOK
      <4>3. QED
        BY <4>1, <4>2
    <3>4. QED
      BY <3>1, <3>2, <3>3
  <2>3. ASSUME NEW s \in ready'[p] PROVE ReadInv(p, s)'
    <3>1. s \in ready[p] \/ s \in cur[p]
      BY <2>2, <2>3
    <3>2. ReadInv(p, s)
      BY <1>1, <3>1 DEF ProcInv
    <3>3. QED
      BY <1>2, <2>2, <3>2 DEF ReadInv, Exists
  <2>4. ReadyInv(p, t)'
    BY <1>2, <2>2 DEF ReadyInv
  <2>5. ASSUME NEW s \in ready[p], s # t PROVE ReadyInv(p, s)'
    BY <1>1, <1>2, <2>2, <2>5 DEF ProcInv, ReadyInv, TypeOK
  <2>6. QED
    BY <1>1, <1>2, <1>3, <1>4, <2>2, <2>3, <2>4, <2>5 DEF ProcInv, Batching
<1>8. CASE \E s \in Sessions : ReadFails(p, s)
  <2>1. PICK t \in Sessions : ReadFails(p, t)
    BY <1>8
  <2>2. t \notin ready[p] /\ t \in chunk[p]
    BY <1>1, <2>1 DEF ProcInv, ReadFails
  <2>3. /\ pc'[p] \in {"read", "sessions", "save"} /\ cur'[p] = {}
        /\ chunk'[p] = chunk[p] \ {t} /\ ready'[p] = ready[p]
        /\ pc'[p] = "save" => chunk'[p] = {} /\ ready[p] = {}
        /\ newTCs'[p] = newTCs[p]
        /\ \A s \in Sessions : s # t => upTo'[p][s] = upTo[p][s]
    BY <1>1, <2>1 DEF TypeOK, ReadFails, Goto, AfterPrepare
  <2>4. ASSUME NEW s \in ready[p] PROVE ReadInv(p, s)' /\ ReadyInv(p, s)'
    BY <1>1, <1>2, <2>2, <2>3, <2>4
    DEF ProcInv, ReadInv, ReadyInv, Exists, TypeOK, NewMessages, GetLastOrdinal
  <2>5. QED
    BY <1>1, <1>2, <1>3, <1>4, <2>3, <2>4 DEF ProcInv, Batching
<1>9. QED
  BY <1>5, <1>6, <1>7, <1>8

LEMMA SendInv ==
  ASSUME TypeOK, TypeOK', SourceInv, Extends, NEW p \in Procs, ProcInv(p),
         \/ SendSessions(p) \/ SendMessages(p) \/ SendToolCalls(p)
         \/ WriteGitLinks(p) \/ WriteGitLinksFails(p)
  PROVE  ProcInv(p)'
<1>1. TypeOK /\ SourceInv /\ ProcInv(p)
  OBVIOUS
<1>2. UNCHANGED <<rev, len, calls, mem, listed, chunk, cur, ready, upTo, newTCs>>
  BY DEF SendSessions, SendMessages, SendToolCalls, WriteGitLinks, WriteGitLinksFails,
     sourceVars, runVars, batchVars
<1>3. Good(mem[p])'
  BY <1>1, <1>2, KnownGood DEF ProcInv
<1>4. pc[p] \in Batching \cap Syncing /\ pc'[p] \in Batching \cap Syncing
  BY <1>1 DEF SendSessions, SendMessages, SendToolCalls, WriteGitLinks, WriteGitLinksFails,
     Goto, Batching, Syncing, TypeOK
<1>5. \A s \in Sessions : NewMessages(p, s)' = NewMessages(p, s)
  BY <1>2 DEF NewMessages, GetLastOrdinal
<1>6. ASSUME NEW s \in ready[p], pc'[p] \in {"tool_calls", "git_links", "mark"}
      PROVE  NewMessages(p, s) \subseteq msgs'[s]
  <2>1. CASE SendMessages(p)
    BY <1>1, <1>6, <2>1 DEF SendMessages, MessagesAfter, TypeOK
  <2>2. CASE SendToolCalls(p) \/ WriteGitLinks(p) \/ WriteGitLinksFails(p)
    BY <1>1, <1>6, <2>2 DEF SendToolCalls, WriteGitLinks, WriteGitLinksFails, Goto, ProcInv,
       ReadyInv, storeVars
  <2>3. CASE SendSessions(p)
    BY <1>1, <1>6, <2>3 DEF SendSessions, Goto, TypeOK
  <2>4. QED
    BY <2>1, <2>2, <2>3
<1>7. ASSUME NEW s \in ready[p], pc'[p] \in {"git_links", "mark"}
      PROVE  newTCs[p][s] \subseteq tcs'[s]
  <2>1. CASE SendToolCalls(p)
    BY <1>1, <1>7, <2>1 DEF SendToolCalls, WithNewTCs, TypeOK
  <2>2. CASE WriteGitLinks(p) \/ WriteGitLinksFails(p)
    BY <1>1, <1>7, <2>2 DEF WriteGitLinks, WriteGitLinksFails, Goto, ProcInv, ReadyInv,
       storeVars
  <2>3. CASE SendSessions(p) \/ SendMessages(p)
    BY <1>1, <1>7, <2>3 DEF SendSessions, SendMessages, Goto, TypeOK
  <2>4. QED
    BY <2>1, <2>2, <2>3
<1>8. ASSUME NEW s \in ready[p] PROVE ReadyInv(p, s)'
  <2>1. ReadyInv(p, s) /\ s \in Sessions
    BY <1>1, <1>8 DEF ProcInv, TypeOK
  <2>2. QED
    BY <1>2, <1>5, <1>6, <1>7, <2>1 DEF ReadyInv
<1>9. ASSUME NEW s \in cur[p] \cup ready[p] PROVE ReadInv(p, s)'
  BY <1>1, <1>2, <1>9 DEF ProcInv, ReadInv, Exists
<1>10. QED
  BY <1>1, <1>2, <1>3, <1>4, <1>8, <1>9 DEF ProcInv

LEMMA SendFailsInv ==
  ASSUME TypeOK, TypeOK', SourceInv, Extends, NEW p \in Procs, ProcInv(p), SendFails(p)
  PROVE  ProcInv(p)'
<1>1. TypeOK /\ ProcInv(p)
  OBVIOUS
<1>2. pc[p] \in Syncing /\ mem' = mem /\ listed' = listed
  BY DEF SendFails, Goto, Syncing
<1>3. chunk'[p] = {} /\ cur'[p] = {} /\ ready'[p] = {}
  BY <1>1 DEF SendFails, NoBatch, TypeOK
<1>4. Good(mem[p])'
  BY <1>1, <1>2, KnownGood DEF ProcInv
<1>5. QED
  BY <1>1, <1>2, <1>3, <1>4, NoBatchInv DEF ProcInv

\* The step the invariant is made for: what is marked has been written.
LEMMA AdvanceInv ==
  ASSUME TypeOK, TypeOK', SourceInv, Extends, NEW p \in Procs, ProcInv(p), AdvanceWatermarks(p)
  PROVE  ProcInv(p)'
<1>1. TypeOK /\ SourceInv /\ ProcInv(p)
  OBVIOUS
<1>2. /\ UNCHANGED <<rev, len, calls, msgs, tcs, listed>>
      /\ pc[p] = "mark"
  BY DEF AdvanceWatermarks, Goto, sourceVars, storeVars
<1>3. mem[p].version = SyncVersion /\ mem[p] \in SyncState
  BY <1>1, <1>2 DEF ProcInv, Syncing, TypeOK
<1>4. /\ mem'[p].version = SyncVersion
      /\ \A s \in Sessions : mem'[p].wm[s] =
           IF s \in ready[p] THEN [hash |-> listed[p][s], last |-> MaxOrdinal(p, s)]
                             ELSE mem[p].wm[s]
  BY <1>1, <1>3 DEF AdvanceWatermarks, MarkSynced, SyncState, TypeOK
<1>5. ASSUME NEW s \in Sessions, s \notin ready[p] PROVE GoodMark(mem[p], s)'
  <2>1. GoodMark(mem[p], s) /\ mem'[p].wm[s] = mem[p].wm[s]
    BY <1>1, <1>3, <1>4, <1>5 DEF ProcInv, Good
  <2>2. QED
    BY <1>2, <1>3, <1>4, <2>1
    DEF GoodMark, Covered, Skipped, Exists, IsSessionChanged, FileHash
<1>6. ASSUME NEW s \in Sessions, s \in ready[p] PROVE GoodMark(mem[p], s)'
  <2> DEFINE last == mem[p].wm[s].last
             newLast == MaxOrdinal(p, s)
  <2>1. GoodMark(mem[p], s) /\ ReadInv(p, s) /\ ReadyInv(p, s)
    BY <1>1, <1>3, <1>6 DEF ProcInv, Good
  <2>2. /\ last \in Ordinals /\ upTo[p][s] \in Nat /\ len[s] \in Nat
        /\ listed[p][s] \in Nat /\ rev[s] \in Nat /\ calls[s] \subseteq Nat
        /\ listed[p][s] <= rev[s]
    BY <1>1, TypeFacts DEF ProcInv
  <2>3. newLast = IF upTo[p][s] - 1 > last THEN upTo[p][s] - 1 ELSE last
    BY DEF MaxOrdinal, GetLastOrdinal
  <2>4. mem'[p].wm[s] = [hash |-> listed[p][s], last |-> newLast]
    BY <1>4, <1>6
  <2>5. newLast < len[s]
    BY <2>1, <2>2, <2>3 DEF GoodMark, ReadInv, Ordinals
  <2>6. 0 .. newLast \subseteq msgs[s]
    <3>1. 0 .. last \subseteq msgs[s]
      BY <2>1 DEF GoodMark, Covered
    <3>2. (last + 1) .. (upTo[p][s] - 1) \subseteq msgs[s]
      BY <1>2, <2>1 DEF ReadyInv, NewMessages, GetLastOrdinal
    <3>3. QED
      BY <2>2, <2>3, <3>1, <3>2 DEF Ordinals
  <2>7. ASSUME ~LateResults, NEW o \in calls[s], o <= newLast PROVE o \in tcs[s]
    <3>1. CASE o <= last
      BY <2>1, <2>7, <3>1 DEF GoodMark, Covered
    <3>2. CASE o > last
      <4>1. o < upTo[p][s]
        BY <2>2, <2>3, <2>7, <3>2 DEF Ordinals
      <4>2. QED
        BY <1>2, <2>1, <2>7, <3>2, <4>1 DEF ReadyInv
    <3>3. QED
      BY <2>2, <3>1, <3>2 DEF Ordinals
  <2>8. Covered(mem[p], s)'
    BY <1>2, <2>4, <2>6, <2>7 DEF Covered
  <2>9. ASSUME Skipped(mem[p], s)' PROVE newLast = len[s] - 1
    <3>1. Exists(s) /\ s \notin Unhashed /\ listed[p][s] = rev[s]
      BY <1>2, <2>4, <2>9 DEF Skipped, Exists, IsSessionChanged, FileHash
    <3>2. upTo[p][s] = len[s]
      BY <2>1, <3>1 DEF ReadInv
    <3>3. QED
      BY <2>1, <2>2, <2>3, <3>2 DEF GoodMark, Ordinals
  <2>10. QED
    BY <1>2, <2>2, <2>4, <2>5, <2>8, <2>9 DEF GoodMark
<1>7. Good(mem[p])'
  BY <1>5, <1>6 DEF Good
<1>8. chunk'[p] = {} /\ cur'[p] = {} /\ ready'[p] = {}
  BY <1>1 DEF AdvanceWatermarks, NoBatch, TypeOK
<1>9. QED
  BY <1>1, <1>2, <1>4, <1>7, <1>8, NoBatchInv DEF ProcInv

\* A step of a process keeps what it knows, if the file it may load is good.
LEMMA ActorInv ==
  ASSUME TypeOK, TypeOK', SourceInv, Extends, NEW p \in Procs, ProcInv(p),
         Progress(p) \/ Failure(p), ~LaunchReset(p),
         NewEngine(p) /\ ~force[p] => Good(file.state)
  PROVE  ProcInv(p)'
BY LifeInv, PrepareInv, SendInv, SendFailsInv, AdvanceInv
DEF Progress, Prepare, Failure, Setback

LEMMA NextIInv == ~AllowReset /\ IInv /\ [Next]_vars => IInv'
<1>1. SUFFICES ASSUME ~AllowReset, IInv, [Next]_vars PROVE IInv'
  OBVIOUS
<1>2. TypeOK /\ TypeOK' /\ SourceInv
  BY <1>1, NextTypeOK DEF IInv
<1>3. ASSUME Extends, SourceInv', file' = file,
             UNCHANGED <<pc, mem, listed, chunk, cur, ready, upTo, newTCs>>
      PROVE  IInv'
  <2>1. file.state \in SyncState /\ Good(file.state)
    BY <1>1, <1>2 DEF IInv, TypeOK, Files
  <2>2. Good(file.state)'
    BY <1>2, <1>3, <2>1, GoodStable
    DEF Good, GoodMark, Covered, Skipped, Exists, IsSessionChanged, FileHash
  <2>3. \A p \in Procs : ProcInv(p)'
    BY <1>1, <1>2, <1>3, ProcStable DEF IInv
  <2>4. QED
    BY <1>2, <1>3, <2>2, <2>3 DEF IInv
<1>4. CASE SourceStep
  BY <1>2, <1>3, <1>4, SourceStepExtends
  DEF SourceStep, Ingest, Touch, LateResult, ToggleMark, procVars, runVars, batchVars
<1>5. CASE RemoveStateFile
  <2>1. Extends /\ SourceInv'
    BY <1>2, <1>5, StoreGrows DEF RemoveStateFile, sourceVars, storeVars
  <2>2. \A p \in Procs : ProcInv(p)'
    BY <1>1, <1>2, <1>5, <2>1, ProcStable
    DEF IInv, RemoveStateFile, procVars, runVars, batchVars
  <2>3. Good(file.state)'
    BY <1>5 DEF RemoveStateFile, MissingFile, Good, EmptyState, SyncVersion
  <2>4. QED
    BY <1>2, <2>1, <2>2, <2>3 DEF IInv
<1>6. ASSUME NEW p \in Procs, Progress(p) \/ Failure(p) PROVE IInv'
  <2>1. ~LaunchReset(p)
    BY <1>1 DEF LaunchReset
  <2>2. Extends /\ SourceInv'
    BY <1>2, <1>6, <2>1, ProcStepExtends
  <2>3. Good(file.state)'
    BY <1>1, <1>2, <1>6, <2>2, FileStep
  <2>4. ProcInv(p)'
    BY <1>1, <1>2, <1>6, <2>1, <2>2, ActorInv DEF IInv
  <2>5. ASSUME NEW q \in Procs, q # p PROVE ProcInv(q)'
    BY <1>1, <1>2, <1>6, <2>2, <2>5, OthersUnchanged, ProcStable DEF IInv
  <2>6. QED
    BY <1>2, <2>2, <2>3, <2>4, <2>5 DEF IInv
<1>7. CASE UNCHANGED vars
  <2>1. UNCHANGED <<rev, len, calls, msgs, tcs>>
    BY <1>7 DEF vars, sourceVars, storeVars
  <2>2. Extends /\ SourceInv'
    BY <1>2, <2>1, StoreGrows
  <2>3. QED
    BY <1>3, <1>7, <2>2 DEF vars, procVars, runVars, batchVars
<1>8. QED
  BY <1>1, <1>4, <1>5, <1>6, <1>7 DEF Next

LEMMA ClaimsGood == IInv => \A st \in Claims : Good(st)
BY DEF IInv, ProcInv, Claims

\* No watermark, in the file or in a process, claims more than the store has:
\* for any number of processes, sessions and messages, and any chunk size, as
\* long as nobody drops the store.
THEOREM WatermarksAreSound ==
  ASSUME ~AllowReset
  PROVE  Spec => []WatermarkSound
<1>1. IInv => WatermarkSound
  BY ClaimsGood DEF Good, GoodMark, WatermarkSound, Sound
<1>2. IInv /\ [Next]_vars => IInv'
  BY NextIInv
<1>3. QED
  BY <1>1, <1>2, InitIInv, PTL DEF Spec

\* A session that RunOnce leaves out as unchanged is completely in the store,
\* under the same assumption.
THEOREM SkippedSessionsAreSynced ==
  ASSUME ~AllowReset
  PROVE  Spec => []SkippedIsSynced
<1>1. ASSUME IInv, NEW st \in Claims, NEW s \in Sessions, Skipped(st, s)
      PROVE  MessagesSynced(s) /\ ToolCallsSynced(s)
  <2>1. GoodMark(st, s) /\ TypeOK /\ SourceInv
    BY <1>1, ClaimsGood DEF Good, Skipped, IInv
  <2>2. st.wm[s].last = len[s] - 1 /\ Covered(st, s)
    BY <1>1, <2>1 DEF GoodMark
  <2>3. MessagesSynced(s)
    BY <2>2 DEF Covered, MessagesSynced
  <2>4. ToolCallsSynced(s)
    BY <2>1, <2>2, TypeFacts DEF Covered, ToolCallsSynced, SourceInv
  <2>5. QED
    BY <2>3, <2>4
<1>2. IInv => SkippedIsSynced
  BY <1>1 DEF SkippedIsSynced
<1>3. IInv /\ [Next]_vars => IInv'
  BY NextIInv
<1>4. QED
  BY <1>2, <1>3, InitIInv, PTL DEF Spec

-----------------------------------------------------------------------------
(* Forced runs, also where the store may be dropped.                       *)
(*                                                                         *)
(* IInv does not hold there: the file, and a process that loads it, claim  *)
(* what was dropped.  A process that was started with a force flag loads   *)
(* nothing; what it knows it has read and written itself, provided that    *)
(* nobody drops the store beside it.                                       *)

\* A process that has loaded nothing yet.
Rested(p) ==
  /\ mem[p] = EmptyState /\ listed[p] = NoCounts
  /\ chunk[p] = {} /\ cur[p] = {} /\ ready[p] = {}

ForcedInv ==
  /\ TypeOK
  /\ SourceInv
  /\ \A p \in Procs :
       /\ pc[p] \in {"down", "boot"} => Rested(p)
       /\ pc[p] \notin {"down", "boot"} /\ force[p] => ProcInv(p)

LEMMA InitForcedInv == Init => ForcedInv
<1>1. SUFFICES ASSUME Init PROVE ForcedInv
  OBVIOUS
<1>2. TypeOK
  BY <1>1, InitTypeOK
<1>3. SourceInv
  BY <1>1 DEF Init, SourceInv, NoOrdinals
<1>4. \A p \in Procs : pc[p] = "down" /\ Rested(p)
  BY <1>1 DEF Init, Rested
<1>5. QED
  BY <1>2, <1>3, <1>4 DEF ForcedInv

LEMMA RestedInv ==
  ASSUME TypeOK, SourceInv, NEW p \in Procs, Rested(p), pc[p] \in {"down", "boot"}
  PROVE  ProcInv(p)
<1>1. Good(mem[p])
  BY EmptyGood DEF Rested
<1>2. \A s \in Sessions : listed[p][s] <= rev[s]
  BY TypeFacts DEF Rested, NoCounts
<1>3. QED
  BY <1>1, <1>2 DEF Rested, ProcInv, Syncing, Batching

\* How a process starts and stops.
LEMMA StartStop ==
  ASSUME TypeOK, NEW p \in Procs, Progress(p) \/ Failure(p),
         pc[p] \in {"down", "boot"} => Rested(p)
  PROVE  /\ pc'[p] \in {"down", "boot"} => Rested(p)'
         /\ \/ pc'[p] \in {"down", "boot"}
            \/ NewEngine(p) /\ pc[p] = "boot" /\ force'[p] = force[p]
            \/ pc[p] \notin {"down", "boot"} /\ force'[p] = force[p]
<1>1. CASE (\E f \in BOOLEAN : Launch(p, f)) \/ LaunchReset(p) \/ NewEngineFails(p)
  BY <1>1 DEF TypeOK, Launch, LaunchReset, NewEngineFails, Goto, Rested, runVars, batchVars
<1>2. CASE Crash(p)
  BY <1>2 DEF TypeOK, Crash, NoRun, NoBatch, Rested
<1>3. CASE NewEngine(p)
  BY <1>3 DEF TypeOK, NewEngine, Goto
<1>4. CASE \/ ListSessions(p) \/ ListFails(p) \/ \E c \in SUBSET Sessions : NextChunk(p, c)
           \/ \E s \in Sessions : ReadMessages(p, s) \/ ReadToolCalls(p, s) \/ ReadFails(p, s)
  BY <1>4 DEF TypeOK, ListSessions, ListFails, NextChunk, ReadMessages, ReadToolCalls,
     ReadFails, AfterPrepare, Goto
<1>5. CASE \/ SendSessions(p) \/ SendMessages(p) \/ SendToolCalls(p) \/ SendFails(p)
           \/ WriteGitLinks(p) \/ WriteGitLinksFails(p) \/ AdvanceWatermarks(p)
  BY <1>5 DEF TypeOK, SendSessions, SendMessages, SendToolCalls, SendFails, WriteGitLinks,
     WriteGitLinksFails, AdvanceWatermarks, Goto
<1>6. CASE \/ SaveTruncate(p) \/ SaveWrite(p) \/ SaveFails(p)
           \/ SyncUserActions(p) \/ SyncUserActionsFails(p)
  BY <1>6 DEF TypeOK, SaveTruncate, SaveWrite, SaveFails, AfterSave, SyncUserActions,
     SyncUserActionsFails, EndUserActions, Goto
<1>7. QED
  BY <1>1, <1>2, <1>3, <1>4, <1>5, <1>6 DEF Progress, Failure, Setback, Prepare

\* A step that does not concern process q.
LEMMA ForcedStable ==
  ASSUME TypeOK, TypeOK', SourceInv, Extends, NEW q \in Procs,
         UNCHANGED <<pc[q], force[q], mem[q], listed[q], chunk[q], cur[q], ready[q],
                     upTo[q], newTCs[q]>>,
         pc[q] \in {"down", "boot"} => Rested(q),
         pc[q] \notin {"down", "boot"} /\ force[q] => ProcInv(q)
  PROVE  /\ pc'[q] \in {"down", "boot"} => Rested(q)'
         /\ pc'[q] \notin {"down", "boot"} /\ force'[q] => ProcInv(q)'
BY ProcStable DEF Rested

LEMMA ForceUnchanged ==
  ASSUME TypeOK, NEW p \in Procs, NEW q \in Procs, q # p, Progress(p) \/ Failure(p)
  PROVE  force'[q] = force[q]
BY DEF TypeOK, Progress, Failure, Setback, Prepare, Launch, LaunchReset, NewEngine,
   NewEngineFails, Crash, ListSessions, ListFails, NextChunk, ReadMessages, ReadToolCalls,
   ReadFails, SendSessions, SendMessages, SendToolCalls, SendFails, WriteGitLinks,
   WriteGitLinksFails, AdvanceWatermarks, SaveTruncate, SaveWrite, SaveFails,
   SyncUserActions, SyncUserActionsFails, EndUserActions

LEMMA NextForcedInv ==
  ASSUME ~AllowReset \/ \A p, q \in Procs : p = q, ForcedInv, [Next]_vars
  PROVE  ForcedInv'
<1>1. TypeOK /\ TypeOK' /\ SourceInv
  BY NextTypeOK DEF ForcedInv
<1>2. CASE SourceStep \/ RemoveStateFile \/ UNCHANGED vars
  <2>1. UNCHANGED <<pc, force, mem, listed, chunk, cur, ready, upTo, newTCs>>
    BY <1>2 DEF SourceStep, Ingest, Touch, LateResult, ToggleMark, RemoveStateFile, vars,
       procVars, runVars, batchVars
  <2>2. Extends /\ SourceInv'
    <3>1. CASE SourceStep
      BY <1>1, <3>1, SourceStepExtends
    <3>2. CASE RemoveStateFile \/ UNCHANGED vars
      BY <1>1, <3>2, StoreGrows DEF RemoveStateFile, vars, sourceVars, storeVars
    <3>3. QED
      BY <1>2, <3>1, <3>2
  <2>3. QED
    BY <1>1, <2>1, <2>2, ForcedStable DEF ForcedInv
<1>3. ASSUME NEW p \in Procs, Progress(p) \/ Failure(p) PROVE ForcedInv'
  <2>1. SourceInv' /\ (LaunchReset(p) \/ Extends)
    <3>1. CASE LaunchReset(p)
      BY <1>1, <3>1 DEF LaunchReset, sourceVars, SourceInv
    <3>2. CASE ~LaunchReset(p)
      BY <1>1, <1>3, <3>2, ProcStepExtends
    <3>3. QED
      BY <3>1, <3>2
  <2>2. ASSUME NEW q \in Procs, q # p
        PROVE  /\ pc'[q] \in {"down", "boot"} => Rested(q)'
               /\ pc'[q] \notin {"down", "boot"} /\ force'[q] => ProcInv(q)'
    <3>1. ~LaunchReset(p)
      BY <2>2 DEF LaunchReset
    <3>2. QED
      BY <1>1, <1>3, <2>1, <2>2, <3>1, OthersUnchanged, ForceUnchanged, ForcedStable
      DEF ForcedInv
  <2>3. /\ pc'[p] \in {"down", "boot"} => Rested(p)'
        /\ \/ pc'[p] \in {"down", "boot"}
           \/ NewEngine(p) /\ pc[p] = "boot" /\ force'[p] = force[p]
           \/ pc[p] \notin {"down", "boot"} /\ force'[p] = force[p]
    BY <1>1, <1>3, StartStop DEF ForcedInv
  <2>4. ASSUME pc'[p] \notin {"down", "boot"}, force'[p] PROVE ProcInv(p)'
    <3>1. force[p] /\ ProcInv(p)
      BY <1>1, <2>3, <2>4, RestedInv DEF ForcedInv
    <3>2. ~LaunchReset(p)
      BY <1>1, <2>4 DEF LaunchReset, Goto, TypeOK
    <3>3. QED
      BY <1>1, <1>3, <2>1, <3>1, <3>2, ActorInv
  <2>5. QED
    BY <1>1, <2>1, <2>2, <2>3, <2>4 DEF ForcedInv
<1>4. QED
  BY <1>2, <1>3 DEF Next

\* A run started with --force or --reset-db holds no watermark that claims more
\* than the store has, even when the store has been dropped under the file: for one
\* process, or for any number of them when nobody drops the store.
THEOREM ForcedRunsAreSound ==
  ASSUME ~AllowReset \/ \A p, q \in Procs : p = q
  PROVE  Spec => []ForcedRunSound
<1>1. ForcedInv => ForcedRunSound
  BY DEF ForcedInv, ForcedRunSound, ProcInv, Good, GoodMark, Sound
<1>2. ForcedInv /\ [Next]_vars => ForcedInv'
  BY NextForcedInv
<1>3. QED
  BY <1>1, <1>2, InitForcedInv, PTL DEF Spec

-----------------------------------------------------------------------------
(* The sessions rows of a single process.                                  *)
(*                                                                         *)
(* WriteBatch overwrites the row of a session with the one that was        *)
(* listed, which is older than the source if that has moved on since.  It  *)
(* does no harm, for whatever is claimed of a session when it is listed is *)
(* at most as new as the listing; when the row falls behind the source, so *)
(* does every claim.  With a second process this is wrong: it may list and *)
(* mark a later revision between this one's listing and its insert.        *)

\* The sessions of the run of p that are still to be marked.
Pending(p) == todo[p] \cup chunk[p] \cup cur[p] \cup ready[p]

\* What st claims of them is no newer than the listing.
NotAhead(st, p) ==
  st.version = SyncVersion =>
    \A s \in Pending(p) : s \notin Unhashed => st.wm[s].hash <= listed[p][s]

Sent == {"messages", "tool_calls", "git_links", "mark"}

RowsInv(p) ==
  /\ NotAhead(file.state, p)
  /\ NotAhead(mem[p], p)
  /\ pc[p] \in Sent => \A s \in ready[p] : rows[s] = listed[p][s]

RowCurrent(st) == \A s \in Sessions : Skipped(st, s) => rows[s] = FileHash(s)

RowsIInv ==
  /\ IInv
  /\ \A p \in Procs : RowsInv(p)
  /\ \A st \in Claims : RowCurrent(st)

LEMMA InitRowsIInv == Init => RowsIInv
<1>1. SUFFICES ASSUME Init PROVE RowsIInv
  OBVIOUS
<1>2. file.state.version # SyncVersion /\ \A p \in Procs : mem[p].version # SyncVersion
  BY <1>1 DEF Init, MissingFile, StateFile, EmptyState, SyncVersion, OldVersion
<1>3. ASSUME NEW p \in Procs PROVE RowsInv(p)
  BY <1>1, <1>2 DEF Init, RowsInv, NotAhead, Sent
<1>4. ASSUME NEW st \in Claims PROVE RowCurrent(st)
  BY <1>2 DEF Claims, RowCurrent, Skipped
<1>5. QED
  BY <1>1, <1>3, <1>4, InitIInv DEF RowsIInv

\* While the rows stay, a current one stays current: the source moves on from
\* no claimed revision to another claimed one.
LEMMA CurrentStable ==
  ASSUME TypeOK, TypeOK', Extends, rows' = rows, NEW st \in SyncState, Good(st), RowCurrent(st)
  PROVE  RowCurrent(st)'
<1>1. SUFFICES ASSUME NEW s \in Sessions, Skipped(st, s)' PROVE rows'[s] = FileHash(s)'
  BY DEF RowCurrent
<1>2. /\ st.version = SyncVersion /\ s \notin Unhashed
      /\ rev'[s] > 0 /\ st.wm[s].hash = rev'[s] /\ FileHash(s)' = rev'[s]
  BY <1>1 DEF Skipped, Exists, IsSessionChanged, FileHash
<1>3. st.wm[s].hash <= rev[s] /\ rev[s] <= rev'[s] /\ rev[s] \in Nat /\ rev'[s] \in Nat
  BY <1>2, BoundsAssumption DEF Good, GoodMark, Extends, TypeOK
<1>4. rev[s] = rev'[s]
  BY <1>2, <1>3
<1>5. Skipped(st, s) /\ FileHash(s) = rev[s]
  BY <1>2, <1>4 DEF Skipped, Exists, IsSessionChanged, FileHash
<1>6. QED
  BY <1>2, <1>4, <1>5 DEF RowCurrent

\* Claims that are current for want of any.
LEMMA EmptyCurrent ==
  ASSUME TypeOK
  PROVE  /\ RowCurrent(EmptyState) /\ RowCurrent(ResetForResync)
         /\ \A p \in Procs : NotAhead(EmptyState, p) /\ NotAhead(ResetForResync, p)
<1>1. EmptyState.version # SyncVersion
  BY DEF EmptyState, SyncVersion
<1>2. \A s \in Sessions : ResetForResync.wm[s].hash = -1
  BY DEF ResetForResync, EmptySessions, Untracked
<1>3. \A s \in Sessions : ~Skipped(EmptyState, s) /\ ~Skipped(ResetForResync, s)
  BY <1>1, <1>2, TypeFacts DEF Skipped, IsSessionChanged
<1>4. ASSUME NEW p \in Procs, NEW s \in Pending(p)
      PROVE  ResetForResync.wm[s].hash <= listed[p][s]
  <2>1. s \in Sessions
    BY <1>4 DEF Pending, TypeOK
  <2>2. QED
    BY <1>2, <2>1, TypeFacts
<1>5. QED
  BY <1>1, <1>3, <1>4 DEF RowCurrent, NotAhead

\* What holds of everything p knows or finds in the file.
LEMMA KnownCurrent ==
  ASSUME RowsIInv, NEW p \in Procs
  PROVE  \A st \in {file.state, mem[p], EmptyState, ResetForResync} :
           st \in SyncState /\ Good(st) /\ RowCurrent(st) /\ NotAhead(st, p)
<1>1. TypeOK /\ SourceInv /\ RowsInv(p) /\ ProcInv(p) /\ Good(file.state)
  BY DEF RowsIInv, IInv
<1>2. file.state \in SyncState /\ mem[p] \in SyncState
  BY <1>1 DEF TypeOK, Files
<1>3. RowCurrent(file.state) /\ RowCurrent(mem[p])
  BY DEF RowsIInv, Claims
<1>4. QED
  BY <1>1, <1>2, <1>3, EmptyCurrent, EmptyGood, EmptyTypes DEF ProcInv, RowsInv

\* A step of p that neither lists, nor writes rows, nor advances watermarks.
LEMMA QuietRows ==
  ASSUME RowsIInv, TypeOK', Extends, NEW p \in Procs, \A q \in Procs : q = p, rows' = rows,
         \/ Pending(p)' = {}
         \/ listed'[p] = listed[p] /\ Pending(p)' \subseteq Pending(p),
         pc'[p] \in Sent =>
           pc[p] \in Sent /\ ready'[p] = ready[p] /\ listed'[p] = listed[p],
         file'.state \in {file.state, mem[p], EmptyState},
         mem'[p] \in {file.state, mem[p], EmptyState, ResetForResync}
  PROVE  RowsInv(p)' /\ \A st \in Claims' : RowCurrent(st)'
<1> DEFINE Known == {file.state, mem[p], EmptyState, ResetForResync}
<1>1. \A st \in Known : st \in SyncState /\ Good(st) /\ RowCurrent(st) /\ NotAhead(st, p)
  BY KnownCurrent
<1>2. TypeOK
  BY DEF RowsIInv, IInv
<1>3. ASSUME NEW st \in Known PROVE RowCurrent(st)' /\ NotAhead(st, p)'
  <2>1. st \in SyncState /\ Good(st) /\ RowCurrent(st) /\ NotAhead(st, p)
    BY <1>1, <1>3
  <2>2. RowCurrent(st)'
    BY <1>2, <2>1, CurrentStable
  <2>3. NotAhead(st, p)'
    BY <2>1 DEF NotAhead
  <2>4. QED
    BY <2>2, <2>3
<1>4. PICK f \in Known : f = file'.state
  OBVIOUS
<1>5. PICK m \in Known : m = mem'[p]
  OBVIOUS
<1>6. RowCurrent(f)' /\ NotAhead(f, p)' /\ RowCurrent(m)' /\ NotAhead(m, p)'
  BY <1>3
<1>7. NotAhead(file.state, p)' /\ NotAhead(mem[p], p)'
  BY <1>4, <1>5, <1>6 DEF NotAhead
<1>8. pc'[p] \in Sent => \A s \in ready'[p] : rows'[s] = listed'[p][s]
  BY DEF RowsIInv, RowsInv
<1>9. ASSUME NEW st \in Claims' PROVE RowCurrent(st)'
  <2>1. st = f \/ st = m
    BY <1>4, <1>5, <1>9 DEF Claims
  <2>2. QED
    BY <1>6, <2>1
<1>10. QED
  BY <1>7, <1>8, <1>9 DEF RowsInv

\* A listing is as new as the source, hence as any claim.
LEMMA ListRows ==
  ASSUME RowsIInv, TypeOK', Extends, NEW p \in Procs, \A q \in Procs : q = p, ListSessions(p)
  PROVE  RowsInv(p)' /\ \A st \in Claims' : RowCurrent(st)'
<1>1. TypeOK /\ ProcInv(p)
  BY DEF RowsIInv, IInv
<1>2. /\ pc[p] = "idle" /\ pc'[p] \notin Sent
      /\ UNCHANGED <<rows, file, rev, chunk, cur, ready>>
      /\ mem'[p] \in {mem[p], ResetForResync}
      /\ \A s \in todo'[p] : s \in Sessions /\ listed'[p][s] = FileHash(s)
  BY <1>1 DEF TypeOK, ListSessions, Goto, Sent, CheckedState, sourceVars, storeVars, batchVars
<1>3. Pending(p)' = todo'[p]
  BY <1>1, <1>2 DEF ProcInv, Pending, Batching
<1>4. ASSUME NEW st \in {file.state, mem[p], ResetForResync}
      PROVE  NotAhead(st, p)' /\ RowCurrent(st)'
  <2>1. st \in SyncState /\ Good(st) /\ RowCurrent(st)
    BY KnownCurrent
  <2>2. ASSUME st.version = SyncVersion, NEW s \in Pending(p)', s \notin Unhashed
        PROVE  st.wm[s].hash <= listed'[p][s]
    BY <1>2, <1>3, <2>1, <2>2 DEF Good, GoodMark, FileHash
  <2>3. RowCurrent(st)'
    BY <1>1, <1>2, <2>1, CurrentStable
  <2>4. QED
    BY <2>2, <2>3 DEF NotAhead
<1>5. PICK m \in {mem[p], ResetForResync} : m = mem'[p]
  BY <1>2
<1>6. RowCurrent(m)' /\ NotAhead(m, p)' /\ RowCurrent(file.state)' /\ NotAhead(file.state, p)'
  <2>1. PICK f \in {file.state} : f = file'.state
    BY <1>2
  <2>2. RowCurrent(f)' /\ NotAhead(f, p)' /\ RowCurrent(m)' /\ NotAhead(m, p)'
    BY <1>4
  <2>3. QED
    BY <1>2, <2>1, <2>2 DEF RowCurrent, NotAhead, Skipped, IsSessionChanged
<1>7. NotAhead(mem[p], p)'
  BY <1>5, <1>6 DEF NotAhead
<1>8. ASSUME NEW st \in Claims' PROVE RowCurrent(st)'
  <2>1. st = file'.state \/ st = m
    BY <1>5, <1>8 DEF Claims
  <2>2. QED
    BY <1>6, <2>1 DEF RowCurrent, Skipped, IsSessionChanged
<1>9. QED
  BY <1>2, <1>6, <1>7, <1>8 DEF RowsInv

\* Rows are overwritten with what was listed: a claim of the current revision is
\* no newer than the listing, so the listing is of the current revision too.
LEMMA SendRows ==
  ASSUME RowsIInv, TypeOK', NEW p \in Procs, \A q \in Procs : q = p,
         SendSessions(p) \/ SendFails(p), rows' = SessionsAfter(p)
  PROVE  RowsInv(p)' /\ \A st \in Claims' : RowCurrent(st)'
<1>1. TypeOK /\ RowsInv(p)
  BY DEF RowsIInv, IInv
<1>2. /\ UNCHANGED <<rev, file, mem, listed>>
      /\ ready'[p] = ready[p] \/ ready'[p] = {}
      /\ Pending(p)' \subseteq Pending(p)
  BY <1>1 DEF TypeOK, SendSessions, SendFails, NoBatch, Pending, sourceVars, runVars, batchVars
<1>3. \A s \in ready'[p] : rows'[s] = listed'[p][s]
  BY <1>1, <1>2 DEF SessionsAfter, TypeOK
<1>4. NotAhead(file.state, p)' /\ NotAhead(mem[p], p)'
  BY <1>1, <1>2 DEF RowsInv, NotAhead
<1>5. ASSUME NEW st \in Claims', NEW s \in Sessions, Skipped(st, s)'
      PROVE  rows'[s] = FileHash(s)'
  <2>1. st \in {file.state, mem[p]}
    BY <1>2, <1>5 DEF Claims
  <2>2. /\ RowCurrent(st) /\ NotAhead(st, p)
    BY <2>1, KnownCurrent
  <2>3. Skipped(st, s) /\ FileHash(s)' = FileHash(s) /\ FileHash(s) = rev[s]
        /\ st.version = SyncVersion /\ s \notin Unhashed /\ st.wm[s].hash = rev[s]
    BY <1>2, <1>5 DEF Skipped, Exists, IsSessionChanged, FileHash
  <2>4. CASE s \in ready[p]
    <3>1. rev[s] <= listed[p][s]
      BY <2>2, <2>3, <2>4 DEF NotAhead, Pending
    <3>2. listed[p][s] <= rev[s] /\ listed[p][s] \in Nat /\ rev[s] \in Nat
      BY <1>1, TypeFacts DEF RowsIInv, IInv, ProcInv
    <3>3. QED
      BY <2>3, <2>4, <3>1, <3>2 DEF SessionsAfter
  <2>5. CASE s \notin ready[p]
    BY <2>2, <2>3, <2>5 DEF SessionsAfter, RowCurrent
  <2>6. QED
    BY <2>4, <2>5
<1>6. ASSUME NEW st \in Claims' PROVE RowCurrent(st)'
  BY <1>5, <1>6 DEF RowCurrent
<1>7. QED
  BY <1>3, <1>4, <1>6 DEF RowsInv

\* What is marked is what was listed, and what was listed is in the rows.
LEMMA AdvanceRows ==
  ASSUME RowsIInv, TypeOK', Extends, NEW p \in Procs, \A q \in Procs : q = p,
         AdvanceWatermarks(p)
  PROVE  RowsInv(p)' /\ \A st \in Claims' : RowCurrent(st)'
<1>1. TypeOK /\ RowsInv(p) /\ mem[p] \in SyncState
  BY DEF RowsIInv, IInv, TypeOK
<1>2. /\ UNCHANGED <<rev, rows, file, listed>> /\ pc[p] = "mark" /\ pc'[p] = "save"
      /\ Pending(p)' \subseteq Pending(p)
  BY <1>1 DEF TypeOK, AdvanceWatermarks, Goto, NoBatch, Pending, sourceVars, storeVars
<1>3. mem'[p] = MarkSynced(mem[p], ready[p], listed[p], [s \in Sessions |-> MaxOrdinal(p, s)])
  BY <1>1 DEF TypeOK, AdvanceWatermarks
<1>4. /\ mem'[p].version = mem[p].version
      /\ \A s \in Sessions : mem'[p].wm[s].hash =
           IF s \in ready[p] THEN listed[p][s] ELSE mem[p].wm[s].hash
  BY <1>1, <1>3 DEF MarkSynced, SyncState
<1>5. NotAhead(file.state, p)'
  BY <1>1, <1>2 DEF RowsInv, NotAhead
<1>6. NotAhead(mem[p], p)'
  <2>1. SUFFICES ASSUME mem'[p].version = SyncVersion, NEW s \in Pending(p)', s \notin Unhashed
                 PROVE  mem'[p].wm[s].hash <= listed'[p][s]
    BY DEF NotAhead
  <2>2. s \in Sessions /\ s \in Pending(p) /\ listed[p][s] \in Nat
    BY <1>1, <1>2, TypeFacts DEF Pending, TypeOK
  <2>3. QED
    BY <1>1, <1>2, <1>4, <2>1, <2>2 DEF RowsInv, NotAhead
<1>7. ASSUME NEW st \in Claims' PROVE RowCurrent(st)'
  <2>1. SUFFICES ASSUME NEW s \in Sessions, Skipped(st, s)' PROVE rows'[s] = FileHash(s)'
    BY DEF RowCurrent
  <2>2. /\ st.version = SyncVersion /\ Exists(s) /\ s \notin Unhashed
        /\ st.wm[s].hash = FileHash(s) /\ FileHash(s)' = FileHash(s)
    BY <1>2, <2>1 DEF Skipped, Exists, IsSessionChanged, FileHash
  <2>3. CASE st = file.state \/ (st = mem'[p] /\ s \notin ready[p])
    <3>1. Skipped(file.state, s) \/ Skipped(mem[p], s)
      BY <1>4, <2>2, <2>3 DEF Skipped, IsSessionChanged
    <3>2. RowCurrent(file.state) /\ RowCurrent(mem[p])
      BY KnownCurrent
    <3>3. QED
      BY <1>2, <2>2, <3>1, <3>2 DEF RowCurrent
  <2>4. CASE st = mem'[p] /\ s \in ready[p]
    BY <1>1, <1>2, <1>4, <2>2, <2>4 DEF RowsInv, Sent
  <2>5. QED
    BY <1>2, <1>7, <2>3, <2>4 DEF Claims
<1>8. QED
  BY <1>2, <1>5, <1>6, <1>7 DEF RowsInv, Sent

LEMMA StepRows ==
  ASSUME RowsIInv, TypeOK', Extends, NEW p \in Procs, \A q \in Procs : q = p,
         Progress(p) \/ Failure(p), ~LaunchReset(p)
  PROVE  RowsInv(p)' /\ \A st \in Claims' : RowCurrent(st)'
<1> DEFINE Quiet ==
      /\ rows' = rows
      /\ Pending(p)' = {} \/ (listed'[p] = listed[p] /\ Pending(p)' \subseteq Pending(p))
      /\ pc'[p] \in Sent => pc[p] \in Sent /\ ready'[p] = ready[p] /\ listed'[p] = listed[p]
      /\ file'.state \in {file.state, mem[p], EmptyState}
      /\ mem'[p] \in {file.state, mem[p], EmptyState, ResetForResync}
<1>1. TypeOK
  BY DEF RowsIInv, IInv
<1>2. CASE \/ \E f \in BOOLEAN : Launch(p, f)
           \/ NewEngine(p) \/ NewEngineFails(p) \/ ListFails(p)
  <2>1. Quiet
    BY <1>1, <1>2 DEF TypeOK, Launch, NewEngine, NewEngineFails, ListFails, CheckedState,
       Goto, Sent, Pending, storeVars, runVars, batchVars
  <2>2. QED
    BY <2>1, QuietRows
<1>3. CASE Crash(p)
  <2>1. Quiet
    BY <1>1, <1>3 DEF TypeOK, Crash, NoRun, NoBatch, Sent, Pending, storeVars
  <2>2. QED
    BY <2>1, QuietRows
<1>4. CASE ListSessions(p)
  BY <1>4, ListRows
<1>5. CASE \/ \E c \in SUBSET Sessions : NextChunk(p, c)
           \/ \E s \in Sessions : ReadMessages(p, s) \/ ReadToolCalls(p, s) \/ ReadFails(p, s)
  <2>1. Quiet
    BY <1>1, <1>5 DEF TypeOK, NextChunk, ReadMessages, ReadToolCalls, ReadFails, AfterPrepare,
       Goto, Sent, Pending, storeVars
  <2>2. QED
    BY <2>1, QuietRows
<1>6. CASE \/ SendMessages(p) \/ SendToolCalls(p) \/ WriteGitLinks(p) \/ WriteGitLinksFails(p)
  <2>1. Quiet
    BY <1>1, <1>6 DEF TypeOK, SendMessages, SendToolCalls, WriteGitLinks, WriteGitLinksFails,
       Goto, Sent, Pending, storeVars, runVars, batchVars
  <2>2. QED
    BY <2>1, QuietRows
<1>7. CASE (SendSessions(p) \/ SendFails(p)) /\ rows' = SessionsAfter(p)
  BY <1>7, SendRows
<1>8. CASE SendFails(p) /\ rows' = rows
  <2>1. Quiet
    BY <1>1, <1>8 DEF TypeOK, SendFails, NoBatch, Goto, Sent, Pending
  <2>2. QED
    BY <2>1, QuietRows
<1>9. CASE AdvanceWatermarks(p)
  BY <1>9, AdvanceRows
<1>10. CASE SaveTruncate(p) \/ SaveWrite(p)
  <2>1. Quiet
    BY <1>1, <1>10 DEF TypeOK, SaveTruncate, SaveWrite, AfterSave, Goto, Sent, Pending,
       TruncatedFile, GarbledFile, StateFile, storeVars, runVars, batchVars
  <2>2. QED
    BY <2>1, QuietRows
<1>11. CASE SaveFails(p) \/ SyncUserActions(p) \/ SyncUserActionsFails(p)
  <2>1. Quiet
    BY <1>1, <1>11 DEF TypeOK, SaveFails, SyncUserActions, SyncUserActionsFails,
       EndUserActions, NoRun, NoBatch, Goto, Sent, Pending, GarbledFile, storeVars
  <2>2. QED
    BY <2>1, QuietRows
<1>12. QED
  <2>1. SendSessions(p) => rows' = SessionsAfter(p)
    BY DEF SendSessions
  <2>2. SendFails(p) => rows' = SessionsAfter(p) \/ rows' = rows
    BY DEF SendFails
  <2>3. QED
    BY <1>2, <1>3, <1>4, <1>5, <1>6, <1>7, <1>8, <1>9, <1>10, <1>11, <2>1, <2>2
    DEF Progress, Failure, Setback, Prepare

LEMMA NextRowsIInv ==
  ASSUME ~AllowReset, \A p, q \in Procs : p = q, RowsIInv, [Next]_vars
  PROVE  RowsIInv'
<1>1. IInv' /\ TypeOK /\ TypeOK' /\ SourceInv
  BY NextIInv DEF RowsIInv, IInv
<1>2. CASE SourceStep \/ RemoveStateFile \/ UNCHANGED vars
  <2>1. /\ UNCHANGED <<rows, pc, mem, todo, listed, chunk, cur, ready>>
        /\ file' = file \/ file'.state = EmptyState
    BY <1>2 DEF SourceStep, Ingest, Touch, LateResult, ToggleMark, RemoveStateFile, vars,
       MissingFile, procVars, storeVars, runVars, batchVars
  <2>2. Extends
    <3>1. CASE SourceStep
      BY <1>1, <3>1, SourceStepExtends
    <3>2. CASE RemoveStateFile \/ UNCHANGED vars
      BY <1>1, <3>2, StoreGrows DEF RemoveStateFile, vars, sourceVars, storeVars
    <3>3. QED
      BY <1>2, <3>1, <3>2
  <2>3. ASSUME NEW p \in Procs PROVE RowsInv(p)'
    <3>1. NotAhead(EmptyState, p) /\ RowsInv(p)
      BY <1>1, EmptyCurrent DEF RowsIInv
    <3>2. QED
      BY <2>1, <3>1 DEF RowsInv, NotAhead, Pending
  <2>4. ASSUME NEW st \in Claims' PROVE RowCurrent(st)'
    <3>1. st \in Claims \/ st = EmptyState
      BY <2>1, <2>4 DEF Claims
    <3>2. st \in SyncState /\ Good(st) /\ RowCurrent(st)
      BY <1>1, <3>1, EmptyCurrent, EmptyGood, EmptyTypes, ClaimsGood
      DEF RowsIInv, Claims, TypeOK, Files
    <3>3. QED
      BY <1>1, <2>1, <2>2, <3>2, CurrentStable
  <2>5. QED
    BY <1>1, <2>3, <2>4 DEF RowsIInv
<1>3. ASSUME NEW p \in Procs, Progress(p) \/ Failure(p) PROVE RowsIInv'
  <2>1. ~LaunchReset(p)
    BY DEF LaunchReset
  <2>2. Extends
    BY <1>1, <1>3, <2>1, ProcStepExtends
  <2>3. \A q \in Procs : q = p
    OBVIOUS
  <2>4. RowsInv(p)' /\ \A st \in Claims' : RowCurrent(st)'
    BY <1>1, <1>3, <2>1, <2>2, <2>3, StepRows
  <2>5. QED
    BY <1>1, <2>3, <2>4 DEF RowsIInv
<1>4. QED
  BY <1>2, <1>3 DEF Next

\* With one process and a store that nobody drops, the row of a session that
\* RunOnce leaves out as unchanged is the one of its latest listing.
THEOREM SkippedRowsAreCurrent ==
  ASSUME ~AllowReset, \A p, q \in Procs : p = q
  PROVE  Spec => []SkippedRowIsCurrent
<1>1. RowsIInv => SkippedRowIsCurrent
  BY DEF RowsIInv, RowCurrent, SkippedRowIsCurrent
<1>2. RowsIInv /\ [Next]_vars => RowsIInv'
  BY NextRowsIInv
<1>3. QED
  BY <1>1, <1>2, InitRowsIInv, PTL DEF Spec

-----------------------------------------------------------------------------
(* The engine implements SyncReplica while nobody drops the store.         *)

\* Beyond IInv: nothing is in the store, or about to be, that is not in the source.
StoreInv ==
  /\ \A s \in Sessions : msgs[s] \subseteq 0 .. (len[s] - 1) /\ tcs[s] \subseteq calls[s]
  /\ \A p \in Procs, s \in Sessions : newTCs[p][s] \subseteq calls[s]

LEMMA InitStoreInv == Init => StoreInv
BY DEF Init, StoreInv, NoOrdinals

\* What a process inserts it has read.
LEMMA BatchExists ==
  ASSUME IInv, StoreInv, NEW p \in Procs
  PROVE  /\ \A s \in Sessions : MessagesAfter(p)[s] \subseteq 0 .. (len[s] - 1)
         /\ \A s \in Sessions : WithNewTCs(p, tcs)[s] \subseteq calls[s]
<1>1. ASSUME NEW s \in ready[p] PROVE NewMessages(p, s) \subseteq 0 .. (len[s] - 1)
  <2>1. upTo[p][s] <= len[s] /\ s \in Sessions
    BY <1>1 DEF IInv, ProcInv, ReadInv, TypeOK
  <2>2. upTo[p][s] \in Nat /\ len[s] \in Nat /\ GetLastOrdinal(mem[p], s) \in Ordinals
    BY <2>1, TypeFacts DEF IInv, GetLastOrdinal
  <2>3. QED
    BY <2>1, <2>2 DEF NewMessages, Ordinals
<1>2. QED
  BY <1>1 DEF StoreInv, MessagesAfter, WithNewTCs

LEMMA SourceGrows ==
  ASSUME TypeOK, StoreInv, SourceStep
  PROVE  /\ \A s \in Sessions : calls[s] \subseteq calls'[s] /\ len[s] <= len'[s]
         /\ \A s \in Sessions : len[s] \in Nat /\ len'[s] \in Nat
         /\ UNCHANGED <<storeVars, file, procVars>>
<1>1. CASE \E s \in Sessions, hasTool \in BOOLEAN : Ingest(s, hasTool)
  BY <1>1, BoundsAssumption DEF TypeOK, Ingest
<1>2. CASE \E s \in Sessions : Touch(s)
  BY <1>2, BoundsAssumption DEF TypeOK, Touch
<1>3. CASE \E s \in Sessions : \E o \in 0 .. (len[s] - 1) : LateResult(s, o)
  BY <1>3, BoundsAssumption DEF TypeOK, LateResult
<1>4. CASE \E k \in Kinds, m \in Marks : ToggleMark(k, m)
  BY <1>4, BoundsAssumption DEF TypeOK, ToggleMark
<1>5. QED
  BY <1>1, <1>2, <1>3, <1>4 DEF SourceStep

\* The actions of a process by what they do to the tables.
LEMMA ProcStepStore ==
  ASSUME IInv, StoreInv, ~AllowReset, NEW p \in Procs, Progress(p) \/ Failure(p)
  PROVE  /\ UNCHANGED <<len, calls>>
         /\ msgs' \in {msgs, MessagesAfter(p)}
         /\ tcs' \in {tcs, WithNewTCs(p, tcs)}
         /\ \A q \in Procs, s \in Sessions :
              newTCs'[q][s] \in {{}, newTCs[q][s]} \/ newTCs'[q][s] \subseteq calls[s]
<1>1. TypeOK
  BY DEF IInv
<1>2. CASE \/ \E f \in BOOLEAN : Launch(p, f)
           \/ NewEngine(p) \/ NewEngineFails(p) \/ Crash(p)
           \/ ListSessions(p) \/ ListFails(p) \/ \E c \in SUBSET Sessions : NextChunk(p, c)
  BY <1>1, <1>2 DEF TypeOK, Launch, NewEngine, NewEngineFails, Crash, ListSessions, ListFails,
     NextChunk, NoRun, NoBatch, NoOrdinals, sourceVars, storeVars, runVars, batchVars
<1>3. CASE \E s \in Sessions : ReadMessages(p, s) \/ ReadFails(p, s)
  BY <1>3 DEF ReadMessages, ReadFails, sourceVars, storeVars
<1>4. CASE \E s \in Sessions : ReadToolCalls(p, s)
  BY <1>1, <1>4 DEF TypeOK, ReadToolCalls, sourceVars, storeVars
<1>5. CASE \/ SendSessions(p) \/ SendMessages(p) \/ SendToolCalls(p) \/ SendFails(p)
           \/ WriteGitLinks(p) \/ WriteGitLinksFails(p) \/ AdvanceWatermarks(p)
  BY <1>1, <1>5 DEF TypeOK, SendSessions, SendMessages, SendToolCalls, SendFails,
     WriteGitLinks, WriteGitLinksFails, AdvanceWatermarks, NoBatch, NoOrdinals,
     sourceVars, storeVars, runVars, batchVars
<1>6. CASE \/ SaveTruncate(p) \/ SaveWrite(p) \/ SaveFails(p)
           \/ SyncUserActions(p) \/ SyncUserActionsFails(p)
  BY <1>1, <1>6 DEF TypeOK, SaveTruncate, SaveWrite, SaveFails, SyncUserActions,
     SyncUserActionsFails, EndUserActions, NoRun, NoBatch, NoOrdinals,
     sourceVars, storeVars, runVars, batchVars
<1>7. QED
  BY <1>2, <1>3, <1>4, <1>5, <1>6 DEF Progress, Failure, Setback, Prepare, LaunchReset

LEMMA NextStoreInv == ~AllowReset /\ IInv /\ StoreInv /\ [Next]_vars => StoreInv'
<1>1. SUFFICES ASSUME ~AllowReset, IInv, StoreInv, [Next]_vars PROVE StoreInv'
  OBVIOUS
<1>2. CASE SourceStep
  <2>1. TypeOK
    BY <1>1 DEF IInv
  <2>2. QED
    BY <1>1, <1>2, <2>1, SourceGrows DEF StoreInv, storeVars, procVars, runVars, batchVars
<1>3. ASSUME NEW p \in Procs, Progress(p) \/ Failure(p) PROVE StoreInv'
  BY <1>1, <1>3, ProcStepStore, BatchExists DEF StoreInv
<1>4. CASE RemoveStateFile \/ UNCHANGED vars
  BY <1>1, <1>4
  DEF StoreInv, RemoveStateFile, vars, sourceVars, storeVars, procVars, runVars, batchVars
<1>5. QED
  BY <1>1, <1>2, <1>3, <1>4 DEF Next

-----------------------------------------------------------------------------
(* The refinement mapping. *)

\* Acknowledged, with the tool calls of the source as an argument: the mapping
\* changes with the watermarks and with the source.
AckOf(st, toolCalls) ==
  [s \in Sessions |->
     IF st.version = SyncVersion
     THEN Items(0 .. st.wm[s].last,
                IF LateResults THEN {} ELSE {o \in toolCalls[s] : o <= st.wm[s].last})
     ELSE {}]

\* The substitutions of Replica, by name.
Source == [s \in Sessions |-> Items(0 .. (len[s] - 1), calls[s])]
Stored == [s \in Sessions |-> Items(msgs[s], tcs[s])]
Known == [p \in Procs |-> AckOf(mem[p], calls)]
Saved == AckOf(file.state, calls)

LEMMA Mapping ==
  /\ Replica!Init <=> /\ Source = Replica!Nothing /\ Stored = Replica!Nothing
                      /\ Known = [p \in Procs |-> Replica!Nothing]
                      /\ Saved = Replica!Nothing
  /\ UNCHANGED Replica!vars <=> UNCHANGED <<Source, Stored, Known, Saved>>
  /\ Replica!Produce <=> /\ \A s \in Sessions : Source[s] \subseteq Source'[s]
                         /\ UNCHANGED <<Stored, Known, Saved>>
  /\ Replica!Copy <=> /\ \A s \in Sessions : /\ Stored[s] \subseteq Stored'[s]
                                            /\ Stored'[s] \subseteq Source[s]
                      /\ UNCHANGED <<Source, Known, Saved>>
  /\ Replica!Lose <=> Saved' = Replica!Nothing /\ UNCHANGED <<Source, Stored, Known>>
<1> USE DEF Source, Stored, Known, Saved, AckOf, Acknowledged
<1>1. Replica!Init <=> /\ Source = Replica!Nothing /\ Stored = Replica!Nothing
                       /\ Known = [p \in Procs |-> Replica!Nothing]
                       /\ Saved = Replica!Nothing
  BY DEF Replica!Init
<1>2. UNCHANGED Replica!vars <=> UNCHANGED <<Source, Stored, Known, Saved>>
  BY Zenon DEF Replica!vars
<1>3. Replica!Produce <=> /\ \A s \in Sessions : Source[s] \subseteq Source'[s]
                          /\ UNCHANGED <<Stored, Known, Saved>>
  BY Zenon DEF Replica!Produce, Replica!Grows
<1>4. Replica!Copy <=> /\ \A s \in Sessions : /\ Stored[s] \subseteq Stored'[s]
                                             /\ Stored'[s] \subseteq Source[s]
                       /\ UNCHANGED <<Source, Known, Saved>>
  BY Zenon DEF Replica!Copy, Replica!Grows
<1>5. Replica!Lose <=> Saved' = Replica!Nothing /\ UNCHANGED <<Source, Stored, Known>>
  BY Zenon DEF Replica!Lose
<1>6. QED
  BY Zenon, <1>1, <1>2, <1>3, <1>4, <1>5

LEMMA ClientMapping ==
  ASSUME NEW p \in Procs
  PROVE  /\ Replica!Acknowledge(p) <=>
              /\ Known' = [Known EXCEPT ![p] = Known'[p]]
              /\ \A s \in Sessions : /\ Known[p][s] \subseteq Known'[p][s]
                                     /\ Known'[p][s] \subseteq Stored[s]
              /\ UNCHANGED <<Source, Stored, Saved>>
         /\ Replica!Forget(p) <=> /\ Known' = [Known EXCEPT ![p] = Replica!Nothing]
                                  /\ UNCHANGED <<Source, Stored, Saved>>
         /\ Replica!Load(p) <=> /\ Known' = [Known EXCEPT ![p] = Saved]
                                /\ UNCHANGED <<Source, Stored, Saved>>
         /\ Replica!Save(p) <=> /\ Saved' = Known[p]
                                /\ UNCHANGED <<Source, Stored, Known>>
<1> USE DEF Source, Stored, Known, Saved, AckOf, Acknowledged
<1>1. Replica!Acknowledge(p) <=>
        /\ Known' = [Known EXCEPT ![p] = Known'[p]]
        /\ \A s \in Sessions : /\ Known[p][s] \subseteq Known'[p][s]
                               /\ Known'[p][s] \subseteq Stored[s]
        /\ UNCHANGED <<Source, Stored, Saved>>
  BY Zenon DEF Replica!Acknowledge, Replica!Grows
<1>2. Replica!Forget(p) <=> /\ Known' = [Known EXCEPT ![p] = Replica!Nothing]
                            /\ UNCHANGED <<Source, Stored, Saved>>
  BY Zenon DEF Replica!Forget
<1>3. Replica!Load(p) <=> /\ Known' = [Known EXCEPT ![p] = Saved]
                          /\ UNCHANGED <<Source, Stored, Saved>>
  BY Zenon DEF Replica!Load
<1>4. Replica!Save(p) <=> Saved' = Known[p] /\ UNCHANGED <<Source, Stored, Known>>
  BY Zenon DEF Replica!Save
<1>5. QED
  BY Zenon, <1>1, <1>2, <1>3, <1>4

LEMMA ItemsGrow ==
  ASSUME NEW M1, NEW M2, NEW C1, NEW C2, M1 \subseteq M2, C1 \subseteq C2
  PROVE  Items(M1, C1) \subseteq Items(M2, C2)
BY DEF Items

\* A state without watermarks acknowledges nothing.
LEMMA NothingAcknowledged ==
  ASSUME TypeOK, NEW st \in {EmptyState, ResetForResync}
  PROVE  AckOf(st, calls) = Replica!Nothing
<1>1. ASSUME NEW s \in Sessions, st.version = SyncVersion
      PROVE  Items(0 .. st.wm[s].last,
                   IF LateResults THEN {} ELSE {o \in calls[s] : o <= st.wm[s].last}) = {}
  <2>1. st.wm[s].last = -1
    BY <1>1 DEF EmptyState, ResetForResync, EmptySessions, Untracked, SyncVersion
  <2>2. calls[s] \subseteq Nat
    BY TypeFacts
  <2>3. 0 .. st.wm[s].last = {} /\ {o \in calls[s] : o <= st.wm[s].last} = {}
    BY <2>1, <2>2
  <2>4. QED
    BY <2>3 DEF Items
<1>2. QED
  BY <1>1 DEF AckOf, Replica!Nothing

LEMMA InitReplica == Init => Replica!Init
<1>1. SUFFICES ASSUME Init PROVE Replica!Init
  OBVIOUS
<1>2. TypeOK
  BY <1>1, InitTypeOK
<1>3. Source = Replica!Nothing /\ Stored = Replica!Nothing
  BY <1>1 DEF Init, Source, Stored, NoCounts, NoOrdinals, Items, Replica!Nothing
<1>4. \A p \in Procs : AckOf(mem[p], calls) = Replica!Nothing
  BY <1>1, <1>2, NothingAcknowledged DEF Init
<1>5. file.state.version # SyncVersion
  BY <1>1 DEF Init, MissingFile, StateFile, EmptyState, SyncVersion, OldVersion
<1>6. Saved = Replica!Nothing
  BY <1>5 DEF Saved, AckOf, Replica!Nothing
<1>7. QED
  <2>1. Known = [p \in Procs |-> Replica!Nothing]
    BY <1>4 DEF Known
  <2>2. QED
    BY <1>3, <1>6, <2>1, Mapping

\* The source gets on, and nobody's acknowledgements are about what is new.
LEMMA SourceStepReplica == IInv /\ StoreInv /\ SourceStep => Replica!Produce
<1>1. SUFFICES ASSUME IInv, StoreInv, SourceStep PROVE Replica!Produce
  OBVIOUS
<1>2. TypeOK /\ SourceInv
  BY <1>1 DEF IInv
<1>3. /\ \A s \in Sessions : calls[s] \subseteq calls'[s] /\ len[s] <= len'[s]
      /\ \A s \in Sessions : len[s] \in Nat /\ len'[s] \in Nat
      /\ UNCHANGED <<msgs, tcs, file, mem>>
  BY <1>1, <1>2, SourceGrows DEF storeVars, procVars
<1>4. Extends
  BY <1>1, <1>2, NextTypeOK, SourceStepExtends DEF Next
<1>5. ASSUME NEW s \in Sessions PROVE Source[s] \subseteq Source'[s]
  <2>1. 0 .. (len[s] - 1) \subseteq 0 .. (len'[s] - 1)
    BY <1>3
  <2>2. QED
    BY <1>3, <2>1, ItemsGrow DEF Source
<1>6. ASSUME NEW st \in SyncState, Good(st) PROVE AckOf(st, calls') = AckOf(st, calls)
  <2>1. SUFFICES ASSUME NEW s \in Sessions, st.version = SyncVersion, ~LateResults
                 PROVE  {o \in calls'[s] : o <= st.wm[s].last}
                          = {o \in calls[s] : o <= st.wm[s].last}
    BY DEF AckOf
  <2>2. st.wm[s].last < len[s] /\ st.wm[s].last \in Ordinals
    BY <1>6, <2>1 DEF Good, GoodMark, SyncState, Watermark
  <2>3. \A o \in calls'[s] : o < len[s] => o \in calls[s]
    BY <1>4, <2>1 DEF Extends
  <2>4. calls[s] \subseteq Nat /\ calls'[s] \subseteq 0 .. (len'[s] - 1)
    BY <1>2, <1>4, TypeFacts DEF Extends
  <2>5. QED
    BY <1>3, <2>2, <2>3, <2>4 DEF Ordinals
<1>7. file.state \in SyncState /\ \A p \in Procs : mem[p] \in SyncState
  BY <1>2 DEF TypeOK, Files
<1>8. Good(file.state) /\ \A p \in Procs : Good(mem[p])
  BY <1>1 DEF IInv, ProcInv
<1>9. Known' = Known /\ Saved' = Saved
  <2>1. /\ AckOf(file.state, calls') = AckOf(file.state, calls)
        /\ \A p \in Procs : AckOf(mem[p], calls') = AckOf(mem[p], calls)
    BY <1>6, <1>7, <1>8
  <2>2. QED
    BY <1>3, <2>1 DEF Known, Saved
<1>10. Stored' = Stored
  BY <1>3 DEF Stored
<1>11. QED
  BY <1>5, <1>9, <1>10, Mapping

\* An insert.
LEMMA WriteReplica ==
  ASSUME IInv, StoreInv, ~AllowReset, NEW p \in Procs, Progress(p) \/ Failure(p),
         mem' = mem, file' = file
  PROVE  Replica!Copy
<1>1. /\ UNCHANGED <<len, calls>>
      /\ msgs' \in {msgs, MessagesAfter(p)} /\ tcs' \in {tcs, WithNewTCs(p, tcs)}
  BY ProcStepStore
<1>2. \A s \in Sessions : /\ msgs[s] \subseteq msgs'[s] /\ tcs[s] \subseteq tcs'[s]
                          /\ msgs'[s] \subseteq 0 .. (len[s] - 1) /\ tcs'[s] \subseteq calls[s]
  BY <1>1, BatchExists, TablesGrow DEF StoreInv, IInv
<1>3. \A s \in Sessions : Stored[s] \subseteq Stored'[s] /\ Stored'[s] \subseteq Source[s]
  <2>1. ASSUME NEW s \in Sessions
        PROVE  /\ Items(msgs[s], tcs[s]) \subseteq Items(msgs'[s], tcs'[s])
               /\ Items(msgs'[s], tcs'[s]) \subseteq Items(0 .. (len[s] - 1), calls[s])
    BY <1>2, ItemsGrow
  <2>2. \A s \in Sessions : /\ Stored[s] = Items(msgs[s], tcs[s])
                            /\ Stored'[s] = Items(msgs'[s], tcs'[s])
                            /\ Source[s] = Items(0 .. (len[s] - 1), calls[s])
    BY DEF Stored, Source
  <2>3. QED
    BY <2>1, <2>2
<1>4. calls' = calls /\ len' = len
  BY <1>1
<1>5. Known' = Known
  BY <1>4 DEF Known
<1>6. Saved' = Saved /\ Source' = Source
  BY <1>4 DEF Saved, Source
<1>7. QED
  BY <1>3, <1>5, <1>6, Mapping

\* A step that moves only the state a process holds, to one that counts as
\* nothing, as what the file says, or as what it was.
LEMMA ReplaceReplica ==
  ASSUME TypeOK, NEW p \in Procs, UNCHANGED <<len, calls, msgs, tcs, file>>,
         NEW st \in {mem[p], file.state, EmptyState, ResetForResync},
         mem' = [mem EXCEPT ![p] = st]
  PROVE  Replica!Forget(p) \/ Replica!Load(p) \/ UNCHANGED Replica!vars
<1>1. Known' = [Known EXCEPT ![p] = AckOf(st, calls)]
  <2>1. \A q \in Procs : mem'[q] = IF q = p THEN st ELSE mem[q]
    BY DEF TypeOK
  <2>2. \A q \in Procs : Known'[q] = IF q = p THEN AckOf(st, calls) ELSE Known[q]
    BY <2>1 DEF Known
  <2>3. QED
    BY <2>2 DEF Known
<1>2. Source' = Source /\ Stored' = Stored /\ Saved' = Saved
  BY DEF Source, Stored, Saved
<1>3. CASE st \in {EmptyState, ResetForResync}
  BY <1>1, <1>2, <1>3, NothingAcknowledged, ClientMapping
<1>4. CASE st = file.state
  BY <1>1, <1>2, <1>4, ClientMapping DEF Saved
<1>5. CASE st = mem[p]
  <2>1. Known' = Known
    BY <1>5 DEF TypeOK, Known
  <2>2. QED
    BY <1>2, <2>1, Mapping
<1>6. QED
  BY <1>3, <1>4, <1>5

\* A step that moves only the file, to what a process holds or to nothing.
LEMMA SaveReplica ==
  ASSUME TypeOK, UNCHANGED <<len, calls, msgs, tcs, mem>>,
         \/ file'.state = EmptyState
         \/ \E p \in Procs : file'.state = mem[p]
  PROVE  Replica!Lose \/ \E p \in Procs : Replica!Save(p)
<1>1. Source' = Source /\ Stored' = Stored /\ Known' = Known
  BY DEF Source, Stored, Known
<1>2. Saved' = AckOf(file'.state, calls)
  BY DEF Saved
<1>3. CASE file'.state = EmptyState
  BY <1>1, <1>2, <1>3, NothingAcknowledged, Mapping
<1>4. ASSUME NEW p \in Procs, file'.state = mem[p] PROVE Replica!Save(p)
  <2>1. Saved' = Known[p]
    BY <1>2, <1>4 DEF Known
  <2>2. QED
    BY <1>1, <2>1, ClientMapping
<1>5. QED
  BY <1>3, <1>4

\* The watermarks of a batch are advanced: what they come to cover is stored.
LEMMA AdvanceReplica ==
  ASSUME IInv, StoreInv, ~AllowReset, NEW p \in Procs, AdvanceWatermarks(p)
  PROVE  Replica!Acknowledge(p)
<1>1. TypeOK /\ IInv'
  <2>1. Next
    BY DEF Next, Progress
  <2>2. QED
    BY <2>1, NextIInv DEF IInv
<1>2. UNCHANGED <<len, calls, msgs, tcs, file>> /\ pc[p] = "mark"
  BY DEF AdvanceWatermarks, Goto, sourceVars, storeVars
<1>3. Source' = Source /\ Stored' = Stored /\ Saved' = Saved
  BY <1>2 DEF Source, Stored, Saved
<1>4. mem[p].version = SyncVersion /\ mem[p] \in SyncState
  BY <1>1, <1>2 DEF IInv, ProcInv, Syncing, TypeOK
<1>5. /\ mem'[p].version = SyncVersion
      /\ \A s \in Sessions : mem'[p].wm[s].last \in {mem[p].wm[s].last, MaxOrdinal(p, s)}
      /\ \A q \in Procs : q # p => mem'[q] = mem[q]
  BY <1>1, <1>4 DEF AdvanceWatermarks, MarkSynced, SyncState, TypeOK
<1>6. Known' = [Known EXCEPT ![p] = Known'[p]]
  <2>1. \A q \in Procs : q # p => Known'[q] = Known[q]
    BY <1>2, <1>5 DEF Known
  <2>2. QED
    BY <2>1 DEF Known
<1>7. ASSUME NEW s \in Sessions
      PROVE  Known[p][s] \subseteq Known'[p][s] /\ Known'[p][s] \subseteq Stored[s]
  <2> DEFINE last == mem[p].wm[s].last
             newLast == mem'[p].wm[s].last
             kept(o) == IF LateResults THEN {} ELSE {c \in calls[s] : c <= o}
  <2>1. last \in Ordinals /\ newLast \in Ordinals /\ last <= newLast
    <3>1. last \in Ordinals /\ MaxOrdinal(p, s) \in Ordinals /\ upTo[p][s] \in Nat
      BY <1>1, TypeFacts, MaxOrdinalType
    <3>2. last <= MaxOrdinal(p, s)
      BY <3>1 DEF MaxOrdinal, GetLastOrdinal, Ordinals
    <3>3. QED
      BY <1>5, <3>1, <3>2 DEF Ordinals
  <2>2. /\ Known[p][s] = Items(0 .. last, kept(last))
        /\ Known'[p][s] = Items(0 .. newLast, kept(newLast))
    BY <1>2, <1>4, <1>5 DEF Known, AckOf
  <2>3. 0 .. last \subseteq 0 .. newLast /\ kept(last) \subseteq kept(newLast)
    BY <1>1, <2>1, TypeFacts DEF Ordinals
  <2>4. 0 .. newLast \subseteq msgs[s] /\ kept(newLast) \subseteq tcs[s]
    BY <1>1, <1>2, <1>5 DEF IInv, ProcInv, Good, GoodMark, Covered
  <2> HIDE DEF last, newLast, kept
  <2>5. Items(0 .. last, kept(last)) \subseteq Items(0 .. newLast, kept(newLast))
    BY Zenon, <2>3, ItemsGrow
  <2>6. Items(0 .. newLast, kept(newLast)) \subseteq Items(msgs[s], tcs[s])
    BY Zenon, <2>4, ItemsGrow
  <2>7. QED
    BY <2>2, <2>5, <2>6 DEF Stored
<1>8. QED
  BY <1>3, <1>6, <1>7, ClientMapping

LEMMA StepReplica ==
  ~AllowReset /\ IInv /\ StoreInv /\ [Next]_vars => [Replica!Next]_Replica!vars
<1>1. SUFFICES ASSUME ~AllowReset, IInv, StoreInv, [Next]_vars
               PROVE  [Replica!Next]_Replica!vars
  OBVIOUS
<1>2. TypeOK
  BY <1>1 DEF IInv
<1>3. CASE SourceStep
  BY <1>1, <1>3, SourceStepReplica DEF Replica!Next
<1>4. CASE RemoveStateFile
  BY <1>2, <1>4, SaveReplica
  DEF RemoveStateFile, MissingFile, Replica!Next, sourceVars, storeVars, procVars
<1>5. ASSUME NEW p \in Procs, Progress(p) \/ Failure(p) PROVE [Replica!Next]_Replica!vars
  <2>1. CASE \/ \E f \in BOOLEAN : Launch(p, f)
             \/ NewEngine(p) \/ NewEngineFails(p) \/ Crash(p)
             \/ ListSessions(p) \/ ListFails(p)
    <3>1. \E st \in {mem[p], file.state, EmptyState, ResetForResync} :
            mem' = [mem EXCEPT ![p] = st]
      BY <1>2, <2>1 DEF TypeOK, Launch, NewEngine, NewEngineFails, Crash, ListSessions,
         ListFails, CheckedState
    <3>2. UNCHANGED <<len, calls, msgs, tcs, file>>
      BY <2>1 DEF Launch, NewEngine, NewEngineFails, Crash, ListSessions, ListFails,
         sourceVars, storeVars
    <3>3. QED
      BY <1>2, <1>5, <3>1, <3>2, ReplaceReplica DEF Replica!Next
  <2>2. CASE \/ \E c \in SUBSET Sessions : NextChunk(p, c)
             \/ \E s \in Sessions : ReadMessages(p, s) \/ ReadToolCalls(p, s) \/ ReadFails(p, s)
             \/ SendSessions(p) \/ SendMessages(p) \/ SendToolCalls(p) \/ SendFails(p)
             \/ WriteGitLinks(p) \/ WriteGitLinksFails(p)
             \/ SyncUserActions(p) \/ SyncUserActionsFails(p)
    <3>1. mem' = mem /\ file' = file
      BY <2>2 DEF NextChunk, ReadMessages, ReadToolCalls, ReadFails, SendSessions,
         SendMessages, SendToolCalls, SendFails, WriteGitLinks, WriteGitLinksFails,
         SyncUserActions, SyncUserActionsFails, EndUserActions
    <3>2. QED
      BY <1>1, <1>5, <3>1, WriteReplica DEF Replica!Next
  <2>3. CASE AdvanceWatermarks(p)
    BY <1>1, <1>5, <2>3, AdvanceReplica DEF Replica!Next
  <2>4. CASE SaveTruncate(p) \/ SaveWrite(p) \/ SaveFails(p)
    <3>1. /\ UNCHANGED <<len, calls, msgs, tcs, mem>>
          /\ file' = file \/ file'.state = EmptyState \/ file'.state = mem[p]
      BY <2>4 DEF SaveTruncate, SaveWrite, SaveFails, TruncatedFile, GarbledFile, StateFile,
         sourceVars, storeVars
    <3>2. CASE file' = file
      BY <1>1, <1>5, <3>1, <3>2, WriteReplica DEF Replica!Next
    <3>3. QED
      BY <1>2, <1>5, <3>1, <3>2, SaveReplica DEF Replica!Next
  <2>5. QED
    BY <1>1, <1>5, <2>1, <2>2, <2>3, <2>4 DEF Progress, Failure, Setback, Prepare, LaunchReset
<1>6. CASE UNCHANGED vars
  <2>1. UNCHANGED <<len, calls, msgs, tcs, mem, file>>
    BY <1>6 DEF vars, sourceVars, storeVars, procVars
  <2>2. UNCHANGED <<Source, Stored, Known, Saved>>
    BY <2>1 DEF Source, Stored, Known, Saved
  <2>3. QED
    BY <2>2, Mapping
<1>7. QED
  BY <1>1, <1>3, <1>4, <1>5, <1>6 DEF Next

\* While nobody drops the store, the sync engine is a replication as SyncReplica
\* describes it, for any number of processes, sessions and messages.
THEOREM EngineImplementsReplica ==
  ASSUME ~AllowReset
  PROVE  Spec => ImplementsReplica
<1>1. IInv /\ StoreInv /\ [Next]_vars => IInv' /\ StoreInv'
  BY NextIInv, NextStoreInv
<1>2. IInv /\ StoreInv /\ [Next]_vars => [Replica!Next]_Replica!vars
  BY StepReplica
<1>3. Init => IInv /\ StoreInv /\ Replica!Init
  BY InitIInv, InitStoreInv, InitReplica
<1>4. QED
  BY <1>1, <1>2, <1>3, PTL DEF Spec, ImplementsReplica, Replica!Spec

\* In particular, what any watermark covers is in the store, and the store has no
\* message and no tool call that the source has not.
THEOREM ReplicaIsFaithful ==
  ASSUME ~AllowReset
  PROVE  Spec => []Replica!Faithful
<1>1. ASSUME IInv, StoreInv PROVE Replica!Faithful
  <2>1. \A s \in Sessions : Items(msgs[s], tcs[s]) \subseteq Items(0 .. (len[s] - 1), calls[s])
    BY <1>1, ItemsGrow DEF StoreInv
  <2>2. ASSUME NEW st \in Claims, NEW s \in Sessions
        PROVE  Acknowledged(st)[s] \subseteq Items(msgs[s], tcs[s])
    <3>1. CASE st.version = SyncVersion
      <4>1. Covered(st, s)
        <5>1. Good(st)
          BY <1>1, ClaimsGood, Zenon
        <5>2. GoodMark(st, s)
          BY <3>1, <5>1, Zenon DEF Good
        <5>3. QED
          BY <5>2, Zenon DEF GoodMark
      <4>2. /\ 0 .. st.wm[s].last \subseteq msgs[s]
            /\ ~LateResults => {o \in calls[s] : o <= st.wm[s].last} \subseteq tcs[s]
        BY <4>1, Zenon DEF Covered
      <4> DEFINE C == IF LateResults THEN {} ELSE {o \in calls[s] : o <= st.wm[s].last}
      <4>3. Acknowledged(st)[s] = Items(0 .. st.wm[s].last, C)
        BY <3>1 DEF Acknowledged
      <4>4. C \subseteq tcs[s]
        BY <4>2
      <4> HIDE DEF C
      <4>5. Items(0 .. st.wm[s].last, C) \subseteq Items(msgs[s], tcs[s])
        BY <4>2, <4>4, ItemsGrow
      <4>6. QED
        BY <4>3, <4>5
    <3>2. QED
      BY <3>1 DEF Acknowledged
  <2>3. QED
    BY <2>1, <2>2 DEF Replica!Faithful, Replica!Grows, Claims
<1>2. IInv /\ StoreInv /\ [Next]_vars => IInv' /\ StoreInv'
  BY NextIInv, NextStoreInv
<1>3. QED
  BY <1>1, <1>2, InitIInv, InitStoreInv, PTL DEF Spec

=============================================================================
