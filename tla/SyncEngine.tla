----------------------------- MODULE SyncEngine -----------------------------
(***************************************************************************)
(* The incremental sync engine: internal/sync/engine.go and watermark.go,  *)
(* with the reads of internal/reader/reader.go and the writes of           *)
(* internal/store/clickhouse_write.go it is made of.                       *)
(*                                                                         *)
(* A set of operating-system processes (the daemon and any `agentlore      *)
(* sync` started beside it) share three things: the SQLite database that   *)
(* agentsview fills (the source), the ClickHouse database (the store), and *)
(* the watermark file sync-state.json.  Each process holds its own copy of *)
(* the watermarks, loaded when it starts.  Every statement that another    *)
(* process, the source, a failure or a crash can get in between is an      *)
(* action of its own.                                                      *)
(*                                                                         *)
(* Data is abstracted.  The messages of a session are its ordinals         *)
(* 0 .. len-1.  A session has at most one tool call per message, named by  *)
(* the message's ordinal, and every tool call yields one git link.  The    *)
(* file hash of a session is the number of the revision it was taken of.   *)
(*                                                                         *)
(* An operator named X_Y, marked "Fault", is X with a bug: some property   *)
(* below is violated once it takes the place of X.                         *)
(***************************************************************************)
EXTENDS Integers, FiniteSets

CONSTANTS
  Procs,          \* processes that may sync at the same time
  Sessions,       \* agent sessions
  Unhashed,       \* those whose file_hash column is NULL in the source
  ChunkSize,      \* syncChunkSize
  MaxLen,         \* bound: messages of a session
  MaxRev,         \* bound: revisions of a session
  OldWatermarks,  \* watermarks an older release may have left in the file
  Marks,          \* things a user can star, pin or delete
  LateResults,    \* may a tool call reach the source after its message?
  AllowReset      \* may an operator run `agentlore sync --reset-db`?

ASSUME UnhashedAssumption == Unhashed \subseteq Sessions
ASSUME ChunkSizeAssumption == ChunkSize \in Nat \ {0}
ASSUME BoundsAssumption == MaxLen \in Nat /\ MaxRev \in Nat
ASSUME FlagsAssumption == LateResults \in BOOLEAN /\ AllowReset \in BOOLEAN
ASSUME OldWatermarksAssumption ==
  OldWatermarks \subseteq [hash : Int, last : Nat \cup {-1}]

VARIABLES
  \* The source.
  rev,      \* rev[s]: revisions of session s so far, 0 when it does not exist
  len,      \* len[s]: messages of s
  calls,    \* calls[s]: ordinals of the messages of s with a tool call
  marked,   \* marked[k]: what the user has starred, pinned, deleted
  \* The store.
  rows,     \* rows[s]: hash of the listing the sessions row was written from
  msgs,     \* msgs[s]: ordinals in the messages table
  tcs,      \* tcs[s]: ordinals in the tool_calls table
  links,    \* links[s]: ordinals in the git_links table
  marks,    \* marks[k]: rows of session_stars, message_pins, session_deletes
  \* The watermark file.
  file,
  \* Each process.
  pc,       \* the statement it is about to execute
  force,    \* its --force flag (--reset-db sets it too)
  mem,      \* Engine.state
  todo,     \* the changed sessions no chunk has been cut from yet
  listed,   \* listed[p][s]: the file hash ReadSessionsSince returned
  chunk,    \* sessions of this chunk still to be prepared
  cur,      \* the session between its two reads, as a set of at most one
  ready,    \* sessions prepared without an error
  upTo,     \* upTo[p][s]: messages ReadMessagesForSession returned
  newTCs,   \* newTCs[p][s]: the tool calls kept for writing
  changed   \* did this RunOnce find a changed session?

sourceVars == <<rev, len, calls, marked>>
storeVars == <<rows, msgs, tcs, links, marks>>
batchVars == <<chunk, cur, ready, upTo, newTCs>>
runVars == <<todo, listed, changed, batchVars>>
procVars == <<pc, force, mem, runVars>>
vars == <<sourceVars, storeVars, file, procVars>>

-----------------------------------------------------------------------------
(* SyncState, the watermarks. *)

SyncVersion == 4
OldVersion == 3

\* A session without an entry: no hash equals -1, and GetLastOrdinal is -1.
Untracked == [hash |-> -1, last |-> -1]
NoHash == 0

EmptySessions == [s \in Sessions |-> Untracked]
EmptyState == [version |-> 0, wm |-> EmptySessions]

Ordinals == Nat \cup {-1}
Watermark == [hash : Int, last : Ordinals]
SyncState == [version : {0, OldVersion, SyncVersion},
              wm : [Sessions -> Watermark]]

\* Fault: only sessions without an entry count as changed.
IsSessionChanged_UntrackedOnly(st, s, hash) == st.wm[s].hash = -1
\* Fault: a session without a hash always counts as changed.
IsSessionChanged_NoHashChanged(st, s, hash) == hash = NoHash \/ st.wm[s].hash # hash
IsSessionChanged(st, s, hash) == st.wm[s].hash # hash
GetLastOrdinal(st, s) == st.wm[s].last
NeedsFullResync(st) == st.version < SyncVersion
ResetForResync == [version |-> SyncVersion, wm |-> EmptySessions]

\* The state once every session of S is marked with the hash h[s] and ordinal o[s].
MarkSynced(st, S, h, o) ==
  [st EXCEPT !.wm = [s \in Sessions |->
     IF s \in S THEN [hash |-> h[s], last |-> o[s]] ELSE @[s]]]

\* sync-state.json: absent, a parsable state, cut to length 0 by a save that
\* has not written yet, or two saves written over each other.
MissingFile == [status |-> "missing", state |-> EmptyState]
TruncatedFile == [status |-> "truncated", state |-> EmptyState]
GarbledFile == [status |-> "garbled", state |-> EmptyState]
StateFile(st) == [status |-> "state", state |-> st]
Files == [status : {"missing", "state", "truncated", "garbled"},
          state : SyncState]
Parsable(f) == f.status \in {"missing", "state"}

-----------------------------------------------------------------------------
(* What the reader returns. *)

Exists(s) == rev[s] > 0
FileHash(s) == IF s \in Unhashed THEN NoHash ELSE rev[s]

Kinds == {"stars", "pins", "deletes"}

PCs == {"down", "boot", "idle", "chunk", "read", "sessions", "messages",
        "tool_calls", "git_links", "mark", "save", "saving", "user_actions"}

TypeOK ==
  /\ rev \in [Sessions -> 0 .. MaxRev]
  /\ len \in [Sessions -> 0 .. MaxLen]
  /\ calls \in [Sessions -> SUBSET Nat]
  /\ marked \in [Kinds -> SUBSET Marks]
  /\ rows \in [Sessions -> Nat]
  /\ msgs \in [Sessions -> SUBSET Nat]
  /\ tcs \in [Sessions -> SUBSET Nat]
  /\ links \in [Sessions -> SUBSET Nat]
  /\ marks \in [Kinds -> SUBSET Marks]
  /\ file \in Files
  /\ pc \in [Procs -> PCs]
  /\ force \in [Procs -> BOOLEAN]
  /\ mem \in [Procs -> SyncState]
  /\ todo \in [Procs -> SUBSET Sessions]
  /\ listed \in [Procs -> [Sessions -> Nat]]
  /\ chunk \in [Procs -> SUBSET Sessions]
  /\ cur \in [Procs -> SUBSET Sessions]
  /\ ready \in [Procs -> SUBSET Sessions]
  /\ upTo \in [Procs -> [Sessions -> Nat]]
  /\ newTCs \in [Procs -> [Sessions -> SUBSET Nat]]
  /\ changed \in [Procs -> BOOLEAN]

NoOrdinals == [s \in Sessions |-> {}]
NoCounts == [s \in Sessions |-> 0]

Init ==
  /\ rev = NoCounts /\ len = NoCounts /\ calls = NoOrdinals
  /\ marked = [k \in Kinds |-> {}]
  /\ rows = NoCounts /\ msgs = NoOrdinals /\ tcs = NoOrdinals /\ links = NoOrdinals
  /\ marks = [k \in Kinds |-> {}]
  /\ \/ file = MissingFile
     \/ \E wm \in [Sessions -> OldWatermarks \cup {Untracked}] :
          file = StateFile([version |-> OldVersion, wm |-> wm])
  /\ pc = [p \in Procs |-> "down"]
  /\ force = [p \in Procs |-> FALSE]
  /\ mem = [p \in Procs |-> EmptyState]
  /\ todo = [p \in Procs |-> {}]
  /\ listed = [p \in Procs |-> NoCounts]
  /\ chunk = [p \in Procs |-> {}]
  /\ cur = [p \in Procs |-> {}]
  /\ ready = [p \in Procs |-> {}]
  /\ upTo = [p \in Procs |-> NoCounts]
  /\ newTCs = [p \in Procs |-> NoOrdinals]
  /\ changed = [p \in Procs |-> FALSE]

-----------------------------------------------------------------------------
(* The source: agentsview ingests transcripts, each update one SQLite      *)
(* transaction that also stores the new file hash.                         *)

\* A message is appended, with or without a tool call.
Ingest(s, hasTool) ==
  /\ len[s] < MaxLen /\ rev[s] < MaxRev
  /\ len' = [len EXCEPT ![s] = @ + 1]
  /\ rev' = [rev EXCEPT ![s] = @ + 1]
  /\ calls' = IF hasTool THEN [calls EXCEPT ![s] = @ \cup {len[s]}] ELSE calls
  /\ UNCHANGED <<marked, storeVars, file, procVars>>

\* The transcript changes without a new message: a session is created empty,
\* or only fields of its sessions row differ.
Touch(s) ==
  /\ rev[s] < MaxRev
  /\ rev' = [rev EXCEPT ![s] = @ + 1]
  /\ UNCHANGED <<len, calls, marked, storeVars, file, procVars>>

\* The result of a tool call arrives after the message that made the call.
LateResult(s, o) ==
  /\ LateResults
  /\ rev[s] < MaxRev /\ o \notin calls[s]
  /\ calls' = [calls EXCEPT ![s] = @ \cup {o}]
  /\ rev' = [rev EXCEPT ![s] = @ + 1]
  /\ UNCHANGED <<len, marked, storeVars, file, procVars>>

\* The user stars or un-stars, pins or un-pins, deletes or restores.
ToggleMark(k, m) ==
  /\ marked' = [marked EXCEPT ![k] = IF m \in @ THEN @ \ {m} ELSE @ \cup {m}]
  /\ UNCHANGED <<rev, len, calls, storeVars, file, procVars>>

-----------------------------------------------------------------------------
(* Starting and stopping a process. *)

NoBatch(p) ==
  /\ chunk' = [chunk EXCEPT ![p] = {}]
  /\ cur' = [cur EXCEPT ![p] = {}]
  /\ ready' = [ready EXCEPT ![p] = {}]
  /\ upTo' = [upTo EXCEPT ![p] = NoCounts]
  /\ newTCs' = [newTCs EXCEPT ![p] = NoOrdinals]

NoRun(p) ==
  /\ todo' = [todo EXCEPT ![p] = {}]
  /\ listed' = [listed EXCEPT ![p] = NoCounts]
  /\ changed' = [changed EXCEPT ![p] = FALSE]
  /\ NoBatch(p)

Goto(p, from, to) == pc[p] = from /\ pc' = [pc EXCEPT ![p] = to]

\* `agentlore sync [--force]` or `agentlore daemon`, up to EnsureSchema.
Launch(p, f) ==
  /\ Goto(p, "down", "boot")
  /\ force' = [force EXCEPT ![p] = f]
  /\ UNCHANGED <<sourceVars, storeVars, file, mem, runVars>>

\* `agentlore sync --reset-db`: the database is dropped and created again
\* before the engine, and with it the watermark file, is looked at.
LaunchReset(p) ==
  /\ AllowReset
  /\ Goto(p, "down", "boot")
  /\ force' = [force EXCEPT ![p] = TRUE]
  /\ rows' = NoCounts /\ msgs' = NoOrdinals /\ tcs' = NoOrdinals /\ links' = NoOrdinals
  /\ marks' = [k \in Kinds |-> {}]
  /\ UNCHANGED <<sourceVars, file, mem, runVars>>

\* Fault: the --force flag is read but the loaded state is kept.
NewEngine_KeepsState(p) ==
  /\ Goto(p, "boot", "idle")
  /\ Parsable(file)
  /\ mem' = [mem EXCEPT ![p] = file.state]
  /\ UNCHANGED <<sourceVars, storeVars, file, force, runVars>>

\* NewEngine loads the watermarks; a forced sync clears the loaded copy.
NewEngine(p) ==
  /\ Goto(p, "boot", "idle")
  /\ Parsable(file)
  /\ mem' = [mem EXCEPT ![p] =
       IF force[p] THEN ResetForResync ELSE file.state]
  /\ UNCHANGED <<sourceVars, storeVars, file, force, runVars>>

\* LoadSyncState fails on a file that does not parse, and the process exits.
NewEngineFails(p) ==
  /\ Goto(p, "boot", "down")
  /\ ~Parsable(file)
  /\ force' = [force EXCEPT ![p] = FALSE]
  /\ UNCHANGED <<sourceVars, storeVars, file, mem, runVars>>

\* The process exits or is killed, wherever it is.
Crash(p) ==
  /\ pc[p] # "down"
  /\ pc' = [pc EXCEPT ![p] = "down"]
  /\ force' = [force EXCEPT ![p] = FALSE]
  /\ mem' = [mem EXCEPT ![p] = EmptyState]
  /\ NoRun(p)
  /\ UNCHANGED <<sourceVars, storeVars, file>>

\* Someone deletes a watermark file no process can load.
RemoveStateFile ==
  /\ ~Parsable(file)
  /\ \A p \in Procs : pc[p] # "saving"
  /\ file' = MissingFile
  /\ UNCHANGED <<sourceVars, storeVars, procVars>>

-----------------------------------------------------------------------------
(* RunOnce: list and classify. *)

\* The watermarks after the version check at the head of RunOnce.
CheckedState(p) ==
  IF NeedsFullResync(mem[p]) THEN ResetForResync ELSE mem[p]

ListSessions(p) ==
  LET diff == {s \in Sessions : /\ Exists(s)
                                /\ IsSessionChanged(CheckedState(p), s, FileHash(s))}
  IN /\ Goto(p, "idle", IF diff = {} THEN "user_actions" ELSE "chunk")
     /\ mem' = [mem EXCEPT ![p] = CheckedState(p)]
     /\ todo' = [todo EXCEPT ![p] = diff]
     /\ listed' = [listed EXCEPT ![p] =
          [s \in Sessions |-> IF s \in diff THEN FileHash(s) ELSE NoHash]]
     /\ changed' = [changed EXCEPT ![p] = diff # {}]
     /\ UNCHANGED <<sourceVars, storeVars, file, force, batchVars>>

\* ReadSessionsSince fails: RunOnce returns, the version check stays done.
ListFails(p) ==
  /\ pc[p] = "idle"
  /\ mem' = [mem EXCEPT ![p] = CheckedState(p)]
  /\ UNCHANGED <<sourceVars, storeVars, file, pc, force, runVars>>

\* The next syncChunkSize sessions.  The order of the list is created_at,
\* which says nothing about the sessions, so any of them may be next.
NextChunk(p, c) ==
  /\ Goto(p, "chunk", "read")
  /\ c # {} /\ c \subseteq todo[p]
  /\ Cardinality(c) <= ChunkSize
  /\ Cardinality(c) = ChunkSize \/ c = todo[p]
  /\ todo' = [todo EXCEPT ![p] = @ \ c]
  /\ chunk' = [chunk EXCEPT ![p] = c]
  /\ UNCHANGED <<sourceVars, storeVars, file, force, mem, listed, changed,
                 cur, ready, upTo, newTCs>>

-----------------------------------------------------------------------------
(* prepareSession, for one session of the chunk after the other. *)

\* Where syncChunk goes once the sessions left of the chunk are `rest` and
\* those prepared are `good`.
AfterPrepare(rest, good) ==
  IF rest # {} THEN "read" ELSE IF good # {} THEN "sessions" ELSE "save"

ReadMessages(p, s) ==
  /\ pc[p] = "read" /\ cur[p] = {} /\ s \in chunk[p]
  /\ cur' = [cur EXCEPT ![p] = {s}]
  /\ upTo' = [upTo EXCEPT ![p][s] = len[s]]
  /\ UNCHANGED <<sourceVars, storeVars, file, pc, force, mem, todo, listed,
                 changed, chunk, ready, newTCs>>

\* A later query of its own: it sees tool calls of messages the first missed.
\* Those at or below the session's last ordinal are dropped.
ReadToolCalls(p, s) ==
  /\ cur[p] = {s}
  /\ Goto(p, "read", AfterPrepare(chunk[p] \ {s}, ready[p] \cup {s}))
  /\ cur' = [cur EXCEPT ![p] = {}]
  /\ chunk' = [chunk EXCEPT ![p] = @ \ {s}]
  /\ ready' = [ready EXCEPT ![p] = @ \cup {s}]
  /\ newTCs' = [newTCs EXCEPT ![p][s] =
       {o \in calls[s] : o > GetLastOrdinal(mem[p], s)}]
  /\ UNCHANGED <<sourceVars, storeVars, file, force, mem, todo, listed, changed, upTo>>

\* Either query fails: the session is left out of the batch.
ReadFails(p, s) ==
  /\ s \in chunk[p] /\ (cur[p] = {} \/ cur[p] = {s})
  /\ Goto(p, "read", AfterPrepare(chunk[p] \ {s}, ready[p]))
  /\ cur' = [cur EXCEPT ![p] = {}]
  /\ chunk' = [chunk EXCEPT ![p] = @ \ {s}]
  /\ upTo' = [upTo EXCEPT ![p][s] = 0]
  /\ UNCHANGED <<sourceVars, storeVars, file, force, mem, todo, listed, changed,
                 ready, newTCs>>

-----------------------------------------------------------------------------
(* WriteBatch: one insert per table, in this order, no transaction. *)

\* Fault: the filter keeps the message at the last ordinal too.
NewMessages_FromLast(p, s) == GetLastOrdinal(mem[p], s) .. (upTo[p][s] - 1)
NewMessages(p, s) == (GetLastOrdinal(mem[p], s) + 1) .. (upTo[p][s] - 1)

\* Fault: the sessions row is written only for sessions with new messages.
SessionsAfter_IfMessages(p) ==
  [s \in Sessions |-> IF s \in ready[p] /\ NewMessages(p, s) # {}
                      THEN listed[p][s] ELSE rows[s]]
SessionsAfter(p) ==
  [s \in Sessions |-> IF s \in ready[p] THEN listed[p][s] ELSE rows[s]]
MessagesAfter(p) ==
  [s \in Sessions |-> IF s \in ready[p] THEN msgs[s] \cup NewMessages(p, s) ELSE msgs[s]]
WithNewTCs(p, table) ==
  [s \in Sessions |-> IF s \in ready[p] THEN table[s] \cup newTCs[p][s] ELSE table[s]]

SendSessions(p) ==
  /\ Goto(p, "sessions", "messages")
  /\ rows' = SessionsAfter(p)
  /\ UNCHANGED <<sourceVars, msgs, tcs, links, marks, file, force, mem, runVars>>

SendMessages(p) ==
  /\ Goto(p, "messages", "tool_calls")
  /\ msgs' = MessagesAfter(p)
  /\ UNCHANGED <<sourceVars, rows, tcs, links, marks, file, force, mem, runVars>>

SendToolCalls(p) ==
  /\ Goto(p, "tool_calls", "git_links")
  /\ tcs' = WithNewTCs(p, tcs)
  /\ UNCHANGED <<sourceVars, rows, msgs, links, marks, file, force, mem, runVars>>

\* An insert returns an error, whether or not the server applied it: syncChunk
\* gives the chunk up, marks nothing and returns nil, so RunOnce saves and
\* goes on with the next chunk.
SendFails(p) ==
  /\ \/ /\ Goto(p, "sessions", "save")
        /\ rows' \in {rows, SessionsAfter(p)}
        /\ UNCHANGED <<msgs, tcs>>
     \/ /\ Goto(p, "messages", "save")
        /\ \E s \in ready[p] : NewMessages(p, s) # {}
        /\ msgs' \in {msgs, MessagesAfter(p)}
        /\ UNCHANGED <<rows, tcs>>
     \/ /\ Goto(p, "tool_calls", "save")
        /\ \E s \in ready[p] : newTCs[p][s] # {}
        /\ tcs' \in {tcs, WithNewTCs(p, tcs)}
        /\ UNCHANGED <<rows, msgs>>
  /\ NoBatch(p)
  /\ UNCHANGED <<sourceVars, links, marks, file, force, mem, todo, listed, changed>>

\* The links are extracted from the tool calls kept for writing.
WriteGitLinks(p) ==
  /\ Goto(p, "git_links", "mark")
  /\ links' = WithNewTCs(p, links)
  /\ UNCHANGED <<sourceVars, rows, msgs, tcs, marks, file, force, mem, runVars>>

\* An error here is logged, and syncChunk goes on to the watermarks.
WriteGitLinksFails(p) ==
  /\ Goto(p, "git_links", "mark")
  /\ \E s \in ready[p] : newTCs[p][s] # {}
  /\ UNCHANGED <<sourceVars, storeVars, file, force, mem, runVars>>

\* Fault: the newest ordinal is looked up in the source when the mark is made.
MaxOrdinal_Now(p, s) == len[s] - 1
\* prepareSession's maxOrdinal: the last ordinal, or that of the newest message.
MaxOrdinal(p, s) ==
  LET lastOrdinal == GetLastOrdinal(mem[p], s)
  IN IF upTo[p][s] - 1 > lastOrdinal THEN upTo[p][s] - 1 ELSE lastOrdinal

\* Fault: the hash is read again when the mark is made.
AdvanceWatermarks_Rehash(p) ==
  /\ Goto(p, "mark", "save")
  /\ mem' = [mem EXCEPT ![p] =
       MarkSynced(@, ready[p], [s \in Sessions |-> FileHash(s)],
                  [s \in Sessions |-> MaxOrdinal(p, s)])]
  /\ NoBatch(p)
  /\ UNCHANGED <<sourceVars, storeVars, file, force, todo, listed, changed>>

AdvanceWatermarks(p) ==
  /\ Goto(p, "mark", "save")
  /\ mem' = [mem EXCEPT ![p] =
       MarkSynced(@, ready[p], listed[p], [s \in Sessions |-> MaxOrdinal(p, s)])]
  /\ NoBatch(p)
  /\ UNCHANGED <<sourceVars, storeVars, file, force, todo, listed, changed>>

-----------------------------------------------------------------------------
(* SyncState.Save: os.WriteFile cuts the file to length 0, then writes it. *)

SaveTruncate(p) ==
  /\ Goto(p, "save", "saving")
  /\ file' = TruncatedFile
  /\ UNCHANGED <<sourceVars, storeVars, force, mem, runVars>>

\* After a chunk comes the next one, and after the last chunk the user actions;
\* a RunOnce that found nothing changed ends with its save.
AfterSave(p) ==
  IF todo[p] # {} THEN "chunk" ELSE IF changed[p] THEN "user_actions" ELSE "idle"

\* When another process has written since the truncation, the shorter of the
\* two texts leaves the tail of the longer one behind it.
SaveWrite(p) ==
  /\ Goto(p, "saving", AfterSave(p))
  /\ \/ file' = StateFile(mem[p])
     \/ file.status # "truncated" /\ file' = GarbledFile
  /\ UNCHANGED <<sourceVars, storeVars, force, mem, runVars>>

\* Save fails, before the truncation or with part of the text written, and
\* RunOnce returns the error.
SaveFails(p) ==
  /\ \/ Goto(p, "save", "idle") /\ UNCHANGED file
     \/ /\ Goto(p, "saving", "idle")
        /\ \/ UNCHANGED file
           \/ file.status # "truncated" /\ file' = GarbledFile
  /\ NoRun(p)
  /\ UNCHANGED <<sourceVars, storeVars, force, mem>>

-----------------------------------------------------------------------------
(* syncUserActions: for one kind of mark after the other, read it and       *)
(* insert what was read.                                                   *)

\* The kinds done when it stops early, a failed insert counted either way.
Prefixes == {{}, {"stars"}, {"stars", "pins"}, Kinds}

WithMarked(K) == [k \in Kinds |-> IF k \in K THEN marks[k] \cup marked[k] ELSE marks[k]]

\* RunOnce saves after the user actions only when nothing had changed.
EndUserActions(p) ==
  /\ Goto(p, "user_actions", IF changed[p] THEN "idle" ELSE "save")
  /\ NoRun(p)
  /\ UNCHANGED <<sourceVars, rows, msgs, tcs, links, file, force, mem>>

SyncUserActions(p) == EndUserActions(p) /\ marks' = WithMarked(Kinds)

\* A read or an insert fails: the error is logged and RunOnce goes on.
SyncUserActionsFails(p) == EndUserActions(p) /\ \E K \in Prefixes : marks' = WithMarked(K)

-----------------------------------------------------------------------------
SourceStep ==
  \/ \E s \in Sessions :
       \/ \E hasTool \in BOOLEAN : Ingest(s, hasTool)
       \/ Touch(s)
       \/ \E o \in 0 .. (len[s] - 1) : LateResult(s, o)
  \/ \E k \in Kinds, m \in Marks : ToggleMark(k, m)

Prepare(p) == \E s \in Sessions : ReadMessages(p, s) \/ ReadToolCalls(p, s)

\* The steps by which a process that meets no failure gets on.
Progress(p) ==
  \/ Launch(p, FALSE) \/ NewEngine(p)
  \/ ListSessions(p)
  \/ \E c \in SUBSET Sessions : NextChunk(p, c)
  \/ Prepare(p)
  \/ SendSessions(p) \/ SendMessages(p) \/ SendToolCalls(p)
  \/ WriteGitLinks(p) \/ AdvanceWatermarks(p)
  \/ SaveTruncate(p) \/ SaveWrite(p)
  \/ SyncUserActions(p)

\* Failures that keep a session from being written or marked.
Setback(p) ==
  \/ Launch(p, TRUE) \/ LaunchReset(p)
  \/ NewEngineFails(p) \/ ListFails(p)
  \/ \E s \in Sessions : ReadFails(p, s)
  \/ SendFails(p) \/ SaveFails(p)
  \/ Crash(p)

\* And those that RunOnce logs and passes over.
Failure(p) == Setback(p) \/ WriteGitLinksFails(p) \/ SyncUserActionsFails(p)

Next ==
  \/ SourceStep
  \/ RemoveStateFile
  \/ \E p \in Procs : Progress(p) \/ Failure(p)

Spec == Init /\ [][Next]_vars

\* A started process keeps going (the daemon's reconcileLoop asks for a sync
\* every five minutes), a dead one is started again, a broken file is removed,
\* and from some time on there is no setback any more; failures that are only
\* logged may go on for ever.
LiveSpec ==
  /\ Spec
  /\ \A p \in Procs : WF_vars(Progress(p))
  /\ WF_vars(RemoveStateFile)
  /\ <>[][~ \E p \in Procs : Setback(p)]_vars

-----------------------------------------------------------------------------
(* Properties. *)

\* The watermarks somebody may act on: those of the file and of each process.
Claims == {file.state} \cup {mem[p] : p \in Procs}

\* Every message of s up to its recorded ordinal is in the store, and so is
\* every tool call when none reaches the source later than its message.
Covered(st, s) ==
  /\ 0 .. st.wm[s].last \subseteq msgs[s]
  /\ ~LateResults => {o \in calls[s] : o <= st.wm[s].last} \subseteq tcs[s]

Sound(st) == st.version = SyncVersion => \A s \in Sessions : Covered(st, s)

\* A watermark never claims more than was written: what prepareSession filters
\* out as already synced (ordinals up to GetLastOrdinal) is in the store, after
\* any failed insert, crash, lost save or interleaving of two processes.
WatermarkSound == \A st \in Claims : Sound(st)

\* Would RunOnce, holding st, count s as unchanged and leave it alone?
Skipped(st, s) ==
  /\ st.version = SyncVersion
  /\ Exists(s) /\ s \notin Unhashed
  /\ ~IsSessionChanged(st, s, FileHash(s))

MessagesSynced(s) == 0 .. (len[s] - 1) \subseteq msgs[s]

ToolCallsSynced(s) == ~LateResults => calls[s] \subseteq tcs[s]

\* A session whose recorded hash is its current hash is completely in the
\* store, although its hash, its messages and its tool calls are read by three
\* separate queries while agentsview keeps writing.
SkippedIsSynced ==
  \A st \in Claims, s \in Sessions :
    Skipped(st, s) => MessagesSynced(s) /\ ToolCallsSynced(s)

\* With one process, a skipped session's row in the sessions table is the one of
\* its latest listing: display name and counters do not stay behind.
SkippedRowIsCurrent ==
  \A st \in Claims, s \in Sessions : Skipped(st, s) => rows[s] = FileHash(s)

\* A process started with --force or --reset-db trusts no older watermark, not
\* even when the store was dropped under the file (runSync, main.go).
ForcedRunSound ==
  \A p \in Procs : force[p] /\ pc[p] \notin {"boot", "down"} => Sound(mem[p])

\* Once the source is quiet and setbacks have stopped, everything that exists
\* in a session with a hash reaches the store.
EventuallySynced ==
  \A s \in Sessions \ Unhashed :
    <>[](MessagesSynced(s) /\ ToolCallsSynced(s))

\* Sync is idempotent (docs/testing.md, D2): once the source is quiet and
\* setbacks have stopped, no run finds a changed session any more.
EventuallyIdle == <>[](\A p \in Procs : todo[p] = {} /\ ~changed[p])

-----------------------------------------------------------------------------
(* The abstract specification this one implements while the store is not   *)
(* dropped.  An item is a message or a tool call of a session.             *)

Items(messages, toolCalls) == ({"message"} \X messages) \cup ({"tool call"} \X toolCalls)

\* The items a process that holds st takes for written.  A tool call that comes
\* late may lie below the watermark and not be written (ReadToolCalls).
Acknowledged(st) ==
  [s \in Sessions |->
     IF st.version = SyncVersion
     THEN Items(0 .. st.wm[s].last,
                IF LateResults THEN {} ELSE {o \in calls[s] : o <= st.wm[s].last})
     ELSE {}]

Replica == INSTANCE SyncReplica WITH
  Clients <- Procs,
  Collections <- Sessions,
  source <- [s \in Sessions |-> Items(0 .. (len[s] - 1), calls[s])],
  replica <- [s \in Sessions |-> Items(msgs[s], tcs[s])],
  known <- [p \in Procs |-> Acknowledged(mem[p])],
  saved <- Acknowledged(file.state)

\* The engine is such a client: whatever fails, crashes or interleaves, it writes
\* only what exists, takes nothing for written that is not, gains what it takes
\* for written only by writing or by loading the file, and loses it only
\* altogether (a crash, a forced or a version resync, a broken file).
ImplementsReplica == Replica!Spec

=============================================================================
