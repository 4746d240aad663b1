------------------------------ MODULE GitLinks ------------------------------
(***************************************************************************)
(* The way of a git link: from the tool calls of a session through         *)
(* ExtractGitLinks (internal/gitlinks/extract.go), once per sync and over  *)
(* what is new to it, and WriteGitLinks with its version taken from the    *)
(* wall clock (internal/store/clickhouse_write.go), into the git_links     *)
(* table, and out of it with FINAL (GetSessionGitLinks).                   *)
(*                                                                         *)
(* One session and one process that syncs it.  Its messages each make one  *)
(* tool call, so that a call is named by the ordinal of its message; the   *)
(* result of a call is stored with it or later.  What the sync does        *)
(* besides is SyncEngine.                                                  *)
(***************************************************************************)
EXTENDS MergeTree, FiniteSets, Sequences

CONSTANTS
  Shas,         \* commit hashes
  URLs,         \* addresses of pull requests
  None,         \* no match
  CallKinds,    \* the tool calls that can occur
  MaxCalls,     \* bound: tool calls of the session
  MaxTime,      \* bound: the wall clock
  MaxInserts    \* bound: inserts into the table

\* A tool call as ExtractGitLinks sees it: what its command is, and the first
\* matches of the two patterns in its result, once there is one.  Calls of other
\* tools than Bash match nothing.
ToolCalls == [isCommit : BOOLEAN, isPRCreate : BOOLEAN,
              sha : Shas \cup {None}, url : URLs \cup {None}]

ASSUME CallKindsAssumption == CallKinds \subseteq ToolCalls
ASSUME MatchesAssumption == None \notin Shas \cup URLs /\ Shas \cap URLs = {}
ASSUME BoundsAssumption == MaxCalls \in Nat /\ MaxTime \in Nat /\ MaxInserts \in Nat

VARIABLES
  calls,    \* the tool calls in the source, in the order of their messages
  done,     \* those whose result the source has, too
  mem,      \* the process's watermark: how many of them it takes for synced
  file,     \* the watermark in sync-state.json
  pc,       \* the statement the process executes next
  upTo,     \* how many calls prepareSession read
  batch,    \* the links it extracted
  version,  \* the version WriteGitLinks gives them
  now,      \* the wall clock, in milliseconds
  table,    \* git_links
  inserts,  \* how many inserts it has had
  \* What has happened so far, for the properties.
  read,     \* the calls whose result the source had when prepareSession read it
  lost,     \* keys of links whose insert failed, and that were not written since
  late,     \* keys that came too late for the sync of their message, likewise
  setBack   \* the clock was set back

sourceVars == <<calls, done>>
batchVars == <<upTo, batch, version, read>>
processVars == <<mem, file, pc, batchVars>>
tableVars == <<table, inserts, lost, late>>
clockVars == <<now, setBack>>
vars == <<sourceVars, processVars, tableVars, clockVars>>

-----------------------------------------------------------------------------
(* ExtractGitLinks. *)

Keys == ({"commit"} \X Shas) \cup ({"pr"} \X URLs)
Links == [key : Keys, ordinal : Nat, confidence : {"high", "medium"}]

\* Fault: an output without an address makes a link, too.
KeysOf_NoMatch(c) ==
  {<<"commit", x>> : x \in IF c.isCommit THEN {c.sha} \ {None} ELSE {}} \cup {<<"pr", c.url>>}
\* The links a call is good for: a hash counts in the output of `git commit`
\* only, the address of a pull request in that of any command.
KeysOf(c) ==
  {<<"commit", x>> : x \in IF c.isCommit THEN {c.sha} \ {None} ELSE {}}
    \cup {<<"pr", x>> : x \in {c.url} \ {None}}

Link(o, k) ==
  [key |-> k, ordinal |-> o,
   confidence |-> IF k[1] = "commit" \/ calls[o].isPRCreate THEN "high" ELSE "medium"]

\* Those of the o-th call, when the results of just the calls in `have` are there.
KeysShown(o, have) == IF o \in have THEN KeysOf(calls[o]) ELSE {}

\* The keys that the o-th call is the first to have, of the calls from one on:
\* `seen` lets a key make one link.
NewKeys(from, o, have) ==
  {k \in KeysShown(o, have) : \A j \in from .. (o - 1) : k \notin KeysShown(j, have)}

\* The links of the calls from one to another.
Extract(from, to, have) == UNION {{Link(o, k) : k \in NewKeys(from, o, have)} : o \in from .. to}

-----------------------------------------------------------------------------
KeysIn(S) == {x.key : x \in S}

LinkIn(r) == [key |-> r.key, ordinal |-> r.ordinal, confidence |-> r.confidence]

\* Fault: the query lacks FINAL.
Visible_NoFinal(rows) == {LinkIn(r) : r \in rows}
\* The links GetSessionGitLinks returns.
Visible(rows) == {LinkIn(r) : r \in Final(rows)}

Rows == [key : Keys, ordinal : Nat, confidence : {"high", "medium"},
         version : 0 .. MaxTime, insert : Nat]

TypeOK ==
  /\ calls \in Seq(ToolCalls)
  /\ done \subseteq 1 .. Len(calls) /\ read \subseteq done
  /\ mem \in 0 .. Len(calls) /\ file \in 0 .. Len(calls) /\ upTo \in 0 .. Len(calls)
  /\ pc \in {"idle", "batch", "send", "mark", "save"}
  /\ batch \subseteq Links
  /\ version \in 0 .. MaxTime /\ now \in 0 .. MaxTime
  /\ table \subseteq Rows
  /\ inserts \in Nat
  /\ lost \subseteq Keys /\ late \subseteq Keys
  /\ setBack \in BOOLEAN

Init ==
  /\ calls = << >> /\ done = {}
  /\ mem = 0 /\ file = 0 /\ upTo = 0
  /\ pc = "idle" /\ batch = {} /\ version = 0 /\ read = {}
  /\ now = 0 /\ setBack = FALSE
  /\ table = {} /\ inserts = 0 /\ lost = {} /\ late = {}

-----------------------------------------------------------------------------
(* The world around the process. *)

\* agentsview stores a message with a tool call, and its result if it is there.
Ingest(c, whole) ==
  /\ Len(calls) < MaxCalls
  /\ calls' = Append(calls, c)
  /\ done' = done \cup {o \in {Len(calls) + 1} : whole}
  /\ UNCHANGED <<processVars, tableVars, clockVars>>

\* agentsview stores the result of a call that it has stored before.  Where the
\* watermark of the process or of the file has passed the call, or the running
\* sync has read it already, no later sync asks for it again.
TooLate(o) == o <= mem \/ o <= file \/ o <= upTo

LateResult(o) ==
  /\ o \in 1 .. Len(calls) \ done
  /\ done' = done \cup {o}
  /\ late' = IF TooLate(o) THEN late \cup KeysOf(calls[o]) ELSE late
  /\ UNCHANGED <<calls, processVars, table, inserts, lost, clockVars>>

Tick ==
  /\ now < MaxTime
  /\ now' = now + 1
  /\ UNCHANGED <<sourceVars, processVars, tableVars, setBack>>

SetClockBack ==
  /\ now' \in 0 .. (now - 1)
  /\ setBack' = TRUE
  /\ UNCHANGED <<sourceVars, processVars, tableVars>>

\* ClickHouse merges parts of the table when it likes.
Merge ==
  /\ table' \in SUBSET table \ {table}
  /\ IsMerge(table, table')
  /\ UNCHANGED <<sourceVars, processVars, inserts, lost, late, clockVars>>

-----------------------------------------------------------------------------
(* The process. *)

Goto(from, to) == pc = from /\ pc' = to

\* prepareSession: the tool calls above the watermark, and their links.
Prepare ==
  /\ mem < Len(calls)
  /\ Goto("idle", "batch")
  /\ upTo' = Len(calls)
  /\ batch' = Extract(mem + 1, Len(calls), done) /\ read' = done
  /\ UNCHANGED <<sourceVars, mem, file, version, tableVars, clockVars>>

NoBatch == upTo' = 0 /\ batch' = {} /\ version' = 0 /\ read' = {}

\* WriteBatch succeeds, and WriteGitLinks reads the clock if there are links.
WriteBatch ==
  /\ Goto("batch", IF batch = {} THEN "mark" ELSE "send")
  /\ version' = now
  /\ UNCHANGED <<sourceVars, mem, file, upTo, batch, read, tableVars, clockVars>>

\* It fails, and the watermark stays.
WriteBatchFails ==
  /\ Goto("batch", "save")
  /\ NoBatch
  /\ UNCHANGED <<sourceVars, mem, file, tableVars, clockVars>>

RowOf(l) ==
  [key |-> l.key, ordinal |-> l.ordinal, confidence |-> l.confidence,
   version |-> version, insert |-> inserts + 1]

\* Fault: a link the table already has is not written again.
Inserted_IfMissing == {RowOf(l) : l \in {x \in batch : x.key \notin KeysIn(table)}}
Inserted == {RowOf(l) : l \in batch}

SendLinks ==
  /\ inserts < MaxInserts
  /\ Goto("send", "mark")
  /\ table' = table \cup Inserted
  /\ inserts' = inserts + 1
  /\ lost' = lost \ KeysIn(batch) /\ late' = late \ KeysIn(batch)
  /\ UNCHANGED <<sourceVars, mem, file, batchVars, clockVars>>

\* The insert fails: syncChunk logs it, and goes on to the watermark.  (When the
\* server has applied it in spite of the error, the step is SendLinks.)
SendLinksFails ==
  /\ Goto("send", "mark")
  /\ lost' = lost \cup KeysIn(batch)
  /\ UNCHANGED <<sourceVars, mem, file, batchVars, table, inserts, late, clockVars>>

\* Fault: the watermark is set to what the source has by now.
MarkSynced_All ==
  /\ Goto("mark", "save")
  /\ mem' = Len(calls)
  /\ NoBatch
  /\ UNCHANGED <<sourceVars, file, tableVars, clockVars>>

MarkSynced ==
  /\ Goto("mark", "save")
  /\ mem' = upTo
  /\ NoBatch
  /\ UNCHANGED <<sourceVars, file, tableVars, clockVars>>

Save ==
  /\ Goto("save", "idle")
  /\ file' = mem
  /\ UNCHANGED <<sourceVars, mem, batchVars, tableVars, clockVars>>

\* The process ends, and is started again with the watermarks of the file or,
\* with --force, without any.
Restart ==
  /\ pc' = "idle"
  /\ mem' \in {file, 0}
  /\ NoBatch
  /\ UNCHANGED <<sourceVars, file, tableVars, clockVars>>

-----------------------------------------------------------------------------
Next ==
  \/ \E c \in CallKinds, whole \in BOOLEAN : Ingest(c, whole)
  \/ \E o \in 1 .. Len(calls) : LateResult(o)
  \/ Tick \/ SetClockBack \/ Merge
  \/ Prepare \/ WriteBatch \/ WriteBatchFails
  \/ SendLinks \/ SendLinksFails
  \/ MarkSynced \/ Save \/ Restart

Spec == Init /\ [][Next]_vars

-----------------------------------------------------------------------------
(* Properties. *)

\* Every commit and pull request in the result of a synced tool call has a link,
\* unless the insert of its link failed or the result came after the sync of its
\* message, and no later insert made up for it: those two cases the code gives
\* up (engine.go:186 and :234), and nothing else takes a link away, not a
\* repeated mention, a crash, a call stored while the sync runs, a merge or the
\* clock.
LinksComplete ==
  \A o \in 1 .. mem : KeysShown(o, done) \subseteq KeysIn(Visible(table)) \cup lost \cup late

\* As long as the clock has not been set back, a forced resync leaves exactly the
\* links of the session read as a whole, whatever earlier increments, of which
\* each saw a part of it, have left in the table; results that had come too late
\* are among them.
ResyncIsCanonical ==
  [][SendLinks /\ mem = 0 /\ ~setBack => Visible(table') = Extract(1, upTo, read)]_vars

\* The table, its duplicates and merges are a map that the last write wins.
Map == INSTANCE LinkMap WITH
  links <- Visible(table),
  trusted <- ~setBack

ImplementsMap == Map!Spec

=============================================================================
