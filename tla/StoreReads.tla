----------------------------- MODULE StoreReads ------------------------------
(***************************************************************************)
(* The queries of the store that put several tables together, while the    *)
(* sync fills them: the reports of internal/store/clickhouse_analytics.go, *)
(* Search (clickhouse_search.go) behind handleSearch (internal/api/        *)
(* search.go), LookupGitLinks and handleGetMessages with its two queries.  *)
(*                                                                         *)
(* A table is what a query with FINAL sees of it; the versions behind that *)
(* are MergeTree's and GitLinks', the pages of the session list are        *)
(* SessionPages', and what the sync chooses to write is SyncEngine's.      *)
(***************************************************************************)
EXTENDS Integers, FiniteSets, Functions

CONSTANTS
  Users, Projects,  \* of sessions
  NoName,           \* the project of a session outside of any
  All,              \* a filter that is not set
  Days,             \* 1 .. number of days
  TicksPerDay,      \* times of a day that are told apart
  Texts,            \* what can be searched for
  References,       \* those of them that look like a commit hash or a pull request
  Batches,          \* what the sync can write
  NoBatch,
  TopN,             \* rows of a report with a LIMIT
  Limits,           \* what a search may ask for
  MaxLimit          \* the largest page of a search

\* NULL, or the empty text; a time that is NULL compares with nothing.
Null == 0
Times == Null .. (TicksPerDay * Cardinality(Days))

Sessions == {b.session : b \in Batches}
Rows ==  \* of the sessions table: is it a subagent's, has a user written in it, ...
  [user : Users, project : Projects, child : BOOLEAN, replied : BOOLEAN, at : Times,
   messages : Nat, tokens : Nat]
Messages == UNION {b.messages : b \in Batches}
ToolCalls == UNION {b.calls : b \in Batches}
Links == UNION {b.links : b \in Batches}

ASSUME DaysAssumption == TicksPerDay \in Nat \ {0} /\ IsFiniteSet(Days) /\ Days = 1 .. Cardinality(Days)
ASSUME NumbersAssumption == TopN \in Nat /\ MaxLimit \in Nat \ {0} /\ Limits \subseteq Int
ASSUME FiltersAssumption == NoName \in Projects /\ All \notin Users \cup Projects \cup Days
ASSUME ReferencesAssumption == References \subseteq Texts
ASSUME BatchesAssumption ==
  /\ NoBatch \notin Batches
  /\ \A b \in Batches :
       /\ b.row \in Rows
       /\ \A x \in b.messages \cup b.calls \cup b.links : x.session = b.session
       /\ \A m, n \in b.messages : m.ordinal = n.ordinal => m = n
       /\ IsFiniteSet(b.messages) /\ IsFiniteSet(b.calls) /\ IsFiniteSet(b.links)
\* Rows of two tables are never the same.
ASSUME TablesAssumption == Messages \cap ToolCalls = {}

VARIABLES
  sessions,   \* the four tables; this one is a function from ids to rows
  messages,
  toolCalls,
  links,
  \* WriteBatch and WriteGitLinks.
  batch,
  step,       \* the insert they come to
  \* A request for the messages of a session.
  phase,
  read,       \* the messages it has read
  answer,     \* the messages it returns, each with its tool calls
  \* For the properties.
  stored      \* the tool calls there were when it read the messages

tables == <<sessions, messages, toolCalls, links>>
reader == <<phase, read, answer, stored>>
vars == <<tables, batch, step, reader>>

\* The sort keys of the tables: a later row takes the place of one with its key.
MessageKey(m) == <<m.session, m.ordinal>>
CallKey(c) == <<c.session, c.ordinal, c.id>>
LinkKey(l) == <<l.session, l.to>>

TypeOK ==
  /\ DOMAIN sessions \subseteq Sessions /\ \A s \in DOMAIN sessions : sessions[s] \in Rows
  /\ messages \subseteq Messages /\ toolCalls \subseteq ToolCalls /\ links \subseteq Links
  /\ \A m, n \in messages : MessageKey(m) = MessageKey(n) => m = n
  /\ \A c, d \in toolCalls : CallKey(c) = CallKey(d) => c = d
  /\ batch \in Batches \cup {NoBatch}
  /\ step \in {"collect", "sessions", "messages", "calls", "links"}
  /\ phase \in {"idle", "calls", "done"}
  /\ read \subseteq Messages /\ stored \subseteq ToolCalls
  /\ answer \subseteq [message : Messages, calls : SUBSET ToolCalls]

-----------------------------------------------------------------------------
(* The conditions of the queries. *)

FirstOf(day) == (day - 1) * TicksPerDay + 1

\* Fault: the first moment of the day after counts, too.
Until_Closed(row, day) ==
  day = All \/ (row.at # Null /\ row.at <= FirstOf(day + 1))
\* s.started_at < toDate(day) + 1
Until(row, day) ==
  day = All \/ (row.at # Null /\ row.at < FirstOf(day + 1))

Since(row, day) ==
  day = All \/ (row.at # Null /\ row.at >= FirstOf(day))

\* An empty name is no filter.
Filters == [user : Users \cup {All}, project : (Projects \ {NoName}) \cup {All},
            from : Days \cup {All}, to : Days \cup {All}]

\* Those the five handlers of the dashboard read from a request.
DashboardFilters == {f \in Filters : f.user = All}

Fits(row, f) ==
  /\ f.user \in {row.user, All} /\ f.project \in {row.project, All}
  /\ Since(row, f.from) /\ Until(row, f.to)

\* The sessions the list and the reports are about: not those of subagents, nor
\* those no user has written in.
Browsable(f) ==
  {s \in DOMAIN sessions :
     ~sessions[s].child /\ sessions[s].replied /\ Fits(sessions[s], f)}

\* What the filters can be set to.
NoFilters == [user |-> All, project |-> All, from |-> All, to |-> All]
ListUsers == {sessions[s].user : s \in Browsable(NoFilters)}
ListProjects == {sessions[s].project : s \in Browsable(NoFilters)} \ {NoName}

Sum(f(_), S) == SumFunctionOnSet([s \in S |-> f(s)], S)

\* ORDER BY f DESC LIMIT n, which leaves equal rows to the database: the results
\* it may have.
First(S, f(_), n) ==
  {T \in SUBSET S :
     /\ Cardinality(T) = IF Cardinality(S) < n THEN Cardinality(S) ELSE n
     /\ \A t \in T, s \in S \ T : f(t) >= f(s)}

-----------------------------------------------------------------------------
(* The reports. *)

MessagesOf(s) == sessions[s].messages
TokensOf(s) == sessions[s].tokens
CommitsOf(s) == Cardinality({l \in links : l.session = s})

\* Fault: the links themselves are joined, not their count.
UsageByUser_Joined(f) ==
  LET listed == Browsable(f)
      group(u, p) == {s \in listed : sessions[s].user = u /\ sessions[s].project = p}
      width(s) == IF CommitsOf(s) = 0 THEN 1 ELSE CommitsOf(s)
  IN {[user |-> g[1], project |-> g[2],
       sessions |-> Sum(width, group(g[1], g[2])),
       messages |-> Sum(LAMBDA s : width(s) * MessagesOf(s), group(g[1], g[2])),
       tokens |-> Sum(LAMBDA s : width(s) * TokensOf(s), group(g[1], g[2])),
       commits |-> Sum(CommitsOf, group(g[1], g[2]))]
      : g \in {<<sessions[s].user, sessions[s].project>> : s \in listed}}

UsageByUser(f) ==
  LET listed == Browsable(f)
      group(u, p) == {s \in listed : sessions[s].user = u /\ sessions[s].project = p}
  IN {[user |-> g[1], project |-> g[2],
       sessions |-> Cardinality(group(g[1], g[2])),
       messages |-> Sum(MessagesOf, group(g[1], g[2])),
       tokens |-> Sum(TokensOf, group(g[1], g[2])),
       commits |-> Sum(CommitsOf, group(g[1], g[2]))]
      : g \in {<<sessions[s].user, sessions[s].project>> : s \in listed}}

\* Sessions without a start time make a group of their own.
DayOf(s) == IF sessions[s].at = Null THEN Null ELSE ((sessions[s].at - 1) \div TicksPerDay) + 1
HourOf(s) == IF sessions[s].at = Null THEN Null ELSE ((sessions[s].at - 1) % TicksPerDay) + 1

WeekdayOf(s) == IF DayOf(s) = Null THEN Null ELSE ((DayOf(s) - 1) % 7) + 1

DailyActivity(f) ==
  LET listed == Browsable(f)
      group(d) == {s \in listed : DayOf(s) = d}
  IN {[date |-> d, sessions |-> Cardinality(group(d)),
       messages |-> Sum(MessagesOf, group(d)), tokens |-> Sum(TokensOf, group(d))]
      : d \in {DayOf(s) : s \in listed}}

ActivityHeatmap(f) ==
  {[day |-> c[1], hour |-> c[2],
    sessions |-> Cardinality({s \in Browsable(f) : WeekdayOf(s) = c[1] /\ HourOf(s) = c[2]})]
   : c \in {<<WeekdayOf(s), HourOf(s)>> : s \in Browsable(f)}}

\* The tool calls and messages that are joined with a session.
CallsIn(f) == {c \in toolCalls : c.session \in Browsable(f)}
MessagesIn(f) == {m \in messages : m.session \in Browsable(f)}

ToolUsageDistribution(f) ==
  First({[tool |-> t, uses |-> Cardinality({c \in CallsIn(f) : c.tool = t})]
         : t \in {c.tool : c \in CallsIn(f)}}, LAMBDA r : r.uses, TopN)

\* Messages without a model or without tokens are not counted.
Spent(f) == {m \in MessagesIn(f) : m.model # Null /\ m.tokens > 0}
TokenUsageByModel(f) ==
  First({[model |-> x, tokens |-> Sum(LAMBDA m : m.tokens, {m \in Spent(f) : m.model = x}),
          messages |-> Cardinality({m \in Spent(f) : m.model = x})]
         : x \in {m.model : m \in Spent(f)}}, LAMBDA r : r.tokens, TopN)

-----------------------------------------------------------------------------
(* Search. *)

\* Fault: tool calls of all sessions are searched.
Hits_AnyTool(q, f) ==
  [messages |-> {m \in MessagesIn(f) : q \in m.text},
   calls |-> {c \in toolCalls : q \in c.text}]
\* The rows of the two queries of Search.
Hits(q, f) ==
  [messages |-> {m \in MessagesIn(f) : q \in m.text},
   calls |-> {c \in CallsIn(f) : q \in c.text}]

Started(x) == sessions[x.session].at

\* Both go newest first and as far as the limit, and so does what is left of them
\* put together, messages first.
SearchPages(q, f, n) ==
  UNION {{M \cup C : C \in First(Hits(q, f).calls, Started, n - Cardinality(M))}
         : M \in First(Hits(q, f).messages, Started, n)}

\* The session of a link is joined.
LookupGitLinks(q) == {l \in links : l.to = q /\ l.session \in DOMAIN sessions}

Clamp(n) == IF n < 1 THEN 1 ELSE IF n > MaxLimit THEN MaxLimit ELSE n

\* handleSearch: a commit or a pull request is looked up, with neither filters nor
\* a limit, and searched for as a text only when nothing is linked to it.
HandleSearch(q, f, n) ==
  IF q \in References /\ LookupGitLinks(q) # {}
    THEN {LookupGitLinks(q)} ELSE SearchPages(q, f, Clamp(n))

-----------------------------------------------------------------------------
(* The sync. *)

Init ==
  /\ sessions = [s \in {} |-> 0] /\ messages = {} /\ toolCalls = {} /\ links = {}
  /\ batch = NoBatch /\ step = "collect"
  /\ phase = "idle" /\ read = {} /\ answer = {} /\ stored = {}

Collect(b) ==
  /\ step = "collect" /\ step' = "sessions"
  /\ batch' = b
  /\ UNCHANGED <<tables, reader>>

\* Fault: what is stored of a session goes before it is written again.
InsertSessions_Clear ==
  /\ step = "sessions" /\ step' = "messages"
  /\ sessions' = [s \in DOMAIN sessions \cup {batch.session} |->
                    IF s = batch.session THEN batch.row ELSE sessions[s]]
  /\ messages' = {m \in messages : m.session # batch.session}
  /\ toolCalls' = {c \in toolCalls : c.session # batch.session}
  /\ UNCHANGED <<links, batch, reader>>

\* WriteBatch: three inserts.
InsertSessions ==
  /\ step = "sessions" /\ step' = "messages"
  /\ sessions' = [s \in DOMAIN sessions \cup {batch.session} |->
                    IF s = batch.session THEN batch.row ELSE sessions[s]]
  /\ UNCHANGED <<messages, toolCalls, links, batch, reader>>

\* A table after rows with keys have been inserted.
Inserted(table, rows, key(_)) ==
  rows \cup {t \in table : \A r \in rows : key(r) # key(t)}

InsertMessages ==
  /\ step = "messages" /\ step' = "calls"
  /\ messages' = Inserted(messages, batch.messages, MessageKey)
  /\ UNCHANGED <<sessions, toolCalls, links, batch, reader>>

\* Calls of a message without an id have one key: any of them may be the one that
\* stays, the source does not say in which order they come.
OneOfEach(rows, key(_)) ==
  {kept \in SUBSET rows :
     \A r \in rows : \E k \in kept : {j \in kept : key(j) = key(r)} = {k}}

InsertToolCalls ==
  /\ step = "calls" /\ step' = "links"
  /\ \E kept \in OneOfEach(batch.calls, CallKey) :
       toolCalls' = Inserted(toolCalls, kept, CallKey)
  /\ UNCHANGED <<sessions, messages, links, batch, reader>>

\* WriteGitLinks, once WriteBatch has succeeded.
InsertLinks ==
  /\ step = "links" /\ step' = "collect"
  /\ links' = Inserted(links, batch.links, LinkKey)
  /\ batch' = NoBatch
  /\ UNCHANGED <<sessions, messages, toolCalls, reader>>

\* Fault: the next insert is tried.
InsertFails_GoesOn ==
  /\ step = "sessions"
  /\ step' = "messages"
  /\ UNCHANGED <<tables, batch, reader>>

\* An insert fails, or the process ends: nothing is inserted after it.
InsertFails ==
  /\ step # "collect" /\ step' = "collect"
  /\ batch' = NoBatch
  /\ UNCHANGED <<tables, reader>>

-----------------------------------------------------------------------------
(* The request. *)

CallsOf(s) == {c \in toolCalls : c.session = s}

\* GetSessionMessages
ReadMessages(s) ==
  /\ phase = "idle" /\ phase' = "calls"
  /\ read' = {m \in messages : m.session = s}
  /\ stored' = CallsOf(s)
  /\ UNCHANGED <<tables, batch, step, answer>>

\* GetSessionToolCalls, and each message with those of its ordinal; a call whose
\* message was not read is left out.
ReadToolCalls ==
  /\ phase = "calls" /\ phase' = "done"
  /\ answer' = {[message |-> m,
                 calls |-> {c \in CallsOf(m.session) : c.ordinal = m.ordinal}] : m \in read}
  /\ UNCHANGED <<tables, batch, step, read, stored>>

Answered ==
  /\ phase = "done" /\ phase' = "idle"
  /\ read' = {} /\ answer' = {} /\ stored' = {}
  /\ UNCHANGED <<tables, batch, step>>

-----------------------------------------------------------------------------
Next ==
  \/ \E b \in Batches : Collect(b)
  \/ InsertSessions \/ InsertMessages \/ InsertToolCalls \/ InsertLinks \/ InsertFails
  \/ \E s \in Sessions : ReadMessages(s)
  \/ ReadToolCalls \/ Answered

Spec == Init /\ [][Next]_vars

-----------------------------------------------------------------------------
(* Properties. *)

Total(reports, f(_)) == Sum(f, reports)

\* Whatever the filters, the reports of the dashboard add up to the same sessions,
\* messages and tokens, and these to what the session list counts: no join makes a
\* session count twice, and none drops one without links or a start time.
ReportsAgree ==
  \A f \in DashboardFilters :
    LET usage == UsageByUser(f)
        daily == DailyActivity(f)
        count == Cardinality(Browsable(f))
    IN /\ count = Total(usage, LAMBDA r : r.sessions)
       /\ count = Total(daily, LAMBDA r : r.sessions)
       /\ count = Total(ActivityHeatmap(f), LAMBDA r : r.sessions)
       /\ Total(usage, LAMBDA r : r.messages) = Total(daily, LAMBDA r : r.messages)
       /\ Total(usage, LAMBDA r : r.tokens) = Total(daily, LAMBDA r : r.tokens)
       /\ Total(usage, LAMBDA r : r.commits)
            = Cardinality({l \in links : l.session \in Browsable(f)})
       \* Nothing is reported under a name that the filters do not offer.
       /\ {r.user : r \in usage} \subseteq ListUsers
       /\ {r.project : r \in usage} \subseteq ListProjects \cup {NoName}
       \* The two with a LIMIT add up as long as it does not cut them.
       /\ \A T \in ToolUsageDistribution(f) :
            \/ Cardinality(T) = TopN
            \/ Total(T, LAMBDA r : r.uses) = Cardinality(CallsIn(f))
       /\ \A T \in TokenUsageByModel(f) :
            \/ Cardinality(T) = TopN
            \/ Total(T, LAMBDA r : r.messages) = Cardinality(Spent(f))

\* A range of days is the sum of its parts, wherever it is cut: at midnight a
\* session belongs to exactly one of two ranges that meet.
WindowsTile ==
  \A d, e, g \in Days :
    LET Window(x, y) == Browsable([user |-> All, project |-> All, from |-> x, to |-> y])
    IN d <= e /\ e < g =>
         /\ Window(d, e) \cap Window(e + 1, g) = {}
         /\ Window(d, e) \cup Window(e + 1, g) = Window(d, g)

\* The lookup joins the session of a link, and the messages are shown under one:
\* whichever insert fails, neither is stored without it (clickhouse_read.go:447).
LinksResolve ==
  /\ \A l \in links : l \in LookupGitLinks(l.to)
  /\ \A x \in messages \cup toolCalls : x.session \in DOMAIN sessions

\* A search for a text that is not a reference, without dates and by user or by
\* project but not by both, finds messages and tool calls of the sessions in the
\* list for its filters only, as many of the hits as the limit has room for, and
\* no tool call in the place of a message.
SearchFinds ==
  \A q \in Texts, n \in Limits,
     f \in {g \in Filters : g.from = All /\ g.to = All /\ All \in {g.user, g.project}} :
    LET hits == {x \in messages \cup toolCalls :
                   q \in x.text /\ x.session \in Browsable(f)}
    IN q \notin References =>
         \A R \in HandleSearch(q, f, n) :
           /\ R \subseteq hits
           /\ R = hits \/ Cardinality(R) = Clamp(n)
           /\ \A x \in R \cap toolCalls : hits \cap messages \subseteq R

\* A message is returned with every tool call that was stored when it was read, or
\* what has taken its place, whatever the sync inserts between the two queries.
AnswerIsWhole ==
  phase = "done" =>
    \A a \in answer : \A c \in stored :
      c.ordinal = a.message.ordinal => \E d \in a.calls : CallKey(d) = CallKey(c)

=============================================================================
