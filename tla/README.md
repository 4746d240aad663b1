# A TLA+ model of agentlore

agentlore copies coding-agent sessions from a developer's local agentsview
database (SQLite) into a shared ClickHouse database, and serves them to a web
browser. The modules here are translated from the source under `src/` (paths
below leave that prefix out).

## Inventory

| Component | State it keeps | Operations | Talks to |
| --- | --- | --- | --- |
| Sync engine (`internal/sync/engine.go`, `watermark.go`) | the watermarks, in memory and in `sync-state.json`: a version, and per session the file hash and the last ordinal written | `NewEngine`, `ForceResync`, `RunOnce` (`syncChunk`, `prepareSession`, `syncUserActions`), `Save` | reads the source, writes the store and the file |
| Reader (`internal/reader`) | an open SQLite handle, which optional columns exist | list sessions, messages and tool calls of one, stars, pins, deletes | the source, which agentsview keeps writing |
| Store, writing (`internal/store/clickhouse_write.go`, `schema.sql`) | seven ReplacingMergeTree tables | `WriteBatch`, `WriteGitLinks`, three writes of user actions, `ResetDatabase` | ClickHouse |
| Store, reading (`clickhouse_read.go`, `_search.go`, `_analytics.go`, `_cursor.go`) | none; a page cursor travels with the client | lists, pages, search with snippets, five reports, lookups | ClickHouse |
| Daemon (`internal/sync/daemon.go`) | the request channel, the debounce timer, the status | `Run`: watch, reconcile and writer loops; `Close` | the engine, fsnotify |
| Command line (`cmd/agentlore`) | none | `sync [--force, --reset-db]`, `daemon`, `serve` | all of the above |
| HTTP API (`internal/api`) | none | handlers over the read store | the browser |
| Git links, secrets, config (`internal/gitlinks`, `secrets`, `config`) | none | pure functions over text | the engine |
| Browser stores (`frontend/src/lib/stores`) | what is shown: list, messages, search results, dashboard, links, route | `load`, `loadMore`, `search`, `selectSession` | the API, asynchronously |
| Browser utilities and components | an LRU cache, the timer of the search bar, scroll position | grouping, parsing and layout | the stores |

What has to be right, and is hard to test:

* Engine: what a watermark claims must be in the store, whatever happened in
  between: an insert that failed or was applied although it reported an error,
  a crash between two statements, a save cut short, another process that writes
  the same file, a source that grows between the three queries that read it.
  And nothing may be left out for ever.
* Daemon: a change must not be lost between file events, a timer that is set
  again and a channel of capacity one; a signal must end in a closed daemon
  and never close the store under a running sync; the status must not hide an
  error.
* Store reads: pages neither repeat nor omit a session while rows change;
  reports, list and search agree about which sessions there are; a message read
  during a sync has its tool calls.
* Git links: each call of the extraction sees one increment of a session, and the
  table keeps the row with the largest clock reading: what is left must be
  complete, and a resync must leave what one reading of it all would.
* Browser: an answer to an old question must not be shown as one to the
  current question, and what is typed must be searched for.
* Snippets, highlights and the cache: boundaries where bytes, characters and
  UTF-16 units are not the same, and a cache at its limit.

The hazards, each at its line and with the properties that cover it, are listed
in `PROJECT.json`.

## Modules

| Module | What it is |
| --- | --- |
| `SyncReplica` | what the engine promises: a replicator with clients that remember what they copied |
| `SyncEngine` | the engine with the source, the store and the watermark file; implements `SyncReplica` |
| `MCSyncEngine` | sets of processes and sessions for the model checker |
| `SyncEngineProofs` | theorems about `SyncEngine`; its refinement of `SyncReplica` |
| `Daemon`, `DaemonProofs` | the three loops, the timer, the channel and the status; theorems |
| `MergeTree` | a ReplacingMergeTree table and `FINAL` |
| `LinkMap` | what the git link table is taken for: a map |
| `GitLinks` | the extraction of git links, their rows and the queries; implements `LinkMap` |
| `MCGitLinks`, `GitLinksProofs` | the tool calls for the model checker; theorems and the refinement |
| `SessionPages`, `SessionPagesProofs` | a client that walks the pages of the session list while rows are written; theorems |
| `StoreReads` | reports, lists, search, lookups and message reads over tables that are being filled |
| `MCStoreReads`, `StoreReadsProofs` | four batches of rows for the model checker; theorems |
| `Browser`, `BrowserProofs` | the stores and effects of the session page, and their requests in flight; theorems |
| `MCBrowser` | filters and sessions for the model checker |
| `FilteredViews` | search results and dashboard, with the bars that set the filters |
| `MCFilteredViews` | texts and filters for the model checker |
| `Snippets` | `extractSnippet` and what the browser makes of its highlights, as operators |
| `Display`, `MCDisplay` | search results and message lists as they are shown, and the LRU cache |
| `ViewsProofs` | theorems about `FilteredViews`, `Snippets` and `Display` |
| `SequenceLemmas` | what these and `BrowserProofs` use of numbers, recursion, sequences and requests in flight |

The modules describe parts that meet in few places: `SyncEngine` decides what is
written, `GitLinks` and `StoreReads` say what the tables make of it, the daemon
runs the engine, and the browser reads pages, results and reports. Each takes of
the others what it sees of them: a row written, a run that lists and then ends, a
batch, a page. `MergeTree` is what allows `SyncEngine` and `StoreReads` to take a
table for a map: `GitLinks` shows it for the table of links, whose rows are the
only ones that different inserts write with different contents in no given order.

Operators named `X_Y` and marked "Fault" are versions of `X` with a plausible
bug. They are used by no specification; with one in the place of its original,
the property named for it in `PROJECT.json` is violated, which shows that the
property depends on that part of the code.

### SyncEngine

Every process in `Procs` is an operating-system process: the daemon, or an
`agentlore sync` beside it. `pc[p]` is the statement it executes next, and
everything another process, agentsview, a failure or a crash can get in between
is a step of its own.

| In the model | In the code |
| --- | --- |
| `rev`, `len`, `calls`, `marked` | the SQLite database: revisions (of which the file hash is one) and messages of a session, which messages have a tool call, stars, pins and deletes |
| `rows`, `msgs`, `tcs`, `links`, `marks` | the ClickHouse tables: the listing a `sessions` row was written from, and the keys in the other tables |
| `file` | `sync-state.json`: missing, a state, truncated, or garbled by two writers |
| `mem[p]` | `Engine.state` |
| `todo`, `listed` | the changed sessions `RunOnce` has still to do, with the hash it listed |
| `chunk`, `cur`, `ready`, `upTo`, `newTCs` | the `preparedSession`s of `syncChunk` |
| `Launch`, `LaunchReset`, `NewEngine` | `runSync`/`runDaemon` up to the call of `RunOnce` |
| `ListSessions`, `NextChunk`, `ReadMessages`, `ReadToolCalls` | the head of `RunOnce`, its loop, the two queries of `prepareSession` |
| `SendSessions`, `SendMessages`, `SendToolCalls`, `WriteGitLinks`, `AdvanceWatermarks` | the three inserts of `WriteBatch` and the rest of `syncChunk` |
| `SaveTruncate`, `SaveWrite` | `Save`, which is `os.WriteFile` |
| `SyncUserActions` | `syncUserActions` |
| `...Fails`, `Crash` | every error return, with an insert applied or not; the end of a process at any point |

Data is abstracted: a message is its ordinal, a message has at most one tool
call, each tool call one git link, and the hash of a session is its revision
number. agentsview itself is outside the repository; it is taken to append
messages, to change a session together with its hash in one transaction, and
(with `LateResults`) to add a tool call to an older message. Other assumptions:
the store starts empty; the reads and writes of one call of `syncUserActions`
happen at once; a forced process may run again without leaving (`agentlore
sync` exits after one run, so this adds behaviours); in a run that failed to
list, the process tries again, as the daemon does.

Properties:

* `WatermarkSound`: what `prepareSession` will filter out as already written is
  in the store, for every watermark anyone may act on.
* `SkippedIsSynced`: so is all of a session `RunOnce` would skip.
* `SkippedRowIsCurrent`: and its row is that of its current revision. This holds
  for one process. A slower second process can write an older row over it.
* `ForcedRunSound`: a forced process trusts no watermark from before.
* `EventuallySynced`, `EventuallyIdle`: everything arrives, and then nothing is
  found changed any more.
* `ImplementsReplica`: with messages and tool calls as items, the watermarks of a
  process as what a client remembers, and `sync-state.json` as the notebook, every
  step is one of `SyncReplica`: an insert is `Copy`, `AdvanceWatermarks` is
  `Acknowledge`, a reset of the watermarks or the end of a process `Forget`, a
  start `Load`, the two halves of a save `Lose` and `Save`. Watermarks of another
  version than the current one remember nothing.

Two things the engine does that no property forbids, and comments in it deny:
links whose insert failed are not written again (`WriteGitLinksFails`; counted in
`GitLinks`), and stars, pins and deletes that are taken back stay in the store
(`WithMarked` only adds, while `engine.go:346` speaks of a full replace).

### Daemon

Commits of agentsview are numbered. `notified` is the latest one that put an event
into the queue of the watcher, `listed` the latest one a `RunOnce` has seen,
`synced` the latest one whose sessions are written with their messages and tool
calls, `acted` the latest one whose stars, pins and deletions are. `events`,
`armed`, `firing` are the watcher's queue, the debounce timer, and callbacks of
timers that expired before they were stopped. `syncCh` is the channel of capacity
one. Each loop is a variable that says where it is.

`RunOnce` has four phases: the listing, the chunks, the user actions, the return. It
may return an error after the listing, after a chunk or at the end
(`RunOnceFails`). Otherwise it goes on whatever fails, and the failures differ in
what they leave: a session that cannot be read and a chunk that cannot be written
are in `result.Errors` (`ChunkFails`, `errors`), from which `doSync` makes the
status; a failed write of user actions (`SyncUserActions(FALSE)`) is only logged
(`engine.go:106`, `:138`), and so is one of git links (`engine.go:186`), of which
this module has nothing more: what becomes of them is in `GitLinks`. `missed` is the
fact about the store that `errors` reports.

* `NoLostWakeup`: a commit that raised an event is listed, or a request for it
  is under way, or the status shows an error.
* `ClosedIsQuiet`: the store and the reader are not closed under a `RunOnce`.
* `StatusHonest`: an empty `LastError` between two syncs means that all the
  sessions of the latest listing were written with their messages and tool calls. It
  does not mean that their git links or the user actions were: of these the status
  shows no error.
* `CatchesUp`: whatever happens to the watcher, the daemon catches up with sessions
  and user actions.
* `ShutsDown`: a cancelled daemon closes.

### SessionPages

`start` and `browsable` are the table: the start time of each row, and the rows
that satisfy the filters of the walk. A request is two queries (`Count`,
`Select`) between which rows may be written; `cursor` is what the client sends
next, `got` and `page` what it has. A page is a set of keys, shown in the order
`Before`; a NULL start time is 0, since NULL sorts last and fails every
comparison. The cursor's time goes through `BoundTime`: the driver writes a
positional `time.Time` with whole seconds, and `Precision` says how many start
times that makes equal. `WriteRow` writes any row: the sync may insert a session,
change its start time, or change it so that it leaves or enters the list.

* `PagesDescend`: whatever is written, each page lies after all before it.
* `WalkComplete`: a walk ends with no session that never was in the list, and of
  those that were in it throughout it has missed only what a cursor cuts off of the
  rows behind it (`CutOff`, over `ends`, the cursors of the walk). Those are two
  kinds, and both disagree with `docs/testing.md` (T19, "Iterate all pages, collect
  all sessions"; D6, "matches total"):
  * sessions that started in the same second as the last one of a page and come
    after it, unless that one started at its very beginning: `started_at` is a
    `DateTime64(3)`, and the condition compares it with the whole second
    (`clickhouse_read.go:156`);
  * sessions without a start time: NULL fails the condition, so that they are on no
    page after the first, although the total counts them; and a cursor made of one
    is refused (`Refuse`).
* `WalkEnds`: no walk goes on for ever.

### GitLinks

One session whose messages each make one tool call, and one process. `Ingest`
adds a call, which is what its command is and the first matches of the two
patterns in its output, with its result or without; `LateResult` adds the result of a
call that is there already, at any moment. `Prepare` takes the calls above the
watermark and extracts the links of those that have a result; `seen` in the code
lives as long as one such extraction. A result that comes when the watermark, in the
process or in the file, or the running sync has passed its call is not asked for
again (`engine.go:234`); its keys are then `late`. `WriteBatch`
ends with `WriteGitLinks` reading the clock: all rows of a batch have that
version. `SendLinks` inserts them, `SendLinksFails` is the error that is only
logged. `Tick` and `SetClockBack` move the clock, `Merge` lets ClickHouse drop rows
that are superseded by one that stays, and `Restart` ends the process anywhere and
starts it with the watermarks of the file or, with `--force`, none.

* `LinksComplete`: each link of a synced call is found by a query, unless the
  insert of it failed (`lost`) or its result came too late (`late`), and no later
  insert made up for it. These two the code gives up, until a forced resync; that
  nothing else is missing is the property: not what is stored while a sync runs, nor
  what a crash, a repeated mention, a merge or the clock could take away.
* `ResyncIsCanonical`: after a forced resync the links are those of one extraction
  over the session, with the results that had come too late. In between they need not
  be: a later increment that mentions a pull request replaces its link, message and
  confidence included.
* `ImplementsMap`: rows, versions and merges implement `LinkMap`, in which `Put`
  overwrites, until the clock is set back.

### StoreReads

The four tables as a query with `FINAL` sees them; `sessions` is a function, the
others are sets of rows with a key (`MessageKey`, ...). A batch is what the sync
writes of one session; its four inserts are four steps, each of which may be the
last. The reports, lists, the search and the lookup are functions of the tables,
one per query of the code; a query with `ORDER BY` and `LIMIT` yields a set of
possible results (`First`), since it leaves the order of equal rows open. Only
`handleGetMessages` makes two queries and has steps of its own. A text is the set
of the terms in it. Time is days of a few moments. A time of NULL makes a group of
its own in the reports by day, which the driver reads as zero.

* `ReportsAgree`: whatever the filters, the reports count the same sessions,
  messages and tokens as the list, and name users and projects the filters offer.
* `WindowsTile`: two date ranges that meet are the whole range, without overlap.
* `LinksResolve`: nothing is stored without its session. It rests on the order of
  the inserts, and on the sync stopping at the first that fails.
* `SearchFinds`: a search finds what is in listed sessions and fits the filters,
  fills its page, and prefers messages to tool calls. A commit or pull request
  that is linked is looked up instead, without filters or limit.
* `AnswerIsWhole`: a message is returned with every tool call stored when it was
  read. It rests on the calls being read after the messages.

`TypeOK`, which says that keys are unique, is proved and not in a run. Tool calls
without an id have one key per message, so that only one of them is stored:
`OneOfEach` leaves open which.

### Browser

One action per event handler, per continuation of an awaited answer, and per
effect; an event waits until the scheduled effects have run, as it does in
JavaScript. `effects` holds those that are scheduled. What schedules them is what
Svelte tracks: the effect that selects the session of the URL has read the list,
so it runs again when the list changes; the effect that loads the list has read
the filters, so that `updateFilters` loads twice; the effect of the panel depends
on the active session as an object, not as an id (`Object`, `PanelIfChanged`).
`requests` are in flight, and any of them may be answered next, or fail.

A session in the list is a number that gives its place; the server's answers do
not change (what they do when they change is `SessionPages`). A message link is
an ordinal. Sessions have messages. The analytics page and search are
`FilteredViews`, and the results of a lookup are left out; a click on one of them
is not (`Navigate`, `SelectResult`).

* `LinksOfShown`, `LinksArrive`: the git links in the panel are those of the
  session shown, and arrive, in whatever order requests are answered.
* `SelectedIsShown`: so do a session and its messages, if no answer has been
  overtaken by a later one of its kind (`overtaken`) and none has failed. This is
  as much as the code gives: `messages.load` and `selectSession` assign whatever
  answer comes last (`messages.svelte.ts:18`, `sessions.svelte.ts:56`). A session
  picked from the lookup's results while the list is being loaded (`early`,
  `GitLinkLookup.svelte:24`) is excepted when the URL has none: it is in the old
  list, so nothing fetches it, and when the new list comes without it the panel is
  empty while its messages are held. It takes a list, a change of filters and a
  click before the answer; the attempt to prove the property without the exception
  failed at that step, before any run had met it.
* `ListIsPrefix`: the list is the beginning of the rows for the filters, if,
  besides, "Load more" was not clicked with a list request in flight. The button
  is disabled while `loading`, but `loading` is cleared by the first of two
  answers, so that such clicks do happen (`overlapped`).

No property is about the highlight of a linked message: it is set when the messages
arrive and taken away again when the session or the list arrives after them
(`DetailPanel.svelte:33`), although `docs/superpowers/session-permalinks.md:15`
has the page scroll to it.

### FilteredViews

Both pages of the frontend as far as they follow filters. The search waits for 300
ms without input (`timers`; leaving the page leaves a timer behind that nothing
stops), then asks with the filters of the moment. The header's project and the
filter bar search at once, each with its own filters only. The dashboard is loaded
by the header, by its dates, and by an effect of `App.svelte` that has read both, so
that some changes load it twice (`Loads`). The five requests of a load are one: the
code waits for all of them. `results` and `dashboard` hold the request they answer.

* `SpinnersEnd`: a spinner is shown only while a request is under way.
* `ResultsOfQuery`: when all is answered, in order, the results are those of the
  text in the search bar, and of no filter that has been left.
* `DashboardIsCurrent`: and the dashboard is that of the project and dates set.
* `TypedIsShown`: what is typed comes to be searched for and shown.

### Snippets and Display

A character has a number of bytes, a number of UTF-16 units, and a lower-case form
that may have another number of bytes. `ExtractSnippet` does what the code does: it
finds the term in the lower-cased bytes, cuts the original at that byte, counts
the characters before it, places the window, and searches in it by characters.
`BuildSnippetParts` is the browser's, in UTF-16 units. In `Display` a result is
shown, or the messages of one session after another, grouped with the help of the
cache that `isToolOnly` keeps.

* `SnippetShowsTerm`: the term is in the snippet, which is no longer than the
  window, and the highlights are its places in bytes. It is about texts where
  lower-casing keeps the bytes before the match, and about terms no longer than half
  the window; without the first the window may miss the match or, if the offset
  is beyond the text, the slice panics (`Panics`).
* `PartsAreSnippet`: the parts shown are the whole snippet, once.
* `ItemsAreMessages`: the items are the messages in order, those that only call
  tools in maximal groups, whatever the cache remembers of other sessions. A group
  is placed under its first ordinal; a link to another of its messages has nothing
  to scroll to (`MessageList.svelte:39`).
* `KeepsRecent`: the cache holds the messages looked at last, each once.
* `MarksAreTerm` is what `docs/testing.md` says: see Findings.

## Runs

| Run | Instance | Question |
| --- | --- | --- |
| `SyncPair` | 2 processes, 1 session of 2 messages and 2 revisions, old watermarks in the file | are watermarks sound, with every failure, crash and interleaving? |
| `SyncReset` | 1 process, 2 sessions in a chunk, late tool results, `--force` and `--reset-db` | does a forced run trust nothing old? |
| `SyncLive` | 1 process, 2 sessions, one without a hash, chunks of one | does everything arrive, does the engine come to rest, and is it a replicator? |
| `DaemonRun` | 3 commits, a queue of 2 events, 2 late callbacks | the daemon's safety and liveness |
| `GitLinksRun` | 2 calls of 4 kinds, results with the call or later, one commit and one pull request, 2 clock readings, 3 inserts | which links are left, whatever the increments, failures and merges? |
| `PageWalk` | 3 sessions, 3 start times or none, of which two are in one second, pages of 1 or 2, one row written | do pages repeat, omit or go on for ever? |
| `ReadsRun` | 2 sessions, each written in two ways; 2 users, a project and none, 2 days of 2 moments; pages of 1 and 3 results | do reports, lists, search and reads agree? |
| `BrowserRun` | 3 sessions of which one is never listed, 2 filter settings, pages of 1, up to 1 request in flight when the user acts | is what is shown what was selected? |
| `ViewsRun` | 2 texts or none, 2 settings of each filter, one date range, up to 1 request in flight when the user acts | are results and dashboard those of what is set? |
| `DisplayRun` | texts of up to 5 out of 4 characters, 4 terms, a window of 3; lists of up to 3 out of 5 messages, a cache of 2 | are snippets, highlights, parts and groups right? |
| `ResetLosesSessions`, `HighlightsMisplaced` | smallest that shows the behaviour | the findings below |

Bounds. `MaxLen` and `MaxRev` bound messages and revisions of a session: two of each
are enough for an update that arrives between any two reads or writes of a run and
another that does not. Two processes are enough for one to be overtaken by the
other; two sessions are enough for a chunk that is full, one that is not, one with a
session that could not be read, and a second chunk after a failed one.
`OldWatermarks` holds a watermark of an older release that claims more than was ever
written. In the daemon, three commits let one fall before the watcher is added, one
into the debounce interval and one into a running sync; the queue of two events
overflows; two callbacks can be late together. Three sessions on pages of one or two
put an equal, an earlier or a missing start time, or one within the same second, on
either side of a page's edge, and with `Precision = 2` a page ends at the beginning
of a second or within it; one write during a walk moves a row over the cursor in
either direction, or out of the list. In the browser, an action may send three
requests, so that with one in flight before it up to four race; two filter settings
list two pages and one, and a session in neither list has to be fetched.

Two calls let a link be mentioned within one increment, across two, and be read
again by a resync, and let one result come late before, during or after the sync of
the other; with four kinds of them each pair of a commit, a pull request created,
one merely mentioned, and nothing occurs. Two readings of the clock and three
inserts put equal, larger and smaller versions on one key, with a third insert that
makes up for either. The batches of `ReadsRun` have a session at the last moment of
a day and one at the first of the next, one without a time, one of a subagent, a
message without a model, a session with two links, a session with none, and two
calls with one key; a page of one cuts every result, one of three cuts some. In
`ViewsRun` an action may send three requests, so that with one in flight up to four
race. Texts in `DisplayRun` are as long as it takes to have dots before and behind
the window; of the characters one has more UTF-16 units than one, one gets longer in
lower case and one shorter. The lists have more tool-only messages, and more keys,
than the cache has room for.

The processes and sessions are symmetric where the configuration says so, which
is never in a run with a liveness property.

`DaemonRun` allows deadlock: a closed daemon takes no step, and that is its end.

Fairness. In `SyncEngine`, a process that is up keeps going (the ticker of the
daemon asks for a sync every five minutes), one that is down is started again, a
file that does not parse is removed by its owner, and from some time on there is no
`Setback`: no crash, no failed read, insert or save, no forced restart. Nothing is
assumed about which of them happen before, about the failures the code only logs
(git links, user actions), which may go on for ever, or about the source, which has
finitely many revisions. In `Daemon`, a goroutine that can run does, timers and the
ticker fire, `RunOnce` returns, and does not fail for ever. Commits, signals and the
choice of `select` among ready cases are free, except that a done context is not
passed over for ever. For `CatchesUp`, which is about user actions, too, writing
these does not fail for ever either. In `SessionPages` the client asks on until the
walk ends, and a query that is sent again and again is answered some time. In
`FilteredViews` a timer fires and the oldest request ends, by an answer or a
failure; in which order answers come is free. `Browser` has no liveness property:
what should be there is stated of the states in which nothing is in flight.

## Findings

* `ResetLosesSessions`: `--reset-db` drops the database before the watermark
  file is touched (`cmd/agentlore/main.go:196`), and the forced resync is in
  memory only until the first save. If the process ends before, later runs skip
  every unchanged session, which the store no longer has.
* `HighlightsMisplaced`: the highlights of a snippet are in bytes
  (`clickhouse_search.go:206`), and the browser slices by them in UTF-16 units
  (`SearchResultItem.svelte:30`): behind any character that is not ASCII the marks
  are too far right.

Other disagreements that were met are named where they are left out of a property:
links whose insert failed (against the comment at `engine.go:191`, "Advance
watermarks only for successfully written sessions") and those of late results
(`GitLinks`), failures the status does not show (`Daemon`), marks taken back
(`SyncEngine`), undated sessions and those in the second a page ends in
(`SessionPages`, against T19 and D6 of `docs/testing.md`), overtaken answers and the
highlight of a linked message (`Browser`), the lookup that ignores filters
(`StoreReads`), the window that misses its match (`Display`).

## Proofs

All theorems hold for every value of the constants that satisfies the named
assumptions.

`SyncEngineProofs` proves `TypeCorrect`, `WatermarksAreSound` and
`SkippedSessionsAreSynced`. The latter two assume `~AllowReset`: with
`--reset-db` they are false, as `ResetLosesSessions` shows. The invariants are
not inductive: a watermark is made from what a process read several steps
earlier. `IInv` adds what each process knows meanwhile:

* of a session it has read (`ReadInv`): it read at most what the source has now,
  and if the hash it listed is still the current one, all of it;
* of a session it prepared (`ReadyInv`): the tool calls it kept are those above
  its last ordinal up to what it read, and after each insert the rows of that
  insert are in the store;
* the states in the file and in memory are `Good`: covered, and complete if
  their hash is current.

The store only grows without a reset and the source only grows, so a step of one
process, or of the source, disturbs nothing another one knows. That is one lemma
(`Extends`), used for every action.

`ForcedRunsAreSound` is about the deployments `IInv` does not hold for. Where the
store may be dropped, the file and whoever loads it claim too much; but a process
with a force flag loads nothing, and what it knows it has read and written itself.
`ForcedInv` therefore keeps the part of `IInv` about a process for the forced ones
only, and says that a process that has loaded nothing yet holds nothing (`Rested`).
The assumption is that nobody drops the store (`~AllowReset`) or that there is one
process: with two, one `--reset-db` drops the store under the forced run of the
other, and the property is false.

`SkippedRowsAreCurrent` assumes one process and `~AllowReset`; with two, the slower
one writes an older row over a newer one. `RowsIInv` adds to `IInv` that what the
file and the process claim of a session that is still to be marked is no newer than
its listing (`NotAhead`), and that after the first insert the rows are those of the
listing. So when a late insert writes an older revision than the source has, no
claim is of the current one.

`EngineImplementsReplica`, in the same module, proves that `SyncEngine` implements
`SyncReplica`, again for `~AllowReset`: a reset takes items away from the replica,
which no step of `SyncReplica` does. The proof maps each action to its step, or to
none, and uses `IInv` in one place, where a watermark advances: what it now claims
has been inserted. `ReplicaIsFaithful` is the short invariant of the abstract
specification.

`DaemonProofs` proves `TypeCorrect`, `WakeupsAreKept`, `CloseIsSafe` and
`StatusIsHonest`. `NoLostWakeup` needs two strengthenings: what is true before
`Run` has started (`Phases`), and `NoLostWakeupWriting`, that during a sync the
request for a later commit is under way even if an earlier error still shows,
since the end of this sync may clear it. `StatusHonest` needs `Reported`: until
`doSync` looks at the result, a session that was not written is in it.

`SessionPagesProofs` proves `TypeCorrect`, `PagesAreDescending` and
`WalksAreComplete`, for any precision of the driver. The invariant says that all the
keys taken so far come before or at the cursor, the cursor among them, and that every
key that was there all the time has been taken, lies after the cursor, or was cut off
at the end of some page (`Missed`).

`SequenceLemmas` knows nothing of the program. `Latest(q, kinds)` is the last request
of some kinds in `q`, as a set of at most one; lemmas say what it is after a request is
sent, after the latest one is answered, and after another one is. The two modules
below state what is true "of the latest request, or of what its answer left". Others
are about recursion: a function that makes each value of the one before exists
(`PathExists`), and so does one that looks on behind what it finds (`SearchExists`),
which finds members that are apart and misses none that is (`SearchFinds`). The rest
is about sequences that lose an element, are joined (`FlattenAppend`) or are cut.

`BrowserProofs` proves `TypeCorrect`, `LinksAreOfShown`, `LinksOfShownArrive`,
`SelectionIsShown` and `ListShowsRows`, for any sessions, filters, page size and any
number of requests in flight, where `BrowserRun` has at most four. The invariants
are about all states, with effects scheduled and answers missing:

* `LinksInv`, `LinksComing`: while the effect of the panel is not scheduled, the
  links held are none or those of the session shown, and these are there or asked
  for. Every step that makes another session the shown one schedules that effect.
* `MessagesInv`: the latest request for messages, or the one answered last, is for
  the active session. `ActiveInv`: the active session is in the list, or the latest
  request for a session, or the one answered last, is for it; or the effect that
  selects the session of the URL is scheduled. `UnroutedInv`: where the URL has no
  session, nothing is on its way that may replace the list.
* `ListInv`: the latest request for the list is a load for the filters set, or is to
  be sent by a scheduled effect; or it is the only one and asks for the page at the
  cursor; or there is none, and the list and the cursor are what the server has
  (`Shows`). Its lemmas are about `InOrder`: a set of rows has one order
  (`OrderExists`, `OrderUnique`), and the rows after a cursor are a page and the
  rows after its last (`RowsAfter`, `NextPage`).

`ViewsProofs` proves of `FilteredViews` `SpinnersStandForRequests`,
`ResultsAreOfQuery` and `DashboardShowsFilters`, for any texts, filters and requests
in flight. The invariant says of the latest search, and of the latest load of the
dashboard, what the properties say of the last answer.

Of `Display`, for any characters of one to four bytes and one or two UTF-16 units with
any lower case (`CharsAssumption`), any contents and terms made of them, any window and
capacity that are not zero, and any messages, it proves the four properties that
`DisplayRun` checks of seven characters, a window of three and a cache of two:

* `SnippetAlwaysShowsTerm`. `Width` is the last value of a recursive function, and the
  width of a piece is what that function differs by at its ends (`WidthOfSlice`). So
  the characters counted for a number of bytes are those before the match, if the
  bytes are those of a beginning of the text (`CharsOfPrefix`); the window is in the
  content, as wide as can be, and has the match in it (`WindowFacts`), at its place
  less the window's beginning (`MatchInWindow`); and the highlights are what a loop
  finds in the window, in bytes (`HighlightsShow`). `Kept`, the assumption about lower-
  casing and the length of the term, is needed in `WindowFacts` only.
* `PartsAlwaysSnippet`. Highlights are neither empty nor overlapping, since the places
  found are a term apart and every character has a byte (`HighlightsApart`). Nothing
  more is needed of them, not that they are where the term is: parts between ends cover
  all units (`PartsCover`), which is why the browser's mistake about their unit loses
  no text.
* `CacheAlwaysRecent`. `Recent(cache, used)` says it element by element: the entries
  are the last of the keys, and each has the right value. There is a lemma for each way
  `isToolOnly` goes: a hit (`RecentAgain`), a key that was dropped before, which shows
  that the cache is full (`RecentBack`), and a key that is new (`RecentNew`); `Looked`
  combines them with the fact that a key tells all that the answer depends on
  (`KeyTells`).
* `ItemsAlwaysMessages`. By `Looked` the cache never changes an answer. `Built` is the
  invariant of the loop: closed items and open group are the messages so far, the last
  closed item is a message, and the group has only tool calls; `BuiltStep` is one turn,
  `BuiltAll` all of them.

The invariant of the state, `DisplayInv`, says that the snippet and parts are made of the
result by the code, that the cache is `Recent` and that the items fit the messages.

`GitLinksProofs` proves `TypeCorrect`, `LinksAreComplete`, `ResyncsAreCanonical` and
`TableImplementsMap`. Its invariant says of the process that a batch is the
extraction of what it read, and what the calls have come to show since is accounted
for (`Accounted`: in the table, lost or late, which no step takes away); and of the
table that each row is of a call that shows its key, that each key has a row which
no other supersedes (`HasFinal`), and that no row is of a later insert or, unless
the clock was set back, of a later version than the next one will be. With it an
insert is a `Put` (`LatestInsertWins`), a merge changes nothing a query sees
(`MergeKeepsFinal`), and keys are complete even if the clock goes back.

`StoreReadsProofs` proves `TypeCorrect`, `StoredResolve`, `AnswersAreWhole`,
`RangesTile`, `SearchesFind` and `ReportsAddUp`. The invariant ties the step of the
sync to what is in the tables: after the first insert the session of the batch is
stored; and during a request the calls that were stored when the messages were read
are still there, or others in their place, since an insert replaces only row by row.
`SearchesFind` needs finite tables besides, and counts: a first list cut at the
limit leaves no room for the second, one that is not cut is whole (`PageOfTwo`). It
assumes that no message is a tool call (`TablesAssumption`), as rows of two tables.

`ReportsAddUp` proves `ReportsAgree` for any number of sessions, filters and days. It
rests on lemmas about sums over finite sets, which the library does not have: that the
fold of the community modules is a sum (`SumNext`), in whatever order it adds
(`SumMember`), that the sums of groups add up to the whole (`SumOfGroups`), and that a
report with one row for each key has the total of what it groups (`ReportTotal`,
`ReportCount`). For each report it remains to show that its rows have different keys
and which session is in which group.

The model checker ran each of these invariants before it was proved. Induction is on
numbers where it is needed (`LeastNat`: a set of numbers that is not empty has a
least one, the counterexample to be refuted) or on finite sets (`SmallestSet`, the
same with a smallest set); the theorems of the library that take
the induction hypothesis as an operator cannot be used with these provers.

Only model-checked: the liveness properties (`EventuallySynced`, `EventuallyIdle`,
`CatchesUp`, `ShutsDown`, `WalkEnds`, `TypedIsShown`), as the prover does not do
fairness. Every invariant and every action property that a passing run checks is a
theorem.

## Not modelled

* Secret masking and the text parser of the browser: regular expressions over text,
  without state. Of the patterns of git links, the first match is modelled.
* Configuration and identity: read once at start-up, from a file, the environment
  and git.
* `runServe`, routing, middleware, and handlers that pass one query of one table
  through (`GetSession`, `ListAgents`, stars, pins and deletes).
* Opening the source and probing for optional columns; `WriteSession`, which only
  tests call.
* The results of the browser's git link lookup, its theme, layout and formatting.
* Ranking: there is none but the start time. That ClickHouse finds a term with the
  case of ASCII folded and Go with that of Unicode, so that a result may have no
  highlight, is in `Snippets` as a content without a match.

## Order of work

The engine came first, since everything else shows what it has written; then the
daemon that runs it, the pages, and the browser; then what the tables make of the
writes (`MergeTree`, `GitLinks`), the reads over several tables, and the pure
algorithms; and for each of them the theorems. What could be added: `Daemon`
composed with `SyncReplica` in the place of its two-step `RunOnce`.
