------------------------------- MODULE Daemon -------------------------------
(***************************************************************************)
(* The daemon process: internal/sync/daemon.go, started and closed by      *)
(* runDaemon in cmd/agentlore/main.go.                                     *)
(*                                                                         *)
(* Three goroutines and a timer meet in syncCh, a channel of capacity one: *)
(* watchLoop turns file events into a debounced request, reconcileLoop     *)
(* asks every five minutes, writerLoop takes requests and runs the engine; *)
(* Run starts them and waits for them.  Of the engine there are the phases *)
(* of RunOnce and what each reports: the listing of the sessions, the      *)
(* chunks, the user actions, the return (what it reads and writes is in    *)
(* the module SyncEngine).  Commits of agentsview to its database are      *)
(* numbered, so that `listed`, `synced` and `acted` can be compared.       *)
(*                                                                         *)
(* An operator named X_Y, marked "Fault", is X with a bug: some property   *)
(* below is violated once it takes the place of X.                         *)
(***************************************************************************)
EXTENDS Integers

CONSTANTS
  MaxCommits,  \* bound: commits to the SQLite database
  MaxEvents,   \* length of the queue of file events
  MaxFiring    \* bound: timer callbacks running at the same time

ASSUME BoundsAssumption ==
  MaxCommits \in Nat /\ MaxEvents \in Nat \ {0} /\ MaxFiring \in Nat \ {0}

VARIABLES
  commits,    \* commits to the SQLite database so far
  notified,   \* the latest commit that put an event into the queue
  run,        \* where runDaemon is
  running,    \* DaemonStatus.Running
  cancelled,  \* the context of Run is cancelled
  watch,      \* where watchLoop is
  events,     \* file events queued by fsnotify
  armed,      \* debounceTimer is set and has not expired
  firing,     \* callbacks of expired timers that have not sent yet
  reconcile,  \* where reconcileLoop is
  ticked,     \* the ticker's channel holds a tick
  syncCh,     \* the channel holds a request
  writer,     \* where writerLoop is
  listed,     \* the commit the latest listing of the sessions has seen
  missed,     \* some session of that listing was not written
  errors,     \* result.Errors of the current RunOnce is not empty
  synced,     \* the latest commit whose sessions, messages and calls are written
  acted,      \* the latest commit whose stars, pins and deletions are written
  lastError   \* DaemonStatus.LastError # ""

sourceVars == <<commits, notified>>
runVars == <<run, running, cancelled>>
watchVars == <<watch, events, armed>>
tickVars == <<reconcile, ticked>>
engineVars == <<listed, missed, errors, synced, acted, lastError>>
writerVars == <<writer, engineVars>>
vars == <<sourceVars, runVars, watchVars, firing, tickVars, syncCh, writerVars>>

TypeOK ==
  /\ commits \in 0 .. MaxCommits /\ notified \in 0 .. commits
  /\ run \in {"init", "waiting", "returned", "closed"}
  /\ running \in BOOLEAN /\ cancelled \in BOOLEAN
  /\ watch \in {"off", "starting", "watching", "exited"}
  /\ events \in 0 .. MaxEvents
  /\ armed \in BOOLEAN /\ firing \in 0 .. MaxFiring
  /\ reconcile \in {"off", "looping", "exited"} /\ ticked \in BOOLEAN
  /\ syncCh \in BOOLEAN
  /\ writer \in {"off", "waiting", "listing", "writing", "acting", "returning", "exited"}
  /\ listed \in 0 .. commits /\ synced \in 0 .. listed /\ acted \in 0 .. commits
  /\ missed \in BOOLEAN /\ errors \in BOOLEAN /\ lastError \in BOOLEAN
  /\ watch # "watching" => events = 0 /\ ~armed  \* they go with the loop

Init ==
  /\ commits = 0 /\ notified = 0
  /\ run = "init" /\ running = FALSE /\ cancelled = FALSE
  /\ watch = "off" /\ events = 0 /\ armed = FALSE /\ firing = 0
  /\ reconcile = "off" /\ ticked = FALSE
  /\ syncCh = FALSE
  /\ writer = "off" /\ listed = 0 /\ missed = FALSE /\ errors = FALSE
  /\ synced = 0 /\ acted = 0 /\ lastError = FALSE

-----------------------------------------------------------------------------
(* The surroundings. *)

\* agentsview commits.  Only a watcher that has been added gets an event, and
\* the kernel drops the event when the queue is full.
Commit ==
  /\ commits < MaxCommits
  /\ commits' = commits + 1
  /\ IF watch = "watching" /\ events < MaxEvents
     THEN events' = events + 1 /\ notified' = commits'
     ELSE UNCHANGED <<events, notified>>
  /\ UNCHANGED <<runVars, watch, armed, firing, tickVars, syncCh, writerVars>>

\* SIGINT or SIGTERM.
Cancel ==
  /\ run = "waiting" /\ ~cancelled
  /\ cancelled' = TRUE
  /\ UNCHANGED <<sourceVars, run, running, watchVars, firing, tickVars, syncCh, writerVars>>

-----------------------------------------------------------------------------
(* Run and Close. *)

\* Run sets the status, asks for a first sync and starts the three loops.
RunStart ==
  /\ run = "init"
  /\ run' = "waiting" /\ running' = TRUE
  /\ syncCh' = TRUE
  /\ watch' = "starting" /\ reconcile' = "looping" /\ writer' = "waiting"
  /\ UNCHANGED <<sourceVars, cancelled, events, armed, firing, ticked, engineVars>>

\* Fault: Run returns on cancellation without waiting for the loops.
AllExited_NoWait == cancelled
AllExited == watch = "exited" /\ reconcile = "exited" /\ writer = "exited"

\* <-ctx.Done(), then wg.Wait().
RunReturn ==
  /\ run = "waiting" /\ cancelled /\ AllExited
  /\ run' = "returned" /\ running' = FALSE
  /\ UNCHANGED <<sourceVars, cancelled, watchVars, firing, tickVars, syncCh, writerVars>>

\* The reader and the store are closed.
Close ==
  /\ run = "returned"
  /\ run' = "closed"
  /\ UNCHANGED <<sourceVars, running, cancelled, watchVars, firing, tickVars, syncCh,
                 writerVars>>

-----------------------------------------------------------------------------
(* watchLoop. *)

\* NewWatcher and watcher.Add; when one fails the loop is gone and the daemon
\* goes on without it.
WatchStart(ok) ==
  /\ watch = "starting"
  /\ watch' = IF ok THEN "watching" ELSE "exited"
  /\ UNCHANGED <<sourceVars, runVars, events, armed, firing, tickVars, syncCh, writerVars>>

\* Stop the pending timer, if any, and set a new one.  A callback that has
\* already begun is not stopped.
HandleEvent ==
  /\ watch = "watching" /\ events > 0
  /\ events' = events - 1
  /\ armed' = TRUE
  /\ UNCHANGED <<sourceVars, runVars, watch, firing, tickVars, syncCh, writerVars>>

\* Fault: the pending timer is not stopped.
WatchExit_NoStop ==
  /\ watch = "watching" /\ cancelled
  /\ watch' = "exited" /\ events' = 0
  /\ UNCHANGED <<sourceVars, runVars, armed, firing, tickVars, syncCh, writerVars>>

\* The pending timer is stopped, and the queue goes with the watcher.
WatchExit ==
  /\ watch = "watching" /\ cancelled
  /\ watch' = "exited" /\ events' = 0 /\ armed' = FALSE
  /\ UNCHANGED <<sourceVars, runVars, firing, tickVars, syncCh, writerVars>>

TimerExpires ==
  /\ armed /\ firing < MaxFiring
  /\ armed' = FALSE /\ firing' = firing + 1
  /\ UNCHANGED <<sourceVars, runVars, watch, events, tickVars, syncCh, writerVars>>

\* Fault: a request is dropped while a sync is under way.
Request_UnlessBusy == syncCh' = (syncCh \/ writer = "waiting")
\* Send to syncCh, or do nothing when it holds a request already.
Request == syncCh' = TRUE

TimerCallback ==
  /\ firing > 0
  /\ firing' = firing - 1
  /\ Request
  /\ UNCHANGED <<sourceVars, runVars, watchVars, tickVars, writerVars>>

-----------------------------------------------------------------------------
(* reconcileLoop. *)

Tick ==
  /\ reconcile = "looping" /\ ~ticked
  /\ ticked' = TRUE
  /\ UNCHANGED <<sourceVars, runVars, watchVars, firing, reconcile, syncCh, writerVars>>

\* Fault: a tick asks for a sync only when the last one failed.
ReconcileTick_OnError ==
  /\ reconcile = "looping" /\ ticked
  /\ ticked' = FALSE
  /\ syncCh' = (syncCh \/ lastError)
  /\ UNCHANGED <<sourceVars, runVars, watchVars, firing, reconcile, writerVars>>

ReconcileTick ==
  /\ reconcile = "looping" /\ ticked
  /\ ticked' = FALSE
  /\ Request
  /\ UNCHANGED <<sourceVars, runVars, watchVars, firing, reconcile, writerVars>>

ReconcileExit ==
  /\ reconcile = "looping" /\ cancelled
  /\ reconcile' = "exited"
  /\ UNCHANGED <<sourceVars, runVars, watchVars, firing, ticked, syncCh, writerVars>>

-----------------------------------------------------------------------------
(* writerLoop and doSync. *)

\* select may take a request although the context is done.
TakeRequest ==
  /\ writer = "waiting" /\ syncCh
  /\ writer' = "listing" /\ syncCh' = FALSE
  /\ UNCHANGED <<sourceVars, runVars, watchVars, firing, tickVars, engineVars>>

\* Fault: the context is looked at only when a request comes.
WriterExit_OnRequest ==
  /\ writer = "waiting" /\ cancelled /\ syncCh
  /\ writer' = "exited"
  /\ UNCHANGED <<sourceVars, runVars, watchVars, firing, tickVars, syncCh, engineVars>>

WriterExit ==
  /\ writer = "waiting" /\ cancelled
  /\ writer' = "exited"
  /\ UNCHANGED <<sourceVars, runVars, watchVars, firing, tickVars, syncCh, engineVars>>

\* RunOnce starts with an empty result and reads the sessions.
RunOnceLists ==
  /\ writer = "listing"
  /\ writer' = "writing" /\ listed' = commits
  /\ missed' = FALSE /\ errors' = FALSE
  /\ UNCHANGED <<sourceVars, runVars, watchVars, firing, tickVars, syncCh, synced, acted,
                 lastError>>

\* Fault: a failed WriteBatch is logged and skipped.
ChunkFails_Logged ==
  /\ writer = "writing" /\ ~missed
  /\ missed' = TRUE
  /\ UNCHANGED <<sourceVars, runVars, watchVars, firing, tickVars, syncCh, writer, listed,
                 errors, synced, acted, lastError>>

\* A session cannot be read, or the WriteBatch of its chunk fails (as it does
\* under a cancelled context); RunOnce goes on.
ChunkFails ==
  /\ writer = "writing" /\ ~missed
  /\ missed' = TRUE /\ errors' = TRUE
  /\ UNCHANGED <<sourceVars, runVars, watchVars, firing, tickVars, syncCh, writer, listed,
                 synced, acted, lastError>>

\* The last chunk is done.  Its git links may have failed: syncChunk logs that
\* and keeps nothing of it (see GitLinks).
ChunksDone ==
  /\ writer = "writing"
  /\ writer' = "acting"
  /\ synced' = IF missed THEN synced ELSE listed
  /\ UNCHANGED <<sourceVars, runVars, watchVars, firing, tickVars, syncCh, listed, missed,
                 errors, acted, lastError>>

\* Stars, pins and deletions are read and written anew; RunOnce logs a failure
\* and keeps nothing of it.
SyncUserActions(ok) ==
  /\ writer = "acting"
  /\ writer' = "returning"
  /\ acted' = IF ok THEN commits ELSE acted
  /\ UNCHANGED <<sourceVars, runVars, watchVars, firing, tickVars, syncCh, listed, missed,
                 errors, synced, lastError>>

\* RunOnce returns its result, and the errors of single sessions become the status.
DoSync ==
  /\ writer = "returning"
  /\ writer' = "waiting" /\ lastError' = errors
  /\ UNCHANGED <<sourceVars, runVars, watchVars, firing, tickVars, syncCh, listed, missed,
                 errors, synced, acted>>

\* RunOnce returns an error: the sessions cannot be read, or the watermarks
\* cannot be saved, after a chunk or at the end of a run without one.
RunOnceFails ==
  /\ \/ writer \in {"listing", "writing"}
     \/ writer = "returning" /\ ~errors
  /\ writer' = "waiting" /\ lastError' = TRUE
  /\ UNCHANGED <<sourceVars, runVars, watchVars, firing, tickVars, syncCh, listed, missed,
                 errors, synced, acted>>

-----------------------------------------------------------------------------
WatchLoop == WatchStart(TRUE) \/ WatchStart(FALSE) \/ HandleEvent
ReconcileLoop == Tick \/ ReconcileTick
WriterLoop ==
  TakeRequest \/ RunOnceLists \/ ChunksDone \/ SyncUserActions(TRUE) \/ DoSync
Failure == ChunkFails \/ SyncUserActions(FALSE) \/ RunOnceFails

Next ==
  \/ Commit \/ Cancel
  \/ RunStart \/ RunReturn \/ Close
  \/ WatchLoop \/ WatchExit \/ TimerExpires \/ TimerCallback
  \/ ReconcileLoop \/ ReconcileExit
  \/ WriterLoop \/ Failure \/ WriterExit

Spec == Init /\ [][Next]_vars

\* Goroutines that can run do, timers and tickers fire, RunOnce returns, and
\* from some time on nothing in it fails any more.  Nothing is assumed of Commit,
\* of Cancel, or of which ready case a select takes, save that a done context
\* is not passed over for ever.
LiveSpec ==
  /\ Spec
  /\ WF_vars(RunStart) /\ WF_vars(RunReturn) /\ WF_vars(Close)
  /\ WF_vars(WatchLoop) /\ WF_vars(WatchExit)
  /\ WF_vars(TimerExpires) /\ WF_vars(TimerCallback)
  /\ WF_vars(Tick) /\ WF_vars(ReconcileTick) /\ WF_vars(ReconcileExit)
  /\ WF_vars(WriterLoop) /\ WF_vars(WriterExit)
  /\ <>[][~Failure]_vars

-----------------------------------------------------------------------------
(* Properties. *)

\* Some request that will make the writer list again is on its way.
WakeupPending ==
  events > 0 \/ armed \/ firing > 0 \/ syncCh \/ writer = "listing"

\* A commit that raised a file event is not forgotten in the debounce timer or
\* in the channel of capacity one, whenever it falls into a running sync: it has
\* been listed, a request for it is on its way, or the status shows an error.
NoLostWakeup ==
  run = "waiting" /\ ~cancelled /\ listed < notified => WakeupPending \/ lastError

\* The reader and the store are never closed under a RunOnce, and the daemon
\* says it is running for as long as a loop may call the engine.
ClosedIsQuiet ==
  /\ run \in {"returned", "closed"} => writer = "exited"
  /\ writer \in {"waiting", "listing", "writing", "acting", "returning"} => running

\* An empty LastError between two syncs means that every session of the latest
\* listing was written with its messages and tool calls, whatever failed on the
\* way.  It means no more than that: git links and user actions whose inserts
\* failed leave no trace in the result of RunOnce, so the status hides them.
StatusHonest == writer = "waiting" /\ ~lastError => synced = listed

\* Whatever happens to the watcher (it may never start, or start after a commit,
\* or lose an event), the daemon catches up with the sessions and with the user
\* actions of the database, although nothing reports a failed write of the
\* latter, unless it is told to stop.
CatchesUp == <>cancelled \/ <>[](synced = commits /\ acted = commits)

\* A cancelled daemon finishes the sync it is in, stops all its loops and closes.
ShutsDown == cancelled ~> run = "closed"

=============================================================================
