---------------------------- MODULE DaemonProofs ----------------------------
(* Proofs about Daemon, for any number of commits, events and callbacks. *)
EXTENDS Daemon, TLAPS

\* Once a sync has listed, a commit notified after its listing is pending, even
\* when an earlier error still shows: a success may clear that error.
NoLostWakeupWriting ==
  writer \in {"writing", "acting", "returning"} /\ ~cancelled /\ listed < notified => WakeupPending

\* Before RunStart nothing has happened, and the loops live inside Run.
Phases ==
  /\ run = "init" => /\ watch = "off" /\ writer = "off"
                     /\ notified = 0 /\ listed = 0 /\ synced = 0
  /\ writer \in {"waiting", "listing", "writing", "acting", "returning"} => run = "waiting"
  /\ run = "waiting" <=> running

\* A session that was not written is in the result, and without one the listing
\* is in the store from the last chunk on.
Reported ==
  /\ writer \in {"writing", "acting", "returning"} /\ missed => errors
  /\ writer \in {"acting", "returning"} /\ ~missed => synced = listed

IInv ==
  /\ TypeOK /\ Phases /\ Reported
  /\ NoLostWakeup /\ NoLostWakeupWriting /\ ClosedIsQuiet /\ StatusHonest

\* TypeOK in three parts: two for each prover's strength, and what the queue and
\* the timer have to do with the loop.
Numbers ==
  /\ commits \in 0 .. MaxCommits /\ notified \in 0 .. commits
  /\ events \in 0 .. MaxEvents /\ firing \in 0 .. MaxFiring
  /\ listed \in 0 .. commits /\ synced \in 0 .. listed /\ acted \in 0 .. commits

Flags ==
  /\ run \in {"init", "waiting", "returned", "closed"}
  /\ running \in BOOLEAN /\ cancelled \in BOOLEAN
  /\ watch \in {"off", "starting", "watching", "exited"}
  /\ armed \in BOOLEAN
  /\ reconcile \in {"off", "looping", "exited"} /\ ticked \in BOOLEAN
  /\ syncCh \in BOOLEAN
  /\ writer \in {"off", "waiting", "listing", "writing", "acting", "returning", "exited"}
  /\ missed \in BOOLEAN /\ errors \in BOOLEAN /\ lastError \in BOOLEAN

LoopOwns == watch # "watching" => events = 0 /\ ~armed

\* A step keeps a flag or gives it one of the values the code assigns.
FlagsMove ==
  /\ run' = run \/ run' = "waiting" \/ run' = "returned" \/ run' = "closed"
  /\ running' = running \/ running' = TRUE \/ running' = FALSE
  /\ cancelled' = cancelled \/ cancelled' = TRUE
  /\ watch' = watch \/ watch' = "starting" \/ watch' = "watching" \/ watch' = "exited"
  /\ armed' = armed \/ armed' = TRUE \/ armed' = FALSE
  /\ reconcile' = reconcile \/ reconcile' = "looping" \/ reconcile' = "exited"
  /\ ticked' = ticked \/ ticked' = TRUE \/ ticked' = FALSE
  /\ syncCh' = syncCh \/ syncCh' = TRUE \/ syncCh' = FALSE
  /\ \/ writer' = writer \/ writer' = "waiting" \/ writer' = "listing"
     \/ writer' = "writing" \/ writer' = "acting" \/ writer' = "returning"
     \/ writer' = "exited"
  /\ missed' = missed \/ missed' = TRUE \/ missed' = FALSE
  /\ errors' = errors \/ errors' = TRUE \/ errors' = FALSE
  /\ lastError' = lastError \/ lastError' = TRUE \/ lastError' = FALSE \/ lastError' = errors

LEMMA TypeSplit == TypeOK <=> Numbers /\ Flags /\ LoopOwns
BY DEF TypeOK, Numbers, Flags, LoopOwns

LEMMA FlagsKept == Flags /\ FlagsMove => Flags'
<1>1. SUFFICES ASSUME Flags, FlagsMove PROVE Flags'
  OBVIOUS
<1>2. run' \in {"init", "waiting", "returned", "closed"}
  BY <1>1 DEF Flags, FlagsMove
<1>3. running' \in BOOLEAN
  BY <1>1, Zenon DEF Flags, FlagsMove
<1>4. cancelled' \in BOOLEAN
  BY <1>1, Zenon DEF Flags, FlagsMove
<1>5. watch' \in {"off", "starting", "watching", "exited"}
  BY <1>1 DEF Flags, FlagsMove
<1>6. armed' \in BOOLEAN
  BY <1>1, Zenon DEF Flags, FlagsMove
<1>7. reconcile' \in {"off", "looping", "exited"}
  BY <1>1 DEF Flags, FlagsMove
<1>8. ticked' \in BOOLEAN /\ syncCh' \in BOOLEAN
  BY <1>1, Zenon DEF Flags, FlagsMove
<1>9. writer' \in {"off", "waiting", "listing", "writing", "acting", "returning", "exited"}
  BY <1>1 DEF Flags, FlagsMove
<1>10. missed' \in BOOLEAN /\ errors' \in BOOLEAN /\ lastError' \in BOOLEAN
  BY <1>1, Zenon DEF Flags, FlagsMove
<1>11. QED
  BY <1>2, <1>3, <1>4, <1>5, <1>6, <1>7, <1>8, <1>9, <1>10 DEF Flags

LEMMA InitIInv == Init => IInv
<1>1. SUFFICES ASSUME Init PROVE IInv
  OBVIOUS
<1>2. Numbers
  BY <1>1, BoundsAssumption DEF Init, Numbers
<1>3. Flags
  BY <1>1 DEF Init, Flags
<1>4. LoopOwns /\ Phases /\ Reported
  BY <1>1 DEF Init, LoopOwns, Phases, Reported
<1>5. NoLostWakeup /\ NoLostWakeupWriting /\ ClosedIsQuiet /\ StatusHonest
  BY <1>1 DEF Init, NoLostWakeup, NoLostWakeupWriting, ClosedIsQuiet, StatusHonest
<1>6. QED
  BY <1>2, <1>3, <1>4, <1>5, TypeSplit DEF IInv

LEMMA NextNumbers == TypeOK /\ [Next]_vars => Numbers'
<1>1. SUFFICES ASSUME Numbers, [Next]_vars PROVE Numbers'
  BY TypeSplit
<1> USE BoundsAssumption
    DEF sourceVars, runVars, watchVars, tickVars, engineVars, writerVars
<1>2. CASE Commit \/ Cancel
  BY <1>1, <1>2 DEF Numbers, Commit, Cancel
<1>3. CASE RunStart \/ RunReturn \/ Close
  BY <1>1, <1>3 DEF Numbers, RunStart, RunReturn, Close
<1>4. CASE WatchLoop \/ WatchExit
  BY <1>1, <1>4 DEF Numbers, WatchLoop, WatchStart, HandleEvent, WatchExit
<1>5. CASE TimerExpires \/ TimerCallback
  BY <1>1, <1>5 DEF Numbers, TimerExpires, TimerCallback
<1>6. CASE ReconcileLoop \/ ReconcileExit
  BY <1>1, <1>6 DEF Numbers, ReconcileLoop, Tick, ReconcileTick, ReconcileExit
<1>7. CASE WriterLoop \/ Failure \/ WriterExit
  <2>1. CASE TakeRequest \/ RunOnceLists \/ DoSync \/ ChunkFails \/ RunOnceFails \/ WriterExit
    BY <1>1, <2>1
    DEF Numbers, TakeRequest, RunOnceLists, DoSync, ChunkFails, RunOnceFails, WriterExit
  <2>2. CASE ChunksDone
    BY <1>1, <2>2 DEF Numbers, ChunksDone
  <2>3. CASE SyncUserActions(TRUE) \/ SyncUserActions(FALSE)
    BY <1>1, <2>3 DEF Numbers, SyncUserActions
  <2>4. QED
    BY <1>7, <2>1, <2>2, <2>3 DEF WriterLoop, Failure
<1>8. CASE UNCHANGED vars
  BY <1>1, <1>8 DEF Numbers, vars
<1>9. QED
  BY <1>1, <1>2, <1>3, <1>4, <1>5, <1>6, <1>7, <1>8 DEF Next

LEMMA NextFlags == TypeOK /\ [Next]_vars => Flags'
<1>1. SUFFICES ASSUME [Next]_vars PROVE FlagsMove
  BY TypeSplit, FlagsKept
<1> USE DEF sourceVars, runVars, watchVars, tickVars, engineVars, writerVars
<1>2. CASE Commit \/ Cancel
  <2>1. CASE Commit
    BY <2>1, Zenon DEF FlagsMove, Commit
  <2>2. CASE Cancel
    BY <2>2, Zenon DEF FlagsMove, Cancel
  <2>3. QED
    BY <1>2, <2>1, <2>2
<1>3. CASE RunStart \/ RunReturn \/ Close
  <2>1. CASE RunStart
    BY <2>1, Zenon DEF FlagsMove, RunStart
  <2>2. CASE RunReturn
    BY <2>2, Zenon DEF FlagsMove, RunReturn
  <2>3. CASE Close
    BY <2>3, Zenon DEF FlagsMove, Close
  <2>4. QED
    BY <1>3, <2>1, <2>2, <2>3
<1>4. CASE WatchLoop \/ WatchExit
  <2>1. CASE WatchStart(TRUE)
    BY <2>1, Zenon DEF FlagsMove, WatchStart
  <2>2. CASE WatchStart(FALSE)
    BY <2>2, Zenon DEF FlagsMove, WatchStart
  <2>3. CASE HandleEvent
    BY <2>3, Zenon DEF FlagsMove, HandleEvent
  <2>4. CASE WatchExit
    BY <2>4, Zenon DEF FlagsMove, WatchExit
  <2>5. QED
    BY <1>4, <2>1, <2>2, <2>3, <2>4 DEF WatchLoop
<1>5. CASE TimerExpires \/ TimerCallback
  <2>1. CASE TimerExpires
    BY <2>1, Zenon DEF FlagsMove, TimerExpires
  <2>2. CASE TimerCallback
    BY <2>2, Zenon DEF FlagsMove, TimerCallback, Request
  <2>3. QED
    BY <1>5, <2>1, <2>2
<1>6. CASE ReconcileLoop \/ ReconcileExit
  <2>1. CASE Tick
    BY <2>1, Zenon DEF FlagsMove, Tick
  <2>2. CASE ReconcileTick
    BY <2>2, Zenon DEF FlagsMove, ReconcileTick, Request
  <2>3. CASE ReconcileExit
    BY <2>3, Zenon DEF FlagsMove, ReconcileExit
  <2>4. QED
    BY <1>6, <2>1, <2>2, <2>3 DEF ReconcileLoop
<1>7. CASE WriterLoop \/ Failure \/ WriterExit
  <2>1. CASE TakeRequest
    BY <2>1, Zenon DEF FlagsMove, TakeRequest
  <2>2. CASE RunOnceLists
    BY <2>2, Zenon DEF FlagsMove, RunOnceLists
  <2>3. CASE ChunkFails
    BY <2>3, Zenon DEF FlagsMove, ChunkFails
  <2>4. CASE ChunksDone
    BY <2>4, Zenon DEF FlagsMove, ChunksDone
  <2>5. CASE SyncUserActions(TRUE)
    BY <2>5, Zenon DEF FlagsMove, SyncUserActions
  <2>6. CASE SyncUserActions(FALSE)
    BY <2>6, Zenon DEF FlagsMove, SyncUserActions
  <2>7. CASE DoSync
    BY <2>7, Zenon DEF FlagsMove, DoSync
  <2>8. CASE RunOnceFails
    BY <2>8, Zenon DEF FlagsMove, RunOnceFails
  <2>9. CASE WriterExit
    BY <2>9, Zenon DEF FlagsMove, WriterExit
  <2>10. QED
    BY <1>7, <2>1, <2>2, <2>3, <2>4, <2>5, <2>6, <2>7, <2>8, <2>9 DEF WriterLoop, Failure
<1>8. CASE UNCHANGED vars
  BY <1>8, Zenon DEF FlagsMove, vars
<1>9. QED
  BY <1>1, <1>2, <1>3, <1>4, <1>5, <1>6, <1>7, <1>8 DEF Next

\* Only the loop takes events and sets the timer, and it leaves neither behind.
LEMMA NextLoopOwns == IInv /\ [Next]_vars => LoopOwns'
<1>1. SUFFICES ASSUME LoopOwns, Phases, [Next]_vars PROVE LoopOwns'
  BY TypeSplit DEF IInv
<1> USE DEF LoopOwns, sourceVars, runVars, watchVars, tickVars, engineVars, writerVars
<1>2. CASE Commit \/ Cancel
  BY <1>1, <1>2 DEF Commit, Cancel
<1>3. CASE RunStart \/ RunReturn \/ Close
  BY <1>1, <1>3 DEF Phases, RunStart, RunReturn, Close
<1>4. CASE WatchLoop \/ WatchExit \/ TimerExpires \/ TimerCallback
  BY <1>1, <1>4 DEF WatchLoop, WatchStart, HandleEvent, WatchExit, TimerExpires, TimerCallback
<1>5. CASE ReconcileLoop \/ ReconcileExit
  BY <1>1, <1>5 DEF ReconcileLoop, Tick, ReconcileTick, ReconcileExit
<1>6. CASE WriterLoop \/ Failure \/ WriterExit
  <2>1. UNCHANGED watchVars
    BY <1>6, Zenon
    DEF WriterLoop, TakeRequest, RunOnceLists, ChunksDone, SyncUserActions, DoSync, Failure,
        ChunkFails, RunOnceFails, WriterExit
  <2>2. QED
    BY <1>1, <2>1
<1>7. CASE UNCHANGED vars
  BY <1>1, <1>7 DEF vars
<1>8. QED
  BY <1>1, <1>2, <1>3, <1>4, <1>5, <1>6, <1>7 DEF Next

LEMMA NextTypeOK == IInv /\ [Next]_vars => TypeOK'
<1>1. SUFFICES ASSUME IInv, [Next]_vars PROVE Numbers' /\ Flags' /\ LoopOwns'
  BY DEF TypeOK, Numbers, Flags, LoopOwns
<1>2. QED
  BY <1>1, NextNumbers, NextFlags, NextLoopOwns DEF IInv

LEMMA NextPhases ==
  IInv /\ [Next]_vars => Phases' /\ Reported' /\ ClosedIsQuiet' /\ StatusHonest'
<1>1. SUFFICES ASSUME IInv, [Next]_vars
               PROVE  Phases' /\ Reported' /\ ClosedIsQuiet' /\ StatusHonest'
  OBVIOUS
<1> USE DEF sourceVars, runVars, watchVars, tickVars, engineVars, writerVars
<1>2. CASE Commit \/ Cancel
  BY <1>1, <1>2 DEF IInv, Phases, Reported, ClosedIsQuiet, StatusHonest, Commit, Cancel
<1>3. CASE RunStart \/ RunReturn \/ Close
  BY <1>1, <1>3
  DEF IInv, Phases, Reported, ClosedIsQuiet, StatusHonest, RunStart, RunReturn, AllExited, Close
<1>4. CASE WatchLoop \/ WatchExit \/ TimerExpires \/ TimerCallback
  BY <1>1, <1>4
  DEF IInv, Phases, Reported, ClosedIsQuiet, StatusHonest, WatchLoop, WatchStart, HandleEvent,
      WatchExit, TimerExpires, TimerCallback
<1>5. CASE ReconcileLoop \/ ReconcileExit
  BY <1>1, <1>5
  DEF IInv, Phases, Reported, ClosedIsQuiet, StatusHonest, ReconcileLoop, Tick, ReconcileTick,
      ReconcileExit
<1>6. CASE TakeRequest \/ RunOnceLists \/ RunOnceFails \/ WriterExit
  BY <1>1, <1>6
  DEF IInv, Phases, Reported, ClosedIsQuiet, StatusHonest, TakeRequest, RunOnceLists,
      RunOnceFails, WriterExit
<1>7. CASE ChunkFails \/ ChunksDone \/ SyncUserActions(TRUE) \/ SyncUserActions(FALSE) \/ DoSync
  BY <1>1, <1>7
  DEF IInv, Phases, Reported, ClosedIsQuiet, StatusHonest, ChunkFails, ChunksDone,
      SyncUserActions, DoSync
<1>8. CASE UNCHANGED vars
  BY <1>1, <1>8 DEF IInv, Phases, Reported, ClosedIsQuiet, StatusHonest, vars
<1>9. QED
  BY <1>1, <1>2, <1>3, <1>4, <1>5, <1>6, <1>7, <1>8 DEF Next, WriterLoop, Failure

\* A request is only ever handed on: from the queue to the timer, to a
\* callback, to the channel, to the writer.
LEMMA NextNoLostWakeup ==
  IInv /\ [Next]_vars => NoLostWakeup' /\ NoLostWakeupWriting'
<1>1. SUFFICES ASSUME IInv, TypeOK', [Next]_vars
               PROVE  NoLostWakeup' /\ NoLostWakeupWriting'
  BY NextTypeOK DEF IInv
<1> USE BoundsAssumption
    DEF sourceVars, runVars, watchVars, tickVars, engineVars, writerVars
<1>2. CASE Commit \/ Cancel
  BY <1>1, <1>2
  DEF IInv, TypeOK, NoLostWakeup, NoLostWakeupWriting, WakeupPending, Commit, Cancel
<1>3. CASE RunStart \/ RunReturn \/ Close
  BY <1>1, <1>3
  DEF IInv, TypeOK, NoLostWakeup, NoLostWakeupWriting, WakeupPending, RunStart, RunReturn, Close
<1>4. CASE WatchLoop \/ WatchExit
  BY <1>1, <1>4
  DEF IInv, TypeOK, NoLostWakeup, NoLostWakeupWriting, WakeupPending, WatchLoop, WatchStart,
      HandleEvent, WatchExit
<1>5. CASE TimerExpires \/ TimerCallback
  BY <1>1, <1>5
  DEF IInv, TypeOK, NoLostWakeup, NoLostWakeupWriting, WakeupPending, TimerExpires,
      TimerCallback, Request
<1>6. CASE ReconcileLoop \/ ReconcileExit
  BY <1>1, <1>6
  DEF IInv, TypeOK, NoLostWakeup, NoLostWakeupWriting, WakeupPending, ReconcileLoop, Tick,
      ReconcileTick, ReconcileExit, Request
<1>7. CASE TakeRequest \/ RunOnceLists \/ RunOnceFails \/ WriterExit
  BY <1>1, <1>7
  DEF IInv, TypeOK, NoLostWakeup, NoLostWakeupWriting, WakeupPending, TakeRequest,
      RunOnceLists, RunOnceFails, WriterExit
<1>8. CASE ChunkFails \/ ChunksDone \/ SyncUserActions(TRUE) \/ SyncUserActions(FALSE) \/ DoSync
  BY <1>1, <1>8
  DEF IInv, TypeOK, NoLostWakeup, NoLostWakeupWriting, WakeupPending, ChunkFails, ChunksDone,
      SyncUserActions, DoSync
<1>9. CASE UNCHANGED vars
  BY <1>1, <1>9 DEF IInv, NoLostWakeup, NoLostWakeupWriting, WakeupPending, vars
<1>10. QED
  BY <1>1, <1>2, <1>3, <1>4, <1>5, <1>6, <1>7, <1>8, <1>9 DEF Next, WriterLoop, Failure

LEMMA NextIInv == IInv /\ [Next]_vars => IInv'
BY NextTypeOK, NextPhases, NextNoLostWakeup DEF IInv

\* Every variable of the daemon keeps its type.
THEOREM TypeCorrect == Spec => []TypeOK
<1>1. QED
  BY InitIInv, NextIInv, PTL DEF Spec, IInv

\* No wake-up is lost in the timer or the channel.
THEOREM WakeupsAreKept == Spec => []NoLostWakeup
<1>1. QED
  BY InitIInv, NextIInv, PTL DEF Spec, IInv

\* Nothing is closed under a running sync.
THEOREM CloseIsSafe == Spec => []ClosedIsQuiet
<1>1. QED
  BY InitIInv, NextIInv, PTL DEF Spec, IInv

\* The status does not hide a session that was not written: with no LastError
\* between two syncs, all of the latest listing is in the store.
THEOREM StatusIsHonest == Spec => []StatusHonest
<1>1. QED
  BY InitIInv, NextIInv, PTL DEF Spec, IInv

=============================================================================
