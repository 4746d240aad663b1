----------------------------- MODULE SessionPages -----------------------------
(***************************************************************************)
(* Walking through the pages of the session list: ListSessions in          *)
(* internal/store/clickhouse_read.go with the cursors of                   *)
(* clickhouse_cursor.go and the limits of internal/api/sessions.go.        *)
(*                                                                         *)
(* A client asks for page after page, as the tests and the "Load more"     *)
(* button do, while the sync writes rows.  A page is a set of keys (id and *)
(* start time as the row had them); the list shows it in the order Before. *)
(*                                                                         *)
(* An operator named X_Y, marked "Fault", is X with a bug: some property   *)
(* below is violated once it takes the place of X.                         *)
(***************************************************************************)
EXTENDS Integers, FiniteSets

CONSTANTS
  Sessions,   \* session ids: numbers, since only their order matters
  MaxTime,    \* start times are 1 .. MaxTime
  Precision,  \* how many moments the driver cannot tell apart in a parameter
  Limits,     \* what a client may ask for, the default included
  MaxLimit,   \* the largest page
  MaxWrites   \* bound: rows written during a walk

ASSUME SessionsAssumption == Sessions \subseteq Int /\ IsFiniteSet(Sessions)
ASSUME NumbersAssumption ==
  /\ MaxTime \in Nat /\ MaxWrites \in Nat
  /\ Precision \in Nat \ {0} /\ MaxLimit \in Nat \ {0}
ASSUME LimitsAssumption == Limits \subseteq Int

VARIABLES
  \* The sessions table.
  start,      \* start[s]: started_at of the row of s
  browsable,  \* sessions whose row satisfies the base filters
  \* The client and its request.
  phase,      \* where the walk is
  limit,      \* the limit of the request, as the handler has clamped it
  cursor,     \* the cursor to send, as a set of at most one key
  got,        \* the keys of all the pages before the latest
  page,       \* the keys of the latest page
  total,      \* what the count query of the latest request returned
  \* History, for the properties.
  always,     \* keys that have been in the list ever since the walk began
  ever,       \* keys that have been in the list at some time of the walk
  ends,       \* the cursors of the walk so far: the last keys of its pages
  writes      \* rows written since then

tableVars == <<start, browsable, always, ever, writes>>
clientVars == <<limit, cursor, got, page, total, ends>>
vars == <<tableVars, phase, clientVars>>

\* NULL sorts after every time in a descending order.
Null == 0
Times == Null .. MaxTime
Keys == [id : Sessions, start : Times]

Phases == {"ready", "count", "select", "done", "refused"}

TypeOK ==
  /\ start \in [Sessions -> Times]
  /\ browsable \subseteq Sessions
  /\ phase \in Phases
  /\ limit \in 1 .. MaxLimit
  /\ cursor \subseteq Keys
  /\ got \subseteq Keys /\ page \subseteq Keys
  /\ total \in Nat
  /\ always \subseteq Keys /\ ever \subseteq Keys /\ ends \subseteq Keys
  /\ writes \in 0 .. MaxWrites

-----------------------------------------------------------------------------
(* The two queries. *)

Listed(st, br) == {[id |-> s, start |-> st[s]] : s \in br}
Browsable == Listed(start, browsable)

\* ORDER BY started_at DESC, id DESC
Before(a, b) == a.start > b.start \/ (a.start = b.start /\ a.id > b.id)

\* The cursor's time as the database receives it: started_at has milliseconds,
\* and the driver writes the parameter with whole seconds.
BoundTime(t) == t - (t % Precision)

\* Fault: the row of the cursor is taken again.
After_Inclusive(k, c) ==
  /\ k.start # Null
  /\ \/ k.start < BoundTime(c.start)
     \/ k.start = BoundTime(c.start) /\ k.id <= c.id
\* Fault: rows with the start time of the cursor are passed over.
After_TimeOnly(k, c) == k.start # Null /\ k.start < BoundTime(c.start)
\* started_at < t OR (started_at = t AND id < i): neither holds of NULL.
After(k, c) ==
  /\ k.start # Null
  /\ \/ k.start < BoundTime(c.start)
     \/ k.start = BoundTime(c.start) /\ k.id < c.id

Matching == {k \in Browsable : \A c \in cursor : After(k, c)}

\* P is the first n of the keys M in the order Before (all of them if less).
IsPage(P, M, n) ==
  /\ P \subseteq M
  /\ \A p \in P, r \in M \ P : Before(p, r)
  /\ Cardinality(P) <= n
  /\ P = M \/ Cardinality(P) = n

\* Fault: a limit above the maximum is passed on.
Clamp_LowerOnly(l) == IF l < 1 THEN 1 ELSE l
Clamp(l) == IF l < 1 THEN 1 ELSE IF l > MaxLimit THEN MaxLimit ELSE l

-----------------------------------------------------------------------------
\* A walk starts on any table the sync may have written.
Init ==
  /\ start \in [Sessions -> Times]
  /\ browsable \in SUBSET Sessions
  /\ phase = "ready"
  /\ limit \in {Clamp(l) : l \in Limits}
  /\ cursor = {} /\ got = {} /\ page = {} /\ total = 0 /\ ends = {}
  /\ always = Browsable /\ ever = Browsable /\ writes = 0

\* The sync writes the row of a session, new or changed.
WriteRow(s, t, shown) ==
  /\ writes < MaxWrites
  /\ start' = [start EXCEPT ![s] = t]
  /\ browsable' = IF shown THEN browsable \cup {s} ELSE browsable \ {s}
  /\ always' = always \cap Listed(start', browsable')
  /\ ever' = ever \cup Listed(start', browsable')
  /\ writes' = writes + 1
  /\ UNCHANGED <<phase, clientVars>>

\* A new walk, from the first page.
Restart ==
  /\ phase \in {"done", "refused"}
  /\ phase' = "ready"
  /\ cursor' = {} /\ got' = {} /\ page' = {} /\ total' = 0 /\ ends' = {}
  /\ always' = Browsable /\ ever' = Browsable /\ writes' = 0
  /\ UNCHANGED <<start, browsable, limit>>

Request ==
  /\ phase = "ready"
  /\ phase' = "count"
  /\ limit' \in {Clamp(l) : l \in Limits}
  /\ UNCHANGED <<tableVars, cursor, got, page, total, ends>>

Count ==
  /\ phase = "count"
  /\ phase' = "select"
  /\ total' = Cardinality(Browsable)
  /\ UNCHANGED <<tableVars, limit, cursor, got, page, ends>>

\* The data query asks for one row more than the limit, to see whether there
\* is a next page; its cursor is the last row of this one.
Select ==
  /\ phase = "select"
  /\ \A c \in cursor : c.start # Null
  /\ \E P \in SUBSET Matching :
       /\ IsPage(P, Matching, limit)
       /\ page' = P
       /\ \/ P = Matching /\ phase' = "done" /\ cursor' = {}
          \/ /\ P # Matching /\ phase' = "ready"
             /\ \E last \in P :
                  /\ \A p \in P \ {last} : Before(p, last)
                  /\ cursor' = {last}
  /\ got' = got \cup page
  /\ ends' = ends \cup cursor'
  /\ UNCHANGED <<tableVars, limit, total>>

\* A cursor without a time does not parse: status 400.
Refuse ==
  /\ phase = "select"
  /\ \E c \in cursor : c.start = Null
  /\ phase' = "refused"
  /\ UNCHANGED <<tableVars, clientVars>>

\* Either query fails: status 500, and the client may ask again.
QueryFails ==
  /\ phase \in {"count", "select"}
  /\ phase' = "ready"
  /\ UNCHANGED <<tableVars, clientVars>>

Next ==
  \/ \E s \in Sessions, t \in Times, shown \in BOOLEAN : WriteRow(s, t, shown)
  \/ Restart
  \/ Request \/ Count \/ Select \/ Refuse \/ QueryFails

Spec == Init /\ [][Next]_vars

\* The client asks on, and a query that is sent again and again is answered.
LiveSpec ==
  /\ Spec
  /\ WF_vars(Request)
  /\ SF_vars(Count) /\ SF_vars(Select) /\ SF_vars(Refuse)

-----------------------------------------------------------------------------
(* Properties. *)

Walked == got \cup page

\* Whatever is written during the walk, each page comes after all the pages
\* before it: nothing is listed twice under the same start time, and the list
\* is in descending order (docs/testing.md, T19 and T22).
PagesDescend == \A old \in got, new \in page : Before(old, new)

\* What the condition of a cursor cuts off of the rows behind it: those without
\* a time, and the rest of the second it is in, unless it is at its beginning.
CutOff(k, c) ==
  \/ k.start = Null
  \/ BoundTime(c.start) <= k.start /\ BoundTime(c.start) < c.start

\* At its end a walk has seen every session that was in the list throughout, and
\* none that never was.  It has missed one only where a page ended before it, in
\* the same second, or where it has no start time: this much of "collect all
\* sessions" (docs/testing.md, T19; D6) the driver and NULL leave.
WalkComplete ==
  phase \in {"done", "refused"} =>
    /\ \A k \in always \ Walked : \E c \in ends : Before(c, k) /\ CutOff(k, c)
    /\ Walked \subseteq ever

\* Every walk ends, also while rows are written behind and before its cursor.
WalkEnds == phase = "ready" ~> phase \in {"done", "refused"}

=============================================================================
