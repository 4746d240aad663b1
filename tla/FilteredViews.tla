---------------------------- MODULE FilteredViews ----------------------------
(***************************************************************************)
(* The two views of the web frontend that follow filters but are not the   *)
(* session list: the search results (SearchBar.svelte, search.svelte.ts)   *)
(* and the dashboard (analytics.svelte.ts), with the two bars that set the *)
(* filters (AppHeader.svelte, FilterBar.svelte) and the router.            *)
(*                                                                         *)
(* The search waits for a pause of 300 ms in the typing; its requests and  *)
(* those of the dashboard are answered in any order.  An event handler and *)
(* the effects it makes run before the next event, and are one action.     *)
(***************************************************************************)
EXTENDS Integers, Sequences, SequencesExt

CONSTANTS
  Queries,      \* search texts that are not blank
  Blank,        \* one that is
  Projects,     \* what the header's filter can be set to
  Users,        \* and those of the filter bar: a user, an agent, dates
  All,          \* a filter that is not set
  Ranges,       \* date ranges of the dashboard
  Nothing,      \* no results
  MaxRequests   \* bound: no event while so many requests are in flight

ASSUME BlankAssumption == Blank \notin Queries
ASSUME NothingAssumption ==
  \A q \in Queries, f \in [project : Projects, user : Users] :
    Nothing # [kind |-> "search", query |-> q, filters |-> f]
ASSUME AllAssumption == All \in Projects \cap Users
ASSUME MaxRequestsAssumption == MaxRequests \in Nat

VARIABLES
  page,         \* "browser" or "analytics"
  \* sessions, and the filter bar
  filters,      \* sessions.filters, of which the header shows the project
  selectedUser, \* what the filter bar shows
  \* search
  query,
  results,      \* what was asked for them
  searching,    \* search.loading
  timers,       \* pending timers: of the search bar, and of one left behind
  \* analytics
  project, range,
  dashboard,    \* what was asked for the data shown
  loading,
  \* The network.
  requests,     \* in flight, in the order they were sent
  \* History, for the properties.
  overtaken,    \* an answer came before that to an earlier request of its kind
  failed        \* a request has failed

searchVars == <<query, results, searching, timers>>
analyticsVars == <<project, range, dashboard, loading>>
history == <<overtaken, failed>>
vars == <<page, filters, selectedUser, searchVars, analyticsVars, requests, history>>

-----------------------------------------------------------------------------
(* What is sent to the server. *)

\* Fault: no search is sent while another one is on its way.
Asked_OneAtATime(f) ==
  IF query = Blank \/ searching THEN << >>
  ELSE <<[kind |-> "search", query |-> query, filters |-> f]>>
\* The request of search.search: none for a blank query.
Asked(f) ==
  IF query = Blank THEN << >>
  ELSE <<[kind |-> "search", query |-> query, filters |-> f]>>

LoadOf(p, r) == [kind |-> "dashboard", project |-> p, range |-> r]

\* The requests of analytics.load, as one for the five it makes: their answers are
\* used together.  The effect of App.svelte has read the project and the dates, so
\* that a change of them on the dashboard loads it again.
Loads(p, r) ==
  IF page = "analytics" /\ <<p, r>> # <<project, range>>
    THEN <<LoadOf(p, r), LoadOf(p, r)>> ELSE <<LoadOf(p, r)>>

-----------------------------------------------------------------------------
(* Events of the user. *)

Ready == Len(requests) < MaxRequests

\* SearchBar.handleInput
Input(q) ==
  /\ Ready /\ page = "browser"
  /\ q # query
  /\ query' = q
  /\ IF q = Blank
       THEN results' = Nothing /\ timers' = timers \ {"bar"}
       ELSE timers' = timers \cup {"bar"} /\ UNCHANGED results
  /\ UNCHANGED <<page, filters, selectedUser, searching, analyticsVars, requests, history>>

\* SearchBar.handleClear: the timer goes on.
ClearSearch ==
  /\ Ready /\ page = "browser"
  /\ query # Blank
  /\ query' = Blank
  /\ results' = Nothing
  /\ UNCHANGED <<page, filters, selectedUser, searching, timers, analyticsVars,
                 requests, history>>

\* The timer of the search bar, with all filters of the session list.
TimerFires(t) ==
  /\ t \in timers
  /\ timers' = timers \ {t}
  /\ results' = IF query = Blank THEN Nothing ELSE results
  /\ searching' = (searching \/ query # Blank)
  /\ requests' = requests \o Asked(filters)
  /\ UNCHANGED <<page, filters, selectedUser, query, analyticsVars, history>>

\* Fault: the dashboard is not told.
ChangeProject_SearchOnly(p) ==
  /\ Ready
  /\ p # project
  /\ filters' = [filters EXCEPT !.project = p]
  /\ project' = p
  /\ searching' = (searching \/ query # Blank)
  /\ requests' = requests \o Asked([project |-> p, user |-> All])
  /\ UNCHANGED <<page, selectedUser, query, results, timers, range, dashboard, loading, history>>

\* AppHeader.onProjectChange, on either page; a search goes by the project only.
ChangeProject(p) ==
  /\ Ready
  /\ p # project
  /\ filters' = [filters EXCEPT !.project = p]
  /\ project' = p
  /\ searching' = (searching \/ query # Blank)
  /\ loading' = TRUE
  /\ requests' = requests \o Asked([project |-> p, user |-> All]) \o Loads(p, range)
  /\ UNCHANGED <<page, selectedUser, query, results, timers, range, dashboard, history>>

\* FilterBar.applyFilters; a search goes by the filters of the bar only.
ApplyFilters(u) ==
  /\ Ready /\ page = "browser"
  /\ u # selectedUser
  /\ selectedUser' = u
  /\ filters' = [filters EXCEPT !.user = u]
  /\ searching' = (searching \/ query # Blank)
  /\ requests' = requests \o Asked([project |-> All, user |-> u])
  /\ UNCHANGED <<page, query, results, timers, analyticsVars, history>>

\* TimeRangeControl: a preset, or one of the dates.
ChangeRange(r) ==
  /\ Ready /\ page = "analytics"
  /\ range' = r
  /\ loading' = TRUE
  /\ requests' = requests \o Loads(project, r)
  /\ UNCHANGED <<page, filters, selectedUser, searchVars, project, dashboard, history>>

\* A link of Navigation, or the back button.  The dashboard is loaded when it is
\* shown.  The side bar goes and later comes back as a new one: its timer is left
\* behind, where no input stops it, and what the filter bar showed is forgotten,
\* though not what it has set.
OpenDashboard ==
  /\ Ready /\ page = "browser"
  /\ page' = "analytics"
  /\ timers' = IF timers = {} THEN {} ELSE {"left"}
  /\ loading' = TRUE
  /\ requests' = Append(requests, LoadOf(project, range))
  /\ UNCHANGED <<filters, selectedUser, query, results, searching, project, range,
                 dashboard, history>>

OpenBrowser ==
  /\ Ready /\ page = "analytics"
  /\ page' = "browser"
  /\ selectedUser' = All
  /\ UNCHANGED <<filters, searchVars, analyticsVars, requests, history>>

-----------------------------------------------------------------------------
(* Answers. *)

\* Request i, of this kind, is over.
Over(i, kind) ==
  /\ requests[i].kind = kind
  /\ requests' = RemoveAt(requests, i)

Answered(i, kind) ==
  /\ Over(i, kind)
  /\ overtaken' = (overtaken \/ \E j \in 1 .. i - 1 : requests[j].kind = kind)
  /\ UNCHANGED failed

SearchAnswered(i) ==
  /\ Answered(i, "search")
  /\ results' = requests[i]
  /\ searching' = FALSE
  /\ UNCHANGED <<page, filters, selectedUser, query, timers, analyticsVars>>

DashboardAnswered(i) ==
  /\ Answered(i, "dashboard")
  /\ dashboard' = requests[i]
  /\ loading' = FALSE
  /\ UNCHANGED <<page, filters, selectedUser, searchVars, project, range>>

\* Fault: the spinner stays.
SearchFails_StillLoading(i) ==
  /\ Over(i, "search")
  /\ failed' = TRUE
  /\ UNCHANGED <<page, filters, selectedUser, searchVars, analyticsVars, overtaken>>

\* The `finally` of search.search and of analytics.load.
SearchFails(i) ==
  /\ Over(i, "search")
  /\ failed' = TRUE
  /\ searching' = FALSE
  /\ UNCHANGED <<page, filters, selectedUser, query, results, timers, analyticsVars, overtaken>>

LoadFails(i) ==
  /\ Over(i, "dashboard")
  /\ failed' = TRUE
  /\ loading' = FALSE
  /\ UNCHANGED <<page, filters, selectedUser, searchVars, project, range, dashboard, overtaken>>

-----------------------------------------------------------------------------
\* A page load, at either page.
Init ==
  /\ page \in {"browser", "analytics"}
  /\ filters = [project |-> All, user |-> All] /\ selectedUser = All
  /\ query = Blank /\ results = Nothing /\ searching = FALSE /\ timers = {}
  /\ project = All /\ range \in Ranges /\ dashboard = Nothing
  /\ loading = (page = "analytics")
  /\ requests = IF page = "analytics" THEN <<LoadOf(All, range)>> ELSE << >>
  /\ overtaken = FALSE /\ failed = FALSE

Event ==
  \/ \E q \in Queries \cup {Blank} : Input(q)
  \/ ClearSearch
  \/ \E p \in Projects : ChangeProject(p)
  \/ \E u \in Users : ApplyFilters(u)
  \/ \E r \in Ranges : ChangeRange(r)
  \/ OpenDashboard \/ OpenBrowser

Timer == \E t \in timers : TimerFires(t)

Answer(i) ==
  \/ SearchAnswered(i) \/ DashboardAnswered(i)
  \/ SearchFails(i) \/ LoadFails(i)

Next == Event \/ Timer \/ \E i \in DOMAIN requests : Answer(i)

\* A timer fires and a request ends, by an answer or a failure.
Fairness ==
  /\ WF_vars(Timer)
  /\ WF_vars(requests # << >> /\ Answer(1))

Spec == Init /\ [][Next]_vars /\ Fairness

-----------------------------------------------------------------------------
(* Properties. *)

InFlight(kind) == \E i \in DOMAIN requests : requests[i].kind = kind

\* A spinner stands for a request on its way: it cannot stay for ever.
SpinnersEnd ==
  /\ searching => InFlight("search")
  /\ loading => InFlight("dashboard")

\* When the answers come in the order of the requests, the results shown are at
\* last those of the text in the search bar, and of no filter that has been left:
\* each is the current one or was not sent (search.svelte.ts:15).
ResultsOfQuery ==
  ~InFlight("search") /\ timers = {} /\ query # Blank /\ ~overtaken /\ ~failed =>
    /\ results # Nothing
    /\ results.query = query
    /\ results.filters.project \in {filters.project, All}
    /\ results.filters.user \in {filters.user, All}

\* And the dashboard shows the project in the header and the dates above it.
DashboardIsCurrent ==
  page = "analytics" /\ ~InFlight("dashboard") /\ ~overtaken /\ ~failed =>
    dashboard = LoadOf(project, range)

\* Whatever is typed is searched for, unless it is changed first or a request
\* fails; answers that come late, timers that are set again and a visit to the
\* dashboard do not prevent it.
TypedIsShown ==
  \A q \in Queries :
    query = q /\ "bar" \in timers
      ~> failed \/ query # q \/ (results # Nothing /\ results.query = q)

=============================================================================
