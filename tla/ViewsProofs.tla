---------------------------- MODULE ViewsProofs -----------------------------
(***************************************************************************)
(* Theorems about what the browser shows: FilteredViews, for any texts,    *)
(* filters and date ranges and any number of requests in flight, answered  *)
(* in any order; and Display, for any characters, contents, terms and      *)
(* window, and any lists of messages and capacity of the cache.            *)
(***************************************************************************)
EXTENDS FilteredViews, Display, SequenceLemmas

-----------------------------------------------------------------------------
(* FilteredViews: the invariant. *)

Filters == [project : Projects, user : Users]
Searches == [kind : {"search"}, query : Queries, filters : Filters]
Dashboards == [kind : {"dashboard"}, project : Projects, range : Ranges]

TypeOK ==
  /\ page \in {"browser", "analytics"}
  /\ filters \in Filters /\ selectedUser \in Users
  /\ query \in Queries \cup {Blank}
  /\ results \in Searches \cup {Nothing}
  /\ project \in Projects /\ range \in Ranges
  /\ requests \in Seq(Searches \cup Dashboards)
  /\ searching \in BOOLEAN /\ loading \in BOOLEAN
  /\ overtaken \in BOOLEAN /\ failed \in BOOLEAN

\* r is a search for the text in the search bar and for no filter that has been left.
IsCurrent(r) ==
  /\ r # Nothing
  /\ r.query = query
  /\ r.filters.project \in {filters.project, All}
  /\ r.filters.user \in {filters.user, All}

\* The latest search is such a one, whether it is on its way or has been answered.
SearchInv ==
  timers = {} /\ query # Blank /\ ~overtaken /\ ~failed =>
    /\ \A r \in Latest(requests, {"search"}) : IsCurrent(r)
    /\ Latest(requests, {"search"}) = {} => IsCurrent(results)

\* And so it is with the latest load of the dashboard while that is shown.
DashboardInv ==
  page = "analytics" /\ ~overtaken /\ ~failed =>
    /\ \A r \in Latest(requests, {"dashboard"}) : r = LoadOf(project, range)
    /\ Latest(requests, {"dashboard"}) = {} => dashboard = LoadOf(project, range)

SpinnersInv ==
  /\ searching => Latest(requests, {"search"}) # {}
  /\ loading => Latest(requests, {"dashboard"}) # {}

IInv == TypeOK /\ SpinnersInv /\ SearchInv /\ DashboardInv

-----------------------------------------------------------------------------
(* What is sent, and what is over. *)

Requests == Searches \cup Dashboards

SearchFor(f) == [kind |-> "search", query |-> query, filters |-> f]

\* The search of a setter is its kind's latest request, the load that of its own.
LEMMA AskedStep ==
  ASSUME TypeOK, NEW f \in Filters
  PROVE  /\ requests \o Asked(f) \in Seq(Requests)
         /\ query # Blank => Latest(requests \o Asked(f), {"search"}) = {SearchFor(f)}
         /\ query = Blank =>
              Latest(requests \o Asked(f), {"search"}) = Latest(requests, {"search"})
         /\ Latest(requests \o Asked(f), {"dashboard"}) = Latest(requests, {"dashboard"})
<1>1. requests \in Seq(Requests)
  BY DEF TypeOK, Requests
<1>2. CASE query = Blank
  <2>1. Asked(f) = << >>
    BY <1>2 DEF Asked
  <2>2. requests \o Asked(f) = requests
    BY <1>1, <2>1, ConcatEmptySeq
  <2>3. QED
    BY <1>1, <1>2, <2>2
<1>3. CASE query # Blank
  <2>1. Asked(f) = <<SearchFor(f)>>
    BY <1>3 DEF Asked, SearchFor
  <2>2. SearchFor(f) \in Requests /\ SearchFor(f).kind = "search"
    BY <1>3 DEF TypeOK, SearchFor, Requests, Searches
  <2>3. requests \o Asked(f) = Append(requests, SearchFor(f))
    BY <1>1, <2>1, <2>2, AppendIsConcat
  <2>4. Append(requests, SearchFor(f)) \in Seq(Requests)
    BY <1>1, <2>2, AppendProperties
  <2>5. Latest(Append(requests, SearchFor(f)), {"search"}) = {SearchFor(f)}
    BY <1>1, <2>2, LatestSent
  <2>6. Latest(Append(requests, SearchFor(f)), {"dashboard"}) = Latest(requests, {"dashboard"})
    BY <1>1, <2>2, LatestSent
  <2>7. QED
    BY <1>3, <2>3, <2>4, <2>5, <2>6
<1>4. QED
  BY <1>2, <1>3

LEMMA LoadSent ==
  ASSUME NEW s \in Seq(Requests), NEW p \in Projects, NEW r \in Ranges
  PROVE  /\ Append(s, LoadOf(p, r)) \in Seq(Requests)
         /\ Latest(Append(s, LoadOf(p, r)), {"dashboard"}) = {LoadOf(p, r)}
         /\ Latest(Append(s, LoadOf(p, r)), {"search"}) = Latest(s, {"search"})
<1>1. LoadOf(p, r) \in Requests /\ LoadOf(p, r).kind = "dashboard"
  BY DEF LoadOf, Requests, Dashboards
<1>2. QED
  BY <1>1, LatestSent, AppendProperties

LEMMA LoadsStep ==
  ASSUME NEW s \in Seq(Requests), NEW p \in Projects, NEW r \in Ranges
  PROVE  /\ s \o Loads(p, r) \in Seq(Requests)
         /\ Latest(s \o Loads(p, r), {"dashboard"}) = {LoadOf(p, r)}
         /\ Latest(s \o Loads(p, r), {"search"}) = Latest(s, {"search"})
<1> DEFINE l == LoadOf(p, r)
           t == Append(s, l)
<1>1. l \in Requests
  BY DEF LoadOf, Requests, Dashboards
<1>2. /\ t \in Seq(Requests) /\ Latest(t, {"dashboard"}) = {l}
      /\ Latest(t, {"search"}) = Latest(s, {"search"})
  BY LoadSent
<1>3. /\ Append(t, l) \in Seq(Requests) /\ Latest(Append(t, l), {"dashboard"}) = {l}
      /\ Latest(Append(t, l), {"search"}) = Latest(t, {"search"})
  BY <1>2, LoadSent
<1>4. Loads(p, r) = <<l>> \/ Loads(p, r) = <<l, l>>
  BY DEF Loads
<1> HIDE DEF l
<1>5. s \o <<l>> = t
  BY <1>1, AppendIsConcat
<1>6. s \o <<l, l>> = Append(t, l)
  <2>1. <<l, l>> = <<l>> \o <<l>>
    BY <1>1
  <2>2. s \o (<<l>> \o <<l>>) = (s \o <<l>>) \o <<l>>
    BY <1>1, ConcatAssociative
  <2>3. t \o <<l>> = Append(t, l)
    BY <1>1, <1>2, AppendIsConcat
  <2>4. QED
    BY <1>5, <2>1, <2>2, <2>3
<1>7. QED
  BY <1>2, <1>3, <1>4, <1>5, <1>6 DEF l

\* A request that is over leaves the latest one of the other kind alone.
LEMMA OverStep ==
  ASSUME TypeOK, NEW i \in DOMAIN requests, NEW kind, Over(i, kind)
  PROVE  /\ requests' \in Seq(Requests)
         /\ requests[i] \in Requests /\ requests[i].kind = kind
         /\ \A k : k # kind => Latest(requests', {k}) = Latest(requests, {k})
<1>1. requests \in Seq(Requests)
  BY DEF TypeOK, Requests
<1>2. requests' = RemoveAt(requests, i) /\ requests[i].kind = kind
  BY DEF Over
<1>3. RemoveAt(requests, i) \in Seq(Requests) /\ requests[i] \in Requests
  BY <1>1, RemoveAtElements, ElementOfSeq, LenProperties
<1>4. ASSUME NEW k, k # kind
      PROVE  Latest(RemoveAt(requests, i), {k}) = Latest(requests, {k})
  BY <1>1, <1>2, <1>4, LatestOtherOver
<1>5. QED
  BY <1>2, <1>3, <1>4

\* One that is answered in its turn was the latest, or the latest one stays.
LEMMA AnsweredStep ==
  ASSUME TypeOK, NEW i \in DOMAIN requests, NEW kind, Answered(i, kind), ~overtaken'
  PROVE  /\ ~overtaken
         /\ \/ Latest(requests', {kind}) = Latest(requests, {kind})
            \/ Latest(requests', {kind}) = {} /\ Latest(requests, {kind}) = {requests[i]}
<1>1. requests \in Seq(Requests)
  BY DEF TypeOK, Requests
<1>2. requests' = RemoveAt(requests, i) /\ requests[i].kind = kind
  BY DEF Answered, Over
<1>3. ~overtaken /\ \A j \in 1 .. i - 1 : requests[j].kind # kind
  BY DEF Answered
<1> DEFINE kinds == {kind}
<1>4. requests[i].kind \in kinds /\ \A j \in 1 .. i - 1 : requests[j].kind \notin kinds
  BY <1>2, <1>3
<1> HIDE DEF kinds
<1>5. \/ Latest(RemoveAt(requests, i), kinds) = Latest(requests, kinds)
      \/ Latest(RemoveAt(requests, i), kinds) = {} /\ Latest(requests, kinds) = {requests[i]}
  BY <1>1, <1>4, LatestOver
<1>6. QED
  BY <1>2, <1>3, <1>5 DEF kinds

-----------------------------------------------------------------------------
(* Type correctness. *)

LEMMA InitTypeOK == Init => TypeOK
<1>1. SUFFICES ASSUME Init PROVE TypeOK
  OBVIOUS
<1>2. requests \in Seq(Requests)
  <2>1. LoadOf(All, range) \in Requests
    BY <1>1, AllAssumption DEF Init, LoadOf, Requests, Dashboards
  <2>2. QED
    BY <1>1, <2>1, EmptySeq DEF Init
<1>3. page \in {"browser", "analytics"} /\ filters \in Filters /\ selectedUser \in Users
  BY <1>1, AllAssumption DEF Init, Filters
<1>4. query \in Queries \cup {Blank} /\ results \in Searches \cup {Nothing}
  BY <1>1 DEF Init
<1>5. project \in Projects /\ range \in Ranges
  BY <1>1, AllAssumption DEF Init
<1>6. searching \in BOOLEAN /\ overtaken \in BOOLEAN /\ failed \in BOOLEAN
  BY <1>1, Zenon DEF Init
<1>7. loading \in BOOLEAN
  BY <1>1 DEF Init
<1>8. QED
  BY <1>2, <1>3, <1>4, <1>5, <1>6, <1>7 DEF TypeOK, Requests

LEMMA EventTypeOK ==
  ASSUME TypeOK, Event
  PROVE  TypeOK'
<1> USE DEF searchVars, analyticsVars, history
<1>1. CASE \E q \in Queries \cup {Blank} : Input(q)
  BY <1>1 DEF TypeOK, Input
<1>2. CASE ClearSearch
  BY <1>2 DEF TypeOK, ClearSearch
<1>3. CASE \E p \in Projects : ChangeProject(p)
  <2>1. PICK p \in Projects : ChangeProject(p)
    BY <1>3
  <2> DEFINE f == [project |-> p, user |-> All]
  <2>2. f \in Filters /\ [filters EXCEPT !.project = p] \in Filters
    BY AllAssumption DEF TypeOK, Filters
  <2>3. (requests \o Asked(f)) \o Loads(p, range) \in Seq(Requests)
    BY <2>2, AskedStep, LoadsStep DEF TypeOK
  <2>4. requests' \in Seq(Requests) /\ filters' \in Filters /\ project' \in Projects
    BY <2>1, <2>2, <2>3 DEF ChangeProject
  <2>5. searching' \in BOOLEAN /\ loading' \in BOOLEAN
    BY <2>1 DEF ChangeProject
  <2>6. QED
    BY <2>1, <2>4, <2>5 DEF TypeOK, ChangeProject, Requests
<1>4. CASE \E u \in Users : ApplyFilters(u)
  <2>1. PICK u \in Users : ApplyFilters(u)
    BY <1>4
  <2> DEFINE f == [project |-> All, user |-> u]
  <2>2. f \in Filters /\ [filters EXCEPT !.user = u] \in Filters
    BY AllAssumption DEF TypeOK, Filters
  <2>3. requests' \in Seq(Requests) /\ filters' \in Filters
    BY <2>1, <2>2, AskedStep DEF ApplyFilters
  <2>4. searching' \in BOOLEAN
    BY <2>1 DEF ApplyFilters
  <2>5. QED
    BY <2>1, <2>3, <2>4 DEF TypeOK, ApplyFilters, Requests
<1>5. CASE \E r \in Ranges : ChangeRange(r)
  <2>1. PICK r \in Ranges : ChangeRange(r)
    BY <1>5
  <2>2. requests' \in Seq(Requests)
    BY <2>1, LoadsStep DEF TypeOK, ChangeRange, Requests
  <2>3. QED
    BY <2>1, <2>2 DEF TypeOK, ChangeRange, Requests
<1>6. CASE OpenDashboard
  <2>1. requests' \in Seq(Requests)
    BY <1>6, LoadSent DEF TypeOK, OpenDashboard, Requests
  <2>2. QED
    BY <1>6, <2>1 DEF TypeOK, OpenDashboard, Requests
<1>7. CASE OpenBrowser
  BY <1>7, AllAssumption DEF TypeOK, OpenBrowser
<1>8. QED
  BY <1>1, <1>2, <1>3, <1>4, <1>5, <1>6, <1>7 DEF Event

LEMMA TimerTypeOK ==
  ASSUME TypeOK, NEW t, TimerFires(t)
  PROVE  TypeOK'
<1>1. requests' \in Seq(Requests)
  BY AskedStep DEF TimerFires, TypeOK
<1>2. searching' \in BOOLEAN
  BY DEF TimerFires
<1>3. QED
  BY <1>1, <1>2 DEF TypeOK, TimerFires, analyticsVars, history, Requests

LEMMA AnswerTypeOK ==
  ASSUME TypeOK, NEW i \in DOMAIN requests, Answer(i)
  PROVE  TypeOK'
<1> USE DEF searchVars, analyticsVars
<1>1. CASE SearchAnswered(i)
  <2>1. requests' \in Seq(Requests) /\ results' \in Searches
    BY <1>1, OverStep DEF SearchAnswered, Answered, Requests, Dashboards
  <2>2. overtaken' \in BOOLEAN
    BY <1>1 DEF SearchAnswered, Answered
  <2>3. QED
    BY <1>1, <2>1, <2>2 DEF TypeOK, SearchAnswered, Answered, Requests
<1>2. CASE DashboardAnswered(i)
  <2>1. requests' \in Seq(Requests)
    BY <1>2, OverStep DEF DashboardAnswered, Answered
  <2>2. overtaken' \in BOOLEAN
    BY <1>2 DEF DashboardAnswered, Answered
  <2>3. QED
    BY <1>2, <2>1, <2>2 DEF TypeOK, DashboardAnswered, Answered, Requests
<1>3. CASE SearchFails(i)
  <2>1. requests' \in Seq(Requests)
    BY <1>3, OverStep DEF SearchFails
  <2>2. QED
    BY <1>3, <2>1 DEF TypeOK, SearchFails, Requests
<1>4. CASE LoadFails(i)
  <2>1. requests' \in Seq(Requests)
    BY <1>4, OverStep DEF LoadFails
  <2>2. QED
    BY <1>4, <2>1 DEF TypeOK, LoadFails, Requests
<1>5. QED
  BY <1>1, <1>2, <1>3, <1>4 DEF Answer

LEMMA NextTypeOK == TypeOK /\ [Next]_vars => TypeOK'
<1>1. SUFFICES ASSUME TypeOK, [Next]_vars PROVE TypeOK'
  OBVIOUS
<1>2. CASE Event
  BY <1>1, <1>2, EventTypeOK
<1>3. CASE Timer
  BY <1>1, <1>3, TimerTypeOK DEF Timer
<1>4. CASE \E i \in DOMAIN requests : Answer(i)
  BY <1>1, <1>4, AnswerTypeOK
<1>5. CASE UNCHANGED vars
  BY <1>1, <1>5 DEF TypeOK, vars, searchVars, analyticsVars, history
<1>6. QED
  BY <1>1, <1>2, <1>3, <1>4, <1>5 DEF Next

-----------------------------------------------------------------------------
(* The invariant. *)

LEMMA InitIInv == Init => IInv
<1>1. SUFFICES ASSUME Init PROVE IInv
  OBVIOUS
<1>2. TypeOK
  BY <1>1, InitTypeOK
<1>3. CASE page = "browser"
  <2>1. ~searching /\ ~loading
    BY <1>1, <1>3 DEF Init
  <2>2. QED
    BY <1>1, <1>2, <1>3, <2>1 DEF Init, IInv, SpinnersInv, SearchInv, DashboardInv
<1>4. CASE page = "analytics"
  <2>1. requests = <<LoadOf(All, range)>> /\ ~searching /\ query = Blank /\ project = All
    BY <1>1, <1>4 DEF Init
  <2>2. << >> \o <<LoadOf(All, range)>> = requests
    BY <2>1
  <2>3. Append(<< >>, LoadOf(All, range)) = requests
    BY <2>1
  <2>4. << >> \in Seq(Requests) /\ All \in Projects /\ range \in Ranges
    BY <1>2, AllAssumption, EmptySeq DEF TypeOK
  <2>5. Latest(requests, {"dashboard"}) = {LoadOf(All, range)}
    BY <2>3, <2>4, LoadSent
  <2>6. QED
    BY <1>2, <2>1, <2>5 DEF IInv, SpinnersInv, SearchInv, DashboardInv
<1>5. QED
  BY <1>1, <1>3, <1>4 DEF Init

\* A search that goes by the filter just set, or by all of them, is current.
LEMMA SentIsCurrent ==
  ASSUME TypeOK, TypeOK', NEW f \in Filters, query # Blank, query' = query,
         f.project \in {filters'.project, All}, f.user \in {filters'.user, All}
  PROVE  IsCurrent(SearchFor(f))'
<1>1. query \in Queries /\ f \in [project : Projects, user : Users]
  BY DEF TypeOK, Filters
<1>2. SearchFor(f)' = [kind |-> "search", query |-> query, filters |-> f]
  BY DEF SearchFor
<1>3. Nothing # [kind |-> "search", query |-> query, filters |-> f]
  BY <1>1, NothingAssumption
<1>4. QED
  BY <1>2, <1>3 DEF IsCurrent

\* A step that sends no search keeps SearchInv when it leaves what it is about.
LEMMA SearchKept ==
  ASSUME SearchInv, UNCHANGED <<filters, query, results, overtaken, failed>>,
         timers' = {} => timers = {},
         Latest(requests', {"search"}) = Latest(requests, {"search"})
  PROVE  SearchInv'
<1>1. \A r : IsCurrent(r)' <=> IsCurrent(r)
  BY DEF IsCurrent
<1>2. QED
  BY <1>1 DEF SearchInv

\* One that sends a search of the current text makes it the latest.
LEMMA SearchSent ==
  ASSUME TypeOK, TypeOK', NEW f \in Filters, query' = query,
         f.project \in {filters'.project, All}, f.user \in {filters'.user, All},
         query # Blank => Latest(requests', {"search"}) = {SearchFor(f)}
  PROVE  SearchInv'
<1>1. SUFFICES ASSUME query # Blank PROVE SearchInv'
  BY DEF SearchInv
<1>2. IsCurrent(SearchFor(f))'
  BY <1>1, SentIsCurrent
<1>3. SearchFor(f)' = SearchFor(f)
  BY DEF SearchFor
<1>4. QED
  BY <1>1, <1>2, <1>3 DEF SearchInv

LEMMA EventSearch ==
  ASSUME TypeOK, TypeOK', SearchInv, Event
  PROVE  SearchInv'
<1> USE DEF searchVars, analyticsVars, history
<1>1. CASE \E q \in Queries \cup {Blank} : Input(q)
  BY <1>1 DEF Input, SearchInv
<1>2. CASE ClearSearch
  BY <1>2 DEF ClearSearch, SearchInv
<1>3. CASE \E p \in Projects : ChangeProject(p)
  <2>1. PICK p \in Projects : ChangeProject(p)
    BY <1>3
  <2> DEFINE f == [project |-> p, user |-> All]
  <2>2. f \in Filters /\ f.project = filters'.project /\ f.user = All
    BY <2>1, AllAssumption DEF TypeOK, Filters, ChangeProject
  <2>3. requests' = (requests \o Asked(f)) \o Loads(p, range) /\ range \in Ranges
    BY <2>1 DEF ChangeProject, TypeOK
  <2>4. query' = query
    BY <2>1 DEF ChangeProject
  <2> HIDE DEF f
  <2>5. query # Blank => Latest(requests', {"search"}) = {SearchFor(f)}
    <3>1. /\ requests \o Asked(f) \in Seq(Requests)
          /\ query # Blank => Latest(requests \o Asked(f), {"search"}) = {SearchFor(f)}
      BY <2>2, AskedStep
    <3>2. Latest(requests', {"search"}) = Latest(requests \o Asked(f), {"search"})
      BY <2>3, <3>1, LoadsStep
    <3>3. QED
      BY <3>1, <3>2
  <2>6. QED
    BY <2>2, <2>4, <2>5, SearchSent
<1>4. CASE \E u \in Users : ApplyFilters(u)
  <2>1. PICK u \in Users : ApplyFilters(u)
    BY <1>4
  <2> DEFINE f == [project |-> All, user |-> u]
  <2>2. f \in Filters /\ f.project = All /\ f.user = filters'.user
    BY <2>1, AllAssumption DEF TypeOK, Filters, ApplyFilters
  <2>3. requests' = requests \o Asked(f) /\ query' = query
    BY <2>1 DEF ApplyFilters
  <2> HIDE DEF f
  <2>4. query # Blank => Latest(requests', {"search"}) = {SearchFor(f)}
    BY <2>2, <2>3, AskedStep
  <2>5. QED
    BY <2>2, <2>3, <2>4, SearchSent
<1>5. CASE \E r \in Ranges : ChangeRange(r)
  <2>1. PICK r \in Ranges : ChangeRange(r)
    BY <1>5
  <2>2. requests \in Seq(Requests) /\ project \in Projects
    BY DEF TypeOK, Requests
  <2>3. Latest(requests', {"search"}) = Latest(requests, {"search"})
    BY <2>1, <2>2, LoadsStep DEF ChangeRange
  <2>4. QED
    BY <2>1, <2>3, SearchKept DEF ChangeRange
<1>6. CASE OpenDashboard
  <2>1. Latest(requests', {"search"}) = Latest(requests, {"search"})
    BY <1>6, LoadSent DEF OpenDashboard, TypeOK, Requests
  <2>2. timers' = {} => timers = {}
    BY <1>6 DEF OpenDashboard
  <2>3. QED
    BY <1>6, <2>1, <2>2, SearchKept DEF OpenDashboard
<1>7. CASE OpenBrowser
  BY <1>7, SearchKept DEF OpenBrowser
<1>8. QED
  BY <1>1, <1>2, <1>3, <1>4, <1>5, <1>6, <1>7 DEF Event

LEMMA TimerSearch ==
  ASSUME TypeOK, TypeOK', NEW t, TimerFires(t)
  PROVE  SearchInv'
<1>1. filters \in Filters /\ filters' = filters /\ query' = query
  BY DEF TypeOK, TimerFires
<1>2. query # Blank => Latest(requests', {"search"}) = {SearchFor(filters)}
  BY <1>1, AskedStep DEF TimerFires
<1>3. QED
  BY <1>1, <1>2, SearchSent

LEMMA AnswerSearch ==
  ASSUME TypeOK, SearchInv, NEW i \in DOMAIN requests, Answer(i)
  PROVE  SearchInv'
<1>1. CASE SearchAnswered(i)
  <2>1. UNCHANGED <<filters, query, timers, failed>> /\ results' = requests[i]
    BY <1>1 DEF SearchAnswered, Answered
  <2>2. \A r : IsCurrent(r)' <=> IsCurrent(r)
    BY <2>1 DEF IsCurrent
  <2>3. SUFFICES ASSUME timers = {}, query # Blank, ~overtaken', ~failed
                 PROVE  SearchInv'
    BY <2>1 DEF SearchInv
  <2>4. /\ ~overtaken
        /\ \/ Latest(requests', {"search"}) = Latest(requests, {"search"})
           \/ /\ Latest(requests', {"search"}) = {}
              /\ Latest(requests, {"search"}) = {requests[i]}
    BY <1>1, <2>3, AnsweredStep DEF SearchAnswered
  <2>5. Latest(requests, {"search"}) # {}
    BY <1>1, LatestExists DEF TypeOK, SearchAnswered, Answered, Over
  <2>6. QED
    BY <2>1, <2>2, <2>3, <2>4, <2>5 DEF SearchInv
<1>2. CASE DashboardAnswered(i)
  <2>1. Latest(requests', {"search"}) = Latest(requests, {"search"})
    BY <1>2, OverStep DEF DashboardAnswered, Answered
  <2>2. /\ UNCHANGED <<filters, query, results, timers, failed>>
        /\ ~overtaken' => ~overtaken
    BY <1>2 DEF DashboardAnswered, Answered, searchVars
  <2>3. \A r : IsCurrent(r)' <=> IsCurrent(r)
    BY <2>2 DEF IsCurrent
  <2>4. QED
    BY <2>1, <2>2, <2>3 DEF SearchInv
<1>3. CASE SearchFails(i) \/ LoadFails(i)
  BY <1>3 DEF SearchFails, LoadFails, SearchInv
<1>4. QED
  BY <1>1, <1>2, <1>3 DEF Answer

\* What a setter of the user sends, of both kinds, keeps the spinners honest.
LEMMA EventOthers ==
  ASSUME TypeOK, SpinnersInv, DashboardInv, Event
  PROVE  SpinnersInv' /\ DashboardInv'
<1> USE DEF searchVars, analyticsVars, history
<1>1. CASE (\E q \in Queries \cup {Blank} : Input(q)) \/ ClearSearch
  BY <1>1 DEF Input, ClearSearch, SpinnersInv, DashboardInv, LoadOf
<1>2. CASE \E p \in Projects : ChangeProject(p)
  <2>1. PICK p \in Projects : ChangeProject(p)
    BY <1>2
  <2> DEFINE f == [project |-> p, user |-> All]
  <2>2. f \in Filters /\ range \in Ranges
    BY AllAssumption DEF TypeOK, Filters
  <2>3. /\ requests' = (requests \o Asked(f)) \o Loads(p, range)
        /\ project' = p /\ range' = range
        /\ searching' = (searching \/ query # Blank)
    BY <2>1 DEF ChangeProject
  <2> HIDE DEF f
  <2>4. requests \o Asked(f) \in Seq(Requests)
    BY <2>2, AskedStep
  <2>5. Latest(requests', {"dashboard"}) = {LoadOf(p, range)}
    BY <2>2, <2>3, <2>4, LoadsStep
  <2>6. searching' => Latest(requests', {"search"}) # {}
    <3>1. Latest(requests', {"search"}) = Latest(requests \o Asked(f), {"search"})
      BY <2>2, <2>3, <2>4, LoadsStep
    <3>2. CASE query = Blank
      BY <2>2, <2>3, <3>1, <3>2, AskedStep DEF SpinnersInv
    <3>3. CASE query # Blank
      BY <2>2, <3>1, <3>3, AskedStep
    <3>4. QED
      BY <3>2, <3>3
  <2>7. LoadOf(p, range) = LoadOf(project, range)'
    BY <2>3 DEF LoadOf
  <2>8. QED
    BY <2>5, <2>6, <2>7 DEF SpinnersInv, DashboardInv
<1>3. CASE \E u \in Users : ApplyFilters(u)
  <2>1. PICK u \in Users : ApplyFilters(u)
    BY <1>3
  <2> DEFINE f == [project |-> All, user |-> u]
  <2>2. f \in Filters
    BY AllAssumption DEF Filters
  <2>3. /\ requests' = requests \o Asked(f) /\ searching' = (searching \/ query # Blank)
        /\ UNCHANGED <<page, project, range, dashboard, loading, overtaken, failed>>
    BY <2>1 DEF ApplyFilters
  <2> HIDE DEF f
  <2>4. Latest(requests', {"dashboard"}) = Latest(requests, {"dashboard"})
    BY <2>2, <2>3, AskedStep
  <2>5. searching' => Latest(requests', {"search"}) # {}
    <3>1. CASE query = Blank
      BY <2>2, <2>3, <3>1, AskedStep DEF SpinnersInv
    <3>2. CASE query # Blank
      BY <2>2, <2>3, <3>2, AskedStep
    <3>3. QED
      BY <3>1, <3>2
  <2>6. QED
    BY <2>3, <2>4, <2>5 DEF SpinnersInv, DashboardInv, LoadOf
<1>4. CASE \E r \in Ranges : ChangeRange(r)
  <2>1. PICK r \in Ranges : ChangeRange(r)
    BY <1>4
  <2>2. requests \in Seq(Requests) /\ project \in Projects
    BY DEF TypeOK, Requests
  <2>3. /\ Latest(requests', {"dashboard"}) = {LoadOf(project, r)}
        /\ Latest(requests', {"search"}) = Latest(requests, {"search"})
    BY <2>1, <2>2, LoadsStep DEF ChangeRange
  <2>4. LoadOf(project, r) = LoadOf(project, range)' /\ searching' = searching
    BY <2>1 DEF ChangeRange, LoadOf
  <2>5. QED
    BY <2>3, <2>4 DEF SpinnersInv, DashboardInv
<1>5. CASE OpenDashboard
  <2>1. requests \in Seq(Requests) /\ project \in Projects /\ range \in Ranges
    BY DEF TypeOK, Requests
  <2>2. /\ Latest(requests', {"dashboard"}) = {LoadOf(project, range)}
        /\ Latest(requests', {"search"}) = Latest(requests, {"search"})
    BY <1>5, <2>1, LoadSent DEF OpenDashboard
  <2>3. LoadOf(project, range) = LoadOf(project, range)' /\ searching' = searching
    BY <1>5 DEF OpenDashboard, LoadOf
  <2>4. QED
    BY <2>2, <2>3 DEF SpinnersInv, DashboardInv
<1>6. CASE OpenBrowser
  BY <1>6 DEF OpenBrowser, SpinnersInv, DashboardInv
<1>7. QED
  BY <1>1, <1>2, <1>3, <1>4, <1>5, <1>6 DEF Event

LEMMA TimerOthers ==
  ASSUME TypeOK, SpinnersInv, DashboardInv, NEW t, TimerFires(t)
  PROVE  SpinnersInv' /\ DashboardInv'
<1>1. filters \in Filters
  BY DEF TypeOK
<1>2. /\ requests' = requests \o Asked(filters) /\ searching' = (searching \/ query # Blank)
      /\ UNCHANGED <<page, project, range, dashboard, loading, overtaken, failed>>
  BY DEF TimerFires, analyticsVars, history
<1>3. Latest(requests', {"dashboard"}) = Latest(requests, {"dashboard"})
  BY <1>1, <1>2, AskedStep
<1>4. searching' => Latest(requests', {"search"}) # {}
  <2>1. CASE query = Blank
    BY <1>1, <1>2, <2>1, AskedStep DEF SpinnersInv
  <2>2. CASE query # Blank
    BY <1>1, <1>2, <2>2, AskedStep
  <2>3. QED
    BY <2>1, <2>2
<1>5. QED
  BY <1>2, <1>3, <1>4 DEF SpinnersInv, DashboardInv, LoadOf

LEMMA AnswerOthers ==
  ASSUME TypeOK, SpinnersInv, DashboardInv, NEW i \in DOMAIN requests, Answer(i)
  PROVE  SpinnersInv' /\ DashboardInv'
<1> USE DEF searchVars, analyticsVars
<1>1. CASE SearchAnswered(i) \/ SearchFails(i)
  <2>1. Latest(requests', {"dashboard"}) = Latest(requests, {"dashboard"})
    BY <1>1, OverStep DEF SearchAnswered, SearchFails, Answered
  <2>2. UNCHANGED <<page, project, range, dashboard, loading>> /\ ~searching'
    BY <1>1 DEF SearchAnswered, SearchFails
  <2>3. ~overtaken' /\ ~failed' => ~overtaken /\ ~failed
    BY <1>1, Zenon DEF SearchAnswered, SearchFails, Answered
  <2>4. QED
    BY <2>1, <2>2, <2>3 DEF SpinnersInv, DashboardInv, LoadOf
<1>2. CASE DashboardAnswered(i)
  <2>1. /\ UNCHANGED <<page, project, range, searching, failed>> /\ ~loading'
        /\ dashboard' = requests[i]
    BY <1>2 DEF DashboardAnswered, Answered
  <2>2. Latest(requests', {"search"}) = Latest(requests, {"search"})
    BY <1>2, OverStep DEF DashboardAnswered, Answered
  <2>3. ASSUME ~overtaken'
        PROVE  /\ ~overtaken
               /\ \/ Latest(requests', {"dashboard"}) = Latest(requests, {"dashboard"})
                  \/ /\ Latest(requests', {"dashboard"}) = {}
                     /\ Latest(requests, {"dashboard"}) = {requests[i]}
    BY <1>2, <2>3, AnsweredStep DEF DashboardAnswered
  <2>4. Latest(requests, {"dashboard"}) # {}
    BY <1>2, LatestExists DEF TypeOK, DashboardAnswered, Answered, Over
  <2>5. DashboardInv'
    BY <2>1, <2>3, <2>4 DEF DashboardInv, LoadOf
  <2>6. QED
    BY <2>1, <2>2, <2>5 DEF SpinnersInv
<1>3. CASE LoadFails(i)
  <2>1. Latest(requests', {"search"}) = Latest(requests, {"search"})
    BY <1>3, OverStep DEF LoadFails
  <2>2. QED
    BY <1>3, <2>1, Zenon DEF LoadFails, SpinnersInv, DashboardInv
<1>4. QED
  BY <1>1, <1>2, <1>3 DEF Answer

LEMMA NextIInv == IInv /\ [Next]_vars => IInv'
<1>1. SUFFICES ASSUME IInv, [Next]_vars PROVE IInv'
  OBVIOUS
<1>2. TypeOK /\ SpinnersInv /\ SearchInv /\ DashboardInv /\ TypeOK'
  BY <1>1, NextTypeOK DEF IInv
<1>3. CASE Event
  BY <1>2, <1>3, EventSearch, EventOthers DEF IInv
<1>4. CASE Timer
  BY <1>2, <1>4, TimerSearch, TimerOthers DEF IInv, Timer
<1>5. CASE \E i \in DOMAIN requests : Answer(i)
  BY <1>2, <1>5, AnswerSearch, AnswerOthers DEF IInv
<1>6. CASE UNCHANGED vars
  BY <1>2, <1>6
  DEF IInv, SpinnersInv, SearchInv, DashboardInv, IsCurrent, LoadOf,
      vars, searchVars, analyticsVars, history
<1>7. QED
  BY <1>1, <1>3, <1>4, <1>5, <1>6 DEF Next

LEMMA InvHolds == Spec => []IInv
BY InitIInv, NextIInv, PTL DEF Spec

-----------------------------------------------------------------------------
(* The properties. *)

\* A request of a kind that has a latest one is in flight, and the converse.
LEMMA LatestInFlight ==
  ASSUME TypeOK, NEW k
  PROVE  InFlight(k) <=> Latest(requests, {k}) # {}
<1>1. ASSUME InFlight(k) PROVE Latest(requests, {k}) # {}
  <2>1. PICK i \in DOMAIN requests : requests[i].kind = k
    BY <1>1 DEF InFlight
  <2> DEFINE kinds == {k}
  <2>2. requests[i].kind \in kinds
    BY <2>1
  <2> HIDE DEF kinds
  <2>3. Latest(requests, kinds) # {}
    BY <2>2, LatestExists DEF TypeOK
  <2>4. QED
    BY <2>3 DEF kinds
<1>2. ASSUME Latest(requests, {k}) # {} PROVE InFlight(k)
  BY <1>2 DEF Latest, InFlight
<1>3. QED
  BY <1>1, <1>2

\* A spinner stands for a request in flight, for any number of requests.
THEOREM SpinnersStandForRequests == Spec => []SpinnersEnd
<1>1. IInv => SpinnersEnd
  BY LatestInFlight DEF IInv, SpinnersInv, SpinnersEnd
<1>2. QED
  BY <1>1, InvHolds, PTL

\* When the answers come in the order of the requests and none fails, the results
\* are at last those of the text typed, under no filter that has been left.
THEOREM ResultsAreOfQuery == Spec => []ResultsOfQuery
<1>1. IInv => ResultsOfQuery
  BY LatestInFlight DEF IInv, SearchInv, IsCurrent, ResultsOfQuery
<1>2. QED
  BY <1>1, InvHolds, PTL

\* And the dashboard shows the project in the header and the dates above it.
THEOREM DashboardShowsFilters == Spec => []DashboardIsCurrent
<1>1. IInv => DashboardIsCurrent
  BY LatestInFlight DEF IInv, DashboardInv, DashboardIsCurrent
<1>2. QED
  BY <1>1, InvHolds, PTL

-----------------------------------------------------------------------------
(* Texts and their widths. *)

\* A piece of a text.
LEMMA SliceElements ==
  ASSUME NEW S, NEW text \in Seq(S), NEW a \in 0 .. Len(text), NEW b \in a .. Len(text)
  PROVE  /\ Slice(text, a, b) \in Seq(S) /\ Len(Slice(text, a, b)) = b - a
         /\ \A i \in 1 .. b - a : Slice(text, a, b)[i] = text[a + i]
<1>1. Len(text) \in Nat /\ DOMAIN text = 1 .. Len(text)
  BY LenProperties
<1>2. a + 1 \in Int /\ b \in Int /\ \A k \in a + 1 .. b : text[k] \in S
  BY <1>1, ElementOfSeq
<1>3. /\ SubSeq(text, a + 1, b) \in Seq(S)
      /\ Len(SubSeq(text, a + 1, b)) = IF a + 1 <= b THEN b - (a + 1) + 1 ELSE 0
      /\ \A i \in 1 .. b - (a + 1) + 1 : SubSeq(text, a + 1, b)[i] = text[a + 1 + i - 1]
  BY <1>1, <1>2, SubSeqProperties
<1>4. \A i \in 1 .. b - a : a + 1 + i - 1 = a + i
  BY <1>1
<1>5. b - (a + 1) + 1 = b - a /\ (a + 1 <= b \/ b - a = 0)
  BY <1>1
<1>6. QED
  BY <1>3, <1>4, <1>5 DEF Slice

\* Lower-casing keeps the number of characters.
LEMMA LowerText ==
  ASSUME NEW text \in Seq(Chars)
  PROVE  /\ ToLower(text) \in Seq(Chars) /\ Len(ToLower(text)) = Len(text)
         /\ \A i \in 1 .. Len(text) : ToLower(text)[i] = LowerCase[text[i]]
<1>1. /\ Len(text) \in Nat /\ DOMAIN text = 1 .. Len(text)
      /\ \A i \in 1 .. Len(text) : text[i] \in Chars
  BY LenProperties, ElementOfSeq
<1>2. \A i \in 1 .. Len(text) : LowerCase[text[i]] \in Chars
  BY <1>1, CharsAssumption
<1>3. QED
  BY <1>1, <1>2 DEF ToLower

\* w[n] is the width of the first n characters.
IsWidths(w, text, widths) ==
  /\ w \in [0 .. Len(text) -> Nat] /\ w[0] = 0
  /\ \A n \in 1 .. Len(text) : w[n] = w[n - 1] + widths[text[n]]

\* All that a proof needs to know of widths.
LEMMA WidthsFacts ==
  ASSUME NEW text \in Seq(Chars), NEW widths \in [Chars -> Nat], NEW w,
         IsWidths(w, text, widths)
  PROVE  /\ Len(text) \in Nat /\ \A n \in 0 .. Len(text) : w[n] \in Nat
         /\ \A n \in 1 .. Len(text) :
              /\ n - 1 \in 0 .. Len(text) /\ text[n] \in Chars /\ widths[text[n]] \in Nat
              /\ w[n - 1] \in Nat /\ w[n] = w[n - 1] + widths[text[n]]
<1> DEFINE N == Len(text)
<1>1. N \in Nat /\ \A n \in 1 .. N : text[n] \in Chars
  BY LenProperties, ElementOfSeq
<1>2. /\ w \in [0 .. N -> Nat]
      /\ \A n \in 1 .. N : w[n] = w[n - 1] + widths[text[n]]
  BY DEF IsWidths
<1> HIDE DEF N
<1>3. \A n \in 0 .. N : w[n] \in Nat
  BY <1>2
<1>4. \A n \in 1 .. N : n - 1 \in 0 .. N
  BY <1>1
<1>5. \A n \in 1 .. N : widths[text[n]] \in Nat
  BY <1>1
<1>6. QED
  BY <1>1, <1>2, <1>3, <1>4, <1>5 DEF N

\* There are widths of every text.
LEMMA WidthsExist ==
  ASSUME NEW text \in Seq(Chars), NEW widths \in [Chars -> Nat]
  PROVE  \E w : IsWidths(w, text, widths)
<1> DEFINE N == Len(text)
<1>1. N \in Nat /\ \A n \in 1 .. N : text[n] \in Chars
  BY LenProperties, ElementOfSeq
<1> DEFINE step == [n \in 1 .. N |-> [k \in Nat |-> k + widths[text[n]]]]
<1>2. step \in Steps(N, Nat)
  BY <1>1 DEF Steps
<1>3. \A k \in Nat, n \in 1 .. N : step[n][k] = k + widths[text[n]]
  OBVIOUS
<1> HIDE DEF step, N
<1>4. PICK w \in [0 .. N -> Nat] : /\ w[0] = 0
                                   /\ \A n \in 1 .. N : w[n] = step[n][w[n - 1]]
  <2>1. N \in Nat
    BY <1>1
  <2>2. \E f : IsPath(f, N, Nat, 0, step)
    BY <1>2, <2>1, PathExists
  <2>3. QED
    BY <2>2 DEF IsPath
<1>5. \A n \in 1 .. N : w[n] = w[n - 1] + widths[text[n]]
  <2>1. \A n \in 1 .. N : n - 1 \in 0 .. N
    BY <1>1
  <2>2. \A n \in 1 .. N : w[n - 1] \in Nat
    BY <1>4, <2>1
  <2>3. QED
    BY <1>3, <1>4, <2>2
<1>6. QED
  BY <1>4, <1>5 DEF IsWidths, N

\* There is only one, and Width is its last value.
LEMMA WidthIsLast ==
  ASSUME NEW text \in Seq(Chars), NEW widths \in [Chars -> Nat], NEW w,
         IsWidths(w, text, widths)
  PROVE  Width(text, widths) = w[Len(text)]
<1> DEFINE N == Len(text)
           v == CHOOSE f : f = [n \in 0 .. N |-> IF n = 0 THEN 0
                                                ELSE f[n - 1] + widths[text[n]]]
           T == {n \in 0 .. N : v[n] = w[n]}
<1>1. N \in Nat
  BY LenProperties
<1>2. w = [n \in 0 .. N |-> IF n = 0 THEN 0 ELSE w[n - 1] + widths[text[n]]]
  BY <1>1 DEF IsWidths
<1>3. v = [n \in 0 .. N |-> IF n = 0 THEN 0 ELSE v[n - 1] + widths[text[n]]]
  BY <1>2
<1>4. Width(text, widths) = v[N]
  BY DEF Width
<1> HIDE DEF v
<1>5. 0 \in T
  BY <1>1, <1>3 DEF IsWidths
<1>6. ASSUME NEW n \in 1 .. N, n - 1 \in T PROVE n \in T
  <2>1. v[n] = v[n - 1] + widths[text[n]]
    BY <1>1, <1>3
  <2>2. QED
    BY <1>1, <1>6, <2>1 DEF IsWidths
<1>7. N \in T
  <2>1. \A n \in 1 .. N : n - 1 \in T => n \in T
    BY <1>6
  <2> HIDE DEF T, N
  <2>2. N \in Nat
    BY <1>1
  <2>3. 0 \in T
    BY <1>5
  <2>4. \A n \in 1 .. N : n - 1 \in T => n \in T
    BY <2>1
  <2>5. QED
    BY <2>2, <2>3, <2>4, UpTo
<1>8. QED
  BY <1>4, <1>7

\* The width of a piece is what the widths of its ends differ by.
LEMMA WidthOfSlice ==
  ASSUME NEW text \in Seq(Chars), NEW widths \in [Chars -> Nat], NEW w,
         IsWidths(w, text, widths), NEW a \in 0 .. Len(text), NEW b \in a .. Len(text)
  PROVE  Width(Slice(text, a, b), widths) = w[b] - w[a]
<1> DEFINE piece == Slice(text, a, b)
<1>1. Len(text) \in Nat /\ b - a \in Nat
  BY LenProperties
<1>2. /\ piece \in Seq(Chars) /\ Len(piece) = b - a
      /\ \A i \in 1 .. b - a : piece[i] = text[a + i]
  BY SliceElements
<1> HIDE DEF piece
<1>3. PICK v : IsWidths(v, piece, widths)
  BY <1>2, WidthsExist
<1> DEFINE T == {n \in 0 .. b - a : v[n] = w[a + n] - w[a]}
<1>4. 0 \in T
  <2>1. v[0] = 0
    BY <1>3 DEF IsWidths
  <2>3. w[a] \in Nat
    BY WidthsFacts
  <2>2. QED
    BY <1>1, <2>1, <2>3
<1>5. ASSUME NEW n \in 1 .. b - a, n - 1 \in T PROVE n \in T
  <2>1. v[n] = v[n - 1] + widths[piece[n]]
    BY <1>2, <1>3 DEF IsWidths
  <2>2. a + n \in 1 .. Len(text) /\ (a + n) - 1 = a + (n - 1)
    BY <1>1
  <2>3. w[a + n] = w[a + (n - 1)] + widths[text[a + n]]
    <3>1. \A i \in 1 .. Len(text) : w[i] = w[i - 1] + widths[text[i]]
      BY DEF IsWidths
    <3>2. w[a + n] = w[(a + n) - 1] + widths[text[a + n]]
      BY <2>2, <3>1
    <3>3. QED
      BY <2>2, <3>2
  <2>4. v[n - 1] = w[a + (n - 1)] - w[a] /\ piece[n] = text[a + n]
    BY <1>2, <1>5
  <2>5. w[a] \in Nat /\ w[a + (n - 1)] \in Nat
    BY <2>2, WidthsFacts
  <2>6. widths[text[a + n]] \in Nat
    BY <2>2, WidthsFacts
  <2>7. v[n] = w[a + n] - w[a]
    BY <2>1, <2>3, <2>4, <2>5, <2>6
  <2>8. QED
    BY <2>7
<1> DEFINE N == b - a
<1>6. N \in T
  <2>1. N \in Nat
    BY <1>1
  <2>4. \A n \in 1 .. N : n - 1 \in T => n \in T
    BY <1>5
  <2>2. 0 \in T
    BY <1>4
  <2> HIDE DEF T, N
  <2>3. QED
    BY <2>1, <2>2, <2>4, UpTo
<1>7. v[b - a] = w[a + (b - a)] - w[a] /\ a + (b - a) = b
  BY <1>1, <1>6
<1>8. QED
  BY <1>2, <1>3, <1>7, WidthIsLast DEF piece

\* Every character has a width: a longer beginning is wider.
LEMMA WidthsIncrease ==
  ASSUME NEW text \in Seq(Chars), NEW widths \in [Chars -> Nat \ {0}], NEW w,
         IsWidths(w, text, widths), NEW a \in 0 .. Len(text), NEW b \in 0 .. Len(text),
         a < b
  PROVE  w[a] < w[b]
<1>1. /\ Len(text) \in Nat /\ \A n \in 0 .. Len(text) : w[n] \in Nat
      /\ \A n \in 1 .. Len(text) :
           /\ text[n] \in Chars
           /\ w[n - 1] \in Nat /\ w[n] = w[n - 1] + widths[text[n]]
  BY WidthsFacts
<1> DEFINE T == {n \in 0 .. Len(text) : \A k \in 0 .. n - 1 : w[k] < w[n]}
<1>2. 0 \in T
  BY <1>1
<1>3. ASSUME NEW n \in 1 .. Len(text), n - 1 \in T PROVE n \in T
  <2>1. w[n] = w[n - 1] + widths[text[n]] /\ w[n - 1] \in Nat
    BY <1>1
  <2>2. text[n] \in Chars
    BY <1>1
  <2>3. widths[text[n]] \in Nat \ {0}
    BY <2>2
  <2>4. w[n - 1] < w[n]
    BY <2>1, <2>3
  <2>5. ASSUME NEW k \in 0 .. n - 1 PROVE w[k] < w[n]
    <3>1. k = n - 1 \/ k \in 0 .. (n - 1) - 1
      OBVIOUS
    <3>2. w[k] \in Nat /\ w[n] \in Nat /\ w[n - 1] \in Nat
      BY <1>1
    <3>3. k = n - 1 \/ w[k] < w[n - 1]
      BY <1>3, <3>1
    <3>4. QED
      BY <2>4, <3>2, <3>3
  <2>6. QED
    BY <2>5
<1> HIDE DEF T
<1>4. b \in T
  BY <1>1, <1>2, <1>3, UpTo
<1>5. QED
  BY <1>1, <1>4 DEF T

-----------------------------------------------------------------------------
(* Where a term is in a text. *)

\* The places a loop finds: none of them overlaps another, and every place of the
\* term overlaps one of them.
LEMMA LeftmostPlaces ==
  ASSUME NEW text, NEW term, Len(text) \in Nat, Len(term) \in Nat \ {0}
  PROVE  /\ Leftmost(term, text) \subseteq Occurrences(term, text)
         /\ \A p, q \in Leftmost(term, text) : p < q => p + Len(term) <= q
         /\ \A p \in Occurrences(term, text) :
              \E q \in Leftmost(term, text) : q <= p /\ p < q + Len(term)
<1> DEFINE N == Len(text)
           n == Len(term)
           X == Occurrences(term, text)
           f == CHOOSE g : IsSearch(g, 0, N, X, n)
<1>1. X \subseteq 0 .. (N - n)
  BY DEF Occurrences
<1>2. IsSearch(f, 0, N, X, n)
  <2> HIDE DEF X
  <2>1. \E g : IsSearch(g, 0, N, X, n)
    BY <1>1, SearchExists
  <2>2. QED
    BY <2>1
<1>3. Leftmost(term, text) = f[0]
  BY DEF Leftmost, IsSearch, From
<1>4. Covers(f[0], X, n)
  <2>1. N \in Nat /\ n \in Nat \ {0}
    OBVIOUS
  <2> HIDE DEF X, f, N, n
  <2>2. QED
    BY <1>1, <1>2, <2>1, SearchFinds
<1>5. QED
  BY <1>3, <1>4 DEF Covers

-----------------------------------------------------------------------------
(* The window and the highlights of a snippet. *)

\* Every character has a width, in bytes and in UTF-16 units.
LEMMA BytesFacts ==
  /\ Bytes \in [Chars -> Nat] /\ Bytes \in [Chars -> Nat \ {0}]
  /\ Units \in [Chars -> Nat] /\ Units \in [Chars -> Nat \ {0}]
<1>1. \A k \in 1 .. 4 : k \in Nat /\ k \in Nat \ {0}
  OBVIOUS
<1>2. \A k \in 1 .. 2 : k \in Nat /\ k \in Nat \ {0}
  OBVIOUS
<1>3. QED
  BY <1>1, <1>2, CharsAssumption

\* The characters of the first n bytes: none of a whole character is lost.
LEMMA CharsOfPrefix ==
  ASSUME NEW text \in Seq(Chars), NEW n \in Nat
  PROVE  /\ CharsOf(text, n) \in Nat
         /\ \A k \in 0 .. Len(text) :
              n = Width(Slice(text, 0, k), Bytes) => CharsOf(text, n) = k
<1>1. PICK w : IsWidths(w, text, Bytes)
  BY WidthsExist, BytesFacts
<1>2. /\ Len(text) \in Nat /\ w[0] = 0 /\ \A k \in 0 .. Len(text) : w[k] \in Nat
  BY <1>1, WidthsFacts, BytesFacts DEF IsWidths
<1>3. \A k \in 0 .. Len(text) : Width(Slice(text, 0, k), Bytes) = w[k]
  <2>1. SUFFICES ASSUME NEW k \in 0 .. Len(text)
                 PROVE  Width(Slice(text, 0, k), Bytes) = w[k]
    OBVIOUS
  <2>2. 0 \in 0 .. Len(text)
    BY <1>2
  <2>3. Width(Slice(text, 0, k), Bytes) = w[k] - w[0]
    BY <1>1, <2>2, WidthOfSlice, BytesFacts
  <2>4. QED
    BY <1>2, <2>3
<1> DEFINE X == {k \in 0 .. Len(text) : Width(Slice(text, 0, k), Bytes) <= n}
           whole == Max(X)
<1>4. 0 \in X
  BY <1>2, <1>3
<1>5. X \subseteq 0 .. Len(text)
  OBVIOUS
<1>6. \A k \in 0 .. Len(text) : k \in X <=> w[k] <= n
  BY <1>3
<1>7. CharsOf(text, n) = whole + n - Width(Slice(text, 0, whole), Bytes)
  BY DEF CharsOf
<1> HIDE DEF X
<1>8. whole \in X /\ \A k \in X : k <= whole
  BY <1>2, <1>4, <1>5, MostOf
<1> HIDE DEF whole
<1>9. whole \in 0 .. Len(text) /\ w[whole] <= n /\ w[whole] \in Nat
  BY <1>2, <1>5, <1>6, <1>8
<1>10. CharsOf(text, n) = whole + n - w[whole]
  BY <1>3, <1>7, <1>9
<1>11. ASSUME NEW k \in 0 .. Len(text), n = Width(Slice(text, 0, k), Bytes)
       PROVE  CharsOf(text, n) = k
  <2>1. n = w[k] /\ w[k] \in Nat
    BY <1>2, <1>3, <1>11
  <2>2. k \in X
    BY <1>6, <2>1
  <2>3. ~ (k < whole)
    <3>1. SUFFICES ASSUME k < whole PROVE FALSE
      OBVIOUS
    <3>2. w[k] < w[whole]
      BY <1>1, <1>9, <3>1, WidthsIncrease, BytesFacts
    <3>3. QED
      BY <1>9, <2>1, <3>2
  <2>4. k = whole
    BY <1>8, <1>9, <2>2, <2>3
  <2>5. QED
    BY <1>9, <1>10, <2>1, <2>4
<1>12. QED
  BY <1>9, <1>10, <1>11

FirstMatch(content, term) == Min(Occurrences(ToLower(term), ToLower(content)))

\* It is a place of the term in the content, and has a position in bytes.
LEMMA FirstMatchFacts ==
  ASSUME NEW content \in Seq(Chars), NEW term \in Seq(Chars), Matches(content, term)
  PROVE  /\ FirstMatch(content, term) \in Occurrences(ToLower(term), ToLower(content))
         /\ FirstMatch(content, term) \in 0 .. Len(content)
         /\ FirstMatch(content, term) + Len(term) <= Len(content)
         /\ MatchPos(content, term) \in Nat
<1> DEFINE X == Occurrences(ToLower(term), ToLower(content))
           at == FirstMatch(content, term)
<1>1. /\ Len(content) \in Nat /\ Len(term) \in Nat
      /\ ToLower(content) \in Seq(Chars)
      /\ Len(ToLower(content)) = Len(content) /\ Len(ToLower(term)) = Len(term)
  BY LowerText, LenProperties
<1>2. \A p \in X : p \in 0 .. Len(content) - Len(term)
  BY <1>1 DEF Occurrences
<1>3. X \subseteq Nat /\ X # {}
  BY <1>1, <1>2 DEF Matches
<1> HIDE DEF X
<1>4. Min(X) \in X
  BY <1>3, LeastOf
<1>5. at \in X /\ at \in 0 .. Len(content) /\ at + Len(term) <= Len(content)
  BY <1>1, <1>2, <1>4 DEF FirstMatch, X
<1> DEFINE before == Slice(ToLower(content), 0, at)
<1>6. before \in Seq(Chars)
  <2>1. 0 \in 0 .. Len(ToLower(content)) /\ at \in 0 .. Len(ToLower(content))
    BY <1>1, <1>5
  <2> HIDE DEF at
  <2>2. QED
    BY <1>1, <2>1, SliceElements
<1>7. MatchPos(content, term) = Width(before, Bytes)
  BY DEF MatchPos, FirstMatch
<1> HIDE DEF before, at
<1>8. Width(before, Bytes) \in Nat
  <2>1. PICK w : IsWidths(w, before, Bytes)
    BY <1>6, WidthsExist, BytesFacts
  <2>2. Width(before, Bytes) = w[Len(before)]
    BY <1>6, <2>1, WidthIsLast, BytesFacts
  <2>3. Len(before) \in Nat /\ \A n \in 0 .. Len(before) : w[n] \in Nat
    BY <1>6, <2>1, WidthsFacts, BytesFacts
  <2>4. QED
    BY <2>2, <2>3
<1>9. QED
  BY <1>5, <1>7, <1>8 DEF X, at

\* The window is in the content and as wide as can be; and the first match is in it if
\* lower-casing keeps the bytes before it and the term fits.
LEMMA WindowFacts ==
  ASSUME NEW content \in Seq(Chars), NEW term \in Seq(Chars), Matches(content, term)
  PROVE  \E a \in 0 .. Len(content) : \E b \in a .. Len(content) :
           /\ Window(content, term) = <<a, b>>
           /\ b - a = WindowSize \/ (b - a < WindowSize /\ a = 0 /\ b = Len(content))
           /\ Kept(content, term) =>
                a <= FirstMatch(content, term) /\ FirstMatch(content, term) + Len(term) <= b
<1> DEFINE at == FirstMatch(content, term)
           size == Len(content)
           half == WindowSize \div 2
           start == Max({0, CharsOf(content, MatchPos(content, term)) - half})
<1>1. /\ size \in Nat /\ Len(term) \in Nat
      /\ at \in 0 .. size /\ at + Len(term) <= size
      /\ CharsOf(content, MatchPos(content, term)) \in Nat
  BY LenProperties, FirstMatchFacts, CharsOfPrefix
<1>2. WindowSize \in Nat \ {0} /\ half \in Nat /\ half <= WindowSize
  BY WindowAssumption
<1>3. Kept(content, term) =>
        CharsOf(content, MatchPos(content, term)) = at /\ Len(term) <= WindowSize - half
  <2>1. SUFFICES ASSUME Kept(content, term)
                 PROVE  /\ CharsOf(content, MatchPos(content, term)) = at
                        /\ Len(term) <= WindowSize - half
    OBVIOUS
  <2>2. /\ MatchPos(content, term) = Width(Slice(content, 0, at), Bytes)
        /\ Len(term) <= WindowSize - half
    BY <2>1 DEF Kept, MatchPos, FirstMatch
  <2> HIDE DEF at
  <2>3. QED
    BY <1>1, <2>2, CharsOfPrefix, FirstMatchFacts
<1> HIDE DEF at, half
<1> DEFINE guess == CharsOf(content, MatchPos(content, term))
<1>4. start = IF 0 >= guess - half THEN 0 ELSE guess - half
  BY <1>1, <1>2, ExtremesOfTwo
<1>5. Max({0, size - WindowSize}) = IF 0 >= size - WindowSize THEN 0 ELSE size - WindowSize
  BY <1>1, <1>2, ExtremesOfTwo
<1>6. Window(content, term) = IF start + WindowSize <= size THEN <<start, start + WindowSize>>
                              ELSE <<Max({0, size - WindowSize}), size>>
  BY DEF Window, half
<1>7. Kept(content, term) => guess = at /\ Len(term) <= WindowSize - half
  BY <1>3
<1>8. size \in Nat /\ Len(term) \in Nat /\ at \in 0 .. size /\ at + Len(term) <= size
      /\ guess \in Nat
  BY <1>1
<1> HIDE DEF guess, size, start
<1>9. CASE start + WindowSize <= size
  <2>1. /\ start \in 0 .. size /\ start + WindowSize \in start .. size
        /\ (start + WindowSize) - start = WindowSize
    BY <1>2, <1>4, <1>8, <1>9
  <2>2. Kept(content, term) => start <= at /\ at + Len(term) <= start + WindowSize
    BY <1>2, <1>4, <1>7, <1>8
  <2>3. Window(content, term) = <<start, start + WindowSize>>
    BY <1>6, <1>9
  <2>4. QED
    BY <2>1, <2>2, <2>3 DEF size, at
<1>10. CASE ~ (start + WindowSize <= size)
  <2> DEFINE a == Max({0, size - WindowSize})
  <2>1. a = IF 0 >= size - WindowSize THEN 0 ELSE size - WindowSize
    BY <1>5
  <2>2. Window(content, term) = <<a, size>>
    BY <1>6, <1>10
  <2> HIDE DEF a
  <2>3. a \in 0 .. size /\ size \in a .. size
    BY <1>2, <1>8, <2>1
  <2>4. size - a = WindowSize \/ (size - a < WindowSize /\ a = 0)
    BY <1>2, <1>8, <2>1
  <2>5. Kept(content, term) => a <= at
    BY <1>2, <1>4, <1>7, <1>8, <1>10, <2>1
  <2>6. QED
    BY <1>8, <2>2, <2>3, <2>4, <2>5 DEF size, at
<1>11. QED
  BY <1>9, <1>10

\* The highlights are where a loop finds the term, in bytes.
HighlightAt(w, dots, p, n) == [start |-> dots + w[p], end |-> dots + w[p + n]]

\* They are those of the places that Leftmost finds.
LEMMA HighlightPlaces ==
  ASSUME NEW text \in Seq(Chars), NEW term \in Seq(Chars), term # << >>, NEW dots \in Nat,
         NEW w, IsWidths(w, text, Bytes)
  PROVE  LET L == Leftmost(ToLower(term), ToLower(text)) IN
         /\ \A p \in L : p \in 0 .. Len(text) /\ p + Len(term) \in 0 .. Len(text)
         /\ \A h \in HighlightsIn(text, term, dots) :
              \E p \in L : h = HighlightAt(w, dots, p, Len(term))
         /\ \A p \in L : HighlightAt(w, dots, p, Len(term)) \in HighlightsIn(text, term, dots)
<1> DEFINE L == Leftmost(ToLower(term), ToLower(text))
           n == Len(term)
           size == Len(text)
<1>1. /\ size \in Nat /\ n \in Nat /\ n # 0
      /\ Len(ToLower(text)) = size /\ Len(ToLower(term)) = n
  BY LowerText, LenProperties, EmptySeq
<1>2. L \subseteq Occurrences(ToLower(term), ToLower(text))
  <2>1. Len(ToLower(text)) \in Nat /\ Len(ToLower(term)) \in Nat \ {0}
    BY <1>1
  <2>2. QED
    BY <2>1, LeftmostPlaces
<1> HIDE DEF L
<1>3. ASSUME NEW p \in L PROVE p \in 0 .. size /\ p + n \in 0 .. size
  <2>1. p \in 0 .. (size - n)
    BY <1>1, <1>2 DEF Occurrences
  <2>2. QED
    BY <1>1, <2>1
<1>4. \A k \in 0 .. size : Width(Slice(text, 0, k), Bytes) = w[k]
  <2>1. SUFFICES ASSUME NEW k \in 0 .. size PROVE Width(Slice(text, 0, k), Bytes) = w[k]
    OBVIOUS
  <2>2. 0 \in 0 .. size
    BY <1>1
  <2>3. Width(Slice(text, 0, k), Bytes) = w[k] - w[0]
    BY <2>2, WidthOfSlice, BytesFacts
  <2>4. w[0] = 0 /\ w[k] \in Nat
    BY WidthsFacts, BytesFacts DEF IsWidths
  <2>5. QED
    BY <2>3, <2>4
<1>5. ASSUME NEW p \in L
      PROVE  [start |-> dots + Width(Slice(text, 0, p), Bytes),
              end |-> dots + Width(Slice(text, 0, p + n), Bytes)]
               = HighlightAt(w, dots, p, n)
  BY <1>3, <1>4 DEF HighlightAt
<1>6. \A h : h \in HighlightsIn(text, term, dots)
                <=> \E p \in L : h = [start |-> dots + Width(Slice(text, 0, p), Bytes),
                                      end |-> dots + Width(Slice(text, 0, p + n), Bytes)]
  BY DEF HighlightsIn, L
<1>7. \A h : h \in HighlightsIn(text, term, dots)
                <=> \E p \in L : h = HighlightAt(w, dots, p, n)
  BY <1>5, <1>6
<1>8. QED
  BY <1>3, <1>7 DEF L

\* None of them is empty and none overlaps another.
LEMMA HighlightsApart ==
  ASSUME NEW text \in Seq(Chars), NEW term \in Seq(Chars), term # << >>, NEW dots \in Nat
  PROVE  /\ \A h \in HighlightsIn(text, term, dots) :
              h.start \in Nat /\ h.end \in Nat /\ h.start < h.end
         /\ \A g, h \in HighlightsIn(text, term, dots) :
              g = h \/ g.end <= h.start \/ h.end <= g.start
<1> DEFINE L == Leftmost(ToLower(term), ToLower(text))
           n == Len(term)
           size == Len(text)
           H == HighlightsIn(text, term, dots)
<1>1. PICK w : IsWidths(w, text, Bytes)
  BY WidthsExist, BytesFacts
<1>2. /\ size \in Nat /\ n \in Nat /\ n # 0
      /\ Len(ToLower(text)) = size /\ Len(ToLower(term)) = n
  BY LowerText, LenProperties, EmptySeq
<1>3. /\ \A p \in L : p \in 0 .. size /\ p + n \in 0 .. size
      /\ \A h \in H : \E p \in L : h = HighlightAt(w, dots, p, n)
  BY <1>1, HighlightPlaces
<1>4. \A p, q \in L : p < q => p + n <= q
  <2>1. Len(ToLower(text)) \in Nat /\ Len(ToLower(term)) \in Nat \ {0}
    BY <1>2
  <2>2. \A p, q \in L : p < q => p + Len(ToLower(term)) <= q
    BY <2>1, LeftmostPlaces
  <2>3. QED
    BY <1>2, <2>2
<1>5. \A k \in 0 .. size : w[k] \in Nat
  BY <1>1, WidthsFacts, BytesFacts
<1>6. \A j, k \in 0 .. size : j < k => w[j] < w[k]
  BY <1>1, WidthsIncrease, BytesFacts
<1>7. \A p : /\ HighlightAt(w, dots, p, n).start = dots + w[p]
             /\ HighlightAt(w, dots, p, n).end = dots + w[p + n]
  BY DEF HighlightAt
<1> HIDE DEF L, n, size, H
<1>8. ASSUME NEW h \in H PROVE h.start \in Nat /\ h.end \in Nat /\ h.start < h.end
  <2>1. PICK p \in L : h = HighlightAt(w, dots, p, n)
    BY <1>3
  <2>2. p \in 0 .. size /\ p + n \in 0 .. size /\ p < p + n
    BY <1>2, <1>3
  <2>3. w[p] \in Nat /\ w[p + n] \in Nat /\ w[p] < w[p + n]
    BY <1>5, <1>6, <2>2
  <2>4. QED
    BY <1>7, <2>1, <2>3
<1>9. ASSUME NEW g \in H, NEW h \in H PROVE g = h \/ g.end <= h.start \/ h.end <= g.start
  <2>1. PICK p \in L : g = HighlightAt(w, dots, p, n)
    BY <1>3
  <2>2. PICK q \in L : h = HighlightAt(w, dots, q, n)
    BY <1>3
  <2>3. /\ p \in 0 .. size /\ p + n \in 0 .. size
        /\ q \in 0 .. size /\ q + n \in 0 .. size
    BY <1>3
  <2>4. /\ w[p] \in Nat /\ w[q] \in Nat /\ w[p + n] \in Nat /\ w[q + n] \in Nat
    BY <1>5, <2>3
  <2>5. p = q \/ p + n <= q \/ q + n <= p
    BY <1>2, <1>4, <2>3
  <2>6. CASE p = q
    BY <2>1, <2>2, <2>6
  <2>7. CASE p + n <= q
    <3>1. p + n = q \/ p + n < q
      BY <1>2, <2>3, <2>7
    <3>2. w[p + n] <= w[q]
      BY <1>6, <2>3, <2>4, <3>1
    <3>3. QED
      BY <1>7, <2>1, <2>2, <2>4, <3>2
  <2>8. CASE q + n <= p
    <3>1. q + n = p \/ q + n < p
      BY <1>2, <2>3, <2>8
    <3>2. w[q + n] <= w[p]
      BY <1>6, <2>3, <2>4, <3>1
    <3>3. QED
      BY <1>7, <2>1, <2>2, <2>4, <3>2
  <2>9. QED
    BY <2>5, <2>6, <2>7, <2>8
<1>10. QED
  BY <1>8, <1>9 DEF H

-----------------------------------------------------------------------------
(* The parts of a snippet. *)

\* Highlights of which none is empty and none overlaps another.
AreApart(H) ==
  /\ \A h \in H : h.start \in Nat /\ h.end \in Nat /\ h.start < h.end
  /\ \A g, h \in H : g = h \/ g.end <= h.start \/ h.end <= g.start

\* Where what lies behind e ends: at the next highlight, or with the text.
GapEnd(s, e) ==
  Min({h.start : h \in {g \in s.highlights : g.start >= e}} \cup {UnitsOf(s)})
Ends(s) == {0} \cup {h.end : h \in s.highlights}

\* A gap ends at a highlight that begins behind e, before all others, or with the text.
LEMMA GapEndFacts ==
  ASSUME NEW s, AreApart(s.highlights), UnitsOf(s) \in Nat, NEW e \in Nat
  PROVE  /\ GapEnd(s, e) \in Nat /\ GapEnd(s, e) <= UnitsOf(s)
         /\ \A h \in s.highlights : h.start >= e => GapEnd(s, e) <= h.start
         /\ \/ GapEnd(s, e) = UnitsOf(s)
            \/ \E h \in s.highlights : h.start >= e /\ GapEnd(s, e) = h.start
<1> DEFINE X == {h.start : h \in {g \in s.highlights : g.start >= e}} \cup {UnitsOf(s)}
<1>1. X \subseteq Nat /\ X # {}
  BY DEF AreApart
<1>2. /\ UnitsOf(s) \in X /\ \A h \in s.highlights : h.start >= e => h.start \in X
      /\ \A x \in X : \/ x = UnitsOf(s)
                      \/ \E h \in s.highlights : h.start >= e /\ x = h.start
  OBVIOUS
<1>3. GapEnd(s, e) = Min(X)
  BY DEF GapEnd
<1> HIDE DEF X
<1>4. Min(X) \in X /\ \A x \in X : Min(X) <= x
  BY <1>1, LeastOf
<1>5. QED
  BY <1>1, <1>2, <1>3, <1>4

\* What parts there are.
LEMMA PartsAre ==
  ASSUME NEW s, NEW p
  PROVE  p \in BuildSnippetParts(s) <=>
           \/ \E h \in s.highlights : p = Part(s, h.start, h.end, TRUE)
           \/ \E e \in Ends(s) : e < GapEnd(s, e) /\ p = Part(s, e, GapEnd(s, e), FALSE)
<1> DEFINE gaps == {<<e, GapEnd(s, e)>> : e \in Ends(s)}
<1>1. BuildSnippetParts(s) = {Part(s, h.start, h.end, TRUE) : h \in s.highlights}
        \cup {Part(s, g[1], g[2], FALSE) : g \in {x \in gaps : x[1] < x[2]}}
  BY DEF BuildSnippetParts, GapEnd, Ends
<1>2. ASSUME NEW e \in Ends(s), e < GapEnd(s, e), p = Part(s, e, GapEnd(s, e), FALSE)
      PROVE  p \in {Part(s, g[1], g[2], FALSE) : g \in {x \in gaps : x[1] < x[2]}}
  <2> DEFINE g == <<e, GapEnd(s, e)>>
  <2>1. g \in gaps /\ g[1] = e /\ g[2] = GapEnd(s, e)
    OBVIOUS
  <2> HIDE DEF g, gaps
  <2>2. p = Part(s, g[1], g[2], FALSE) /\ g[1] < g[2]
    BY <1>2, <2>1
  <2>3. QED
    BY <2>1, <2>2
<1>3. ASSUME p \in {Part(s, g[1], g[2], FALSE) : g \in {x \in gaps : x[1] < x[2]}}
      PROVE  \E e \in Ends(s) : e < GapEnd(s, e) /\ p = Part(s, e, GapEnd(s, e), FALSE)
  <2>1. PICK g \in gaps : g[1] < g[2] /\ p = Part(s, g[1], g[2], FALSE)
    BY <1>3
  <2>2. PICK e \in Ends(s) : g = <<e, GapEnd(s, e)>>
    OBVIOUS
  <2>3. g[1] = e /\ g[2] = GapEnd(s, e)
    BY <2>2
  <2>4. QED
    BY <2>1, <2>3
<1>4. QED
  BY <1>1, <1>2, <1>3

\* A unit of the text is in a part that begins before it and ends behind it.
LEMMA PartCovers ==
  ASSUME NEW s, UnitsOf(s) \in Nat, NEW u \in 0 .. (UnitsOf(s) - 1),
         NEW a \in Nat, NEW b \in Nat, NEW marked
  PROVE  Part(s, a, b, marked).from <= u /\ u < Part(s, a, b, marked).to
           <=> a <= u /\ u < b
<1>1. /\ Part(s, a, b, marked).from = IF a <= UnitsOf(s) THEN a ELSE UnitsOf(s)
      /\ Part(s, a, b, marked).to = IF b <= UnitsOf(s) THEN b ELSE UnitsOf(s)
  <2>1. \A k \in Nat : Min({k, UnitsOf(s)}) = IF k <= UnitsOf(s) THEN k ELSE UnitsOf(s)
    <3>1. SUFFICES ASSUME NEW k \in Nat
                   PROVE  Min({k, UnitsOf(s)}) = IF k <= UnitsOf(s) THEN k ELSE UnitsOf(s)
      OBVIOUS
    <3>2. k \in Int /\ UnitsOf(s) \in Int
      OBVIOUS
    <3>3. QED
      BY <3>2, ExtremesOfTwo
  <2>2. /\ Part(s, a, b, marked).from = Min({a, UnitsOf(s)})
        /\ Part(s, a, b, marked).to = Min({b, UnitsOf(s)})
    BY DEF Part
  <2>3. QED
    BY <2>1, <2>2
<1>2. QED
  BY <1>1

\* Each unit is in one part, whatever the highlights are, as long as they are apart.
LEMMA PartsCover ==
  ASSUME NEW s, AreApart(s.highlights), UnitsOf(s) \in Nat, NEW u \in 0 .. (UnitsOf(s) - 1)
  PROVE  \E p \in BuildSnippetParts(s) :
           /\ p.from <= u /\ u < p.to
           /\ \A q \in BuildSnippetParts(s) : q.from <= u /\ u < q.to => q = p
<1> DEFINE H == s.highlights
           end(e) == GapEnd(s, e)
           In(h) == h.start <= u /\ u < h.end
           InGap(e) == e <= u /\ u < end(e)
<1>1. /\ \A h \in H : h.start \in Nat /\ h.end \in Nat /\ h.start < h.end
      /\ \A g, h \in H : g = h \/ g.end <= h.start \/ h.end <= g.start
  BY DEF AreApart
<1>2. \A e \in Ends(s) : e \in Nat /\ (e = 0 \/ \E h \in H : e = h.end)
  BY <1>1 DEF Ends
<1>3. \A e \in Ends(s) :
        /\ end(e) \in Nat /\ end(e) <= UnitsOf(s)
        /\ \A h \in H : h.start >= e => end(e) <= h.start
        /\ end(e) = UnitsOf(s) \/ \E h \in H : h.start >= e /\ end(e) = h.start
  BY <1>2, GapEndFacts
<1>4. u \in Nat /\ u < UnitsOf(s)
  OBVIOUS
<1> HIDE DEF H, end
<1>5. ASSUME NEW g \in H, NEW h \in H, In(g), In(h) PROVE g = h
  BY <1>1, <1>4, <1>5
<1>6. ASSUME NEW h \in H, NEW e \in Ends(s), In(h), InGap(e) PROVE FALSE
  <2>1. ~ (h.start >= e)
    BY <1>1, <1>2, <1>3, <1>4, <1>6
  <2>2. PICK g \in H : e = g.end
    BY <1>1, <1>2, <2>1
  <2>3. QED
    BY <1>1, <1>4, <1>6, <2>1, <2>2
<1>7. ASSUME NEW d \in Ends(s), NEW e \in Ends(s), InGap(d), InGap(e), d < e PROVE FALSE
  <2>1. PICK h \in H : e = h.end
    BY <1>2, <1>7
  <2>2. ~ (h.start >= d)
    <3>1. h.start \in Nat /\ h.start < e /\ e \in Nat /\ end(d) \in Nat
      BY <1>1, <1>2, <1>3, <2>1
    <3>2. h.start >= d => end(d) <= h.start
      BY <1>3
    <3>3. QED
      BY <1>4, <1>7, <3>1, <3>2
  <2>3. PICK g \in H : d = g.end
    BY <1>1, <1>2, <2>2
  <2>4. QED
    BY <1>1, <1>2, <1>7, <2>1, <2>2, <2>3
<1>8. ASSUME NEW d \in Ends(s), NEW e \in Ends(s), InGap(d), InGap(e) PROVE d = e
  <2>1. ~ (d < e) /\ ~ (e < d)
    BY <1>7, <1>8
  <2>2. QED
    BY <1>2, <2>1
<1>9. (\E h \in H : In(h)) \/ (\E e \in Ends(s) : InGap(e))
  <2> DEFINE X == {u - e : e \in {x \in Ends(s) : x <= u}}
  <2>1. X \subseteq Nat /\ u - 0 \in X
    <3>1. 0 \in Ends(s)
      BY DEF Ends
    <3>2. QED
      BY <1>2, <1>4, <3>1
  <2>2. PICK x \in X : \A y \in X : x <= y
    BY <2>1, LeastNat
  <2>3. PICK e \in Ends(s) : e <= u /\ x = u - e
    BY <2>2
  <2>4. ASSUME NEW d \in Ends(s), d <= u PROVE d <= e
    <3>1. u - d \in X
      BY <2>4
    <3>2. x <= u - d
      BY <2>2, <3>1
    <3>3. QED
      BY <1>2, <1>4, <2>3, <3>2
  <2>5. CASE u < end(e)
    BY <2>3, <2>5
  <2>6. CASE ~ (u < end(e))
    <3>1. PICK h \in H : h.start >= e /\ end(e) = h.start
      BY <1>3, <1>4, <2>6
    <3>2. h.start <= u /\ h.start < h.end /\ e \in Nat
      BY <1>1, <1>2, <1>4, <2>6, <3>1
    <3>3. h.end \in Ends(s)
      BY DEF Ends, H
    <3>4. ~ (h.end <= u)
      BY <1>1, <2>4, <3>1, <3>2, <3>3
    <3>5. u < h.end
      BY <1>1, <1>4, <3>4
    <3>6. QED
      BY <3>2, <3>5
  <2>7. QED
    BY <2>5, <2>6
<1> DEFINE Marked(h) == Part(s, h.start, h.end, TRUE)
           Between(e) == Part(s, e, end(e), FALSE)
<1>10. \A p : p \in BuildSnippetParts(s) <=>
                \/ \E h \in H : p = Marked(h)
                \/ \E e \in Ends(s) : e < end(e) /\ p = Between(e)
  BY PartsAre DEF H, end
<1>11. \A h \in H : Marked(h).from <= u /\ u < Marked(h).to <=> In(h)
  BY <1>1, PartCovers
<1>12. \A e \in Ends(s) : Between(e).from <= u /\ u < Between(e).to <=> InGap(e)
  BY <1>2, <1>3, PartCovers
<1> HIDE DEF Marked, Between
<1>13. CASE \E h \in H : In(h)
  <2>1. PICK h \in H : In(h)
    BY <1>13
  <2>2. Marked(h) \in BuildSnippetParts(s) /\ Marked(h).from <= u /\ u < Marked(h).to
    BY <1>10, <1>11, <2>1
  <2> HIDE DEF In, InGap
  <2>3. ASSUME NEW q \in BuildSnippetParts(s), q.from <= u, u < q.to PROVE q = Marked(h)
    <3>1. CASE \E g \in H : q = Marked(g)
      BY <1>5, <1>11, <2>1, <2>3, <3>1
    <3>2. CASE \E e \in Ends(s) : e < end(e) /\ q = Between(e)
      BY <1>6, <1>12, <2>1, <2>3, <3>2
    <3>3. QED
      BY <1>10, <3>1, <3>2
  <2>4. QED
    BY <2>2, <2>3
<1>14. CASE \E e \in Ends(s) : InGap(e)
  <2>1. PICK e \in Ends(s) : InGap(e)
    BY <1>14
  <2>2. e < end(e)
    BY <1>2, <1>3, <1>4, <2>1
  <2>3. Between(e) \in BuildSnippetParts(s) /\ Between(e).from <= u /\ u < Between(e).to
    BY <1>10, <1>12, <2>1, <2>2
  <2> HIDE DEF In, InGap
  <2>4. ASSUME NEW q \in BuildSnippetParts(s), q.from <= u, u < q.to PROVE q = Between(e)
    <3>1. CASE \E g \in H : q = Marked(g)
      BY <1>6, <1>11, <2>1, <2>4, <3>1
    <3>2. CASE \E d \in Ends(s) : d < end(d) /\ q = Between(d)
      BY <1>8, <1>12, <2>1, <2>4, <3>2
    <3>3. QED
      BY <1>10, <3>1, <3>2
  <2>5. QED
    BY <2>3, <2>4
<1>15. QED
  BY <1>9, <1>13, <1>14

-----------------------------------------------------------------------------
(* The snippet. *)

\* A piece of the lower-cased piece of a content is one of the lower-cased content.
LEMMA LowerSlice ==
  ASSUME NEW content \in Seq(Chars), NEW a \in 0 .. Len(content), NEW b \in a .. Len(content),
         NEW p \in 0 .. (b - a), NEW q \in p .. (b - a)
  PROVE  Slice(ToLower(Slice(content, a, b)), p, q) = Slice(ToLower(content), a + p, a + q)
<1> DEFINE size == Len(content)
           piece == Slice(content, a, b)
           left == Slice(ToLower(piece), p, q)
           right == Slice(ToLower(content), a + p, a + q)
<1>1. size \in Nat /\ b - a \in Nat /\ a + p \in 0 .. size /\ a + q \in a + p .. size
  BY LenProperties
<1>2. /\ piece \in Seq(Chars) /\ Len(piece) = b - a
      /\ \A i \in 1 .. b - a : piece[i] = content[a + i]
  BY SliceElements
<1> HIDE DEF piece
<1>3. /\ ToLower(piece) \in Seq(Chars) /\ Len(ToLower(piece)) = b - a
      /\ \A i \in 1 .. b - a : ToLower(piece)[i] = LowerCase[piece[i]]
  BY <1>2, LowerText
<1>4. /\ ToLower(content) \in Seq(Chars) /\ Len(ToLower(content)) = size
      /\ \A i \in 1 .. size : ToLower(content)[i] = LowerCase[content[i]]
  BY LowerText
<1>5. /\ left \in Seq(Chars) /\ Len(left) = q - p
      /\ \A i \in 1 .. q - p : left[i] = ToLower(piece)[p + i]
  <2> DEFINE low == ToLower(piece)
  <2>1. low \in Seq(Chars) /\ p \in 0 .. Len(low) /\ q \in p .. Len(low)
    BY <1>3
  <2> HIDE DEF low
  <2>2. /\ Slice(low, p, q) \in Seq(Chars) /\ Len(Slice(low, p, q)) = q - p
        /\ \A i \in 1 .. q - p : Slice(low, p, q)[i] = low[p + i]
    BY <2>1, SliceElements
  <2>3. QED
    BY <2>2 DEF low
<1>6. /\ right \in Seq(Chars) /\ Len(right) = (a + q) - (a + p)
      /\ \A i \in 1 .. (a + q) - (a + p) : right[i] = ToLower(content)[(a + p) + i]
  <2> DEFINE low == ToLower(content)
             from == a + p
             to == a + q
  <2>1. low \in Seq(Chars) /\ from \in 0 .. Len(low) /\ to \in from .. Len(low)
    BY <1>1, <1>4
  <2> HIDE DEF low, from, to
  <2>2. /\ Slice(low, from, to) \in Seq(Chars) /\ Len(Slice(low, from, to)) = to - from
        /\ \A i \in 1 .. to - from : Slice(low, from, to)[i] = low[from + i]
    BY <2>1, SliceElements
  <2>3. QED
    BY <2>2 DEF low, from, to
<1>7. (a + q) - (a + p) = q - p
  BY <1>1
<1> HIDE DEF left, right
<1>8. ASSUME NEW i \in 1 .. q - p PROVE left[i] = right[i]
  <2>1. /\ p + i \in 1 .. b - a /\ a + (p + i) = (a + p) + i
        /\ (a + p) + i \in 1 .. size
    BY <1>1
  <2>2. left[i] = LowerCase[content[a + (p + i)]]
    BY <1>2, <1>3, <1>5, <2>1
  <2>3. right[i] = LowerCase[content[(a + p) + i]]
    BY <1>4, <1>6, <1>7, <2>1
  <2>4. QED
    BY <2>1, <2>2, <2>3
<1>9. left = right
  BY <1>5, <1>6, <1>7, <1>8, SeqEqual
<1>10. QED
  BY <1>9 DEF left, right, piece

\* What ExtractSnippet makes of a content that has the term in it.
LEMMA SnippetOfMatch ==
  ASSUME NEW content \in Seq(Chars), NEW term \in Seq(Chars), term # << >>,
         Matches(content, term)
  PROVE  \E a \in 0 .. Len(content) : \E b \in a .. Len(content), dots \in {0, Dots} :
           /\ ExtractSnippet(content, term).text = Slice(content, a, b)
           /\ ExtractSnippet(content, term).before = dots
           /\ ExtractSnippet(content, term).after \in {0, Dots}
           /\ ExtractSnippet(content, term).highlights
                = HighlightsIn(Slice(content, a, b), term, dots)
           /\ b - a = WindowSize \/ (b - a < WindowSize /\ a = 0 /\ b = Len(content))
           /\ Kept(content, term) =>
                a <= FirstMatch(content, term) /\ FirstMatch(content, term) + Len(term) <= b
<1>1. content # << >>
  <2>1. /\ FirstMatch(content, term) \in 0 .. Len(content)
        /\ FirstMatch(content, term) + Len(term) <= Len(content)
    BY FirstMatchFacts
  <2>2. Len(term) \in Nat /\ Len(term) # 0 /\ Len(content) \in Nat
    BY LenProperties, EmptySeq
  <2>3. Len(content) # 0
    BY <2>1, <2>2
  <2>4. QED
    BY <2>3, EmptySeq
<1>2. PICK a \in 0 .. Len(content) : \E b \in a .. Len(content) :
        /\ Window(content, term) = <<a, b>>
        /\ b - a = WindowSize \/ (b - a < WindowSize /\ a = 0 /\ b = Len(content))
        /\ Kept(content, term) =>
             a <= FirstMatch(content, term) /\ FirstMatch(content, term) + Len(term) <= b
  BY WindowFacts
<1>3. PICK b \in a .. Len(content) :
        /\ Window(content, term) = <<a, b>>
        /\ b - a = WindowSize \/ (b - a < WindowSize /\ a = 0 /\ b = Len(content))
        /\ Kept(content, term) =>
             a <= FirstMatch(content, term) /\ FirstMatch(content, term) + Len(term) <= b
  BY <1>2
<1> DEFINE text == Slice(content, a, b)
           dots == IF a > 0 THEN Dots ELSE 0
           after == IF b < Len(content) THEN Dots ELSE 0
<1>4. ExtractSnippet(content, term) = [before |-> dots, text |-> text, after |-> after,
                                       highlights |-> HighlightsIn(text, term, dots)]
  BY <1>1, <1>3 DEF ExtractSnippet
<1>5. dots \in {0, Dots} /\ after \in {0, Dots}
  OBVIOUS
<1> HIDE DEF text, dots, after
<1>6. QED
  BY <1>3, <1>4, <1>5 DEF text

\* A snippet is a text and dots, with highlights that are apart.
LEMMA SnippetFacts ==
  ASSUME NEW content \in Seq(Chars), NEW term \in Seq(Chars)
  PROVE  /\ UnitsOf(ExtractSnippet(content, term)) \in Nat
         /\ AreApart(ExtractSnippet(content, term).highlights)
<1> DEFINE s == ExtractSnippet(content, term)
<1>1. s.before \in Nat /\ s.text \in Seq(Chars) /\ s.after \in Nat /\ AreApart(s.highlights)
  <2>1. CASE content = << >> \/ term = << >>
    <3>1. s = [before |-> 0, text |-> content, after |-> 0, highlights |-> {}]
      BY <2>1 DEF ExtractSnippet
    <3>2. QED
      BY <3>1 DEF AreApart
  <2>2. CASE content # << >> /\ term # << >> /\ ~Matches(content, term)
    <3> DEFINE text == Slice(content, 0, Min({Len(content), WindowSize}))
               after == IF Len(content) > WindowSize THEN Dots ELSE 0
    <3>1. s = [before |-> 0, text |-> text, after |-> after, highlights |-> {}]
      BY <2>2 DEF ExtractSnippet
    <3>2. after \in Nat
      BY DEF Dots
    <3>3. text \in Seq(Chars)
      <4>1. Len(content) \in Nat /\ WindowSize \in Nat
        BY LenProperties, WindowAssumption
      <4>2. Min({Len(content), WindowSize}) \in 0 .. Len(content)
        <5>1. Min({Len(content), WindowSize})
                = IF Len(content) <= WindowSize THEN Len(content) ELSE WindowSize
          <6>1. Len(content) \in Int /\ WindowSize \in Int
            BY <4>1
          <6>2. QED
            BY <6>1, ExtremesOfTwo
        <5>2. QED
          BY <4>1, <5>1
      <4>3. 0 \in 0 .. Len(content)
        BY <4>1
      <4>4. QED
        BY <4>2, <4>3, SliceElements
    <3> HIDE DEF text, after
    <3>4. QED
      BY <3>1, <3>2, <3>3 DEF AreApart
  <2>3. CASE content # << >> /\ term # << >> /\ Matches(content, term)
    <3>1. PICK a \in 0 .. Len(content) : \E b \in a .. Len(content), dots \in {0, Dots} :
            /\ s.text = Slice(content, a, b) /\ s.before = dots /\ s.after \in {0, Dots}
            /\ s.highlights = HighlightsIn(Slice(content, a, b), term, dots)
      BY <2>3, SnippetOfMatch
    <3>2. PICK b \in a .. Len(content), dots \in {0, Dots} :
            /\ s.text = Slice(content, a, b) /\ s.before = dots /\ s.after \in {0, Dots}
            /\ s.highlights = HighlightsIn(Slice(content, a, b), term, dots)
      BY <3>1
    <3>3. Slice(content, a, b) \in Seq(Chars)
      BY SliceElements
    <3>4. dots \in Nat /\ s.after \in Nat
      BY <3>2 DEF Dots
    <3>5. AreApart(HighlightsIn(Slice(content, a, b), term, dots))
      BY <2>3, <3>3, <3>4, HighlightsApart DEF AreApart
    <3> HIDE DEF s
    <3>6. QED
      BY <3>2, <3>3, <3>4, <3>5
  <2>4. QED
    BY <2>1, <2>2, <2>3
<1> HIDE DEF s
<1>2. Width(s.text, Units) \in Nat
  <2>1. PICK w : IsWidths(w, s.text, Units)
    BY <1>1, WidthsExist, BytesFacts
  <2>2. Width(s.text, Units) = w[Len(s.text)]
    BY <1>1, <2>1, WidthIsLast, BytesFacts
  <2>3. Len(s.text) \in Nat /\ \A n \in 0 .. Len(s.text) : w[n] \in Nat
    BY <1>1, <2>1, WidthsFacts, BytesFacts
  <2>4. QED
    BY <2>2, <2>3
<1>3. UnitsOf(s) \in Nat
  BY <1>1, <1>2 DEF UnitsOf
<1>4. QED
  BY <1>1, <1>3 DEF s

\* These highlights of a text are at places of the term, and all its other places are
\* behind the beginning of one of them.
ShowPlaces(H, text, term, dots) ==
  LET hits == Occurrences(ToLower(term), ToLower(text))
      At(h, p) ==
        /\ h.start = dots + Width(Slice(text, 0, p), Bytes)
        /\ h.end = h.start + Width(Slice(text, p, p + Len(term)), Bytes)
  IN /\ \A h \in H : \E p \in hits : At(h, p)
     /\ \A p \in hits : \E q \in hits, h \in H :
          At(h, q) /\ p - Len(term) < q /\ q <= p

\* So are those of extractSnippet.
LEMMA HighlightsShow ==
  ASSUME NEW text \in Seq(Chars), NEW term \in Seq(Chars), term # << >>, NEW dots \in Nat
  PROVE  ShowPlaces(HighlightsIn(text, term, dots), text, term, dots)
<1> DEFINE L == Leftmost(ToLower(term), ToLower(text))
           n == Len(term)
           size == Len(text)
           hits == Occurrences(ToLower(term), ToLower(text))
           H == HighlightsIn(text, term, dots)
           At(h, p) ==
             /\ h.start = dots + Width(Slice(text, 0, p), Bytes)
             /\ h.end = h.start + Width(Slice(text, p, p + n), Bytes)
<1>1. PICK w : IsWidths(w, text, Bytes)
  BY WidthsExist, BytesFacts
<1>2. /\ size \in Nat /\ n \in Nat /\ n # 0
      /\ Len(ToLower(text)) = size /\ Len(ToLower(term)) = n
  BY LowerText, LenProperties, EmptySeq
<1>3. /\ \A p \in L : p \in 0 .. size /\ p + n \in 0 .. size
      /\ \A h \in H : \E p \in L : h = HighlightAt(w, dots, p, n)
      /\ \A p \in L : HighlightAt(w, dots, p, n) \in H
  BY <1>1, HighlightPlaces
<1>4. /\ L \subseteq hits
      /\ \A p \in hits : \E q \in L : q <= p /\ p < q + n
  <2>1. Len(ToLower(text)) \in Nat /\ Len(ToLower(term)) \in Nat \ {0}
    BY <1>2
  <2>2. QED
    BY <1>2, <2>1, LeftmostPlaces
<1>5. \A p \in hits : p \in Int
  BY <1>2 DEF Occurrences
<1>6. ASSUME NEW p \in L PROVE At(HighlightAt(w, dots, p, n), p)
  <2>1. p \in 0 .. size /\ p + n \in p .. size /\ 0 \in 0 .. size
    BY <1>2, <1>3
  <2>2. Width(Slice(text, 0, p), Bytes) = w[p] - w[0]
    BY <1>1, <2>1, WidthOfSlice, BytesFacts
  <2>3. Width(Slice(text, p, p + n), Bytes) = w[p + n] - w[p]
    BY <1>1, <2>1, WidthOfSlice, BytesFacts
  <2>4. w[0] = 0 /\ w[p] \in Nat /\ w[p + n] \in Nat
    <3>1. p + n \in 0 .. size
      BY <1>3
    <3>2. \A k \in 0 .. size : w[k] \in Nat
      BY <1>1, WidthsFacts, BytesFacts
    <3>3. QED
      BY <1>1, <2>1, <3>1, <3>2 DEF IsWidths
  <2>5. QED
    BY <2>2, <2>3, <2>4 DEF HighlightAt
<1> HIDE DEF L, H, hits, At, n
<1>7. \A h \in H : \E p \in hits : At(h, p)
  BY <1>3, <1>4, <1>6
<1>8. ASSUME NEW p \in hits
      PROVE  \E q \in hits, h \in H : At(h, q) /\ p - n < q /\ q <= p
  <2>1. PICK q \in L : q <= p /\ p < q + n
    BY <1>4
  <2>2. p - n < q
    BY <1>2, <1>4, <1>5, <2>1
  <2>3. QED
    BY <1>3, <1>4, <1>6, <2>1, <2>2
<1>9. QED
  BY <1>7, <1>8 DEF ShowPlaces, H, hits, At, n

\* The first match is in the window, at its place in the content less that of the
\* window's beginning.
LEMMA MatchInWindow ==
  ASSUME NEW content \in Seq(Chars), NEW term \in Seq(Chars), Matches(content, term),
         NEW a \in 0 .. Len(content), NEW b \in a .. Len(content),
         a <= FirstMatch(content, term), FirstMatch(content, term) + Len(term) <= b
  PROVE  FirstMatch(content, term) - a
           \in Occurrences(ToLower(term), ToLower(Slice(content, a, b)))
<1> DEFINE at == FirstMatch(content, term)
           n == Len(term)
           p == at - a
           piece == Slice(content, a, b)
<1>1. /\ at \in Occurrences(ToLower(term), ToLower(content))
      /\ at \in 0 .. Len(content) /\ n \in Nat /\ Len(content) \in Nat
  BY FirstMatchFacts, LenProperties
<1>2. piece \in Seq(Chars) /\ Len(piece) = b - a
  BY SliceElements
<1>3. Len(ToLower(term)) = n /\ Len(ToLower(piece)) = b - a
  BY <1>2, LowerText
<1>4. Slice(ToLower(content), at, at + n) = ToLower(term)
  BY <1>1, <1>3 DEF Occurrences, IsAt
<1>5. a <= at /\ at + n <= b
  OBVIOUS
<1> HIDE DEF at, n
<1>6. /\ p \in 0 .. (b - a) /\ p + n \in p .. (b - a) /\ p \in 0 .. (b - a) - n
      /\ a + p = at /\ a + (p + n) = at + n
  BY <1>1, <1>5
<1>7. Slice(ToLower(piece), p, p + n) = Slice(ToLower(content), at, at + n)
  <2> DEFINE q == p + n
  <2>1. q \in p .. (b - a) /\ p \in 0 .. (b - a) /\ a + p = at /\ a + q = at + n
    BY <1>6
  <2> HIDE DEF p, q
  <2>2. Slice(ToLower(piece), p, q) = Slice(ToLower(content), a + p, a + q)
    BY <2>1, LowerSlice
  <2>3. QED
    BY <2>1, <2>2 DEF q
<1>8. p \in Occurrences(ToLower(term), ToLower(piece))
  BY <1>3, <1>4, <1>6, <1>7 DEF Occurrences, IsAt
<1>9. QED
  BY <1>8 DEF at

-----------------------------------------------------------------------------
(* The search result. *)

\* What is shown of a result is made of its content and term, by the code.
ResultInv ==
  result # NoResult =>
    \E content \in Contents, term \in Terms :
      /\ result = <<content, term>>
      /\ snippet = ExtractSnippet(content, term)
      /\ parts = BuildSnippetParts(snippet)

\* The parts of a result, and the term in its snippet.
LEMMA PartsFromResult ==
  ASSUME ResultInv
  PROVE  PartsAreSnippet
<1>1. SUFFICES ASSUME result # NoResult, NEW u \in 0 .. (UnitsOf(snippet) - 1)
               PROVE  \E p \in parts :
                        /\ p.from <= u /\ u < p.to
                        /\ \A q \in parts : q.from <= u /\ u < q.to => q = p
  BY DEF PartsAreSnippet
<1>2. PICK content \in Contents, term \in Terms :
        /\ snippet = ExtractSnippet(content, term)
        /\ parts = BuildSnippetParts(snippet)
  BY <1>1 DEF ResultInv
<1>3. content \in Seq(Chars) /\ term \in Seq(Chars)
  BY ResultsAssumption
<1>4. UnitsOf(snippet) \in Nat /\ AreApart(snippet.highlights)
  BY <1>2, <1>3, SnippetFacts
<1>5. QED
  BY <1>1, <1>2, <1>4, PartsCover

LEMMA TermFromResult ==
  ASSUME ResultInv
  PROVE  SnippetShowsTerm
<1>1. SUFFICES ASSUME result # NoResult PROVE SnippetShowsTerm
  BY DEF SnippetShowsTerm
<1>2. PICK content \in Contents, term \in Terms :
        result = <<content, term>> /\ snippet = ExtractSnippet(content, term)
  BY <1>1 DEF ResultInv
<1>3. content \in Seq(Chars) /\ term \in Seq(Chars)
  BY ResultsAssumption
<1> DEFINE hits == Occurrences(ToLower(term), ToLower(snippet.text))
           At(h, p) ==
             /\ h.start = snippet.before + Width(Slice(snippet.text, 0, p), Bytes)
             /\ h.end = h.start + Width(Slice(snippet.text, p, p + Len(term)), Bytes)
<1>4. SUFFICES ASSUME term # << >>, Matches(content, term)
               PROVE  /\ Len(snippet.text) <= WindowSize
                      /\ Len(snippet.text) = WindowSize \/ snippet.text = content
                      /\ Kept(content, term) => hits # {}
                      /\ \A h \in snippet.highlights : \E p \in hits : At(h, p)
                      /\ \A p \in hits : \E q \in hits, h \in snippet.highlights :
                           At(h, q) /\ p - Len(term) < q /\ q <= p
  BY <1>2 DEF SnippetShowsTerm
<1>5. PICK a \in 0 .. Len(content) : \E b \in a .. Len(content), dots \in {0, Dots} :
        /\ snippet.text = Slice(content, a, b) /\ snippet.before = dots
        /\ snippet.highlights = HighlightsIn(Slice(content, a, b), term, dots)
        /\ b - a = WindowSize \/ (b - a < WindowSize /\ a = 0 /\ b = Len(content))
        /\ Kept(content, term) =>
             a <= FirstMatch(content, term) /\ FirstMatch(content, term) + Len(term) <= b
  BY <1>2, <1>3, <1>4, SnippetOfMatch
<1>6. PICK b \in a .. Len(content), dots \in {0, Dots} :
        /\ snippet.text = Slice(content, a, b) /\ snippet.before = dots
        /\ snippet.highlights = HighlightsIn(Slice(content, a, b), term, dots)
        /\ b - a = WindowSize \/ (b - a < WindowSize /\ a = 0 /\ b = Len(content))
        /\ Kept(content, term) =>
             a <= FirstMatch(content, term) /\ FirstMatch(content, term) + Len(term) <= b
  BY <1>5
<1>7. /\ Slice(content, a, b) \in Seq(Chars) /\ Len(Slice(content, a, b)) = b - a
      /\ \A i \in 1 .. b - a : Slice(content, a, b)[i] = content[a + i]
  BY <1>3, SliceElements
<1>8. Len(content) \in Nat /\ WindowSize \in Nat
  BY <1>3, LenProperties, WindowAssumption
<1>9. Len(snippet.text) = b - a /\ b - a <= WindowSize
  BY <1>6, <1>7, <1>8
<1>10. b - a = WindowSize \/ snippet.text = content
  <2>1. SUFFICES ASSUME a = 0, b = Len(content) PROVE Slice(content, a, b) = content
    BY <1>6
  <2>2. \A i \in 1 .. Len(content) : Slice(content, a, b)[i] = content[i]
    BY <1>7, <1>8, <2>1
  <2>3. Len(Slice(content, a, b)) = Len(content)
    BY <1>7, <1>8, <2>1
  <2>4. QED
    BY <1>3, <1>7, <2>2, <2>3, SeqEqual
<1>11. Kept(content, term) => hits # {}
  <2>1. SUFFICES ASSUME Kept(content, term) PROVE hits # {}
    OBVIOUS
  <2>2. FirstMatch(content, term) - a
          \in Occurrences(ToLower(term), ToLower(Slice(content, a, b)))
    BY <1>3, <1>4, <1>6, <2>1, MatchInWindow
  <2>3. QED
    BY <1>6, <2>2
<1>12. dots \in Nat
  BY DEF Dots
<1>13. /\ \A h \in snippet.highlights : \E p \in hits : At(h, p)
       /\ \A p \in hits : \E q \in hits, h \in snippet.highlights :
            At(h, q) /\ p - Len(term) < q /\ q <= p
  <2> DEFINE piece == Slice(content, a, b)
  <2>1. piece \in Seq(Chars) /\ snippet.text = piece /\ snippet.before = dots
        /\ snippet.highlights = HighlightsIn(piece, term, dots)
    BY <1>6, <1>7
  <2> HIDE DEF piece
  <2>2. ShowPlaces(HighlightsIn(piece, term, dots), piece, term, dots)
    BY <1>3, <1>4, <1>12, <2>1, HighlightsShow
  <2>3. ShowPlaces(snippet.highlights, snippet.text, term, snippet.before)
    BY <2>1, <2>2
  <2>4. QED
    BY <2>3 DEF ShowPlaces
<1>14. QED
  BY <1>9, <1>10, <1>11, <1>13

-----------------------------------------------------------------------------
(* The cache. *)

AssistantMessages == {m \in Messages : Assistants(m)}
EntryOf(m) == [key |-> KeyOf(m), value |-> ToolOnly(m)]
\* The entries that are right, and the keys there are.
Entries == {EntryOf(m) : m \in AssistantMessages}
Keys == {KeyOf(m) : m \in AssistantMessages}

\* A key tells all that isToolOnly looks at.
LEMMA KeyTells ==
  ASSUME NEW m \in Messages, NEW n \in Messages, KeyOf(m) = KeyOf(n)
  PROVE  ToolOnly(m) = ToolOnly(n) /\ (Assistants(m) <=> Assistants(n))
<1>1. m.role = n.role /\ m.hasToolUse = n.hasToolUse /\ m.content = n.content
  BY DEF KeyOf
<1>2. QED
  BY <1>1 DEF ToolOnly, Assistants

\* So there is only one right entry of a key.
LEMMA EntryFacts ==
  ASSUME NEW e \in Entries, NEW m \in Messages, e.key = KeyOf(m)
  PROVE  Assistants(m) /\ e = EntryOf(m)
<1>1. PICK n \in AssistantMessages : e = EntryOf(n)
  BY DEF Entries
<1>2. n \in Messages /\ Assistants(n) /\ KeyOf(n) = KeyOf(m)
  BY <1>1 DEF AssistantMessages, EntryOf
<1>3. ToolOnly(n) = ToolOnly(m) /\ Assistants(m)
  BY <1>2, KeyTells
<1>4. QED
  BY <1>1, <1>2, <1>3 DEF EntryOf

\* A message's entry is the only one with its key: deleting it is removing it.
LEMMA DeletedAt ==
  ASSUME NEW c \in Seq(Entries), NEW i \in DOMAIN c,
         \A j \in DOMAIN c : c[j].key = c[i].key => j = i
  PROVE  Deleted(c, c[i].key) = RemoveAt(c, i)
<1> DEFINE X == {j \in 1 .. Len(c) : c[j].key = c[i].key}
<1>1. DOMAIN c = 1 .. Len(c) /\ Len(c) \in Nat /\ i \in Nat
  BY LenProperties
<1>2. X = {i}
  BY <1>1
<1>3. Min(X) = i
  <2> HIDE DEF X
  <2>1. X \subseteq Nat /\ X # {}
    BY <1>1, <1>2
  <2>2. Min(X) \in X
    BY <2>1, LeastOf
  <2>3. QED
    BY <1>2, <2>2
<1>4. SelectInSeq(c, LAMBDA e : e.key = c[i].key) = IF X # {} THEN Min(X) ELSE 0
  BY DEF SelectInSeq, Min
<1>5. Deleted(c, c[i].key) = IF \E j \in 1 .. Len(c) : c[j].key = c[i].key
                             THEN RemoveAt(c, SelectInSeq(c, LAMBDA e : e.key = c[i].key))
                             ELSE c
  BY DEF Deleted, RemoveFirstMatch
<1>6. \E j \in 1 .. Len(c) : c[j].key = c[i].key
  BY <1>1
<1> HIDE DEF X
<1>7. QED
  BY <1>2, <1>3, <1>4, <1>5, <1>6

\* A cache that has the last of the keys in its order, and is right about each.
Recent(c, u) ==
  /\ c \in Seq(Entries) /\ u \in Seq(Keys) /\ Distinct(u)
  /\ Len(c) = IF Len(u) < Capacity THEN Len(u) ELSE Capacity
  /\ \A j \in 1 .. Len(c) : c[j].key = u[Len(u) - Len(c) + j]

\* The numbers of a cache that is Recent.
LEMMA RecentNumbers ==
  ASSUME NEW c, NEW u, Recent(c, u)
  PROVE  /\ Len(c) \in Nat /\ Len(u) \in Nat /\ Len(c) <= Len(u) /\ Len(c) <= Capacity
         /\ Len(c) = Len(u) \/ Len(c) = Capacity
         /\ Len(u) < Capacity => Len(c) = Len(u)
         /\ Capacity \in Nat /\ Capacity >= 1
         /\ DOMAIN c = 1 .. Len(c) /\ DOMAIN u = 1 .. Len(u)
         /\ \A i, j \in DOMAIN c : c[i].key = c[j].key => i = j
<1>1. /\ Len(c) \in Nat /\ Len(u) \in Nat
      /\ DOMAIN c = 1 .. Len(c) /\ DOMAIN u = 1 .. Len(u)
  BY LenProperties DEF Recent
<1>2. Capacity \in Nat /\ Capacity >= 1
  BY CapacityAssumption
<1> DEFINE k == Len(c)
           n == Len(u)
<1>3. k <= n /\ k <= Capacity /\ (k = n \/ k = Capacity) /\ (n < Capacity => k = n)
  <2>1. k = IF n < Capacity THEN n ELSE Capacity
    BY DEF Recent
  <2>2. k \in Nat /\ n \in Nat
    BY <1>1
  <2> HIDE DEF k, n
  <2>3. QED
    BY <1>2, <2>1, <2>2
<1>4. k \in Nat /\ n \in Nat /\ k <= n
  BY <1>1, <1>3
<1>5. /\ \A j \in 1 .. k : c[j].key = u[n - k + j]
      /\ \A i, j \in 1 .. n : u[i] = u[j] => i = j
  BY <1>1 DEF Recent, Distinct
<1>6. ASSUME NEW i \in 1 .. k, NEW j \in 1 .. k, c[i].key = c[j].key PROVE i = j
  <2> HIDE DEF k, n
  <2>1. n - k + i \in 1 .. n /\ n - k + j \in 1 .. n
    BY <1>4
  <2>2. n - k + i = n - k + j
    BY <1>5, <1>6, <2>1
  <2>3. QED
    BY <1>4, <2>2
<1>7. QED
  BY <1>1, <1>2, <1>3, <1>6


\* A key that is cached is used again.
LEMMA RecentAgain ==
  ASSUME NEW c, NEW u, Recent(c, u), NEW m \in AssistantMessages,
         NEW i \in DOMAIN c, c[i].key = KeyOf(m)
  PROVE  Recent(Moved(c, i, EntryOf(m)), Moved(u, Len(u) - Len(c) + i, KeyOf(m)))
<1> DEFINE k == Len(c)
           n == Len(u)
           p == n - k + i
           e == EntryOf(m)
           key == KeyOf(m)
           a == Moved(c, i, e)
           b == Moved(u, p, key)
<1>1. k \in Nat /\ n \in Nat /\ k <= n /\ DOMAIN c = 1 .. k /\ DOMAIN u = 1 .. n
  BY RecentNumbers
<1>2. c \in Seq(Entries) /\ u \in Seq(Keys) /\ Distinct(u)
  BY DEF Recent
<1>3. e \in Entries /\ key \in Keys /\ e.key = key
  BY DEF Entries, Keys, EntryOf
<1>4. i \in 1 .. k /\ p \in DOMAIN u
  BY <1>1
<1>5. \A j \in 1 .. k : c[j].key = u[n - k + j]
  BY DEF Recent
<1>6. u[p] = key
  BY <1>4, <1>5
<1> HIDE DEF e, key, p
<1>7. IsMoved(a, c, i, e, Entries)
  BY <1>2, <1>3, MovedElements
<1>8. IsMoved(b, u, p, key, Keys)
  BY <1>2, <1>3, <1>4, MovedElements
<1>9. Distinct(b)
  <2>1. Distinct(Moved(u, p, u[p]))
    BY <1>2, <1>4, MovedDistinct
  <2>2. QED
    BY <1>6, <2>1
<1> HIDE DEF a, b
<1>10. a \in Seq(Entries) /\ b \in Seq(Keys) /\ Len(a) = k /\ Len(b) = n
  BY <1>7, <1>8 DEF IsMoved
<1>11. k = IF n < Capacity THEN n ELSE Capacity
  BY DEF Recent
<1>12. ASSUME NEW j \in 1 .. k PROVE a[j].key = b[n - k + j]
  <2>1. CASE j = k
    <3>1. a[k] = e /\ b[n] = key
      BY <1>7, <1>8 DEF IsMoved
    <3> HIDE DEF k, n
    <3>2. n - k + j = n
      BY <1>1, <2>1
    <3>3. QED
      BY <1>3, <2>1, <3>1, <3>2
  <2>2. CASE j # k
    <3>1. /\ \A x \in 1 .. k - 1 : a[x] = c[Shift(i, x)]
          /\ \A x \in 1 .. n - 1 : b[x] = u[Shift(p, x)]
      BY <1>7, <1>8 DEF IsMoved
    <3> HIDE DEF k, n
    <3>2. j \in 1 .. k - 1 /\ n - k + j \in 1 .. n - 1
      BY <1>1, <2>2
    <3>3. Shift(i, j) \in 1 .. k /\ Shift(p, n - k + j) = n - k + Shift(i, j)
      <4>1. p = n - k + i
        BY DEF p, k, n
      <4>2. QED
        BY <1>1, <1>4, <3>2, <4>1 DEF Shift
    <3>4. a[j] = c[Shift(i, j)] /\ b[n - k + j] = u[n - k + Shift(i, j)]
      BY <3>1, <3>2, <3>3
    <3>5. QED
      BY <1>5, <3>3, <3>4
  <2>3. QED
    BY <2>1, <2>2
<1>13. Recent(a, b)
  BY <1>9, <1>10, <1>11, <1>12 DEF Recent
<1>14. QED
  BY <1>13 DEF a, b, p, e, key

\* A key that has been dropped is used again: the cache is full then.
LEMMA RecentBack ==
  ASSUME NEW c, NEW u, Recent(c, u), NEW m \in AssistantMessages,
         NEW p \in DOMAIN u, u[p] = KeyOf(m), \A i \in DOMAIN c : c[i].key # KeyOf(m)
  PROVE  /\ Len(c) = Capacity
         /\ Recent(Append(Tail(c), EntryOf(m)), Moved(u, p, KeyOf(m)))
<1> DEFINE k == Len(c)
           n == Len(u)
           e == EntryOf(m)
           key == KeyOf(m)
           a == Append(Tail(c), e)
           b == Moved(u, p, key)
<1>1. /\ k \in Nat /\ n \in Nat /\ k <= n /\ DOMAIN c = 1 .. k /\ DOMAIN u = 1 .. n
      /\ k = n \/ k = Capacity
      /\ Capacity >= 1 /\ Capacity \in Nat
  BY RecentNumbers
<1>2. c \in Seq(Entries) /\ u \in Seq(Keys) /\ Distinct(u)
  BY DEF Recent
<1>3. e \in Entries /\ key \in Keys /\ e.key = key
  BY DEF Entries, Keys, EntryOf
<1>4. \A j \in 1 .. k : c[j].key = u[n - k + j]
  BY DEF Recent
<1>5. p \in 1 .. n /\ p <= n - k
  <2>1. p \in 1 .. n /\ \A j \in 1 .. k : n - k + j # p
    BY <1>1, <1>4
  <2> HIDE DEF k, n
  <2>2. SUFFICES ASSUME p > n - k PROVE FALSE
    BY <1>1, <2>1
  <2>3. p - (n - k) \in 1 .. k /\ n - k + (p - (n - k)) = p
    BY <1>1, <2>1, <2>2
  <2>4. QED
    BY <2>1, <2>3
<1>6. k = Capacity /\ c # <<>>
  <2>1. k = Capacity
    <3> HIDE DEF k, n
    <3>1. QED
      BY <1>1, <1>5
  <2>2. QED
    BY <1>1, <2>1
<1> HIDE DEF e, key
<1>7. IsShifted(a, c, e, Entries)
  BY <1>2, <1>3, <1>6, ShiftedElements
<1>8. IsMoved(b, u, p, key, Keys)
  BY <1>2, <1>3, MovedElements
<1>9. Distinct(b)
  <2>1. Distinct(Moved(u, p, u[p]))
    BY <1>2, MovedDistinct
  <2>2. u[p] = key
    BY DEF key
  <2>3. QED
    BY <2>1, <2>2
<1> HIDE DEF a, b
<1>10. a \in Seq(Entries) /\ b \in Seq(Keys) /\ Len(a) = k /\ Len(b) = n
  BY <1>7, <1>8 DEF IsMoved, IsShifted
<1>11. k = IF n < Capacity THEN n ELSE Capacity
  BY DEF Recent
<1>12. ASSUME NEW j \in 1 .. k PROVE a[j].key = b[n - k + j]
  <2>1. CASE j = k
    <3>1. a[k] = e /\ b[n] = key
      BY <1>7, <1>8 DEF IsMoved, IsShifted
    <3> HIDE DEF k, n
    <3>2. n - k + j = n
      BY <1>1, <2>1
    <3>3. QED
      BY <1>3, <2>1, <3>1, <3>2
  <2>2. CASE j # k
    <3>1. /\ \A x \in 1 .. k - 1 : a[x] = c[x + 1]
          /\ \A x \in 1 .. n - 1 : b[x] = u[Shift(p, x)]
      BY <1>7, <1>8 DEF IsMoved, IsShifted
    <3> HIDE DEF k, n
    <3>2. /\ j \in 1 .. k - 1 /\ n - k + j \in 1 .. n - 1
          /\ j + 1 \in 1 .. k /\ n - k + (j + 1) = n - k + j + 1
      BY <1>1, <2>2
    <3>3. Shift(p, n - k + j) = n - k + j + 1
      BY <1>1, <1>5, <3>2 DEF Shift
    <3>4. a[j] = c[j + 1] /\ b[n - k + j] = u[n - k + (j + 1)]
      BY <3>1, <3>2, <3>3
    <3>5. QED
      BY <1>4, <3>2, <3>4
  <2>3. QED
    BY <2>1, <2>2
<1>13. Recent(a, b)
  BY <1>9, <1>10, <1>11, <1>12 DEF Recent
<1>14. QED
  BY <1>6, <1>13 DEF a, b, e, key

\* A key is used for the first time.
LEMMA RecentNew ==
  ASSUME NEW c, NEW u, Recent(c, u), NEW m \in AssistantMessages,
         \A p \in DOMAIN u : u[p] # KeyOf(m)
  PROVE  Recent(CacheSet(c, KeyOf(m), ToolOnly(m)), Append(u, KeyOf(m)))
<1> DEFINE k == Len(c)
           n == Len(u)
           e == EntryOf(m)
           key == KeyOf(m)
           a == CacheSet(c, KeyOf(m), ToolOnly(m))
           b == Append(u, key)
<1>1. /\ k \in Nat /\ n \in Nat /\ k <= n /\ k <= Capacity
      /\ DOMAIN c = 1 .. k /\ DOMAIN u = 1 .. n
      /\ k = n \/ k = Capacity
      /\ n < Capacity => k = n
      /\ Capacity >= 1 /\ Capacity \in Nat
  BY RecentNumbers
<1>2. c \in Seq(Entries) /\ u \in Seq(Keys) /\ \A i, j \in 1 .. n : u[i] = u[j] => i = j
  BY <1>1 DEF Recent, Distinct
<1>3. e \in Entries /\ key \in Keys /\ e.key = key /\ e = [key |-> key, value |-> ToolOnly(m)]
  BY DEF Entries, Keys, EntryOf
<1>4. \A j \in 1 .. k : c[j].key = u[n - k + j]
  BY DEF Recent
<1>5. \A p \in 1 .. n : u[p] # key
  BY <1>1
<1>6. a = Append(IF k >= Capacity THEN Tail(c) ELSE c, e)
  BY DEF CacheSet, EntryOf
<1> HIDE DEF e, key
<1>7. /\ b \in Seq(Keys) /\ Len(b) = n + 1
      /\ \A i \in 1 .. n : b[i] = u[i]
      /\ b[n + 1] = key
  BY <1>2, <1>3, AppendProperties
<1> HIDE DEF b, a
<1>8. Distinct(b)
  <2>1. DOMAIN b = 1 .. n + 1
    BY <1>7, LenProperties
  <2> HIDE DEF k, n
  <2>2. ASSUME NEW i \in 1 .. n + 1, NEW j \in 1 .. n + 1, b[i] = b[j] PROVE i = j
    <3>1. \A x \in 1 .. n + 1 : x = n + 1 \/ x \in 1 .. n
      BY <1>1
    <3>2. CASE i = n + 1 /\ j \in 1 .. n
      BY <1>5, <1>7, <2>2, <3>2
    <3>3. CASE j = n + 1 /\ i \in 1 .. n
      BY <1>5, <1>7, <2>2, <3>3
    <3>4. CASE i \in 1 .. n /\ j \in 1 .. n
      BY <1>2, <1>7, <2>2, <3>4
    <3>5. QED
      BY <3>1, <3>2, <3>3, <3>4
  <2>3. QED
    BY <2>1, <2>2 DEF Distinct
<1>9. CASE k >= Capacity
  <2>1. k = Capacity /\ c # <<>>
    <3>1. k = Capacity
      <4>1. k \in Nat /\ k <= Capacity /\ Capacity \in Nat /\ k >= Capacity
        BY <1>1, <1>9
      <4> HIDE DEF k
      <4>2. QED
        BY <4>1
    <3>2. c # <<>>
      <4>1. k # 0
        <5>1. Capacity >= 1 /\ Capacity \in Nat
          BY <1>1
        <5> HIDE DEF k
        <5>2. QED
          BY <3>1, <5>1
      <4>2. QED
        BY <4>1, EmptySeq
    <3>3. QED
      BY <3>1, <3>2
  <2>2. IsShifted(a, c, e, Entries)
    BY <1>2, <1>3, <1>6, <1>9, <2>1, ShiftedElements
  <2>3. /\ a \in Seq(Entries) /\ Len(a) = k
        /\ \A x \in 1 .. k - 1 : a[x] = c[x + 1]
        /\ a[k] = e
    BY <2>2 DEF IsShifted
  <2> HIDE DEF k, n
  <2>4. ASSUME NEW j \in 1 .. k PROVE a[j].key = b[n + 1 - k + j]
    <3>1. CASE j = k
      <4>1. n + 1 - k + j = n + 1
        BY <1>1, <3>1
      <4>2. QED
        BY <1>3, <1>7, <2>3, <3>1, <4>1
    <3>2. CASE j # k
      <4>1. /\ j \in 1 .. k - 1 /\ j + 1 \in 1 .. k
            /\ n + 1 - k + j = n - k + (j + 1) /\ n - k + (j + 1) \in 1 .. n
        BY <1>1, <3>2
      <4>2. a[j] = c[j + 1] /\ b[n + 1 - k + j] = u[n - k + (j + 1)]
        BY <1>7, <2>3, <4>1
      <4>3. QED
        BY <1>4, <4>1, <4>2
    <3>3. QED
      BY <3>1, <3>2
  <2>5. k = IF n + 1 < Capacity THEN n + 1 ELSE Capacity
    BY <1>1, <2>1
  <2>6. Recent(a, b)
    <3>1. Len(a) = k /\ Len(b) = n + 1
      BY <1>7, <2>3
    <3>2. Len(a) = IF Len(b) < Capacity THEN Len(b) ELSE Capacity
      BY <2>5, <3>1
    <3>3. ASSUME NEW j \in 1 .. Len(a) PROVE a[j].key = b[Len(b) - Len(a) + j]
      <4> DEFINE la == Len(a)
                 lb == Len(b)
      <4>1. la = k /\ lb = n + 1 /\ j \in 1 .. la
        BY <3>1
      <4> HIDE DEF la, lb
      <4>2. j \in 1 .. k /\ lb - la + j = n + 1 - k + j
        BY <1>1, <4>1
      <4>3. a[j].key = b[lb - la + j]
        BY <2>4, <4>2
      <4>4. QED
        BY <4>3 DEF la, lb
    <3>4. QED
      BY <1>7, <1>8, <2>3, <3>2, <3>3 DEF Recent
  <2>7. QED
    BY <2>6 DEF a, b, key
<1>10. CASE ~(k >= Capacity)
  <2>1. k = n /\ n + 1 <= Capacity
    <3> HIDE DEF k, n
    <3>1. QED
      BY <1>1, <1>10
  <2>2. a = Append(c, e)
    BY <1>6, <1>10
  <2>3. /\ a \in Seq(Entries) /\ Len(a) = k + 1
        /\ \A x \in 1 .. k : a[x] = c[x]
        /\ a[k + 1] = e
    BY <1>2, <1>3, <2>2, AppendProperties
  <2> HIDE DEF k, n
  <2>4. ASSUME NEW j \in 1 .. k + 1 PROVE a[j].key = b[n + 1 - (k + 1) + j]
    <3>1. n + 1 - (k + 1) + j = j /\ n - k + j = j
      BY <1>1, <2>1
    <3>2. CASE j = k + 1
      BY <1>3, <1>7, <2>1, <2>3, <3>1, <3>2
    <3>3. CASE j # k + 1
      <4>1. j \in 1 .. k /\ j \in 1 .. n
        BY <1>1, <2>1, <3>3
      <4>2. QED
        BY <1>4, <1>7, <2>3, <3>1, <4>1
    <3>4. QED
      BY <3>2, <3>3
  <2>5. k + 1 = IF n + 1 < Capacity THEN n + 1 ELSE Capacity
    BY <1>1, <2>1
  <2>6. Recent(a, b)
    <3>1. Len(a) = k + 1 /\ Len(b) = n + 1
      BY <1>7, <2>3
    <3>2. Len(a) = IF Len(b) < Capacity THEN Len(b) ELSE Capacity
      BY <2>5, <3>1
    <3>3. ASSUME NEW j \in 1 .. Len(a) PROVE a[j].key = b[Len(b) - Len(a) + j]
      <4> DEFINE la == Len(a)
                 lb == Len(b)
      <4>1. la = k + 1 /\ lb = n + 1 /\ j \in 1 .. la
        BY <3>1
      <4> HIDE DEF la, lb
      <4>2. j \in 1 .. k + 1 /\ lb - la + j = n + 1 - (k + 1) + j
        BY <1>1, <4>1
      <4>3. a[j].key = b[lb - la + j]
        BY <2>4, <4>2
      <4>4. QED
        BY <4>3 DEF la, lb
    <3>4. QED
      BY <1>7, <1>8, <2>3, <3>2, <3>3 DEF Recent
  <2>7. QED
    BY <2>6 DEF a, b, key
<1>11. QED
  BY <1>9, <1>10

\* What isToolOnly returns is right, and the cache has what was looked at last.
LEMMA Looked ==
  ASSUME NEW c, NEW u, Recent(c, u), NEW m \in Messages
  PROVE  /\ IsToolOnly(c, m).is = ToolOnly(m)
         /\ Recent(IsToolOnly(c, m).cache, Touched(u, m))
<1> DEFINE key == KeyOf(m)
<1>1. /\ DOMAIN c = 1 .. Len(c) /\ DOMAIN u = 1 .. Len(u)
      /\ \A i, j \in DOMAIN c : c[i].key = c[j].key => i = j
  BY RecentNumbers
<1>2. c \in Seq(Entries) /\ u \in Seq(Keys) /\ Distinct(u)
  BY DEF Recent
<1>3. \A i \in DOMAIN c : c[i] \in Entries
  BY <1>1, <1>2, ElementOfSeq
<1>4. CASE Has(c, key)
  <2>1. PICK i \in DOMAIN c : c[i].key = key
    BY <1>4 DEF Has
  <2>2. Assistants(m) /\ c[i] = EntryOf(m) /\ m \in AssistantMessages
    BY <1>3, <2>1, EntryFacts DEF AssistantMessages
  <2>3. ValueIn(c, key) = ToolOnly(m)
    <3> DEFINE x == CHOOSE j \in DOMAIN c : c[j].key = key
    <3>1. x \in DOMAIN c /\ c[x].key = key
      BY <2>1
    <3>2. ValueIn(c, key) = c[x].value
      BY DEF ValueIn
    <3> HIDE DEF x, key
    <3>3. x = i
      BY <1>1, <2>1, <3>1
    <3>4. QED
      BY <2>2, <3>2, <3>3 DEF EntryOf
  <2>4. CacheGet(c, key) = Moved(c, i, EntryOf(m))
    <3>1. Deleted(c, c[i].key) = RemoveAt(c, i)
      BY <1>1, <1>2, DeletedAt
    <3>2. QED
      BY <2>1, <2>3, <3>1 DEF CacheGet, Moved, EntryOf
  <2> DEFINE p == Len(u) - Len(c) + i
  <2>5. Recent(Moved(c, i, EntryOf(m)), Moved(u, p, key))
    BY <2>1, <2>2, RecentAgain
  <2>6. p \in DOMAIN u /\ u[p] = key
    <3>1. Len(c) \in Nat /\ Len(u) \in Nat /\ Len(c) <= Len(u)
      BY RecentNumbers
    <3>2. p \in DOMAIN u
      BY <1>1, <3>1
    <3>3. QED
      BY <1>1, <2>1, <3>2 DEF Recent
  <2> HIDE DEF p
  <2>7. Touched(u, m) = Moved(u, p, key)
    <3>1. RemoveFirst(u, u[p]) = RemoveAt(u, p)
      BY <1>2, <2>6, RemoveFirstAt DEF Distinct
    <3>2. QED
      BY <2>2, <2>6, <3>1 DEF Touched, Moved
  <2>8. IsToolOnly(c, m) = [is |-> ValueIn(c, key), cache |-> CacheGet(c, key)]
    BY <1>4 DEF IsToolOnly
  <2>9. IsToolOnly(c, m).is = ValueIn(c, key) /\ IsToolOnly(c, m).cache = CacheGet(c, key)
    BY <2>8
  <2>10. QED
    BY <2>3, <2>4, <2>5, <2>7, <2>9
<1>5. CASE ~Has(c, key) /\ ~Assistants(m)
  <2>1. IsToolOnly(c, m) = [is |-> FALSE, cache |-> c]
    BY <1>5 DEF IsToolOnly
  <2>2. ToolOnly(m) = FALSE /\ Touched(u, m) = u
    BY <1>5 DEF ToolOnly, Touched
  <2>3. IsToolOnly(c, m).is = FALSE /\ IsToolOnly(c, m).cache = c
    BY <2>1
  <2>4. QED
    BY <2>2, <2>3
<1>6. CASE ~Has(c, key) /\ Assistants(m)
  <2>1. m \in AssistantMessages /\ \A i \in DOMAIN c : c[i].key # key
    BY <1>6 DEF AssistantMessages, Has
  <2>2. IsToolOnly(c, m) = [is |-> ToolOnly(m), cache |-> CacheSet(c, key, ToolOnly(m))]
    BY <1>6 DEF IsToolOnly
  <2>3. CASE \E p \in DOMAIN u : u[p] = key
    <3>1. PICK p \in DOMAIN u : u[p] = key
      BY <2>3
    <3>2. Len(c) = Capacity /\ Recent(Append(Tail(c), EntryOf(m)), Moved(u, p, key))
      BY <2>1, <3>1, RecentBack
    <3>3. Touched(u, m) = Moved(u, p, key)
      <4>1. RemoveFirst(u, u[p]) = RemoveAt(u, p)
        BY <1>2, <3>1, RemoveFirstAt DEF Distinct
      <4>2. QED
        BY <1>6, <3>1, <4>1 DEF Touched, Moved
    <3>4. CacheSet(c, key, ToolOnly(m)) = Append(Tail(c), EntryOf(m))
      <4>1. Len(c) >= Capacity
        BY <3>2, CapacityAssumption
      <4>2. QED
        BY <4>1 DEF CacheSet, EntryOf
    <3>5. QED
      BY <2>2, <3>2, <3>3, <3>4
  <2>4. CASE \A p \in DOMAIN u : u[p] # key
    <3>1. Recent(CacheSet(c, key, ToolOnly(m)), Append(u, key))
      BY <2>1, <2>4, RecentNew
    <3>2. Touched(u, m) = Append(u, key)
      <4>1. RemoveFirst(u, key) = u
        BY <1>1, <2>4 DEF RemoveFirst
      <4>2. QED
        BY <1>6, <4>1 DEF Touched
    <3>3. QED
      BY <2>2, <3>1, <3>2
  <2>5. QED
    BY <2>3, <2>4
<1>7. QED
  BY <1>4, <1>5, <1>6

\* What is kept is the end of what was used.
LEMMA RecentKeeps == Recent(cache, used) => KeepsRecent
<1> SUFFICES ASSUME Recent(cache, used) PROVE KeepsRecent
  OBVIOUS
<1> DEFINE k == Len(cache)
           n == Len(used)
           a == [i \in DOMAIN cache |-> cache[i].key]
           b == SubSeq(used, n - k + 1, n)
<1>1. k \in Nat /\ n \in Nat /\ k <= n /\ DOMAIN cache = 1 .. k /\ DOMAIN used = 1 .. n
  BY RecentNumbers
<1>2. /\ used \in Seq(Keys) /\ \A j \in 1 .. k : cache[j].key = used[n - k + j]
      /\ k = IF n < Capacity THEN n ELSE Capacity
  BY DEF Recent
<1>3. \A j \in 1 .. n : used[j] \in Keys
  BY <1>2, ElementOfSeq
<1>4. /\ b \in Seq(Keys) /\ Len(b) = k
      /\ \A j \in 1 .. k : b[j] = used[n - k + j]
  <2> HIDE DEF k, n
  <2>1. n - k + 1 \in Int /\ n \in Int /\ \A j \in n - k + 1 .. n : used[j] \in Keys
    BY <1>1, <1>3
  <2>2. /\ b \in Seq(Keys) /\ Len(b) = IF n - k + 1 <= n THEN n - (n - k + 1) + 1 ELSE 0
        /\ \A j \in 1 .. n - (n - k + 1) + 1 : b[j] = used[n - k + 1 + j - 1]
    BY <2>1, SubSeqProperties
  <2>3. n - (n - k + 1) + 1 = k /\ (n - k + 1 <= n \/ k = 0)
    BY <1>1
  <2>4. \A j \in 1 .. k : n - k + 1 + j - 1 = n - k + j
    BY <1>1
  <2>5. QED
    BY <2>2, <2>3, <2>4
<1>5. DOMAIN b = 1 .. k /\ b = [i \in 1 .. k |-> b[i]]
  BY <1>4, LenProperties
<1>6. a = b
  <2> HIDE DEF b
  <2>1. a = [i \in 1 .. k |-> cache[i].key]
    BY <1>1
  <2>2. QED
    BY <1>2, <1>4, <1>5, <2>1
<1>7. QED
  BY <1>2, <1>6 DEF KeepsRecent

-----------------------------------------------------------------------------
(* The items. *)

AnItem == [kind : {"message", "tool-group"}, messages : Seq(Messages)]
Flat(its) == FlattenSeq([i \in DOMAIN its |-> its[i].messages])

\* A message, or a group of those that only call tools.
Fits(it) ==
  \A j \in DOMAIN it.messages : ToolOnly(it.messages[j]) <=> it.kind = "tool-group"

\* Items each of which fits, and no group behind another.
ItemsFit(its) ==
  /\ its \in Seq(AnItem)
  /\ \A i \in DOMAIN its :
       /\ Fits(its[i])
       /\ its[i].kind = "tool-group" /\ i < Len(its) => its[i + 1].kind = "message"

\* A group may follow.
Closed(its) == its # <<>> => its[Len(its)].kind = "message"

\* An item more.
LEMMA ItemAppended ==
  ASSUME NEW its, ItemsFit(its), NEW it \in AnItem, Fits(it),
         it.kind = "message" \/ Closed(its)
  PROVE  /\ ItemsFit(Append(its, it))
         /\ it.kind = "message" => Closed(Append(its, it))
         /\ Flat(its) \in Seq(Messages)
         /\ Flat(Append(its, it)) = Flat(its) \o it.messages
<1> DEFINE n == Len(its)
           all == Append(its, it)
           a == [i \in DOMAIN its |-> its[i].messages]
           b == [i \in DOMAIN all |-> all[i].messages]
<1>1. /\ its \in Seq(AnItem) /\ n \in Nat /\ DOMAIN its = 1 .. n
      /\ \A i \in 1 .. n : its[i] \in AnItem
  BY LenProperties, ElementOfSeq DEF ItemsFit
<1>2. /\ all \in Seq(AnItem) /\ Len(all) = n + 1 /\ DOMAIN all = 1 .. n + 1
      /\ \A i \in 1 .. n : all[i] = its[i]
      /\ all[n + 1] = it
  <2>1. /\ all \in Seq(AnItem) /\ Len(all) = n + 1
        /\ \A i \in 1 .. n : all[i] = its[i]
        /\ all[n + 1] = it
    BY <1>1, AppendProperties
  <2> HIDE DEF all, n
  <2>2. QED
    BY <2>1, LenProperties
<1>3. \A i \in 1 .. n : /\ Fits(its[i])
                        /\ its[i].kind = "tool-group" /\ i < n => its[i + 1].kind = "message"
  BY <1>1 DEF ItemsFit
<1>4. it.kind = "message" \/ n = 0 \/ its[n].kind = "message"
  <2>1. CASE its = <<>>
    BY <2>1
  <2>2. CASE its # <<>>
    BY <2>2 DEF Closed
  <2>3. QED
    BY <2>1, <2>2
<1>5. ItemsFit(all)
  <2> HIDE DEF all, n
  <2>1. ASSUME NEW i \in 1 .. n + 1
        PROVE  /\ Fits(all[i])
               /\ all[i].kind = "tool-group" /\ i < n + 1 => all[i + 1].kind = "message"
    <3>1. CASE i = n + 1
      BY <1>1, <1>2, <3>1
    <3>2. CASE i = n
      <4>1. i \in 1 .. n /\ all[i] = its[n] /\ all[i + 1] = it
        BY <1>1, <1>2, <3>2
      <4>2. its[n].kind = "tool-group" => it.kind = "message"
        BY <1>4, <3>2, <4>1
      <4>3. QED
        BY <1>3, <3>2, <4>1, <4>2
    <3>3. CASE i # n + 1 /\ i # n
      <4>1. i \in 1 .. n /\ i + 1 \in 1 .. n /\ i < n
        BY <1>1, <3>3
      <4>2. all[i] = its[i] /\ all[i + 1] = its[i + 1]
        BY <1>2, <4>1
      <4>3. QED
        BY <1>3, <4>1, <4>2
    <3>4. QED
      BY <3>1, <3>2, <3>3
  <2>2. \A i \in DOMAIN all :
          /\ Fits(all[i])
          /\ all[i].kind = "tool-group" /\ i < Len(all) => all[i + 1].kind = "message"
    BY <1>2, <2>1
  <2>3. QED
    BY <1>2, <2>2 DEF ItemsFit
<1>6. it.kind = "message" => Closed(all)
  <2>1. all[Len(all)] = it
    BY <1>2
  <2> HIDE DEF all
  <2>2. QED
    BY <2>1 DEF Closed
<1>7. a \in Seq(Seq(Messages))
  <2>1. \A i \in 1 .. n : its[i].messages \in Seq(Messages)
    BY <1>1 DEF AnItem
  <2>2. a \in [1 .. n -> Seq(Messages)]
    <3> HIDE DEF n
    <3>1. QED
      BY <1>1, <2>1
  <2> HIDE DEF a, n
  <2>3. QED
    BY <1>1, <2>2
<1>8. b = Append(a, it.messages)
  <2>1. it.messages \in Seq(Messages)
    BY DEF AnItem
  <2>2. Len(a) = n
    <3>1. DOMAIN a = 1 .. n
      BY <1>1
    <3> HIDE DEF a, n
    <3>2. QED
      BY <1>1, <1>7, <3>1, LenProperties
  <2> DEFINE c == Append(a, it.messages)
  <2>3. /\ c \in Seq(Seq(Messages)) /\ Len(c) = n + 1
        /\ \A i \in 1 .. n : c[i] = a[i]
        /\ c[n + 1] = it.messages
    <3> HIDE DEF a, n
    <3>1. /\ c \in Seq(Seq(Messages)) /\ Len(c) = Len(a) + 1
          /\ \A i \in 1 .. Len(a) : c[i] = a[i]
          /\ c[Len(a) + 1] = it.messages
      BY <1>7, <2>1, AppendProperties
    <3> HIDE DEF c
    <3>2. QED
      BY <2>2, <3>1
  <2>4. \A i \in 1 .. n : a[i] = its[i].messages
    BY <1>1
  <2>5. b = [i \in 1 .. n + 1 |-> all[i].messages]
    BY <1>2
  <2>6. c = [i \in 1 .. n + 1 |-> c[i]]
    <3> HIDE DEF c, n
    <3>1. QED
      BY <2>3, LenProperties
  <2> HIDE DEF a, b, c, all, n
  <2>7. \A i \in 1 .. n + 1 : c[i] = all[i].messages
    <3>1. \A i \in 1 .. n + 1 : i = n + 1 \/ i \in 1 .. n
      BY <1>1
    <3>2. QED
      BY <1>2, <2>3, <2>4, <3>1
  <2>8. b = c
    BY <2>5, <2>6, <2>7
  <2>9. QED
    BY <2>8 DEF c
<1>9. Flat(its) = FlattenSeq(a) /\ Flat(all) = FlattenSeq(b)
  BY DEF Flat
<1> HIDE DEF a, b
<1>10. it.messages \in Seq(Messages)
  BY DEF AnItem
<1>11. /\ FlattenSeq(a) \in Seq(Messages)
       /\ FlattenSeq(Append(a, it.messages)) = FlattenSeq(a) \o it.messages
  BY <1>7, <1>10, FlattenAppend
<1>12. QED
  BY <1>5, <1>6, <1>8, <1>9, <1>11

\* What BuildStep has made of some messages, pre; the keys of what is cached, u.
Built(s, pre, u) ==
  /\ ItemsFit(s.items) /\ Closed(s.items)
  /\ s.group \in Seq(Messages) /\ \A j \in DOMAIN s.group : ToolOnly(s.group[j])
  /\ Flat(s.items) \in Seq(Messages)
  /\ Flat(s.items) \o s.group = pre
  /\ Recent(s.cache, u)

\* The open group becomes an item, if it has messages.
LEMMA GroupClosed ==
  ASSUME NEW s, NEW pre, NEW u, Built(s, pre, u)
  PROVE  /\ ItemsFit(s.items \o Group(s.group))
         /\ Flat(s.items \o Group(s.group)) \in Seq(Messages)
         /\ Flat(s.items \o Group(s.group)) = pre
<1> DEFINE g == [kind |-> "tool-group", messages |-> s.group]
<1>1. /\ ItemsFit(s.items) /\ Closed(s.items) /\ s.items \in Seq(AnItem)
      /\ s.group \in Seq(Messages)
      /\ Flat(s.items) \in Seq(Messages)
      /\ Flat(s.items) \o s.group = pre
  BY DEF Built, ItemsFit
<1>2. CASE s.group = <<>>
  <2>1. s.items \o Group(s.group) = s.items
    BY <1>1, <1>2, ConcatEmptySeq DEF Group
  <2>2. Flat(s.items) \o s.group = Flat(s.items)
    BY <1>1, <1>2, ConcatEmptySeq
  <2>3. QED
    BY <1>1, <2>1, <2>2
<1>3. CASE s.group # <<>>
  <2>1. g \in AnItem /\ Fits(g) /\ g.messages = s.group
    BY <1>1 DEF AnItem, Fits, Built
  <2>2. Group(s.group) = <<g>>
    BY <1>3 DEF Group
  <2> HIDE DEF g
  <2>3. s.items \o Group(s.group) = Append(s.items, g)
    BY <1>1, <2>1, <2>2, AppendIsConcat
  <2>4. ItemsFit(Append(s.items, g)) /\ Flat(Append(s.items, g)) = Flat(s.items) \o g.messages
    BY <1>1, <2>1, ItemAppended
  <2>5. Flat(s.items) \o s.group \in Seq(Messages)
    BY <1>1, ConcatProperties
  <2>6. QED
    BY <1>1, <2>1, <2>3, <2>4, <2>5
<1>4. QED
  BY <1>2, <1>3

\* The next message.
LEMMA BuiltStep ==
  ASSUME NEW s, NEW pre, NEW u, Built(s, pre, u), NEW m \in Messages
  PROVE  Built(BuildStep(s, m), Append(pre, m), Touched(u, m))
<1> DEFINE looked == IsToolOnly(s.cache, m)
           t == BuildStep(s, m)
<1>1. /\ ItemsFit(s.items) /\ Closed(s.items) /\ s.items \in Seq(AnItem)
      /\ s.group \in Seq(Messages) /\ (\A j \in DOMAIN s.group : ToolOnly(s.group[j]))
      /\ Flat(s.items) \in Seq(Messages)
      /\ Flat(s.items) \o s.group = pre
      /\ Recent(s.cache, u)
  BY DEF Built, ItemsFit
<1>2. (looked.is <=> ToolOnly(m)) /\ Recent(looked.cache, Touched(u, m))
  BY <1>1, Looked
<1>3. pre \in Seq(Messages) /\ Append(pre, m) = pre \o <<m>> /\ <<m>> \in Seq(Messages)
  <2>1. pre \in Seq(Messages)
    BY <1>1, ConcatProperties
  <2>2. QED
    BY <2>1, AppendIsConcat
<1>4. CASE looked.is
  <2>1. /\ t.items = s.items /\ t.group = Append(s.group, m) /\ t.cache = looked.cache
    BY <1>4 DEF BuildStep
  <2>2. /\ Append(s.group, m) \in Seq(Messages)
        /\ Append(s.group, m) = s.group \o <<m>>
        /\ \A j \in DOMAIN Append(s.group, m) : ToolOnly(Append(s.group, m)[j])
    <3> DEFINE n == Len(s.group)
               c == Append(s.group, m)
    <3>1. n \in Nat /\ DOMAIN s.group = 1 .. n
      BY <1>1, LenProperties
    <3>2. /\ c \in Seq(Messages) /\ Len(c) = n + 1
          /\ \A i \in 1 .. n : c[i] = s.group[i]
          /\ c[n + 1] = m
      BY <1>1, AppendProperties
    <3>3. c = s.group \o <<m>>
      BY <1>1, AppendIsConcat
    <3> HIDE DEF c, n
    <3>4. DOMAIN c = 1 .. n + 1 /\ \A i \in 1 .. n + 1 : i = n + 1 \/ i \in 1 .. n
      BY <3>1, <3>2, LenProperties
    <3>5. \A j \in DOMAIN c : ToolOnly(c[j])
      BY <1>1, <1>2, <1>4, <3>1, <3>2, <3>4
    <3>6. QED
      BY <3>2, <3>3, <3>5 DEF c
  <2>3. Flat(s.items) \o (s.group \o <<m>>) = (Flat(s.items) \o s.group) \o <<m>>
    <3> DEFINE x == Flat(s.items)
               y == s.group
               z == <<m>>
    <3>1. x \in Seq(Messages) /\ y \in Seq(Messages) /\ z \in Seq(Messages)
      BY <1>1, <1>3
    <3> HIDE DEF x, y, z
    <3>2. x \o (y \o z) = (x \o y) \o z
      BY <3>1, ConcatAssociative
    <3>3. QED
      BY <3>2 DEF x, y, z
  <2> HIDE DEF looked, t
  <2>4. Built(t, Append(pre, m), Touched(u, m))
    BY <1>1, <1>2, <1>3, <2>1, <2>2, <2>3 DEF Built
  <2>5. QED
    BY <2>4 DEF t
<1>5. CASE ~looked.is
  <2> DEFINE closed == s.items \o Group(s.group)
             it == Item(m)
  <2>1. /\ t.items = closed \o <<it>> /\ t.group = <<>> /\ t.cache = looked.cache
    BY <1>5 DEF BuildStep
  <2>2. ItemsFit(closed) /\ Flat(closed) \in Seq(Messages) /\ Flat(closed) = pre
    BY GroupClosed
  <2>3. it \in AnItem /\ it.kind = "message" /\ it.messages = <<m>> /\ Fits(it)
    <3>1. it.kind = "message" /\ it.messages = <<m>> /\ it \in AnItem
      BY <1>3 DEF Item, AnItem
    <3>2. \A j \in DOMAIN <<m>> : <<m>>[j] = m
      OBVIOUS
    <3> HIDE DEF it
    <3>3. QED
      BY <1>2, <1>5, <3>1, <3>2 DEF Fits
  <2> HIDE DEF closed, it
  <2>4. /\ ItemsFit(Append(closed, it)) /\ Closed(Append(closed, it))
        /\ Flat(Append(closed, it)) = Flat(closed) \o it.messages
    BY <2>2, <2>3, ItemAppended
  <2>5. closed \o <<it>> = Append(closed, it)
    BY <2>2, <2>3, AppendIsConcat DEF ItemsFit
  <2>6. /\ Flat(t.items) = Append(pre, m) /\ Append(pre, m) \in Seq(Messages)
        /\ Append(pre, m) \o <<>> = Append(pre, m)
    <3>1. Flat(t.items) = Append(pre, m)
      BY <1>3, <2>1, <2>2, <2>3, <2>4, <2>5
    <3>2. Append(pre, m) \in Seq(Messages)
      BY <1>3, AppendProperties
    <3>3. QED
      BY <3>1, <3>2, ConcatEmptySeq
  <2>7. <<>> \in Seq(Messages) /\ DOMAIN <<>> = {}
    BY EmptySeq
  <2> HIDE DEF looked, t
  <2>8. ItemsFit(t.items) /\ Closed(t.items)
    BY <2>1, <2>4, <2>5
  <2>9. Built(t, Append(pre, m), Touched(u, m))
    BY <1>2, <2>1, <2>6, <2>7, <2>8 DEF Built
  <2>10. QED
    BY <2>9 DEF t
<1>6. QED
  BY <1>4, <1>5

\* Before the first message.
LEMMA NothingBuilt == ItemsFit(<<>>) /\ Closed(<<>>) /\ Flat(<<>>) = <<>>
<1> DEFINE a == [i \in DOMAIN <<>> |-> <<>>[i].messages]
<1>1. <<>> \in Seq(AnItem) /\ Len(<<>>) = 0 /\ DOMAIN <<>> = 1 .. 0
  BY EmptySeq
<1>2. 1 .. 0 = {}
  OBVIOUS
<1>3. ItemsFit(<<>>) /\ Closed(<<>>)
  BY <1>1, <1>2 DEF ItemsFit, Closed
<1>4. a \in Seq(Seq(Messages)) /\ DOMAIN a = 1 .. 0
  <2>1. a \in [1 .. 0 -> Seq(Messages)]
    BY <1>1, <1>2
  <2> HIDE DEF a
  <2>2. QED
    BY <2>1
<1>5. Flat(<<>>) = FlattenSeq(a)
  BY DEF Flat
<1> HIDE DEF a
<1>6. Len(a) = 0 /\ a = <<>>
  <2>1. Len(a) = 0
    BY <1>4, LenProperties
  <2>2. QED
    BY <1>4, <2>1, EmptySeq
<1>7. FlattenSeq(a) = <<>>
  BY <1>6 DEF FlattenSeq
<1>8. QED
  BY <1>3, <1>5, <1>7

\* What the recursion of BuildDisplayItems goes through.
Base(c) == [items |-> <<>>, group |-> <<>>, cache |-> c]
IsBuilding(f, N, ms, c) ==
  f = [n \in 0 .. N |-> IF n = 0 THEN Base(c) ELSE BuildStep(f[n - 1], ms[n])]
\* And that of UsedAfter.
IsUsing(g, N, ms, u) ==
  g = [n \in 0 .. N |-> IF n = 0 THEN u ELSE Touched(g[n - 1], ms[n])]

\* Both can be gone through, as far as there are messages.
LEMMA BuildingExists ==
  ASSUME NEW ms, NEW c, NEW N \in Nat
  PROVE  \E f : IsBuilding(f, N, ms, c)
<1> DEFINE T == {k \in 0 .. N : \E f : IsBuilding(f, k, ms, c)}
<1>1. 0 \in T
  <2> DEFINE f == [n \in 0 .. 0 |-> Base(c)]
  <2>1. f = [n \in 0 .. 0 |-> IF n = 0 THEN Base(c) ELSE BuildStep(f[n - 1], ms[n])]
    <3> DEFINE h == [n \in 0 .. 0 |-> IF n = 0 THEN Base(c) ELSE BuildStep(f[n - 1], ms[n])]
    <3>1. \A n \in 0 .. 0 : n = 0
      OBVIOUS
    <3>2. \A n \in 0 .. 0 : f[n] = h[n]
      BY <3>1
    <3>3. QED
      BY <3>2
  <2>2. IsBuilding(f, 0, ms, c)
    BY <2>1 DEF IsBuilding
  <2> HIDE DEF f
  <2>3. QED
    BY <2>2
<1>2. ASSUME NEW k \in 1 .. N, k - 1 \in T PROVE k \in T
  <2>1. PICK g : IsBuilding(g, k - 1, ms, c)
    BY <1>2
  <2>2. /\ g[0] = Base(c)
        /\ \A n \in 1 .. k - 1 : g[n] = BuildStep(g[n - 1], ms[n])
    <3>1. g = [n \in 0 .. k - 1 |-> IF n = 0 THEN Base(c) ELSE BuildStep(g[n - 1], ms[n])]
      BY <2>1 DEF IsBuilding
    <3>2. 0 \in 0 .. k - 1 /\ \A n \in 1 .. k - 1 : n \in 0 .. k - 1 /\ n # 0
      OBVIOUS
    <3>3. g[0] = Base(c)
      BY <3>1, <3>2
    <3>4. ASSUME NEW n \in 1 .. k - 1 PROVE g[n] = BuildStep(g[n - 1], ms[n])
      BY <3>1, <3>2
    <3>5. QED
      BY <3>3, <3>4
  <2> DEFINE f == [n \in 0 .. k |-> IF n = k THEN BuildStep(g[k - 1], ms[k]) ELSE g[n]]
  <2>3. \A n \in 0 .. k - 1 : f[n] = g[n]
    OBVIOUS
  <2>4. f[k] = BuildStep(g[k - 1], ms[k]) /\ f = [n \in 0 .. k |-> f[n]]
    OBVIOUS
  <2> HIDE DEF f
  <2>5. ASSUME NEW n \in 0 .. k
        PROVE  f[n] = IF n = 0 THEN Base(c) ELSE BuildStep(f[n - 1], ms[n])
    <3>1. CASE n = 0
      BY <2>2, <2>3, <3>1
    <3>2. CASE n = k
      <4>1. f[k - 1] = g[k - 1] /\ k # 0
        BY <2>3
      <4>2. QED
        BY <2>4, <3>2, <4>1
    <3>3. CASE n # 0 /\ n # k
      <4>1. n \in 1 .. k - 1 /\ n \in 0 .. k - 1 /\ n - 1 \in 0 .. k - 1
        BY <3>3
      <4>2. f[n] = g[n] /\ f[n - 1] = g[n - 1]
        BY <2>3, <4>1
      <4>3. g[n] = BuildStep(g[n - 1], ms[n])
        BY <2>2, <4>1
      <4>4. QED
        BY <3>3, <4>2, <4>3
    <3>4. QED
      BY <3>1, <3>2, <3>3
  <2>6. f = [n \in 0 .. k |-> IF n = 0 THEN Base(c) ELSE BuildStep(f[n - 1], ms[n])]
    BY <2>4, <2>5
  <2>7. IsBuilding(f, k, ms, c)
    BY <2>6 DEF IsBuilding
  <2>8. QED
    BY <2>7
<1> HIDE DEF T
<1>3. N \in T
  BY <1>1, <1>2, UpTo
<1>4. QED
  BY <1>3 DEF T

LEMMA UsingExists ==
  ASSUME NEW ms, NEW u, NEW N \in Nat
  PROVE  \E g : IsUsing(g, N, ms, u)
<1> DEFINE T == {k \in 0 .. N : \E f : IsUsing(f, k, ms, u)}
<1>1. 0 \in T
  <2> DEFINE f == [n \in 0 .. 0 |-> u]
  <2>1. f = [n \in 0 .. 0 |-> IF n = 0 THEN u ELSE Touched(f[n - 1], ms[n])]
    <3> DEFINE h == [n \in 0 .. 0 |-> IF n = 0 THEN u ELSE Touched(f[n - 1], ms[n])]
    <3>1. \A n \in 0 .. 0 : n = 0
      OBVIOUS
    <3>2. \A n \in 0 .. 0 : f[n] = h[n]
      BY <3>1
    <3>3. QED
      BY <3>2
  <2>2. IsUsing(f, 0, ms, u)
    BY <2>1 DEF IsUsing
  <2> HIDE DEF f
  <2>3. QED
    BY <2>2
<1>2. ASSUME NEW k \in 1 .. N, k - 1 \in T PROVE k \in T
  <2>1. PICK g : IsUsing(g, k - 1, ms, u)
    BY <1>2
  <2>2. /\ g[0] = u
        /\ \A n \in 1 .. k - 1 : g[n] = Touched(g[n - 1], ms[n])
    <3>1. g = [n \in 0 .. k - 1 |-> IF n = 0 THEN u ELSE Touched(g[n - 1], ms[n])]
      BY <2>1 DEF IsUsing
    <3>2. 0 \in 0 .. k - 1 /\ \A n \in 1 .. k - 1 : n \in 0 .. k - 1 /\ n # 0
      OBVIOUS
    <3>3. g[0] = u
      BY <3>1, <3>2
    <3>4. ASSUME NEW n \in 1 .. k - 1 PROVE g[n] = Touched(g[n - 1], ms[n])
      BY <3>1, <3>2
    <3>5. QED
      BY <3>3, <3>4
  <2> DEFINE f == [n \in 0 .. k |-> IF n = k THEN Touched(g[k - 1], ms[k]) ELSE g[n]]
  <2>3. \A n \in 0 .. k - 1 : f[n] = g[n]
    OBVIOUS
  <2>4. f[k] = Touched(g[k - 1], ms[k]) /\ f = [n \in 0 .. k |-> f[n]]
    OBVIOUS
  <2> HIDE DEF f
  <2>5. ASSUME NEW n \in 0 .. k
        PROVE  f[n] = IF n = 0 THEN u ELSE Touched(f[n - 1], ms[n])
    <3>1. CASE n = 0
      BY <2>2, <2>3, <3>1
    <3>2. CASE n = k
      <4>1. f[k - 1] = g[k - 1] /\ k # 0
        BY <2>3
      <4>2. QED
        BY <2>4, <3>2, <4>1
    <3>3. CASE n # 0 /\ n # k
      <4>1. n \in 1 .. k - 1 /\ n \in 0 .. k - 1 /\ n - 1 \in 0 .. k - 1
        BY <3>3
      <4>2. f[n] = g[n] /\ f[n - 1] = g[n - 1]
        BY <2>3, <4>1
      <4>3. g[n] = Touched(g[n - 1], ms[n])
        BY <2>2, <4>1
      <4>4. QED
        BY <3>3, <4>2, <4>3
    <3>4. QED
      BY <3>1, <3>2, <3>3
  <2>6. f = [n \in 0 .. k |-> IF n = 0 THEN u ELSE Touched(f[n - 1], ms[n])]
    BY <2>4, <2>5
  <2>7. IsUsing(f, k, ms, u)
    BY <2>6 DEF IsUsing
  <2>8. QED
    BY <2>7
<1> HIDE DEF T
<1>3. N \in T
  BY <1>1, <1>2, UpTo
<1>4. QED
  BY <1>3 DEF T

\* All the messages of a session, built from a cache that is right.
LEMMA BuiltAll ==
  ASSUME NEW ms \in Seq(Messages), NEW c, NEW u, Recent(c, u)
  PROVE  /\ ItemsFit(BuildDisplayItems(ms, c).items)
         /\ Flat(BuildDisplayItems(ms, c).items) = ms
         /\ Recent(BuildDisplayItems(ms, c).cache, UsedAfter(ms, u))
<1> DEFINE N == Len(ms)
           f == CHOOSE h : h = [n \in 0 .. N |-> IF n = 0 THEN [items |-> <<>>, group |-> <<>>, cache |-> c]
                                                ELSE BuildStep(h[n - 1], ms[n])]
           g == CHOOSE h : h = [n \in 0 .. N |-> IF n = 0 THEN u ELSE Touched(h[n - 1], ms[n])]
           T == {n \in 0 .. N : Built(f[n], SubSeq(ms, 1, n), g[n])}
<1>1. N \in Nat /\ \A n \in 1 .. N : ms[n] \in Messages
  BY LenProperties, ElementOfSeq
<1>2. BuildDisplayItems(ms, c) = [items |-> f[N].items \o Group(f[N].group), cache |-> f[N].cache]
  BY DEF BuildDisplayItems
<1>3. UsedAfter(ms, u) = g[N]
  BY DEF UsedAfter
<1>4. IsBuilding(f, N, ms, c)
  <2>1. \E h : IsBuilding(h, N, ms, c)
    <3> HIDE DEF N
    <3>1. QED
      BY <1>1, BuildingExists
  <2>2. QED
    BY <2>1 DEF IsBuilding, Base
<1>5. IsUsing(g, N, ms, u)
  <2>1. \E h : IsUsing(h, N, ms, u)
    <3> HIDE DEF N
    <3>1. QED
      BY <1>1, UsingExists
  <2>2. QED
    BY <2>1 DEF IsUsing
<1> HIDE DEF f, g
<1>6. 0 \in T
  <2>1. f[0] = Base(c) /\ g[0] = u
    BY <1>1, <1>4, <1>5 DEF IsBuilding, IsUsing
  <2>2. SubSeq(ms, 1, 0) = <<>>
    BY SubSeqEmpty
  <2>3. <<>> \in Seq(Messages) /\ DOMAIN <<>> = {} /\ <<>> \o <<>> = <<>>
    BY EmptySeq, ConcatEmptySeq
  <2>4. Built(Base(c), <<>>, u)
    BY <2>3, NothingBuilt DEF Built, Base
  <2>5. Built(f[0], SubSeq(ms, 1, 0), g[0])
    BY <2>1, <2>2, <2>4
  <2>6. 0 \in 0 .. N
    BY <1>1
  <2>7. QED
    BY <2>5, <2>6
<1>7. ASSUME NEW n \in 1 .. N, n - 1 \in T PROVE n \in T
  <2>1. n \in 0 .. N /\ n # 0
    BY <1>1
  <2>2. f[n] = BuildStep(f[n - 1], ms[n]) /\ g[n] = Touched(g[n - 1], ms[n])
    BY <1>4, <1>5, <2>1 DEF IsBuilding, IsUsing
  <2>3. SubSeq(ms, 1, n) = Append(SubSeq(ms, 1, n - 1), ms[n])
    BY PrefixGrows
  <2>4. Built(f[n - 1], SubSeq(ms, 1, n - 1), g[n - 1])
    BY <1>7
  <2>5. Built(f[n], SubSeq(ms, 1, n), g[n])
    BY <1>1, <2>2, <2>3, <2>4, BuiltStep
  <2>6. QED
    BY <2>1, <2>5
<1>8. N \in T
  <2>1. \A n \in 1 .. N : n - 1 \in T => n \in T
    BY <1>7
  <2> HIDE DEF T, N
  <2>2. N \in Nat
    BY <1>1
  <2>3. QED
    BY <1>6, <2>1, <2>2, UpTo
<1>9. Built(f[N], SubSeq(ms, 1, N), g[N])
  BY <1>8
<1>10. SubSeq(ms, 1, N) = ms
  <2>1. \A i \in 1 .. N : ms[i] \in Messages
    BY <1>1
  <2> DEFINE a == SubSeq(ms, 1, N)
  <2>2. /\ a \in Seq(Messages) /\ Len(a) = IF 1 <= N THEN N - 1 + 1 ELSE 0
        /\ \A i \in 1 .. N - 1 + 1 : a[i] = ms[1 + i - 1]
    BY <1>1, SubSeqProperties
  <2>3. N - 1 + 1 = N /\ (1 <= N \/ N = 0) /\ \A i \in 1 .. N : 1 + i - 1 = i
    BY <1>1
  <2> HIDE DEF a
  <2>4. Len(a) = N /\ \A i \in 1 .. N : a[i] = ms[i]
    <3> HIDE DEF N
    <3>1. QED
      BY <2>2, <2>3
  <2>5. a = ms
    BY <2>2, <2>4, SeqEqual
  <2>6. QED
    BY <2>5 DEF a
<1>11. /\ ItemsFit(f[N].items \o Group(f[N].group))
       /\ Flat(f[N].items \o Group(f[N].group)) = ms
  <2> DEFINE s == f[N]
  <2>1. Built(s, ms, g[N])
    BY <1>9, <1>10
  <2> HIDE DEF s
  <2>2. ItemsFit(s.items \o Group(s.group)) /\ Flat(s.items \o Group(s.group)) = ms
    BY <2>1, GroupClosed
  <2>3. QED
    BY <2>2 DEF s
<1>12. Recent(f[N].cache, g[N])
  BY <1>9 DEF Built
<1> HIDE DEF N
<1>13. QED
  BY <1>2, <1>3, <1>11, <1>12

-----------------------------------------------------------------------------
(* The invariant. *)

\* What is shown is made of what arrived, and the cache is right whatever arrived.
DisplayInv ==
  /\ ResultInv
  /\ Recent(cache, used)
  /\ ItemsFit(items) /\ Flat(items) = shown

\* It says what the properties say.
LEMMA ItemsFromBuilt == ItemsFit(items) /\ Flat(items) = shown => ItemsAreMessages
  BY DEF ItemsFit, Fits, Flat, ItemsAreMessages

LEMMA DisplayInvShows ==
  DisplayInv => ItemsAreMessages /\ KeepsRecent /\ SnippetShowsTerm /\ PartsAreSnippet
  BY ItemsFromBuilt, RecentKeeps, PartsFromResult, TermFromResult DEF DisplayInv

LEMMA DisplayInitInv == DisplayInit => DisplayInv
<1> SUFFICES ASSUME DisplayInit PROVE DisplayInv
  OBVIOUS
<1>1. ResultInv
  BY DEF DisplayInit, ResultInv
<1>2. Recent(<<>>, <<>>)
  <2>1. <<>> \in Seq(Entries) /\ <<>> \in Seq(Keys) /\ Len(<<>>) = 0 /\ DOMAIN <<>> = {}
    BY EmptySeq
  <2>2. 0 < Capacity
    BY CapacityAssumption
  <2>3. QED
    BY <2>1, <2>2 DEF Recent, Distinct
<1>3. QED
  BY <1>1, <1>2, NothingBuilt DEF DisplayInit, DisplayInv

\* Every step keeps it.
LEMMA DisplayNextInv == DisplayInv /\ [DisplayNext]_displayVars => DisplayInv'
<1> SUFFICES ASSUME DisplayInv, [DisplayNext]_displayVars PROVE DisplayInv'
  OBVIOUS
<1>1. ASSUME NEW content \in Contents, NEW term \in Terms, ShowResult(content, term)
      PROVE  DisplayInv'
  <2>1. ResultInv'
    BY <1>1 DEF ShowResult, ResultInv
  <2>2. QED
    BY <1>1, <2>1 DEF ShowResult, DisplayInv, messageVars
<1>2. ASSUME ClearResult PROVE DisplayInv'
  <2>1. ResultInv'
    BY <1>2 DEF ClearResult, ResultInv
  <2>2. QED
    BY <1>2, <2>1 DEF ClearResult, DisplayInv, messageVars
<1>3. ASSUME NEW ms \in MessageLists, ShowMessages(ms) PROVE DisplayInv'
  <2>1. ms \in Seq(Messages)
    BY MessagesAssumption
  <2>2. /\ ItemsFit(BuildDisplayItems(ms, cache).items)
        /\ Flat(BuildDisplayItems(ms, cache).items) = ms
        /\ Recent(BuildDisplayItems(ms, cache).cache, UsedAfter(ms, used))
    BY <2>1, BuiltAll DEF DisplayInv
  <2>3. /\ items' = BuildDisplayItems(ms, cache).items /\ shown' = ms
        /\ cache' = BuildDisplayItems(ms, cache).cache /\ used' = UsedAfter(ms, used)
        /\ UNCHANGED resultVars
    BY <1>3 DEF ShowMessages
  <2>4. ResultInv'
    BY <2>3 DEF DisplayInv, ResultInv, resultVars
  <2>5. QED
    BY <2>2, <2>3, <2>4 DEF DisplayInv
<1>4. ASSUME UNCHANGED displayVars PROVE DisplayInv'
  BY <1>4 DEF DisplayInv, ResultInv, displayVars, resultVars, messageVars
<1>5. QED
  BY <1>1, <1>2, <1>3, <1>4 DEF DisplayNext

\* The invariant holds.
LEMMA DisplayInvHolds == DisplaySpec => []DisplayInv
<1>1. QED
  BY DisplayInitInv, DisplayNextInv, PTL DEF DisplaySpec

\* The items of a session are all its messages in their order, and the longest
\* groups of those that only call tools, whatever the cache held before
\* (buildDisplayItems, isToolOnly).
THEOREM ItemsAlwaysMessages == DisplaySpec => []ItemsAreMessages
<1>1. QED
  BY DisplayInvHolds, DisplayInvShows, PTL

\* The cache always holds the messages looked at last, each once, as many as there
\* is room for (LRUCache.get and set under isToolOnly).
THEOREM CacheAlwaysRecent == DisplaySpec => []KeepsRecent
<1>1. QED
  BY DisplayInvHolds, DisplayInvShows, PTL

\* The snippet of a result has the term in it, if lower-casing keeps the bytes before
\* it and the term fits, and the highlights are its places (extractSnippet,
\* runeSliceIndex).
THEOREM SnippetAlwaysShowsTerm == DisplaySpec => []SnippetShowsTerm
<1>1. QED
  BY DisplayInvHolds, DisplayInvShows, PTL

\* The parts of a snippet cover it, and none overlaps another, although their ends
\* count bytes and the browser counts in UTF-16 units (buildSnippetParts).
THEOREM PartsAlwaysSnippet == DisplaySpec => []PartsAreSnippet
<1>1. QED
  BY DisplayInvHolds, DisplayInvShows, PTL

=============================================================================
