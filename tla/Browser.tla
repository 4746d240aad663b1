------------------------------- MODULE Browser -------------------------------
(***************************************************************************)
(* The conversation browser: the stores of frontend/src/lib/stores, the    *)
(* effects of App.svelte and DetailPanel.svelte that connect them, and the *)
(* requests they have in flight, which are answered in any order.          *)
(*                                                                         *)
(* JavaScript runs an event handler, or the continuation of an awaited     *)
(* answer, to its end, and then the effects whose dependencies changed.    *)
(* Each handler, continuation and effect is one action; the next event     *)
(* waits for the effects.                                                  *)
(*                                                                         *)
(* An operator named X_Y, marked "Fault", is X with a bug: some property   *)
(* below is violated once it takes the place of X.                         *)
(***************************************************************************)
EXTENDS Integers, Sequences, FiniteSets, SequencesExt

CONSTANTS
  Sessions,     \* sessions, numbered in the order of the list
  Linked,       \* those with a commit count
  Filters,      \* settings of the filters
  NoFilters,    \* the one a page load starts with
  Matches,      \* Matches[f]: the sessions the server lists for filters f
  PageSize,     \* of the server
  Ordinals,     \* messages a link can point to
  MaxRequests   \* bound: no event while so many requests are in flight

ASSUME SessionsAssumption == Sessions \subseteq Nat \ {0} /\ IsFiniteSet(Sessions)
ASSUME LinkedAssumption == Linked \subseteq Sessions
ASSUME FiltersAssumption == NoFilters \in Filters
ASSUME MatchesAssumption == Matches \in [Filters -> SUBSET Sessions]
ASSUME NumbersAssumption ==
  PageSize \in Nat \ {0} /\ MaxRequests \in Nat /\ Ordinals \subseteq Nat \ {0}

VARIABLES
  \* router
  route,        \* session in the URL
  anchor,       \* message in the URL
  \* sessions
  list,         \* the sessions shown in the side bar
  cursor,       \* nextCursor: the last session of the latest page
  filters,
  listLoading,
  active,       \* activeSessionId
  fetched,      \* fetchedSession
  \* messages
  msgs,         \* whose messages are held
  msgsLoading,
  target,       \* targetOrdinal
  \* DetailPanel
  links,        \* whose git links are held
  highlight,    \* highlightOrdinal
  \* The JavaScript runtime and the network.
  effects,      \* scheduled effects
  requests,     \* requests in flight, in the order they were sent
  \* History, for the properties.
  overtaken,    \* an answer came before that to an earlier request of its kind
  overlapped,   \* "Load more" was clicked with a list request in flight
  early,        \* a lookup's result was clicked while the list was being loaded
  failed        \* a request has failed

urlVars == <<route, anchor>>
listVars == <<list, cursor, listLoading>>
activeVars == <<active, fetched>>
messageVars == <<msgs, msgsLoading>>
panelVars == <<links, highlight>>
history == <<overtaken, overlapped, early, failed>>
vars == <<urlVars, listVars, filters, activeVars, messageVars, target, panelVars,
          effects, requests, history>>

None == 0
EffectNames == {"load", "select", "anchor", "panel"}
ListKinds == {"load", "more"}
ItemKinds == {"session", "messages", "links"}
Requests ==
  [kind : ListKinds, filters : Filters, after : Sessions \cup {None}]
    \cup [kind : ItemKinds, id : Sessions]

TypeOK ==
  /\ {route, active, fetched, msgs, links, cursor} \subseteq Sessions \cup {None}
  /\ {anchor, target, highlight} \subseteq Ordinals \cup {None}
  /\ list \in Seq(Sessions)
  /\ filters \in Filters
  /\ {listLoading, msgsLoading, overtaken, overlapped, early, failed} \subseteq BOOLEAN
  /\ effects \subseteq EffectNames
  /\ requests \in Seq(Requests)
  /\ links # None => links \in Linked

-----------------------------------------------------------------------------
(* What the server answers, and what is sent to it. *)

\* A set of sessions in the order of the list.
InOrder(S) ==
  CHOOSE q \in [1 .. Cardinality(S) -> S] :
    Range(q) = S /\ \A i, j \in DOMAIN q : i < j => q[i] < q[j]

After(f, c) == InOrder({s \in Matches[f] : s > c})
Rows(f) == After(f, None)
Page(f, c) == SubSeq(After(f, c), 1, IF Len(After(f, c)) < PageSize
                                       THEN Len(After(f, c)) ELSE PageSize)
NextCursor(f, c) ==
  IF Len(After(f, c)) > PageSize THEN After(f, c)[PageSize] ELSE None

ListRequest(k, f, c) == [kind |-> k, filters |-> f, after |-> c]
ItemRequest(k, s) == [kind |-> k, id |-> s]

-----------------------------------------------------------------------------
(* The derived active session.  Svelte compares objects: the effect of the  *)
(* panel runs again when the same session is a new object.                 *)

Object(l, a, f) ==
  IF a # None /\ a \in Range(l) THEN <<"list", a>>
  ELSE IF a # None /\ a = f THEN <<"fetched", a>>
  ELSE <<>>

Shown ==
  IF Object(list, active, fetched) = <<>> THEN None ELSE active

\* The panel's effect is scheduled; new says which objects have been replaced.
PanelIfChanged(new) ==
  LET before == Object(list, active, fetched)
      after == Object(list', active', fetched')
  IN IF after # before \/ (after # <<>> /\ after[1] = new) THEN {"panel"} ELSE {}

\* sessions.load
Load(f) ==
  /\ listLoading' = TRUE
  /\ requests' = Append(requests, ListRequest("load", f, None))
  /\ UNCHANGED <<list, cursor>>

FetchIfUnlisted(s) ==
  IF s \in Range(list) THEN <<>> ELSE <<ItemRequest("session", s)>>

\* Fault: a session fetched earlier is taken for the one to fetch.
SelectAndLoad_Cached(s) ==
  /\ active' = s
  /\ UNCHANGED fetched
  /\ msgs' = None /\ msgsLoading' = TRUE
  /\ requests' = requests
       \o (IF fetched = None THEN FetchIfUnlisted(s) ELSE <<>>)
       \o <<ItemRequest("messages", s)>>

\* sessions.selectSession and messages.load
SelectAndLoad(s) ==
  /\ active' = s
  /\ fetched' = IF s \in Range(list) THEN fetched ELSE None
  /\ msgs' = None /\ msgsLoading' = TRUE
  /\ requests' = requests \o FetchIfUnlisted(s) \o <<ItemRequest("messages", s)>>

-----------------------------------------------------------------------------
(* Effects. *)

ScrollDue == ~msgsLoading /\ msgs # None /\ target # None
Idle == effects = {} /\ ~ScrollDue

\* App.svelte: the list is loaded on mount and whenever the filters change.
LoadEffect ==
  /\ "load" \in effects
  /\ Load(filters)
  /\ effects' = effects \ {"load"}
  /\ UNCHANGED <<urlVars, filters, activeVars, messageVars, target, panelVars,
                 history>>

\* Fault: a URL without a session is not told apart.
SelectEffect_NoCheck ==
  /\ "select" \in effects /\ "load" \notin effects
  /\ SelectAndLoad(route)
  /\ UNCHANGED <<urlVars, listVars, filters, target, panelVars, history>>
  /\ effects' = (effects \ {"select"}) \cup PanelIfChanged("none")

\* App.svelte: the session of the URL is selected, again whenever the list
\* has changed.
SelectEffect ==
  /\ "select" \in effects /\ "load" \notin effects
  /\ IF route # None
       THEN SelectAndLoad(route)
       ELSE active' = None /\ UNCHANGED <<fetched, messageVars, requests>>
  /\ UNCHANGED <<urlVars, listVars, filters, target, panelVars, history>>
  /\ effects' = (effects \ {"select"}) \cup PanelIfChanged("none")

\* App.svelte: the message of the URL is to be scrolled to.
AnchorEffect ==
  /\ "anchor" \in effects /\ effects \cap {"load", "select"} = {}
  /\ target' = IF anchor # None THEN anchor ELSE target
  /\ effects' = effects \ {"anchor"}
  /\ UNCHANGED <<urlVars, listVars, filters, activeVars, messageVars,
                 panelVars, requests, history>>

\* DetailPanel.svelte: once there are messages, the target is highlighted.
ScrollEffect ==
  /\ ScrollDue /\ effects \subseteq {"panel"}
  /\ target' = None /\ highlight' = target
  /\ UNCHANGED <<urlVars, listVars, filters, activeVars, messageVars, links,
                 effects, requests, history>>

\* Fault: no links are asked for while others are on their way.
PanelEffect_UnlessAsked ==
  /\ effects = {"panel"} /\ ~ScrollDue
  /\ highlight' = None /\ links' = None
  /\ requests' = IF Shown \in Linked /\ \A i \in DOMAIN requests :
                                        requests[i].kind # "links"
                   THEN Append(requests, ItemRequest("links", Shown)) ELSE requests
  /\ effects' = {}
  /\ UNCHANGED <<urlVars, listVars, filters, activeVars, messageVars, target,
                 history>>

\* DetailPanel.svelte: a new active session; its links are asked for.
PanelEffect ==
  /\ effects = {"panel"} /\ ~ScrollDue
  /\ highlight' = None /\ links' = None
  /\ requests' = IF Shown \in Linked
                   THEN Append(requests, ItemRequest("links", Shown)) ELSE requests
  /\ effects' = {}
  /\ UNCHANGED <<urlVars, listVars, filters, activeVars, messageVars, target,
                 history>>

-----------------------------------------------------------------------------
(* Events of the user. *)

Ready == Idle /\ Len(requests) < MaxRequests

\* A click on a session, a search result, a link to a subagent or the header,
\* or the back button.
Navigate(s, o) ==
  /\ Ready
  /\ s # route \/ o # anchor
  /\ s = None => o = None
  /\ route' = s /\ anchor' = o
  /\ effects' = {e \in {"select", "anchor"} :
                   IF e = "select" THEN s # route ELSE o # anchor}
  /\ UNCHANGED <<listVars, filters, activeVars, messageVars, target, panelVars,
                 requests, history>>

\* sessions.updateFilters
UpdateFilters(f) ==
  /\ Ready
  /\ filters' = f
  /\ active' = None
  /\ Load(f)
  /\ UNCHANGED <<urlVars, fetched, messageVars, target, panelVars, history>>
  /\ effects' = {"load"} \cup PanelIfChanged("none")

ListRequested == \E i \in DOMAIN requests : requests[i].kind \in ListKinds

\* sessions.loadMore, by a button that is disabled while loading.
LoadMore ==
  /\ Ready
  /\ cursor # None /\ ~listLoading
  /\ listLoading' = TRUE
  /\ requests' = Append(requests, ListRequest("more", filters, cursor))
  /\ overlapped' = (overlapped \/ ListRequested)
  /\ UNCHANGED <<urlVars, list, cursor, filters, activeVars, messageVars,
                 target, panelVars, effects, overtaken, early, failed>>

\* GitLinkLookup.selectResult: the URL stays as it is.
SelectResult(s, o) ==
  /\ Ready
  /\ SelectAndLoad(s)
  /\ target' = o
  /\ early' = (early \/ \E i \in DOMAIN requests : requests[i].kind = "load")
  /\ UNCHANGED <<urlVars, listVars, filters, panelVars, overtaken, overlapped, failed>>
  /\ effects' = PanelIfChanged("none")

\* DetailPanel.scrollToMessage
ScrollToMessage(o) ==
  /\ Ready
  /\ links # None /\ Shown # None
  /\ target' = o
  /\ UNCHANGED <<urlVars, listVars, filters, activeVars, messageVars,
                 panelVars, effects, requests, history>>

-----------------------------------------------------------------------------
(* Answers. *)

\* The answer to request i arrives; it is of one of these kinds.
Answered(i, kinds) ==
  /\ Idle
  /\ requests[i].kind \in kinds
  /\ requests' = RemoveAt(requests, i)
  /\ overtaken' =
       (overtaken \/ \E j \in 1 .. i - 1 :
          {requests[i].kind, requests[j].kind} \subseteq ListKinds
            \/ requests[j].kind = requests[i].kind)
  /\ UNCHANGED <<overlapped, early>>

\* The effect that selects the session of the URL has read the list.
SelectIfRouted == IF route # None THEN {"select"} ELSE {}

LoadAnswered(i) ==
  /\ Answered(i, {"load"})
  /\ list' = Page(requests[i].filters, None)
  /\ cursor' = NextCursor(requests[i].filters, None)
  /\ listLoading' = FALSE
  /\ UNCHANGED <<urlVars, filters, activeVars, messageVars, target, panelVars,
                 failed>>
  /\ effects' = SelectIfRouted \cup PanelIfChanged("list")

\* Fault: the cursor stays that of the page before.
MoreAnswered_OldCursor(i) ==
  /\ Answered(i, {"more"})
  /\ list' = list \o Page(requests[i].filters, requests[i].after)
  /\ listLoading' = FALSE
  /\ UNCHANGED <<urlVars, cursor, filters, activeVars, messageVars, target,
                 panelVars, failed>>
  /\ effects' = SelectIfRouted \cup PanelIfChanged("none")

MoreAnswered(i) ==
  /\ Answered(i, {"more"})
  /\ list' = list \o Page(requests[i].filters, requests[i].after)
  /\ cursor' = NextCursor(requests[i].filters, requests[i].after)
  /\ listLoading' = FALSE
  /\ UNCHANGED <<urlVars, filters, activeVars, messageVars, target, panelVars,
                 failed>>
  /\ effects' = SelectIfRouted \cup PanelIfChanged("none")

SessionAnswered(i) ==
  /\ Answered(i, {"session"})
  /\ fetched' = requests[i].id
  /\ UNCHANGED <<urlVars, listVars, filters, active, messageVars, target,
                 panelVars, failed>>
  /\ effects' = PanelIfChanged("fetched")

MessagesAnswered(i) ==
  /\ Answered(i, {"messages"})
  /\ msgs' = requests[i].id
  /\ msgsLoading' = FALSE
  /\ UNCHANGED <<urlVars, listVars, filters, activeVars, target, panelVars,
                 effects, failed>>

\* Fault: nobody asks whether the session is still the active one.
LinksAnswered_Unchecked(i) ==
  /\ Answered(i, {"links"})
  /\ links' = requests[i].id
  /\ UNCHANGED <<urlVars, listVars, filters, activeVars, messageVars, target,
                 highlight, effects, failed>>

LinksAnswered(i) ==
  /\ Answered(i, {"links"})
  /\ links' = IF active = requests[i].id THEN requests[i].id ELSE links
  /\ UNCHANGED <<urlVars, listVars, filters, activeVars, messageVars, target,
                 highlight, effects, failed>>

\* The "finally" of load, loadMore and messages.load.
RequestFails(i) ==
  /\ Answered(i, ListKinds \cup ItemKinds)
  /\ listLoading' = (listLoading /\ requests[i].kind \notin ListKinds)
  /\ msgsLoading' = (msgsLoading /\ requests[i].kind # "messages")
  /\ failed' = TRUE
  /\ UNCHANGED <<urlVars, list, cursor, filters, activeVars, msgs, target,
                 panelVars, effects>>

-----------------------------------------------------------------------------
\* A page load, at any URL.
Init ==
  /\ route \in Sessions \cup {None}
  /\ anchor \in IF route = None THEN {None} ELSE Ordinals \cup {None}
  /\ list = <<>> /\ cursor = None /\ filters = NoFilters /\ listLoading = FALSE
  /\ active = None /\ fetched = None
  /\ msgs = None /\ msgsLoading = FALSE /\ target = None
  /\ links = None /\ highlight = None
  /\ effects = {"load", "select", "anchor"} /\ requests = <<>>
  /\ overtaken = FALSE /\ overlapped = FALSE /\ early = FALSE /\ failed = FALSE

Effect ==
  LoadEffect \/ SelectEffect \/ AnchorEffect \/ ScrollEffect \/ PanelEffect

Event ==
  \/ \E s \in Sessions \cup {None}, o \in Ordinals \cup {None} : Navigate(s, o)
  \/ \E f \in Filters : UpdateFilters(f)
  \/ LoadMore
  \/ \E s \in Sessions, o \in Ordinals : SelectResult(s, o)
  \/ \E o \in Ordinals : ScrollToMessage(o)

Answer(i) ==
  \/ LoadAnswered(i) \/ MoreAnswered(i) \/ SessionAnswered(i)
  \/ MessagesAnswered(i) \/ LinksAnswered(i) \/ RequestFails(i)

Next == Effect \/ Event \/ \E i \in DOMAIN requests : Answer(i)

Spec == Init /\ [][Next]_vars

-----------------------------------------------------------------------------
(* Properties. *)

Settled == Idle /\ requests = <<>>

\* Whatever order answers come in, the git links in the panel are those of the
\* session it shows (DetailPanel.svelte:39).
LinksOfShown == Idle /\ Shown # None => links \in {None, Shown}

\* And when all answers are in, the links of the session shown are there.
LinksArrive == Settled /\ ~failed /\ Shown \in Linked => links = Shown

\* When the answers to requests of one kind come in the order of the requests,
\* the messages held are those of the session selected last; and it is shown,
\* unless it is not in the URL and was picked from a list about to be replaced.
SelectedIsShown ==
  Settled /\ ~failed /\ ~overtaken /\ active # None =>
    /\ msgs = active
    /\ route # None \/ ~early => Shown = active

\* When, moreover, "Load more" is not clicked while a page is on its way, the
\* list is a beginning of the rows for the filters shown, and the cursor says
\* where it goes on.
ListIsPrefix ==
  Settled /\ ~failed /\ ~overtaken /\ ~overlapped =>
    /\ IsPrefix(list, Rows(filters))
    /\ cursor = IF list = Rows(filters) THEN None ELSE Last(list)

=============================================================================
