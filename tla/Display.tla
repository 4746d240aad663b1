------------------------------- MODULE Display -------------------------------
(***************************************************************************)
(* What the browser makes of data before it shows them: a search result    *)
(* with the highlights of its snippet (Snippets), and the messages of a    *)
(* session, of which neighbours that only call tools make a group          *)
(* (utils/display-items.ts).  What a message is, isToolOnly remembers in   *)
(* an LRU cache for all sessions (utils/content-parser.ts, utils/cache.ts). *)
(***************************************************************************)
EXTENDS Snippets, SequencesExt

CONSTANTS
  Contents, Terms,  \* of results
  Messages,         \* [role, hasToolUse, content], content as below
  ToolContents,     \* contents with nothing but tool calls and thinking in them
  MessageLists,     \* what a session may have
  Capacity,         \* of the cache; 12000 in the code
  NoResult

ASSUME CapacityAssumption == Capacity \in Nat \ {0}
ASSUME MessagesAssumption ==
  /\ \A m \in Messages : m.hasToolUse \in BOOLEAN
  /\ MessageLists \subseteq Seq(Messages)
ASSUME ResultsAssumption ==
  /\ Contents \subseteq Seq(Chars) /\ Terms \subseteq Seq(Chars)
  /\ NoResult \notin Contents \X Terms

VARIABLES
  result,   \* the content and the term of the search result shown
  snippet,
  parts,
  shown,    \* the messages shown
  items,    \* and what is made of them
  cache,    \* entries, the least recently used first
  \* For the properties.
  used      \* the keys of all messages looked at that are cached, least recent first

resultVars == <<result, snippet, parts>>
messageVars == <<shown, items, cache, used>>
displayVars == <<resultVars, messageVars>>

-----------------------------------------------------------------------------
(* The LRU cache: a Map, which lists its keys in the order they were set. *)

Has(c, key) == \E i \in DOMAIN c : c[i].key = key
ValueIn(c, key) == c[CHOOSE i \in DOMAIN c : c[i].key = key].value
Deleted(c, key) == RemoveFirstMatch(c, LAMBDA e : e.key = key)

\* Fault: an entry that is read keeps its place.
CacheGet_Peek(c, key) == c
\* get, of a key there is.
CacheGet(c, key) == Append(Deleted(c, key), [key |-> key, value |-> ValueIn(c, key)])

\* set, of a key there is not.
CacheSet(c, key, value) ==
  Append(IF Len(c) >= Capacity THEN Tail(c) ELSE c, [key |-> key, value |-> value])

\* Fault: the content alone is the key.
KeyOf_ContentOnly(m) == <<m.content>>
KeyOf(m) == <<m.role, m.hasToolUse, m.content>>

Assistants(m) == m.role = "assistant"
ToolOnly(m) == Assistants(m) /\ m.hasToolUse /\ m.content \in ToolContents

\* isToolOnly: what it returns, and the cache it leaves.
IsToolOnly(c, m) ==
  CASE Has(c, KeyOf(m)) ->
         [is |-> ValueIn(c, KeyOf(m)), cache |-> CacheGet(c, KeyOf(m))]
    [] ~Has(c, KeyOf(m)) /\ ~Assistants(m) -> [is |-> FALSE, cache |-> c]
    [] OTHER -> [is |-> ToolOnly(m), cache |-> CacheSet(c, KeyOf(m), ToolOnly(m))]

-----------------------------------------------------------------------------
(* The items of a list of messages. *)

Item(m) == [kind |-> "message", messages |-> <<m>>]
Group(ms) == IF ms = <<>> THEN <<>> ELSE <<[kind |-> "tool-group", messages |-> ms]>>

\* After each message: the items, the messages of a group that is not closed, and
\* the cache.
BuildStep(s, m) ==
  LET looked == IsToolOnly(s.cache, m)
  IN IF looked.is
       THEN [items |-> s.items, group |-> Append(s.group, m), cache |-> looked.cache]
       ELSE [items |-> s.items \o Group(s.group) \o <<Item(m)>>, group |-> <<>>,
             cache |-> looked.cache]

BuildDisplayItems(ms, c) ==
  LET after[n \in 0 .. Len(ms)] ==
        IF n = 0 THEN [items |-> <<>>, group |-> <<>>, cache |-> c]
        ELSE BuildStep(after[n - 1], ms[n])
      last == after[Len(ms)]
  IN [items |-> last.items \o Group(last.group), cache |-> last.cache]

\* History: the keys of what is cached, after each message.
Touched(keys, m) ==
  IF Assistants(m) THEN Append(RemoveFirst(keys, KeyOf(m)), KeyOf(m)) ELSE keys
UsedAfter(ms, keys) ==
  LET after[n \in 0 .. Len(ms)] ==
        IF n = 0 THEN keys ELSE Touched(after[n - 1], ms[n])
  IN after[Len(ms)]

-----------------------------------------------------------------------------
NoSnippet == [before |-> 0, text |-> <<>>, after |-> 0, highlights |-> {}]

DisplayInit ==
  /\ result = NoResult /\ parts = {} /\ snippet = NoSnippet
  /\ shown = <<>> /\ items = <<>> /\ cache = <<>> /\ used = <<>>

\* A result and the messages share no state: bound, one of them is shown at a time.

\* A search answers with this result; it does not answer if extractSnippet panics.
ShowResult(content, term) ==
  /\ result = NoResult /\ used = <<>> /\ shown = <<>>
  /\ ~Panics(content, term)
  /\ result' = <<content, term>>
  /\ snippet' = ExtractSnippet(content, term)
  /\ parts' = BuildSnippetParts(snippet')
  /\ UNCHANGED messageVars

\* The search is cleared.
ClearResult ==
  /\ result # NoResult
  /\ result' = NoResult /\ parts' = {} /\ snippet' = NoSnippet
  /\ UNCHANGED messageVars

\* The messages of a session arrive.
ShowMessages(ms) ==
  LET built == BuildDisplayItems(ms, cache)
  IN /\ result = NoResult
     /\ shown' = ms
     /\ items' = built.items /\ cache' = built.cache
     /\ used' = UsedAfter(ms, used)
     /\ UNCHANGED resultVars

DisplayNext ==
  \/ \E content \in Contents, term \in Terms : ShowResult(content, term)
  \/ ClearResult
  \/ \E ms \in MessageLists : ShowMessages(ms)

DisplaySpec == DisplayInit /\ [][DisplayNext]_displayVars

-----------------------------------------------------------------------------
(* Properties. *)

\* The items have the messages of the session in their order, those that only call
\* tools in the longest groups there can be, whatever the cache remembers of
\* other messages.  A group has the ordinal of its first message in the page; the
\* others cannot be scrolled to.
ItemsAreMessages ==
  /\ FlattenSeq([i \in DOMAIN items |-> items[i].messages]) = shown
  /\ \A i \in DOMAIN items :
       /\ \A j \in DOMAIN items[i].messages :
            ToolOnly(items[i].messages[j]) <=> items[i].kind = "tool-group"
       /\ items[i].kind = "tool-group" /\ i < Len(items) => items[i + 1].kind = "message"

\* The cache holds the messages looked at last, as many as it has room for: one
\* that is read again survives, and none is there twice.  (What it says of each
\* shows in ItemsAreMessages.)
KeepsRecent ==
  LET kept == IF Len(used) < Capacity THEN Len(used) ELSE Capacity
  IN [i \in DOMAIN cache |-> cache[i].key] = SubSeq(used, Len(used) - kept + 1, Len(used))

\* Lower-casing keeps the bytes before the first match, and the term fits behind the
\* middle of the window.
Kept(content, term) ==
  LET at == Min(Occurrences(ToLower(term), ToLower(content)))
  IN /\ Width(Slice(ToLower(content), 0, at), Bytes) = Width(Slice(content, 0, at), Bytes)
     /\ Len(term) <= WindowSize - (WindowSize \div 2)

\* The snippet has the term in it, if lower-casing keeps the bytes before the match
\* and the term fits behind the middle of the window, and the highlights are the
\* bytes of all its places but those that overlap one before (docs/testing.md,
\* S12; clickhouse_search.go:141).
SnippetShowsTerm ==
  result # NoResult =>
    LET content == result[1]
        term == result[2]
        hits == Occurrences(ToLower(term), ToLower(snippet.text))
        At(h, p) ==
          /\ h.start = snippet.before + Width(Slice(snippet.text, 0, p), Bytes)
          /\ h.end = h.start + Width(Slice(snippet.text, p, p + Len(term)), Bytes)
    IN term # <<>> /\ Matches(content, term) =>
         /\ Len(snippet.text) <= WindowSize
         /\ Len(snippet.text) = WindowSize \/ snippet.text = content
         /\ Kept(content, term) => hits # {}
         /\ \A h \in snippet.highlights : \E p \in hits : At(h, p)
         /\ \A p \in hits : \E q \in hits, h \in snippet.highlights :
              At(h, q) /\ p - Len(term) < q /\ q <= p

\* The parts the browser shows are the whole snippet and nothing twice, although
\* their ends count bytes and the browser counts in UTF-16 units.
PartsAreSnippet ==
  result # NoResult =>
    \A u \in 0 .. (UnitsOf(snippet) - 1) :
      \E p \in parts : /\ p.from <= u /\ u < p.to
                       /\ \A q \in parts : q.from <= u /\ u < q.to => q = p

\* What is marked in the page is the term (docs/testing.md, S13: "Highlights point
\* to valid snippet positions").
MarksAreTerm ==
  result # NoResult =>
    \A p \in parts : p.marked =>
      \E at \in Occurrences(ToLower(result[2]), ToLower(snippet.text)) :
        /\ p.from = snippet.before + Width(Slice(snippet.text, 0, at), Units)
        /\ p.to = p.from + Width(Slice(snippet.text, at, at + Len(result[2])), Units)

=============================================================================
