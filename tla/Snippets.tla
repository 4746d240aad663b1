------------------------------- MODULE Snippets ------------------------------
(***************************************************************************)
(* The snippet of a search result and the places of the term in it:        *)
(* extractSnippet and runeSliceIndex of internal/store/clickhouse_search.go *)
(* count in characters and in bytes, the browser that shows the result in  *)
(* UTF-16 units (SearchResultItem.svelte).                                 *)
(***************************************************************************)
EXTENDS Integers, Sequences, FiniteSetsExt

CONSTANTS
  Chars,      \* all but the dots of a cut, each of which is one byte and one unit
  LowerCase,  \* of each of them
  Bytes,      \* in UTF-8
  Units,      \* in UTF-16
  WindowSize  \* in characters

ASSUME CharsAssumption ==
  /\ LowerCase \in [Chars -> Chars]
  /\ Bytes \in [Chars -> 1 .. 4] /\ Units \in [Chars -> 1 .. 2]
ASSUME WindowAssumption == WindowSize \in Nat \ {0}

\* Positions count from 0, as in the code.
ToLower(text) == [i \in DOMAIN text |-> LowerCase[text[i]]]
Slice(text, from, to) == SubSeq(text, from + 1, to)
Width(text, widths) ==
  LET upTo[n \in 0 .. Len(text)] ==
        IF n = 0 THEN 0 ELSE upTo[n - 1] + widths[text[n]]
  IN upTo[Len(text)]

IsAt(term, text, pos) == Slice(text, pos, pos + Len(term)) = term
Occurrences(term, text) == {p \in 0 .. (Len(text) - Len(term)) : IsAt(term, text, p)}

\* runeSliceIndex is the least of them.  A loop looks on behind each it finds.
Leftmost(term, text) ==
  LET Behind(o) == {p \in Occurrences(term, text) : p >= o}
      found[o \in 0 .. Len(text)] ==
        IF Behind(o) = {} THEN {}
        ELSE {Min(Behind(o))} \cup found[Min(Behind(o)) + Len(term)]
  IN found[0]

\* The characters of the first n bytes; each byte of one that is cut counts as one.
CharsOf(text, n) ==
  LET whole == Max({k \in 0 .. Len(text) : Width(Slice(text, 0, k), Bytes) <= n})
  IN whole + n - Width(Slice(text, 0, whole), Bytes)

\* Where the match is in the lower-cased text, in bytes.
MatchPos(content, term) ==
  LET at == Min(Occurrences(ToLower(term), ToLower(content)))
  IN Width(Slice(ToLower(content), 0, at), Bytes)

Matches(content, term) == Occurrences(ToLower(term), ToLower(content)) # {}

\* content[:matchPos] is out of range.
Panics(content, term) ==
  /\ content # <<>> /\ term # <<>> /\ Matches(content, term)
  /\ MatchPos(content, term) > Width(content, Bytes)

\* Fault: the window does not move back from the end.
Window_Short(content, term) ==
  LET start == Max({0, CharsOf(content, MatchPos(content, term)) - (WindowSize \div 2)})
  IN <<start, Min({Len(content), start + WindowSize})>>

\* The window begins half its size before the match, or as far back as it takes.
Window(content, term) ==
  LET start == Max({0, CharsOf(content, MatchPos(content, term)) - (WindowSize \div 2)})
  IN IF start + WindowSize <= Len(content)
       THEN <<start, start + WindowSize>>
       ELSE <<Max({0, Len(content) - WindowSize}), Len(content)>>

HighlightsIn(text, term, dots) ==
  {[start |-> dots + Width(Slice(text, 0, p), Bytes),
    end |-> dots + Width(Slice(text, 0, p + Len(term)), Bytes)]
   : p \in Leftmost(ToLower(term), ToLower(text))}

Dots == 3  \* of "..."

\* A snippet: dots, a piece of the content, dots; and its highlights.
ExtractSnippet(content, term) ==
  CASE content = <<>> \/ term = <<>> ->
         [before |-> 0, text |-> content, after |-> 0, highlights |-> {}]
    [] content # <<>> /\ term # <<>> /\ ~Matches(content, term) ->
         [before |-> 0, text |-> Slice(content, 0, Min({Len(content), WindowSize})),
          after |-> IF Len(content) > WindowSize THEN Dots ELSE 0, highlights |-> {}]
    [] OTHER ->
         LET w == Window(content, term)
             text == Slice(content, w[1], w[2])
             before == IF w[1] > 0 THEN Dots ELSE 0
         IN [before |-> before, text |-> text,
             after |-> IF w[2] < Len(content) THEN Dots ELSE 0,
             highlights |-> HighlightsIn(text, term, before)]

-----------------------------------------------------------------------------
(* The browser. *)

\* buildSnippetParts: text[a : b] stops at the end of the text.
UnitsOf(snippet) == snippet.before + Width(snippet.text, Units) + snippet.after
Part(snippet, from, to, marked) ==
  [from |-> Min({from, UnitsOf(snippet)}), to |-> Min({to, UnitsOf(snippet)}),
   marked |-> marked]

\* Fault: what follows the last of them is left out.
BuildSnippetParts_NoRest(snippet) ==
  LET ends == {0} \cup {h.end : h \in snippet.highlights}
      gaps == {<<e, Min({h.start : h \in {g \in snippet.highlights : g.start >= e}})>>
               : e \in ends \ {Max(ends)}}
  IN {Part(snippet, h.start, h.end, TRUE) : h \in snippet.highlights}
       \cup {Part(snippet, g[1], g[2], FALSE) : g \in {x \in gaps : x[1] < x[2]}}

\* Each highlight, and what lies between them, before and behind.
BuildSnippetParts(snippet) ==
  LET ends == {0} \cup {h.end : h \in snippet.highlights}
      gaps == {<<e, Min({h.start : h \in {g \in snippet.highlights : g.start >= e}}
                          \cup {UnitsOf(snippet)})>> : e \in ends}
  IN {Part(snippet, h.start, h.end, TRUE) : h \in snippet.highlights}
       \cup {Part(snippet, g[1], g[2], FALSE) : g \in {x \in gaps : x[1] < x[2]}}

=============================================================================
