---------------------------- MODULE MCStoreReads -----------------------------
(* A small instance of StoreReads for TLC. *)
EXTENDS StoreReads

CONSTANTS alice, bob, web, word, sha1, url1, opus, haiku, bash, edit

Row(u, p, child, replied, at, n) ==
  [user |-> u, project |-> p, child |-> child, replied |-> replied, at |-> at,
   messages |-> n, tokens |-> n]
Message(s, o, m, t, texts) ==
  [session |-> s, ordinal |-> o, model |-> m, tokens |-> t, text |-> texts]
Call(s, o, tool, texts) ==
  [session |-> s, ordinal |-> o, id |-> 1, tool |-> tool, text |-> texts]
Batch(s, row, ms, cs, ls) ==
  [session |-> s, row |-> row, messages |-> ms, calls |-> cs,
   links |-> {[session |-> s, to |-> x] : x \in ls}]

\* Of session 1: two messages, the session at the last moment of a day, with a call,
\* a commit and a pull request; and the session read anew, without a project and
\* without a start time, with a result that has come late and a second call that has
\* no id either.  Of session 2: a subagent's; or another user's, at the first moment
\* of a day.
FourBatches ==
  {Batch(1, Row(alice, web, FALSE, TRUE, 2, 2),
         {Message(1, 0, Null, 0, {word}), Message(1, 1, opus, 1, {word})},
         {Call(1, 1, bash, {sha1})}, {sha1, url1}),
   Batch(1, Row(alice, NoName, FALSE, TRUE, Null, 2), {Message(1, 1, haiku, 2, {word})},
         {Call(1, 1, bash, {sha1, word}), Call(1, 1, edit, {})}, {sha1, url1}),
   Batch(2, Row(alice, web, TRUE, TRUE, 2, 1), {Message(2, 0, opus, 2, {word})},
         {}, {sha1}),
   Batch(2, Row(bob, web, FALSE, TRUE, 3, 1), {Message(2, 0, opus, 2, {word})},
         {}, {})}

=============================================================================
