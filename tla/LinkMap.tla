------------------------------ MODULE LinkMap -------------------------------
(***************************************************************************)
(* What the git_links table is taken for: a map from keys to links, which  *)
(* a batch of links is written to at once, and where the last one written  *)
(* stays, as long as time has not gone backwards.                          *)
(***************************************************************************)
VARIABLES
  links,    \* the links a query finds; a link has a key
  batch,    \* those about to be written
  trusted   \* has the clock never been set back?

vars == <<links, batch, trusted>>

Init == links = {} /\ batch = {} /\ trusted = TRUE

Collect == UNCHANGED <<links, trusted>>

Put ==
  /\ trusted
  /\ links' = batch \cup {l \in links : \A b \in batch : b.key # l.key}
  /\ UNCHANGED <<batch, trusted>>

\* The clock is set back: from now on an older link may win.
Distrust == trusted' = FALSE

Next == Collect \/ Put \/ Distrust

Spec == Init /\ [][Next]_vars

=============================================================================
