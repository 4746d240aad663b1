----------------------------- MODULE MCGitLinks -----------------------------
(* A small instance of GitLinks for TLC. *)
EXTENDS GitLinks

CONSTANTS sha1, url1

OneSha == {sha1}
OneURL == {url1}

\* `git commit` and `gh pr create` in one command, `gh pr create` alone, another
\* command whose output has the hash and the address, and one that matches nothing.
FourKinds ==
  {[isCommit |-> TRUE, isPRCreate |-> TRUE, sha |-> sha1, url |-> url1],
   [isCommit |-> FALSE, isPRCreate |-> TRUE, sha |-> None, url |-> url1],
   [isCommit |-> FALSE, isPRCreate |-> FALSE, sha |-> sha1, url |-> url1],
   [isCommit |-> FALSE, isPRCreate |-> FALSE, sha |-> None, url |-> None]}

=============================================================================
