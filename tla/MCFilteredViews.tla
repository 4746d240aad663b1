-------------------------- MODULE MCFilteredViews ---------------------------
(* A small instance of FilteredViews for TLC. *)
EXTENDS FilteredViews

CONSTANTS q1, q2, proj, user, week

TwoQueries == {q1, q2}
OneProject == {All, proj}
OneUser == {All, user}
OneRange == {week}

=============================================================================
