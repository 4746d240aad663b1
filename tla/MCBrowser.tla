------------------------------ MODULE MCBrowser ------------------------------
(* A small instance of Browser for TLC: two filter settings, of which one lists
   two pages of one session and the other one; session 3 is in no list. *)
EXTENDS Browser, TLC

CONSTANTS all, some

TwoFilters == {all, some}
TwoPages == (all :> {1, 2}) @@ (some :> {2})

=============================================================================
