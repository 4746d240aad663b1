---------------------------- MODULE SyncReplica -----------------------------
(***************************************************************************)
(* What the sync engine promises, with nothing of how it does it.          *)
(*                                                                         *)
(* A source only grows.  Clients copy items of it into a replica, each at  *)
(* its own pace, and remember which of them they need not copy again.      *)
(* They share one notebook: a client may write down what it remembers,     *)
(* take over what is written there, or forget; the notebook may be lost.   *)
(***************************************************************************)
CONSTANTS
  Clients,      \* those that copy
  Collections   \* what items belong to: the sessions

VARIABLES
  source,   \* source[k]: items of collection k that exist
  replica,  \* replica[k]: items of k that were copied
  known,    \* known[c][k]: items of k client c will not copy again
  saved     \* saved[k]: the same, in the notebook

vars == <<source, replica, known, saved>>

Nothing == [k \in Collections |-> {}]

\* Collection by collection, nothing goes away from F to G.
Grows(F, G) == \A k \in Collections : F[k] \subseteq G[k]

Init ==
  /\ source = Nothing /\ replica = Nothing
  /\ known = [c \in Clients |-> Nothing]
  /\ saved = Nothing

Produce ==
  /\ Grows(source, source')
  /\ UNCHANGED <<replica, known, saved>>

\* Items may be copied again, and nothing is copied that does not exist.
Copy ==
  /\ Grows(replica, replica') /\ Grows(replica', source)
  /\ UNCHANGED <<source, known, saved>>

\* Client c has seen more of the collections arrive in the replica.
Acknowledge(c) ==
  /\ known' = [known EXCEPT ![c] = known'[c]]
  /\ Grows(known[c], known'[c]) /\ Grows(known'[c], replica)
  /\ UNCHANGED <<source, replica, saved>>

Forget(c) ==
  /\ known' = [known EXCEPT ![c] = Nothing]
  /\ UNCHANGED <<source, replica, saved>>

Load(c) ==
  /\ known' = [known EXCEPT ![c] = saved]
  /\ UNCHANGED <<source, replica, saved>>

Save(c) ==
  /\ saved' = known[c]
  /\ UNCHANGED <<source, replica, known>>

Lose ==
  /\ saved' = Nothing
  /\ UNCHANGED <<source, replica, known>>

Next ==
  \/ Produce \/ Copy \/ Lose
  \/ \E c \in Clients : Acknowledge(c) \/ Forget(c) \/ Load(c) \/ Save(c)

Spec == Init /\ [][Next]_vars

-----------------------------------------------------------------------------
\* Whatever is remembered or written down is in the replica, which has nothing
\* the source has not.
Faithful ==
  /\ Grows(replica, source)
  /\ Grows(saved, replica)
  /\ \A c \in Clients : Grows(known[c], replica)

=============================================================================
