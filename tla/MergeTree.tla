----------------------------- MODULE MergeTree ------------------------------
(***************************************************************************)
(* A ReplacingMergeTree(_version) table of ClickHouse, which all tables of *)
(* the store are (internal/store/schema.sql), and the queries on it with   *)
(* FINAL.                                                                  *)
(*                                                                         *)
(* A table is a set of rows.  A row has the key of the table's ORDER BY,   *)
(* the version its writer gave it, the number of the insert that brought   *)
(* it, and its other columns.  Of the rows with one key a query with FINAL *)
(* sees the one with the largest version, and of equal versions the one    *)
(* inserted last.                                                          *)
(***************************************************************************)
EXTENDS Naturals

Supersedes(q, r) ==
  /\ q.key = r.key
  /\ q.version > r.version \/ (q.version = r.version /\ q.insert > r.insert)

\* The rows a query with FINAL sees.
Final(rows) == {r \in rows : \A q \in rows : ~Supersedes(q, r)}

\* What is left of a table after a merge of some of its parts: rows may go
\* that are superseded by one that stays.
IsMerge(rows, left) ==
  /\ left \subseteq rows
  /\ \A r \in rows \ left : \E q \in left : Supersedes(q, r)

=============================================================================
