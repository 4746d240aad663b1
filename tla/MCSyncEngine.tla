---------------------------- MODULE MCSyncEngine ----------------------------
(* Small instances of SyncEngine for TLC. *)
EXTENDS SyncEngine, TLC

CONSTANTS p1, p2, s1, s2, m1

TwoProcs == {p1, p2}
OneProc == {p1}
TwoSessions == {s1, s2}
OneSession == {s1}
OneMark == {m1}
NoSet == {}
OnlyS2 == {s2}

\* A watermark an older release left: it claims two messages of revision 1.
StaleWatermarks == {[hash |-> 1, last |-> 1]}

ProcSymmetry == Permutations(TwoProcs)
SessionSymmetry == Permutations(TwoSessions)

=============================================================================
