--------------------------- MODULE MCAuditWriter ----------------------------
(* Instances of AuditWriter for TLC. *)
EXTENDS AuditWriter, TLC

CONSTANTS a1, a2, s1, s2, k1, k2

OneAsync == {a1}
TwoAsync == {a1, a2}
OneSync == {s1}
TwoSync == {s1, s2}
OneCloser == {k1}
TwoClosers == {k1, k2}
MCIds == Calls

Symmetry == Permutations(AsyncCalls) \cup Permutations(SyncCalls) \cup Permutations(Closers)
=============================================================================
