----------------------------- MODULE MCScanJobs -----------------------------
(* Instances of ScanJobs for TLC: sets of model values and their symmetry.  *)
EXTENDS ScanJobs, TLC

CONSTANTS s1, s2, s3, s4, a1, a2, c1, w1, r1, r2

FourScans == {s1, s2, s3, s4}
TwoSessions == {a1, a2}
TwoRunners == {r1, r2}

SymQuota == Permutations(FourScans) \cup Permutations(TwoSessions)
=============================================================================
