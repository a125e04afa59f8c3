-------------------------- MODULE MCScheduledScans --------------------------
(* Instances of ScheduledScans: schedules, scans and tick processes are     *)
(* interchangeable model values.                                            *)
EXTENDS ScheduledScans, TLC
CONSTANTS h1, h2, s1, s2, s3, t1, t2
Schedules2 == {h1, h2}
Scans3 == {s1, s2, s3}
Ticks2 == {t1, t2}
Symmetry == Permutations(Schedules2) \cup Permutations(Scans3) \cup Permutations(Ticks2)
=============================================================================
