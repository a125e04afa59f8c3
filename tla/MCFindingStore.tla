--------------------------- MODULE MCFindingStore ---------------------------
(* Instances of FindingStore.  Two of the web findings share a correlation  *)
(* key, as the same missing header on two addresses does.                   *)
EXTENDS FindingStore

CONSTANTS f1, f2, m1, k1, k2, s1, s2, s3, r1, u1, u2

ThreeScans == {s1, s2, s3}
Keys == [f \in Fingerprints |-> IF f = m1 THEN k2 ELSE k1]

Begun(w) == pc[w] # "idle"
OnlyFirst == \A w \in Writers : DOMAIN found[w] \subseteq {f1}
Low(fs) == \A w \in Writers : \A f \in DOMAIN found[w] \cap fs : found[w][f] = "low"
Unscheduled == last = NoScan
Unretested == \A i \in DOMAIN history[f1] : history[f1][i].type # "retest_started"
Unenriched == \A w \in Writers : pc[w] \notin {"enrich", "asking"}

\* Scans and reviewers are interchangeable: the first to begin has the first name
InOrder == /\ Begun(s2) => Begun(s1)
           /\ Begun(s3) => Begun(s2)
           /\ edits = 1 => review[u2] = Nothing

\* Two scans of two findings, one of which changes its severity, scheduled or retests
\* or by hand, nobody reviews
TwoFindings == edits = 0 /\ ~Begun(s3) /\ Low({f2})
\* Three scans by hand of one finding, with their LLM answers
ThreeByHand == edits = 0 /\ OnlyFirst /\ Unscheduled /\ Unretested
\* Two scans and retests of one finding of one severity, and two reviewers
Reviewed == ~Begun(s3) /\ OnlyFirst /\ Low({f1}) /\ Unscheduled /\ Unenriched

\* No step of Persist leaves a case: what has begun to persist is followed to its end
Cases == InOrder /\ (TwoFindings \/ ThreeByHand \/ Reviewed)
=============================================================================
