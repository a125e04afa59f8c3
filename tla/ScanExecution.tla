--------------------------- MODULE ScanExecution ---------------------------
(***************************************************************************)
(* What a scan request is promised whatever its row's status goes through: *)
(* it is executed at most once, ends published or abandoned, and an        *)
(* abandoned or published scan is never taken up again.                    *)
(***************************************************************************)
CONSTANT Scans

VARIABLE execution

TypeOK == execution \in
    [Scans -> {"none", "requested", "executing", "published", "abandoned"}]

Init == execution = [s \in Scans |-> "none"]

Step(s, from, to) == /\ execution[s] = from
                     /\ execution' = [execution EXCEPT ![s] = to]

Request(s) == Step(s, "none", "requested")
Execute(s) == Step(s, "requested", "executing")
Publish(s) == Step(s, "executing", "published")
Abandon(s) == Step(s, "executing", "abandoned")

Next == \E s \in Scans : Request(s) \/ Execute(s) \/ Publish(s) \/ Abandon(s)

Spec == Init /\ [][Next]_execution
=============================================================================
