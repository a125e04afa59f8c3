---------------------------- MODULE ScannerSuite ----------------------------
(***************************************************************************)
(* One call of run_scan_for_profile: the scanners of the profile run as    *)
(* asyncio tasks under an overall deadline, each writes its telemetry when *)
(* it ends, tasks the deadline cuts off are recorded and cancelled, and    *)
(* the report of the run is computed from the telemetry.                   *)
(*                                                                         *)
(* The event loop is single threaded: an action is the code between two    *)
(* awaits.  A finding is abstracted to its existence, a scanner's result   *)
(* to the number of its findings.  Two kinds of scanner have their work    *)
(* done outside of the loop: nuclei by a process of its own, ZAP by the    *)
(* spider of a daemon; that work goes on when its scanner does not.        *)
(***************************************************************************)
EXTENDS Integers, Sequences, SequencesExt, FiniteSetsExt

CONSTANTS
    Scanners,    \* the scanners the profile plans
    Processes,   \* those that run a process: nuclei
    ZapScanners, \* those that use the ZAP daemon; the safe profile starts no spider
    MaxFindings  \* bound: findings one scanner returns

ASSUME ScannersAssumption == IsFiniteSet(Scanners)
ASSUME ToolsAssumption == Processes \subseteq Scanners /\ ZapScanners \subseteq Scanners \ Processes
ASSUME MaxFindingsAssumption == MaxFindings \in Nat

VARIABLES
    phase,    \* where run_scan_for_profile is
    task,     \* a scanner's task: running, cancelling or how it ended
    tool,     \* the process or spider of a scanner
    batch,    \* number of findings in the result of a task that returned
    stats,    \* a scanner's ScannerRunStats, in the order of recording
    returned, \* findings of the scanner in the list the run returns
    report    \* the scanner_runs entry of the scanner

vars == << phase, task, tool, batch, stats, returned, report >>

Phase == {"starting", "waiting", "gathering", "collected", "done"}
\* Ends a task comes to by itself.  "quit": nothing was scanned and nothing
\* recorded about it (ZAP disabled or unreachable)
OwnEnd == {"found", "quit", "ownTimeout", "failed"}
Live == {"running", "cancelling"}
Task == Live \cup OwnEnd \cup {"cut"}
\* "left": the spider works on though its scanner no longer waits for it
Tool == {"none", "working", "left", "ended"}
ScannerStatus == {"timeout", "failed", "completed", "not_run"}

Record(timeouts, errors, n) == [timeout |-> timeouts, error |-> errors, found |-> n]
Records == [timeout : 0..1, error : 0..1, found : 0..MaxFindings]
NoReport == [status |-> "not_run", found |-> 0]

TypeOK ==
    /\ phase \in Phase
    /\ task \in [Scanners -> Task]
    /\ tool \in [Scanners -> Tool]
    /\ batch \in [Scanners -> 0..MaxFindings]
    /\ stats \in [Scanners -> Seq(Records)]
    /\ returned \in [Scanners -> 0..MaxFindings]
    /\ report \in [Scanners -> [status : ScannerStatus, found : 0..MaxFindings]]

Init ==
    /\ phase = "starting"
    /\ task = [x \in Scanners |-> "running"]
    /\ tool = [x \in Scanners |-> "none"]
    /\ batch = [x \in Scanners |-> 0]
    /\ stats = [x \in Scanners |-> << >>]
    /\ returned = [x \in Scanners |-> 0]
    /\ report = [x \in Scanners |-> NoReport]

-----------------------------------------------------------------------------
\* reset_scanner_stats, create_task for every scanner, then asyncio.wait
Start ==
    /\ phase = "starting"
    /\ phase' = IF Scanners = {} THEN "collected" ELSE "waiting"
    /\ UNCHANGED << task, tool, batch, stats, returned, report >>

\* What the finally block of _run_named_scanner records, from the exception
\* that left the scanner or from what the scanner left in _pending_enrich
RecordRaisedOnly(end, n) == Record(0, 0, n)
RecordOf(end, n) == Record(IF end = "ownTimeout" THEN 1 ELSE 0,
                           IF end = "failed" THEN 1 ELSE 0, n)

Scanning(x) == phase = "waiting" /\ task[x] = "running"

\* run_nuclei_scan has found the binary and starts it on the target
StartProcess(x) ==
    /\ x \in Processes
    /\ Scanning(x) /\ tool[x] = "none"
    /\ tool' = [tool EXCEPT ![x] = "working"]
    /\ UNCHANGED << phase, task, batch, stats, returned, report >>

\* ZAP answers, has a new session and has been told to spider the target
StartSpider(x) ==
    /\ x \in ZapScanners
    /\ Scanning(x) /\ tool[x] = "none"
    /\ tool' = [tool EXCEPT ![x] = "working"]
    /\ UNCHANGED << phase, task, batch, stats, returned, report >>

\* _wait_spider returns early: no progress in five rounds, or its own deadline
\* has passed.  The spider is not told to stop
LeaveSpider(x) ==
    /\ x \in ZapScanners
    /\ Scanning(x) /\ tool[x] = "working"
    /\ tool' = [tool EXCEPT ![x] = "left"]
    /\ UNCHANGED << phase, task, batch, stats, returned, report >>

\* The process exits or the spider is through, watched by a scanner or not
ToolEnds(x) ==
    /\ tool[x] \in {"working", "left"}
    /\ tool' = [tool EXCEPT ![x] = "ended"]
    /\ UNCHANGED << phase, task, batch, stats, returned, report >>

\* run_nuclei_scan: findings are read from the output of a process that has
\* exited, its timeout is one on the process.  A missing binary is an error
NucleiMay(x, end) ==
    /\ end \in {"found", "ownTimeout", "failed"}
    /\ end = "found" => tool[x] = "ended"
    /\ end = "ownTimeout" => tool[x] # "none"

\* The ZAP scanners: alerts are fetched only when nobody waits for a spider any
\* more; a timeout or an error is caught wherever it comes; a ZAP that is
\* disabled or out of reach is left alone
ZapMay(x, end) ==
    /\ end = "found" => tool[x] # "working"
    /\ end = "quit" => tool[x] = "none"

\* The scanners in the loop
LoopMay(end) == end # "quit"

May(x, end) == IF x \in Processes THEN NucleiMay(x, end)
               ELSE IF x \in ZapScanners THEN ZapMay(x, end) ELSE LoopMay(end)

\* A process that has not exited is killed before run_nuclei_scan returns
ToolAfter(x) == IF x \in Processes /\ tool[x] = "working" THEN "ended" ELSE tool[x]

\* A scanner returns its findings, gives up or raises before the deadline
Finish(x) ==
    /\ Scanning(x)
    /\ \E end \in {e \in OwnEnd : May(x, e)} : \E n \in 0..MaxFindings :
          /\ end # "found" => n = 0
          /\ task' = [task EXCEPT ![x] = end]
          /\ tool' = [tool EXCEPT ![x] = ToolAfter(x)]
          /\ batch' = [batch EXCEPT ![x] = n]
          /\ stats' = [stats EXCEPT ![x] = Append(@, RecordOf(end, n))]
    /\ UNCHANGED << phase, returned, report >>

Pending == {x \in Scanners : task[x] \in Live}

\* asyncio.wait returns because every task is done
AllDone ==
    /\ phase = "waiting"
    /\ Pending = {}
    /\ phase' = "gathering"
    /\ UNCHANGED << task, tool, batch, stats, returned, report >>

\* asyncio.wait returns because its timeout has passed: every task not done
\* gets a record with a timeout and a request to cancel
DeadlineForgetsCancel ==
    /\ phase = "waiting"
    /\ Pending # {}
    /\ phase' = "gathering"
    /\ stats' = [x \in Scanners |-> IF x \in Pending THEN Append(stats[x], Record(1, 0, 0))
                                                     ELSE stats[x]]
    /\ UNCHANGED << task, tool, batch, returned, report >>
Deadline ==
    /\ phase = "waiting"
    /\ Pending # {}
    /\ phase' = "gathering"
    /\ task' = [x \in Scanners |-> IF x \in Pending THEN "cancelling" ELSE task[x]]
    /\ stats' = [x \in Scanners |-> IF x \in Pending THEN Append(stats[x], Record(1, 0, 0))
                                                     ELSE stats[x]]
    /\ UNCHANGED << tool, batch, returned, report >>

\* CancelledError reaches the task: re-raised, but the finally block records
\* the scanner once more, with no timeout, no error and no finding
Cut(x) ==
    /\ phase \in {"gathering", "collected", "done"}
    /\ task[x] = "cancelling"
    /\ task' = [task EXCEPT ![x] = "cut"]
    /\ stats' = [stats EXCEPT ![x] = Append(@, Record(0, 0, 0))]
    /\ UNCHANGED << phase, tool, batch, returned, report >>

\* asyncio.gather over the cancelled tasks has returned, the results of the
\* tasks that were done are concatenated
CollectWithoutGather ==
    /\ phase = "gathering"
    /\ phase' = "collected"
    /\ returned' = [x \in Scanners |-> IF task[x] \in OwnEnd THEN batch[x] ELSE 0]
    /\ UNCHANGED << task, tool, batch, stats, report >>
CollectAllOrNothing ==
    /\ phase = "gathering"
    /\ Pending = {}
    /\ phase' = "collected"
    /\ returned' = [x \in Scanners |-> IF \A y \in Scanners : task[y] \in OwnEnd
                                       THEN batch[x] ELSE 0]
    /\ UNCHANGED << task, tool, batch, stats, report >>
Collect ==
    /\ phase = "gathering"
    /\ Pending = {}
    /\ phase' = "collected"
    /\ returned' = [x \in Scanners |-> IF task[x] \in OwnEnd THEN batch[x] ELSE 0]
    /\ UNCHANGED << task, tool, batch, stats, report >>

\* scanner_stats_as_metrics: of the records of a scanner, the last one
Metrics(x) == Last(stats[x])

RunStatus(x) == CASE stats[x] = << >> -> "not_run"
                  [] Metrics(x).timeout > 0 -> "timeout"
                  [] Metrics(x).timeout = 0 /\ Metrics(x).error > 0 -> "failed"
                  [] OTHER -> "completed"

\* The loop over the planned scanners that builds scanner_runs
Report ==
    /\ phase = "collected"
    /\ phase' = "done"
    /\ report' = [x \in Scanners |->
                    [status |-> RunStatus(x),
                     found |-> IF stats[x] = << >> THEN 0 ELSE Metrics(x).found]]
    /\ UNCHANGED << task, tool, batch, stats, returned >>

\* The counts run_scan_job stores in executed_telemetry
ChecksCompleted == Quantify(Scanners, LAMBDA x : report[x].status = "completed")
ChecksFailed == Quantify(Scanners, LAMBDA x : report[x].status \in {"failed", "timeout"})

Next == \/ Start \/ AllDone \/ Deadline \/ Collect \/ Report
        \/ \E x \in Scanners : Finish(x) \/ Cut(x) \/ ToolEnds(x)
        \/ \E x \in Processes : StartProcess(x)
        \/ \E x \in ZapScanners : StartSpider(x) \/ LeaveSpider(x)

Spec == Init /\ [][Next]_vars

\* The loop runs what is ready, its timer fires and a cancelled task is
\* resumed; nothing makes a scanner end by itself
FairSpec == /\ Spec
            /\ WF_vars(Start) /\ WF_vars(AllDone) /\ WF_vars(Deadline)
            /\ WF_vars(Collect) /\ WF_vars(Report)
            /\ \A x \in Scanners : WF_vars(Cut(x))

-----------------------------------------------------------------------------
\* "hard overall timeout": the run ends though no scanner ever does
HardTimeout == <>(phase = "done")

\* Partial results: the list returned holds the findings of every scanner that
\* returned before the deadline, whatever became of the others, and the report
\* counts for each scanner what the list holds of it
FindingsAccounted ==
    phase = "done" => \A x \in Scanners :
        /\ task[x] = "found" => returned[x] = batch[x]
        /\ report[x].found = returned[x]

\* No process outlives the scanner that runs it, except one whose scanner the
\* deadline has cut off: a cancelled run_nuclei_scan leaves it to itself
ProcessesWatched ==
    \A x \in Processes : tool[x] = "working" => task[x] \in Live \cup {"cut"}

\* No scanner outlives the call: once its results are collected nobody records
\* telemetry behind the report's back; nor does a scanner that has ended leave
\* a process at work on the target.
NobodyLeftBehind ==
    /\ phase \in {"collected", "done"} => Pending = {}
    /\ ProcessesWatched

\* A scanner that ended by itself is reported as it ended, and the totals
\* stored with the scan count every planned scanner once
OwnEndReported ==
    phase = "done" =>
        /\ \A x \in Scanners :
              /\ task[x] = "ownTimeout" => report[x].status = "timeout"
              /\ task[x] = "failed" => report[x].status = "failed"
              /\ task[x] \in {"found", "quit"} => report[x].status = "completed"
        /\ ChecksCompleted + ChecksFailed = Cardinality(Scanners)

=============================================================================
