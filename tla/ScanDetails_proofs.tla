------------------------ MODULE ScanDetails_proofs -------------------------
(***************************************************************************)
(* Proofs about the two modules that give the details of what ScanJobs     *)
(* takes for granted of a scan: ScannerSuite, what the scanners of a       *)
(* profile do, for every finite set of scanners and every number of        *)
(* findings; and Domains, when the host it is about may be scanned, for    *)
(* any sessions, duties and number of tokens.  They share no state.        *)
(***************************************************************************)
EXTENDS ScannerSuite, Domains, FiniteSetTheorems, WellFoundedInduction, TLAPS

-----------------------------------------------------------------------------
(* The scanners of a scan                                                  *)

\* An Append is never empty and ends in what was appended.
LEMMA AppendLast ==
    ASSUME NEW s \in Seq(Records), NEW e \in Records
    PROVE  Append(s, e) \in Seq(Records) /\ Append(s, e) # << >> /\ Last(Append(s, e)) = e
BY DEF Last

\* What a scanner records is a record.
LEMMA RecordTypes ==
    /\ \A end \in OwnEnd, n \in 0..MaxFindings : RecordOf(end, n) \in Records
    /\ Record(1, 0, 0) \in Records /\ Record(0, 0, 0) \in Records
BY MaxFindingsAssumption DEF RecordOf, Record, Records

\* The steps that are about the process or spider of a scanner alone.
ToolStep == \/ \E x \in Scanners : ToolEnds(x)
            \/ \E x \in Processes : StartProcess(x)
            \/ \E x \in ZapScanners : StartSpider(x) \/ LeaveSpider(x)

\* They leave everything else as it is, and start a process only for a
\* scanner that runs.
LEMMA ToolStepType ==
    ASSUME tool \in [Scanners -> Tool], ToolStep
    PROVE  /\ tool' \in [Scanners -> Tool]
           /\ UNCHANGED << phase, task, batch, stats, returned, report >>
           /\ \A x \in Processes : tool'[x] = "working" => tool[x] = "working" \/ task[x] = "running"
<1> USE ToolsAssumption DEF Tool
<1>1. ASSUME NEW x \in Scanners, ToolEnds(x) PROVE tool' = [tool EXCEPT ![x] = "ended"]
  BY <1>1 DEF ToolEnds
<1>2. ASSUME NEW x \in Processes, StartProcess(x)
      PROVE  tool' = [tool EXCEPT ![x] = "working"] /\ task[x] = "running"
  BY <1>2 DEF StartProcess, Scanning
<1>3. ASSUME NEW x \in ZapScanners, StartSpider(x) \/ LeaveSpider(x)
      PROVE  \E t \in Tool : tool' = [tool EXCEPT ![x] = t]
  BY <1>3 DEF StartSpider, LeaveSpider
<1>4. UNCHANGED << phase, task, batch, stats, returned, report >>
  BY DEF ToolStep, ToolEnds, StartProcess, StartSpider, LeaveSpider
<1>5. CASE \E x \in Scanners : ToolEnds(x)
  BY <1>1, <1>4, <1>5
<1>6. CASE \E x \in Processes : StartProcess(x)
  BY <1>2, <1>4, <1>6
<1>7. CASE \E x \in ZapScanners : StartSpider(x) \/ LeaveSpider(x)
  BY <1>3, <1>4, <1>7
<1>8. QED
  BY <1>5, <1>6, <1>7 DEF ToolStep

-----------------------------------------------------------------------------
(* The type invariant                                                       *)

\* A run of the scanners is type correct.
THEOREM TypeCorrect == Spec => []TypeOK
<1> USE MaxFindingsAssumption
<1>1. Init => TypeOK
  BY DEF Init, TypeOK, Phase, Task, Tool, Live, NoReport, ScannerStatus
<1>2. TypeOK /\ [Next]_vars => TypeOK'
  <2> SUFFICES ASSUME TypeOK, [Next]_vars PROVE TypeOK'
    OBVIOUS
  <2>1. CASE Start
    BY <2>1 DEF Start, TypeOK, Phase
  <2>2. CASE AllDone
    BY <2>2 DEF AllDone, TypeOK, Phase
  <2>3. CASE Deadline
    <3>1. stats' \in [Scanners -> Seq(Records)]
      BY <2>3, AppendLast, RecordTypes DEF Deadline, TypeOK
    <3>2. QED
      BY <2>3, <3>1 DEF Deadline, TypeOK, Phase, Task, Live
  <2>4. CASE Collect
    BY <2>4 DEF Collect, TypeOK, Phase
  <2>5. CASE Report
    <3>1. \A x \in Scanners : RunStatus(x) \in ScannerStatus
      BY DEF RunStatus, ScannerStatus
    <3>2. \A x \in Scanners : stats[x] # << >> => Metrics(x) \in Records
      <4> SUFFICES ASSUME NEW x \in Scanners, stats[x] # << >> PROVE Metrics(x) \in Records
        OBVIOUS
      <4>1. stats[x] \in Seq(Records) /\ Len(stats[x]) \in 1..Len(stats[x])
        BY DEF TypeOK
      <4>2. QED
        BY <4>1 DEF Metrics, Last
    <3>3. \A x \in Scanners : stats[x] # << >> => Metrics(x).found \in 0..MaxFindings
      BY <3>2 DEF Records
    <3>4. report' \in [Scanners -> [status : ScannerStatus, found : 0..MaxFindings]]
      BY <2>5, <3>1, <3>3 DEF Report
    <3>5. QED
      BY <2>5, <3>4 DEF Report, TypeOK, Phase
  <2>6. ASSUME NEW x \in Scanners, Finish(x) PROVE TypeOK'
    <3>1. PICK end \in OwnEnd, n \in 0..MaxFindings :
             /\ task' = [task EXCEPT ![x] = end]
             /\ batch' = [batch EXCEPT ![x] = n]
             /\ stats' = [stats EXCEPT ![x] = Append(@, RecordOf(end, n))]
      BY <2>6 DEF Finish
    <3>2. stats' \in [Scanners -> Seq(Records)]
      BY <3>1, AppendLast, RecordTypes DEF TypeOK
    <3>3. tool' \in [Scanners -> Tool]
      BY <2>6 DEF Finish, ToolAfter, TypeOK, Tool
    <3>4. QED
      BY <2>6, <3>1, <3>2, <3>3 DEF Finish, TypeOK, Task
  <2>7. ASSUME NEW x \in Scanners, Cut(x) PROVE TypeOK'
    <3>1. stats' \in [Scanners -> Seq(Records)]
      BY <2>7, AppendLast, RecordTypes DEF Cut, TypeOK
    <3>2. QED
      BY <2>7, <3>1 DEF Cut, TypeOK, Task
  <2>8. CASE ToolStep
    BY <2>8, ToolStepType DEF TypeOK
  <2>9. CASE UNCHANGED vars
    BY <2>9 DEF vars, TypeOK
  <2>10. QED
    BY <2>1, <2>2, <2>3, <2>4, <2>5, <2>6, <2>7, <2>8, <2>9 DEF Next, ToolStep
<1>3. QED
  BY <1>1, <1>2, PTL DEF Spec

-----------------------------------------------------------------------------
(* The inductive invariant                                                  *)

\* The last record of a scanner tells how it ended: what a returning scanner
\* recorded, or the empty record of a task that was cut off.
LastRecords ==
    /\ \A x \in Scanners : task[x] \in OwnEnd =>
          stats[x] # << >> /\ Last(stats[x]) = RecordOf(task[x], batch[x])
    /\ \A x \in Scanners : task[x] = "cut" =>
          stats[x] # << >> /\ Last(stats[x]) = Record(0, 0, 0)

\* Who has found nothing has an empty batch.
Batches == \A x \in Scanners : task[x] # "found" => batch[x] = 0

\* What the steps after the parallel part hold on to.
Results ==
    /\ phase \in {"collected", "done"} => \A x \in Scanners : returned[x] = batch[x]
    /\ phase = "done" => \A x \in Scanners :
          /\ report[x].status = RunStatus(x)
          /\ report[x].found = Metrics(x).found

IInv == TypeOK /\ LastRecords /\ Batches /\ NobodyLeftBehind /\ Results

\* A scanner that is not pending has a record.
LEMMA EndedRecorded ==
    ASSUME TypeOK, LastRecords, Pending = {}, NEW x \in Scanners
    PROVE  task[x] \in OwnEnd \cup {"cut"} /\ stats[x] # << >>
BY DEF TypeOK, Task, LastRecords, Pending

\* A process is started by a scanner that runs, and killed by one that ends
\* while it works; cancelling a scanner touches neither.
LEMMA WatchedStep ==
    ASSUME TypeOK, ProcessesWatched, [Next]_vars
    PROVE  ProcessesWatched'
<1> USE ToolsAssumption
<1>1. SUFFICES ASSUME NEW p \in Processes, tool'[p] = "working" PROVE task'[p] \in Live \cup {"cut"}
  BY DEF ProcessesWatched
<1>2. CASE ToolStep
  <2>1. task' = task /\ (tool[p] = "working" \/ task[p] = "running")
    BY <1>1, <1>2, ToolStepType DEF TypeOK
  <2>2. QED
    BY <2>1 DEF ProcessesWatched, Live
<1>3. ASSUME NEW x \in Scanners, Finish(x) PROVE task'[p] \in Live \cup {"cut"}
  <2>1. CASE x = p
    BY <1>1, <1>3, <2>1 DEF Finish, ToolAfter, TypeOK
  <2>2. CASE x # p
    BY <1>1, <1>3, <2>2 DEF Finish, TypeOK, ProcessesWatched
  <2>3. QED
    BY <2>1, <2>2
<1>4. CASE Deadline
  BY <1>1, <1>4 DEF Deadline, TypeOK, ProcessesWatched, Live
<1>5. ASSUME NEW x \in Scanners, Cut(x) PROVE task'[p] \in Live \cup {"cut"}
  BY <1>1, <1>5 DEF Cut, TypeOK, ProcessesWatched
<1>6. CASE Start \/ AllDone \/ Collect \/ Report \/ UNCHANGED vars
  BY <1>1, <1>6 DEF Start, AllDone, Collect, Report, vars, ProcessesWatched
<1>7. QED
  BY <1>2, <1>3, <1>4, <1>5, <1>6 DEF Next, ToolStep

\* The invariant holds of every state of a run.
THEOREM Invariance == Spec => []IInv
<1> USE DEF IInv
<1>1. Init => IInv
  <2> SUFFICES ASSUME Init PROVE IInv
    OBVIOUS
  <2>1. TypeOK
    BY MaxFindingsAssumption DEF Init, TypeOK, Phase, Task, Tool, Live, NoReport, ScannerStatus
  <2>2. QED
    BY <2>1, ToolsAssumption DEF Init, LastRecords, OwnEnd, Batches, NobodyLeftBehind, ProcessesWatched,
        Results
<1>2. IInv /\ TypeOK' /\ [Next]_vars => IInv'
  <2> SUFFICES ASSUME IInv, TypeOK', [Next]_vars PROVE IInv'
    OBVIOUS
  <2>0. ProcessesWatched'
    BY WatchedStep DEF NobodyLeftBehind
  <2>1. CASE Start
    BY <2>0, <2>1 DEF Start, LastRecords, Batches, NobodyLeftBehind, Results, Pending
  <2>2. CASE AllDone
    BY <2>0, <2>2 DEF AllDone, LastRecords, Batches, NobodyLeftBehind, Results
  <2>3. CASE Deadline
    <3>1. \A x \in Scanners : task'[x] \in OwnEnd \cup {"cut", "found"}
             => task'[x] = task[x] /\ stats'[x] = stats[x]
      BY <2>3 DEF Deadline, TypeOK, Pending, OwnEnd, Live
    <3>2. LastRecords'
      BY <2>3, <3>1 DEF Deadline, LastRecords, RecordOf
    <3>3. Batches'
      BY <2>3 DEF Deadline, Batches, Pending, TypeOK, Live
    <3>4. QED
      BY <2>0, <2>3, <3>2, <3>3 DEF Deadline, NobodyLeftBehind, Results
  <2>4. CASE Collect
    <3>1. \A x \in Scanners : returned'[x] = batch'[x]
      BY <2>4 DEF Collect, Batches, OwnEnd
    <3>2. QED
      BY <2>0, <2>4, <3>1 DEF Collect, LastRecords, Batches, NobodyLeftBehind, Results, Pending
  <2>5. CASE Report
    <3>1. Pending = {}
      BY <2>5 DEF Report, NobodyLeftBehind
    <3>2. \A x \in Scanners : stats[x] # << >>
      BY <3>1, EndedRecorded
    <3>3. \A x \in Scanners : /\ report'[x].status = RunStatus(x)
                              /\ report'[x].found = Metrics(x).found
      BY <2>5, <3>2 DEF Report
    <3>4. stats' = stats /\ task' = task /\ batch' = batch /\ returned' = returned
      BY <2>5 DEF Report
    <3>5. Results'
      BY <2>5, <3>3, <3>4 DEF Report, Results, RunStatus, Metrics
    <3>6. QED
      BY <2>0, <2>5, <3>1, <3>4, <3>5 DEF LastRecords, Batches, NobodyLeftBehind, Pending
  <2>6. ASSUME NEW x \in Scanners, Finish(x) PROVE IInv'
    <3>1. PICK end \in OwnEnd, n \in 0..MaxFindings :
             /\ end # "found" => n = 0
             /\ task' = [task EXCEPT ![x] = end]
             /\ batch' = [batch EXCEPT ![x] = n]
             /\ stats' = [stats EXCEPT ![x] = Append(@, RecordOf(end, n))]
      BY <2>6 DEF Finish
    <3>2. stats'[x] # << >> /\ Last(stats'[x]) = RecordOf(end, n)
      BY <3>1, AppendLast, RecordTypes DEF TypeOK
    <3>3. task'[x] = end /\ batch'[x] = n /\ end # "cut"
      BY <3>1 DEF TypeOK, OwnEnd
    <3>4. \A y \in Scanners \ {x} : task'[y] = task[y] /\ batch'[y] = batch[y] /\ stats'[y] = stats[y]
      BY <3>1 DEF TypeOK
    <3>5. LastRecords'
      BY <3>2, <3>3, <3>4 DEF LastRecords, RecordOf
    <3>6. Batches'
      BY <3>1, <3>3, <3>4 DEF Batches
    <3>7. QED
      BY <2>0, <2>6, <3>5, <3>6 DEF Finish, Scanning, NobodyLeftBehind, Results
  <2>7. ASSUME NEW x \in Scanners, Cut(x) PROVE IInv'
    <3>1. phase = "gathering"
      BY <2>7 DEF Cut, NobodyLeftBehind, Pending, Live
    <3>2. stats'[x] # << >> /\ Last(stats'[x]) = Record(0, 0, 0)
      BY <2>7, AppendLast, RecordTypes DEF Cut, TypeOK
    <3>3. \A y \in Scanners \ {x} : task'[y] = task[y] /\ stats'[y] = stats[y]
      BY <2>7 DEF Cut, TypeOK
    <3>4. task'[x] = "cut" /\ "cut" \notin OwnEnd /\ batch' = batch /\ phase' = phase
          /\ task[x] # "found"
      BY <2>7 DEF Cut, TypeOK, OwnEnd
    <3>5. LastRecords'
      BY <3>2, <3>3, <3>4 DEF LastRecords, RecordOf
    <3>6. Batches'
      BY <3>3, <3>4 DEF Batches
    <3>7. QED
      BY <2>0, <3>1, <3>4, <3>5, <3>6 DEF NobodyLeftBehind, Results
  <2>8. CASE ToolStep \/ UNCHANGED vars
    <3>1. UNCHANGED << phase, task, batch, stats, returned, report >>
      BY <2>8, ToolStepType DEF vars, TypeOK
    <3>2. QED
      BY <2>0, <3>1 DEF LastRecords, Batches, NobodyLeftBehind, Results, Pending, RunStatus, Metrics
  <2>9. QED
    BY <2>1, <2>2, <2>3, <2>4, <2>5, <2>6, <2>7, <2>8 DEF Next, ToolStep
<1>3. QED
  BY <1>1, <1>2, TypeCorrect, PTL DEF Spec

-----------------------------------------------------------------------------
(* The safety properties                                                    *)

\* No scanner's task outlives the collection of the results, and no process a
\* scanner that has ended by itself.
THEOREM NobodyIsLeft == Spec => []NobodyLeftBehind
<1>1. IInv => NobodyLeftBehind
  BY DEF IInv
<1>2. QED
  BY <1>1, Invariance, PTL

\* The findings of every scanner that returned are in the list the run returns,
\* and are the number the report has for it.
THEOREM AllFindingsAccounted == Spec => []FindingsAccounted
<1>1. IInv => FindingsAccounted
  <2> SUFFICES ASSUME IInv, phase = "done", NEW x \in Scanners
               PROVE  returned[x] = batch[x] /\ report[x].found = returned[x]
    BY DEF FindingsAccounted
  <2>1. returned[x] = batch[x] /\ report[x].found = Metrics(x).found
    BY DEF IInv, Results
  <2>2. task[x] \in OwnEnd \cup {"cut"}
    BY EndedRecorded DEF IInv, NobodyLeftBehind
  <2>3. CASE task[x] \in OwnEnd
    <3>1. Last(stats[x]) = RecordOf(task[x], batch[x])
      BY <2>3 DEF IInv, LastRecords
    <3>2. QED
      BY <2>1, <3>1 DEF Metrics, RecordOf, Record
  <2>4. CASE task[x] = "cut"
    <3>1. Last(stats[x]) = Record(0, 0, 0) /\ batch[x] = 0
      BY <2>4 DEF IInv, LastRecords, Batches
    <3>2. QED
      BY <2>1, <3>1 DEF Metrics, Record
  <2>5. QED
    BY <2>1, <2>2, <2>3, <2>4
<1>2. QED
  BY <1>1, Invariance, PTL

\* A scanner that ended by itself is reported as it ended, and the two totals
\* count every scanner once.
THEOREM OwnEndsReported == Spec => []OwnEndReported
<1>1. IInv => OwnEndReported
  <2> SUFFICES ASSUME IInv, phase = "done" PROVE OwnEndReported
    BY DEF OwnEndReported
  <2>1. \A x \in Scanners : report[x].status = RunStatus(x) /\ stats[x] # << >>
    BY EndedRecorded DEF IInv, Results, NobodyLeftBehind
  <2>2. \A x \in Scanners : task[x] \in OwnEnd => Metrics(x) = RecordOf(task[x], batch[x])
    BY DEF IInv, LastRecords, Metrics
  <2>3. \A x \in Scanners : task[x] = "cut" => Metrics(x) = Record(0, 0, 0)
    BY DEF IInv, LastRecords, Metrics
  <2>4. \A x \in Scanners : task[x] \in OwnEnd \cup {"cut"}
    BY EndedRecorded DEF IInv, NobodyLeftBehind
  <2>5. ASSUME NEW x \in Scanners
        PROVE  /\ task[x] = "ownTimeout" => report[x].status = "timeout"
               /\ task[x] = "failed" => report[x].status = "failed"
               /\ task[x] \in {"found", "quit", "cut"} => report[x].status = "completed"
    <3>1. CASE task[x] = "ownTimeout"
      <4>1. Metrics(x) = Record(1, 0, batch[x])
        BY <2>2, <3>1 DEF OwnEnd, RecordOf
      <4>2. QED
        BY <2>1, <3>1, <4>1 DEF RunStatus, Record
    <3>2. CASE task[x] = "failed"
      <4>1. Metrics(x) = Record(0, 1, batch[x])
        BY <2>2, <3>2 DEF OwnEnd, RecordOf
      <4>2. QED
        BY <2>1, <3>2, <4>1 DEF RunStatus, Record
    <3>3. CASE task[x] \in {"found", "quit", "cut"}
      <4>1. \E n : Metrics(x) = Record(0, 0, n)
        BY <2>2, <2>3, <3>3 DEF OwnEnd, RecordOf
      <4>2. Metrics(x).timeout = 0 /\ Metrics(x).error = 0
        BY <4>1 DEF Record
      <4>3. QED
        BY <2>1, <3>3, <4>2 DEF RunStatus
    <3>4. QED
      BY <3>1, <3>2, <3>3
  <2> DEFINE good == {x \in Scanners : report[x].status = "completed"}
             bad == {x \in Scanners : report[x].status \in {"failed", "timeout"}}
  <2>6. good \cup bad = Scanners /\ good \cap bad = {}
    BY <2>4, <2>5 DEF OwnEnd
  <2>7. IsFiniteSet(good) /\ IsFiniteSet(bad)
    <3>1. good \subseteq Scanners /\ bad \subseteq Scanners
      OBVIOUS
    <3>2. QED
      BY <3>1, ScannersAssumption, FS_Subset
  <2>8. Cardinality(good) + Cardinality(bad) = Cardinality(Scanners)
    <3>1. Cardinality(good \cup bad)
             = Cardinality(good) + Cardinality(bad) - Cardinality(good \cap bad)
      BY <2>7, FS_Union
    <3>2. Cardinality(good \cap bad) = 0
      BY <2>6, FS_EmptySet
    <3>3. Cardinality(good) \in Nat /\ Cardinality(bad) \in Nat
      BY <2>7, FS_CardinalityType
    <3>4. QED
      BY <2>6, <3>1, <3>2, <3>3
  <2>9. ChecksCompleted = Cardinality(good) /\ ChecksFailed = Cardinality(bad)
    BY DEF ChecksCompleted, ChecksFailed, Quantify
  <2>10. QED
    BY <2>5, <2>8, <2>9 DEF OwnEndReported
<1>2. QED
  BY <1>1, Invariance, PTL

-----------------------------------------------------------------------------
(* The host of a scan                                                      *)

\* The tokens are behind the row, and a row once verified keeps a method.
HostPresent ==
    /\ TokensBehindRow
    /\ ~row.here => row.method = "none"
    /\ row.verified => row.method # "none"

\* What a request has in hand: the token it needs; a verification of a host that was not
\* revoked when it was loaded; where the loaded row had a method, the row still has one.
InHand == \A s \in Sessions :
    /\ doing[s] \in {"add", "show"} \/ (doing[s] = "verify" /\ ~relaxed) => tok[s] \in Tokens
    /\ doing[s] = "verify" => ~snap[s].revoked
    /\ snap[s].method # "none" \/ doing[s] = "approve" => row.method # "none"

\* Time passes between requests: those under way on an expired row have loaded it as it is,
\* with a token nobody has used.
OnExpired == row.aged => \A s \in Sessions :
    /\ doing[s] \in {"verify", "platform", "confirm"} => snap[s].aged /\ snap[s].method = row.method
    /\ doing[s] = "verify" /\ tok[s] \in Tokens => token[tok[s]] # "spent"

HostInv == HostTypeOK /\ HostPresent /\ InHand /\ OnExpired

-----------------------------------------------------------------------------
\* A non-empty set of tokens has a newest and a first one.
LEMMA FirstToken ==
    ASSUME NEW S \in SUBSET Tokens, S # {}
    PROVE  Min(S) \in S
<1>1. S \subseteq Nat
  BY DomainAssumption DEF Tokens
<1>2. PICK x \in S : \A y \in S : ~(<<y, x>> \in OpToRel(<, Nat))
  BY <1>1, NatLessThanWellFounded, WFMin
<1>3. ASSUME NEW y \in S PROVE x <= y
  <2>1. x \in Nat /\ y \in Nat
    BY <1>1
  <2>2. y < x => <<y, x>> \in OpToRel(<, Nat)
    BY <2>1 DEF OpToRel
  <2>3. ~(<<y, x>> \in OpToRel(<, Nat))
    BY <1>2
  <2>4. ~(y < x)
    BY <2>2, <2>3
  <2>5. QED
    BY <2>1, <2>4
<1>4. QED
  BY <1>3 DEF Min

LEMMA NewestToken ==
    ASSUME NEW S \in SUBSET Tokens, S # {}
    PROVE  Max(S) \in S
<1> DEFINE D == {MaxToken - t : t \in S}
<1>1. S \subseteq 1..MaxToken /\ MaxToken \in Nat
  BY DomainAssumption DEF Tokens
<1>2. D \subseteq Nat /\ D # {}
  <2>1. \A t \in S : MaxToken - t \in Nat
    BY <1>1
  <2>2. \E t \in S : MaxToken - t \in D
    OBVIOUS
  <2>3. QED
    BY <2>1, <2>2
<1>3. PICK d \in D : \A e \in D : ~(<<e, d>> \in OpToRel(<, Nat))
  BY <1>2, NatLessThanWellFounded, WFMin
<1>4. PICK x \in S : d = MaxToken - x
  BY <1>3
<1>5. ASSUME NEW y \in S PROVE x >= y
  <2>1. MaxToken - y \in D /\ MaxToken - y \in Nat /\ d \in Nat
    BY <1>2, <1>3
  <2>2. MaxToken - y < d => <<MaxToken - y, d>> \in OpToRel(<, Nat)
    BY <2>1 DEF OpToRel
  <2>3. ~(<<MaxToken - y, d>> \in OpToRel(<, Nat))
    BY <1>3, <2>1
  <2>4. ~(MaxToken - y < d)
    BY <2>2, <2>3
  <2>5. QED
    BY <1>1, <1>4, <2>4
<1>6. QED
  BY <1>5 DEF Max

\* The bound leaves a request that needs a token one to work with.
LEMMA NextTokenIssued ==
    ASSUME HostInv, NEW o \in Operations,
           Admitted(o), Bounded(o), NeedsToken(o)
    PROVE  /\ NextToken \in Tokens /\ (o = "add" => Min(Unissued) \in Tokens)
           /\ token[NextToken] \in {"none", "open"}
<1>1. /\ Active \subseteq Tokens /\ Unissued \subseteq Tokens
      /\ \A t \in Active : token[t] = "open"
  BY DEF Active, Open, Unissued
<1>2. \A t \in Unissued : token[t] = "none"
  BY DEF Unissued
<1>3. Active # {} \/ Unissued # {}
  <2>1. Spare => Unissued # {}
    BY DEF Spare
  <2>2. QED
    BY <2>1 DEF Bounded
<1>4. o = "add" => Active = {}
  BY <1>1 DEF Admitted, HostInv, HostPresent, TokensBehindRow
<1>5. Active # {} => Max(Active) \in Active
  BY <1>1, NewestToken
<1>6. Unissued # {} => Min(Unissued) \in Unissued
  BY <1>1, FirstToken
<1>7. QED
  BY <1>1, <1>2, <1>3, <1>4, <1>5, <1>6 DEF NextToken

-----------------------------------------------------------------------------
\* A host nobody has added.
LEMMA InitHostInv == ASSUME HostInit PROVE HostInv
<1> USE DEF HostInit
<1>1. NoRow \in Rows
  BY DEF NoRow, Rows, Methods
<1>2. 0 \in 0..MaxToken
  BY DomainAssumption
<1>3. HostTypeOK
  BY <1>1, <1>2 DEF HostTypeOK, NoRow
<1>4. HostPresent /\ InHand /\ OnExpired
  BY DEF HostPresent, TokensBehindRow, InHand, OnExpired, NoRow
<1>5. QED
  BY <1>3, <1>4 DEF HostInv

\* What is written is a row.
LEMMA RowsWritten ==
    ASSUME HostInv, NEW s \in Sessions
    PROVE  /\ NoRow \in Rows /\ Added \in Rows
           /\ Assigned(s) \in Rows /\ Merged(s) \in Rows
           /\ \A o \in Operations : Loaded(o) \in Rows
<1>1. NoRow \in Rows
  BY DEF NoRow, Rows, Methods
<1>2. row \in Rows /\ snap[s] \in Rows
  BY DEF HostInv, HostTypeOK
<1>3. ASSUME NEW r \in Rows, NEW m \in Methods, NEW a \in BOOLEAN
      PROVE  Verified(r, m, a) \in Rows
  BY DEF Verified, Rows
<1>4. Added \in Rows
  <2>1. [NoRow EXCEPT !.here = TRUE] \in Rows
    BY <1>1 DEF Rows
  <2>2. QED
    BY <2>1, <1>3 DEF Added, Methods
<1>5. Assigned(s) \in Rows
  <2>1. VerifiedBy(snap[s], verdict[s]) \in Rows
    <3>1. snap[s].active \in BOOLEAN
      BY <1>2 DEF Rows
    <3>2. QED
      BY <1>2, <1>3, <3>1 DEF VerifiedBy, Methods
  <2>2. \A a \in BOOLEAN : Verified(snap[s], "manual", a) \in Rows
    BY <1>2, <1>3 DEF Methods
  <2> snap[s].active \in BOOLEAN
    BY <1>2 DEF Rows
  <2>3. /\ [snap[s] EXCEPT !.active = TRUE] \in Rows
        /\ [snap[s] EXCEPT !.active = FALSE] \in Rows
        /\ [snap[s] EXCEPT !.verified = FALSE, !.revoked = TRUE, !.active = FALSE] \in Rows
    BY <1>2 DEF Rows
  <2>4. QED
    BY <1>2, <2>1, <2>2, <2>3 DEF Assigned
<1>6. \A r \in Rows : \A q \in Rows :
        \A f : f = [c \in DOMAIN r |-> IF q[c] # snap[s][c] THEN q[c] ELSE r[c]]
          => f \in Rows
  BY DEF Rows
<1>7. Merged(s) \in Rows
  BY <1>2, <1>5, <1>6 DEF Merged
<1>8. ASSUME NEW o \in Operations PROVE Loaded(o) \in Rows
  BY <1>1, <1>2 DEF Loaded, Rows
<1>9. QED
  BY <1>1, <1>4, <1>5, <1>7, <1>8

-----------------------------------------------------------------------------
(* The steps of a request                                                  *)

LEMMA BeginStep ==
    ASSUME HostInv, NEW s \in Sessions, NEW o \in Operations, Begin(s, o)
    PROVE  HostInv'
<1> DEFINE t == tok'[s]
<1>1. HostTypeOK /\ HostPresent /\ InHand /\ OnExpired
  BY DEF HostInv
<1>2. /\ doing[s] = "nothing" /\ Admitted(o) /\ Bounded(o)
      /\ doing' = [doing EXCEPT ![s] = o]
      /\ snap' = [snap EXCEPT ![s] = Loaded(o)]
      /\ tok' = [tok EXCEPT ![s] = t]
      /\ t = IF o = "add" THEN Min(Unissued)
             ELSE IF NeedsToken(o) THEN NextToken
             ELSE IF o = "verify" /\ Active # {} THEN Max(Active) ELSE 0
      /\ UNCHANGED << row, token, relaxed, assigned, exempt, published, verdict >>
  BY <1>1 DEF Begin, environment, HostTypeOK
<1>3. Active \subseteq Tokens /\ \A a \in Active : token[a] = "open"
  BY DEF Active, Open
<1>4. /\ t \in Tokens \cup {0} /\ (NeedsToken(o) => t \in Tokens)
      /\ o = "verify" /\ t \in Tokens => token[t] # "spent"
  <2>1. CASE NeedsToken(o)
    BY <1>2, <2>1, NextTokenIssued
  <2>2. CASE ~NeedsToken(o) /\ o = "verify" /\ Active # {}
    <3>1. Max(Active) \in Active
      BY <1>3, <2>2, NewestToken
    <3>2. t = Max(Active)
      BY <1>2, <2>2 DEF NeedsToken
    <3>3. QED
      BY <1>3, <2>2, <3>1, <3>2
  <2>3. CASE ~NeedsToken(o) /\ ~(o = "verify" /\ Active # {})
    <3>1. t = 0 /\ 0 \notin Tokens
      BY <1>2, <2>3 DEF NeedsToken, Tokens
    <3>2. QED
      BY <2>3, <3>1
  <2>4. QED
    BY <2>1, <2>2, <2>3
<1> HIDE DEF t
<1>5. Loaded(o) \in Rows
  BY RowsWritten
<1>6. /\ o \in {"verify", "platform", "confirm"} => Loaded(o).revoked = row.revoked /\ Loaded(o).aged = row.aged
      /\ o \in {"verify", "platform", "confirm"} => Loaded(o).method = row.method
      /\ Loaded(o).method \in {"none", row.method}
  BY <1>1 DEF Loaded, HostTypeOK, Rows, NoRow
<1>7. /\ o = "verify" => ~row.revoked
      /\ o = "approve" => row.verified
  BY <1>2 DEF Admitted
<1>8. HostTypeOK'
  <2>1. t \in 0..MaxToken
    BY <1>4, DomainAssumption DEF Tokens
  <2>2. QED
    BY <1>1, <1>2, <1>5, <2>1 DEF HostTypeOK
<1>9. HostPresent'
  BY <1>1, <1>2 DEF HostPresent, TokensBehindRow
<1>10. InHand'
  <2> SUFFICES ASSUME NEW r \in Sessions
               PROVE  /\ doing'[r] \in {"add", "show"} \/ (doing'[r] = "verify" /\ ~relaxed) => tok'[r] \in Tokens
                      /\ doing'[r] = "verify" => ~snap'[r].revoked
                      /\ snap'[r].method # "none" \/ doing'[r] = "approve" => row.method # "none"
    BY <1>2 DEF InHand
  <2>1. CASE r = s
    <3>1. doing'[s] = o /\ snap'[s] = Loaded(o) /\ tok'[s] = t
      BY <1>1, <1>2 DEF HostTypeOK
    <3>2. o \in {"add", "show"} \/ (o = "verify" /\ ~relaxed) => NeedsToken(o)
      BY DEF NeedsToken
    <3>3. QED
      BY <1>1, <1>4, <1>6, <1>7, <2>1, <3>1, <3>2 DEF HostPresent, TokensBehindRow
  <2>2. CASE r # s
    BY <1>1, <1>2, <2>2 DEF InHand, HostTypeOK
  <2>3. QED
    BY <2>1, <2>2
<1>11. OnExpired'
  <2> SUFFICES ASSUME row.aged, NEW r \in Sessions
               PROVE  /\ doing'[r] \in {"verify", "platform", "confirm"} => snap'[r].aged /\ snap'[r].method = row.method
                      /\ doing'[r] = "verify" /\ tok'[r] \in Tokens => token[tok'[r]] # "spent"
    BY <1>2 DEF OnExpired
  <2>1. CASE r = s
    <3>1. doing'[s] = o /\ snap'[s] = Loaded(o) /\ tok'[s] = t
      BY <1>1, <1>2 DEF HostTypeOK
    <3>2. QED
      BY <1>4, <1>6, <2>1, <3>1
  <2>2. CASE r # s
    BY <1>1, <1>2, <2>2 DEF OnExpired, HostTypeOK
  <2>3. QED
    BY <2>1, <2>2
<1>12. QED
  BY <1>8, <1>9, <1>10, <1>11 DEF HostInv

\* A request that ends leaves the others to rely on the row as they loaded it: it takes no
\* method away, and where the row stays expired it stays as it is and no token is used up.
LEMMA EndKeeps ==
    ASSUME HostInv, NEW s \in Sessions,
           Done(s), UNCHANGED environment, published' \in 0..MaxToken,
           row' \in Rows, row'.active => row'.here /\ row'.method # "none",
           token' \in [Tokens -> {"none", "open", "spent"}], HostPresent',
           row.method # "none" => row'.method # "none",
           row'.aged => /\ row.aged /\ row'.method = row.method
                        /\ \A t \in Tokens : token'[t] = "spent" => token[t] = "spent"
    PROVE  HostInv'
<1>1. HostTypeOK /\ InHand /\ OnExpired
  BY DEF HostInv
<1>2. /\ doing' = [doing EXCEPT ![s] = "nothing"] /\ snap' = [snap EXCEPT ![s] = NoRow]
      /\ tok' = [tok EXCEPT ![s] = 0] /\ verdict' = [verdict EXCEPT ![s] = "none"]
      /\ UNCHANGED << relaxed, assigned, exempt >>
  BY DEF Done, environment
<1>3. NoRow \in Rows /\ NoRow.method = "none"
  BY DEF NoRow, Rows, Methods
<1>4. /\ doing'[s] = "nothing" /\ snap'[s] = NoRow
      /\ \A r \in Sessions \ {s} : doing'[r] = doing[r] /\ snap'[r] = snap[r] /\ tok'[r] = tok[r]
  BY <1>1, <1>2 DEF HostTypeOK
<1>5. HostTypeOK'
  <2>1. 0 \in 0..MaxToken
    BY DomainAssumption
  <2>2. QED
    BY <1>1, <1>2, <1>3, <2>1 DEF HostTypeOK
<1>6. InHand'
  BY <1>1, <1>2, <1>3, <1>4 DEF InHand
<1>7. OnExpired'
  BY <1>1, <1>2, <1>4 DEF OnExpired, HostTypeOK
<1>8. QED
  BY <1>5, <1>6, <1>7 DEF HostInv

\* Column by column: what a request leaves as loaded is as the others left it.
LEMMA MergedColumns ==
    ASSUME HostInv, NEW s \in Sessions
    PROVE  /\ Merged(s).here = IF Assigned(s).here # snap[s].here THEN Assigned(s).here ELSE row.here
           /\ Merged(s).verified = IF Assigned(s).verified # snap[s].verified
                                   THEN Assigned(s).verified ELSE row.verified
           /\ Merged(s).method = IF Assigned(s).method # snap[s].method
                                 THEN Assigned(s).method ELSE row.method
           /\ Merged(s).revoked = IF Assigned(s).revoked # snap[s].revoked
                                  THEN Assigned(s).revoked ELSE row.revoked
           /\ Merged(s).active = IF Assigned(s).active # snap[s].active
                                 THEN Assigned(s).active ELSE row.active
           /\ Merged(s).aged = IF Assigned(s).aged # snap[s].aged THEN Assigned(s).aged ELSE row.aged
<1>1. row \in Rows
  BY DEF HostInv, HostTypeOK
<1>2. DOMAIN row = {"here", "verified", "method", "revoked", "active", "aged"}
  BY <1>1 DEF Rows
<1>3. QED
  BY <1>2 DEF Merged

\* What each operation assigns.
LEMMA AssignedColumns ==
    ASSUME HostInv, NEW s \in Sessions
    PROVE  LET a == Assigned(s) l == snap[s] IN
           /\ a.here = l.here
           /\ doing[s] \notin {"verify", "approve", "suspend", "platform", "confirm", "revoke"} => a = l
           /\ doing[s] = "verify" => \/ a = l /\ ~relaxed /\ verdict[s] \notin {"exempt", "proved"}
                                     \/ /\ a.verified /\ ~a.revoked /\ ~a.aged
                                        /\ \/ relaxed /\ a.method = "skip" /\ a.active
                                           \/ ~relaxed /\ verdict[s] = "exempt" /\ a.method = "exempt" /\ ~a.active
                                           \/ ~relaxed /\ verdict[s] = "proved" /\ a.method = "dns"
                                              /\ (a.active <=> l.active)
           /\ doing[s] = "approve" => a = [l EXCEPT !.active = TRUE]
           /\ doing[s] = "suspend" => a = [l EXCEPT !.active = FALSE]
           /\ doing[s] = "platform" => /\ a.verified /\ a.method = "manual" /\ ~a.revoked
                                       /\ a.active /\ ~a.aged
           /\ doing[s] = "confirm" => /\ a.verified /\ a.method = "manual" /\ ~a.revoked
                                      /\ (a.active <=> l.active) /\ ~a.aged
           /\ doing[s] = "revoke" => /\ ~a.verified /\ a.revoked /\ ~a.active
                                     /\ a.method = l.method /\ a.aged = l.aged
<1>1. snap[s] \in Rows
  BY DEF HostInv, HostTypeOK
<1>2. ASSUME NEW m \in Methods, NEW b \in BOOLEAN
      PROVE  LET v == Verified(snap[s], m, b) IN
             v.here = snap[s].here /\ v.verified /\ v.method = m /\ ~v.revoked /\ (v.active <=> b) /\ ~v.aged
  BY <1>1 DEF Verified, Rows
<1>3. snap[s].active \in BOOLEAN /\ {"skip", "exempt", "dns", "manual"} \subseteq Methods
  BY <1>1 DEF Rows, Methods
<1>4. CASE doing[s] = "verify"
  <2>1. Assigned(s) = VerifiedBy(snap[s], verdict[s])
    BY <1>4 DEF Assigned
  <2>2. CASE relaxed
    <3>1. Assigned(s) = Verified(snap[s], "skip", TRUE)
      BY <2>1, <2>2 DEF VerifiedBy
    <3>2. LET a == Verified(snap[s], "skip", TRUE) IN
          /\ a.here = snap[s].here /\ a.verified /\ a.method = "skip" /\ ~a.revoked
          /\ a.active /\ ~a.aged
      BY <1>2, <1>3
    <3>3. QED
      BY <1>1, <1>3, <1>4, <2>2, <3>1, <3>2
  <2>3. CASE ~relaxed /\ verdict[s] = "exempt"
    <3>1. Assigned(s) = Verified(snap[s], "exempt", FALSE)
      BY <2>1, <2>3 DEF VerifiedBy
    <3>2. LET a == Verified(snap[s], "exempt", FALSE) IN
          /\ a.here = snap[s].here /\ a.verified /\ a.method = "exempt" /\ ~a.revoked
          /\ ~a.active /\ ~a.aged
      BY <1>2, <1>3
    <3>3. QED
      BY <1>1, <1>3, <1>4, <2>3, <3>1, <3>2
  <2>4. CASE ~relaxed /\ verdict[s] = "proved"
    <3>1. Assigned(s) = Verified(snap[s], "dns", snap[s].active)
      BY <2>1, <2>4 DEF VerifiedBy
    <3>2. LET a == Verified(snap[s], "dns", snap[s].active) IN
          /\ a.here = snap[s].here /\ a.verified /\ a.method = "dns" /\ ~a.revoked
          /\ (a.active <=> snap[s].active) /\ ~a.aged
      BY <1>2, <1>3
    <3>3. QED
      BY <1>1, <1>3, <1>4, <2>4, <3>1, <3>2
  <2>5. CASE ~relaxed /\ verdict[s] \notin {"exempt", "proved"}
    <3>1. Assigned(s) = snap[s]
      BY <2>1, <2>5 DEF VerifiedBy
    <3>2. QED
      BY <1>4, <2>5, <3>1
  <2>6. QED
    BY <2>2, <2>3, <2>4, <2>5
<1>5. CASE doing[s] = "platform"
  <2>1. Assigned(s) = Verified(snap[s], "manual", TRUE)
    BY <1>5 DEF Assigned
  <2>2. QED
    BY <1>2, <1>3, <1>5, <2>1
<1>6. CASE doing[s] = "confirm"
  <2>1. Assigned(s) = Verified(snap[s], "manual", snap[s].active)
    BY <1>6 DEF Assigned
  <2>2. QED
    BY <1>2, <1>3, <1>6, <2>1
<1>7. CASE doing[s] \notin {"verify", "platform", "confirm"}
  BY <1>1, <1>7 DEF Assigned, Rows
<1>8. QED
  BY <1>4, <1>5, <1>6, <1>7

LEMMA CommitVerifyStep ==
    ASSUME HostInv, NEW s \in Sessions, CommitVerify(s)
    PROVE  HostInv'
<1> DEFINE a == Assigned(s)
           l == snap[s]
           proved == relaxed \/ verdict[s] \in {"proved", "exempt"}
<1>1. HostTypeOK /\ HostPresent /\ InHand /\ OnExpired
  BY DEF HostInv
<1>2. /\ doing[s] = "verify" /\ row.here /\ row' = Merged(s) /\ Done(s) /\ UNCHANGED environment
      /\ token' = IF proved THEN Issued(tok[s], "spent")
                  ELSE IF token[tok[s]] = "none" THEN Issued(tok[s], "open") ELSE token
      /\ published' = published
  BY DEF CommitVerify
<1>3. /\ a.here = l.here
      /\ proved => a.verified /\ ~a.aged /\ a.method # "none"
                   /\ (a.active => (a.active <=> l.active) \/ a.method = "skip")
                   /\ (a.method = "dns" => ~relaxed)
      /\ ~proved => a = l
  BY <1>2, AssignedColumns
<1>4. /\ row'.here /\ row' \in Rows
      /\ row'.method = IF a.method # l.method THEN a.method ELSE row.method
      /\ row'.active = IF a.active # l.active THEN a.active ELSE row.active
      /\ row'.aged = IF a.aged # l.aged THEN a.aged ELSE row.aged
      /\ ~proved => row'.verified = row.verified
  BY <1>2, <1>3, MergedColumns, RowsWritten
<1>5. row \in Rows /\ l \in Rows /\ a \in Rows
  BY <1>1, RowsWritten DEF HostTypeOK
<1>6. row.method # "none" => row'.method # "none"
  BY <1>3, <1>4, <1>1 DEF InHand
<1>7. row'.method # "none" \/ (~proved /\ row'.method = row.method)
  BY <1>1, <1>3, <1>4 DEF InHand
<1>8. row'.active => row'.method # "none"
  BY <1>1, <1>3, <1>4, <1>5, <1>7 DEF HostTypeOK, Rows
<1>9. proved => ~row'.aged
  BY <1>1, <1>2, <1>3, <1>4, <1>5 DEF OnExpired, Rows
<1>10. /\ token' \in [Tokens -> {"none", "open", "spent"}]
       /\ \A t \in Tokens : token[t] # "none" => token'[t] # "none"
       /\ ~proved => \A t \in Tokens : token'[t] = "spent" => token[t] = "spent"
  <2>1. ~proved => tok[s] \in Tokens
    BY <1>1, <1>2 DEF InHand
  <2>2. tok[s] \in 0..MaxToken
    BY <1>1 DEF HostTypeOK
  <2>3. QED
    BY <1>1, <1>2, <2>1, <2>2 DEF Issued, HostTypeOK
<1>11. HostPresent'
  <2>1. CASE ~relaxed /\ proved
    <3>1. tok[s] \in Tokens /\ tok[s] # 0
      BY <1>1, <1>2, <2>1, DomainAssumption DEF InHand, Tokens
    <3>2. token'[tok[s]] = "spent"
      BY <1>1, <1>2, <2>1, <3>1 DEF Issued, HostTypeOK
    <3>3. QED
      BY <1>1, <1>2, <1>4, <1>7, <1>10, <3>1, <3>2 DEF HostPresent, TokensBehindRow
  <2>2. CASE relaxed \/ ~proved
    <3>1. row'.method = "dns" => row.method = "dns"
      BY <1>3, <1>4, <2>2
    <3>2. \A t \in Tokens : token[t] = "spent" => token'[t] = "spent"
      <4>1. tok[s] \in 0..MaxToken /\ (~proved => tok[s] \in Tokens)
        BY <1>1, <1>2 DEF HostTypeOK, InHand
      <4>2. QED
        BY <1>1, <1>2, <4>1 DEF Issued, HostTypeOK
    <3>3. QED
      BY <1>1, <1>2, <1>4, <1>7, <1>10, <3>1, <3>2 DEF HostPresent, TokensBehindRow
  <2>3. QED
    BY <2>1, <2>2
<1>12. row'.aged => row.aged /\ row'.method = row.method
  BY <1>3, <1>4, <1>9
<1>13. published' \in 0..MaxToken
  BY <1>1, <1>2 DEF HostTypeOK
<1>14. QED
  <2> HIDE DEF a, l, proved
  <2>1. QED
    BY <1>2, <1>4, <1>6, <1>8, <1>9, <1>10, <1>11, <1>12, <1>13, EndKeeps

\* approve, suspend, platform, confirm, revoke
LEMMA CommitDecisionStep ==
    ASSUME HostInv, NEW s \in Sessions, CommitDecision(s)
    PROVE  HostInv'
<1> DEFINE a == Assigned(s)
           l == snap[s]
<1>1. HostTypeOK /\ HostPresent /\ InHand /\ OnExpired
  BY DEF HostInv
<1>2. /\ doing[s] \in {"approve", "suspend", "platform", "confirm", "revoke"} /\ row.here
      /\ row' = Merged(s) /\ Done(s) /\ UNCHANGED << token, environment, published >>
  BY DEF CommitDecision
<1>3. row \in Rows /\ l \in Rows /\ a \in Rows
  BY <1>1, RowsWritten DEF HostTypeOK
<1>4. /\ a.here = l.here
      /\ doing[s] = "approve" => a.active /\ a.verified = l.verified /\ a.method = l.method /\ a.aged = l.aged
      /\ doing[s] = "suspend" => ~a.active /\ a.verified = l.verified /\ a.method = l.method /\ a.aged = l.aged
      /\ doing[s] = "platform" => a.method = "manual" /\ a.active /\ ~a.aged /\ a.verified
      /\ doing[s] = "confirm" => /\ a.method = "manual" /\ (a.active <=> l.active)
                                 /\ ~a.aged /\ a.verified
      /\ doing[s] = "revoke" => ~a.verified /\ ~a.active /\ a.method = l.method /\ a.aged = l.aged
  BY <1>2, <1>3, AssignedColumns DEF Rows
<1>5. /\ row' \in Rows
      /\ row'.here = IF a.here # l.here THEN a.here ELSE row.here
      /\ row'.verified = IF a.verified # l.verified THEN a.verified ELSE row.verified
      /\ row'.method = IF a.method # l.method THEN a.method ELSE row.method
      /\ row'.active = IF a.active # l.active THEN a.active ELSE row.active
      /\ row'.aged = IF a.aged # l.aged THEN a.aged ELSE row.aged
  BY <1>2, MergedColumns, RowsWritten
<1>6. row'.here
  BY <1>2, <1>4, <1>5
<1>7. /\ l.method # "none" => row.method # "none"
      /\ doing[s] = "approve" => row.method # "none"
  BY <1>1 DEF InHand
<1>8. row.method # "none" => row'.method # "none"
  BY <1>2, <1>4, <1>5
<1>9. doing[s] \in {"platform", "confirm"} => row'.method # "none"
  BY <1>4, <1>5, <1>7
<1>10. row'.active => row'.method # "none"
  BY <1>1, <1>2, <1>3, <1>4, <1>5, <1>7, <1>8, <1>9 DEF HostTypeOK, Rows
<1>11. row'.verified => row'.method # "none"
  BY <1>1, <1>2, <1>3, <1>4, <1>5, <1>8, <1>9 DEF HostPresent, TokensBehindRow, Rows
<1>12. HostPresent'
  <2>1. row'.method = "dns" => row.method = "dns"
    BY <1>2, <1>4, <1>5
  <2>2. QED
    BY <1>1, <1>2, <1>6, <1>11, <2>1 DEF HostPresent, TokensBehindRow
<1>13. row'.aged => row.aged /\ row'.method = row.method
  BY <1>1, <1>2, <1>3, <1>4, <1>5 DEF OnExpired, Rows
<1>14. published' \in 0..MaxToken /\ token' \in [Tokens -> {"none", "open", "spent"}] /\ UNCHANGED token
  BY <1>1, <1>2 DEF HostTypeOK
<1>15. UNCHANGED environment
  BY <1>2
<1>16. QED
  BY <1>2, <1>5, <1>6, <1>8, <1>10, <1>12, <1>13, <1>14, <1>15, EndKeeps

\* A row is added fresh, and verified by an assignment or the relaxed setting if at all.
LEMMA AddedColumns ==
    /\ Added.here /\ ~Added.aged
    /\ Added.verified \/ Added.active => Added.method # "none"
    /\ Added.method \in {"none", "assigned", "skip"}
<1> DEFINE new == [NoRow EXCEPT !.here = TRUE]
<1>1. CASE assigned
  <2>1. Added = Verified(new, "assigned", FALSE)
    BY <1>1 DEF Added
  <2>2. QED
    BY <2>1 DEF Verified, NoRow
<1>2. CASE ~assigned /\ relaxed
  <2>1. Added = Verified(new, "skip", TRUE)
    BY <1>2 DEF Added
  <2>2. QED
    BY <2>1 DEF Verified, NoRow
<1>3. CASE ~assigned /\ ~relaxed
  <2>1. Added = new
    BY <1>3 DEF Added
  <2>2. QED
    BY <2>1 DEF NoRow
<1>4. QED
  BY <1>1, <1>2, <1>3

LEMMA CommitAddStep ==
    ASSUME HostInv, NEW s \in Sessions, CommitAdd(s) \/ UndoAdd(s)
    PROVE  HostInv'
<1>1. HostTypeOK /\ HostPresent /\ InHand
  BY DEF HostInv
<1>2. /\ doing[s] = "add" /\ Done(s) /\ UNCHANGED << environment, published >>
      /\ \/ UNCHANGED << row, token >>
         \/ /\ ~row.here /\ row' = Added
            /\ token' = Issued(tok[s], IF assigned \/ relaxed THEN "spent" ELSE "open")
  BY DEF CommitAdd, UndoAdd
<1>3. published' \in 0..MaxToken /\ UNCHANGED environment
  BY <1>1, <1>2 DEF HostTypeOK
<1>4. CASE UNCHANGED << row, token >>
  <2>1. HostPresent'
    BY <1>1, <1>4 DEF HostPresent, TokensBehindRow
  <2>2. QED
    BY <1>1, <1>2, <1>3, <1>4, <2>1, EndKeeps DEF HostTypeOK
<1>5. CASE /\ ~row.here /\ row' = Added
           /\ token' = Issued(tok[s], IF assigned \/ relaxed THEN "spent" ELSE "open")
  <2>1. tok[s] \in Tokens /\ tok[s] # 0
    BY <1>1, <1>2, DomainAssumption DEF InHand, Tokens
  <2>2. /\ token' \in [Tokens -> {"none", "open", "spent"}]
        /\ token'[tok[s]] # "none"
    BY <1>1, <1>5, <2>1 DEF Issued, HostTypeOK
  <2>3. row' \in Rows
    BY <1>5, RowsWritten
  <2>4. /\ row'.here /\ ~row'.aged
        /\ row'.verified \/ row'.active => row'.method # "none"
    BY <1>5, AddedColumns
  <2>5. row.method = "none"
    BY <1>1, <1>5 DEF HostPresent, TokensBehindRow
  <2>6. HostPresent'
    BY <1>5, <2>1, <2>2, <2>4, AddedColumns DEF HostPresent, TokensBehindRow
  <2>7. QED
    BY <1>2, <1>3, <2>2, <2>3, <2>4, <2>5, <2>6, EndKeeps
<1>6. QED
  BY <1>2, <1>4, <1>5

LEMMA CommitShowStep ==
    ASSUME HostInv, NEW s \in Sessions, CommitShow(s)
    PROVE  HostInv'
<1>1. HostTypeOK /\ HostPresent /\ InHand
  BY DEF HostInv
<1>2. /\ doing[s] = "show" /\ row.here /\ Done(s) /\ UNCHANGED << row, environment >>
      /\ token' = IF token[tok[s]] = "none" THEN Issued(tok[s], "open") ELSE token
      /\ published' = IF s = Owner THEN tok[s] ELSE published
  BY DEF CommitShow
<1>3. tok[s] \in Tokens /\ tok[s] # 0
  BY <1>1, <1>2, DomainAssumption DEF InHand, Tokens
<1>4. /\ token' \in [Tokens -> {"none", "open", "spent"}]
      /\ \A t \in Tokens : token[t] # "none" => token'[t] # "none"
      /\ \A t \in Tokens : token'[t] = "spent" <=> token[t] = "spent"
  BY <1>1, <1>2, <1>3 DEF Issued, HostTypeOK
<1>5. published' \in 0..MaxToken /\ UNCHANGED environment
  BY <1>1, <1>2 DEF HostTypeOK
<1>6. HostPresent'
  BY <1>1, <1>2, <1>4 DEF HostPresent, TokensBehindRow
<1>7. QED
  BY <1>1, <1>2, <1>4, <1>5, <1>6, EndKeeps DEF HostTypeOK

\* A host that was added has a token, so its row is never deleted.
LEMMA DeleteRefused ==
    ASSUME HostInv, NEW s \in Sessions, CommitDelete(s), row.here
    PROVE  row' = row
  BY DEF CommitDelete, HostInv, HostPresent, TokensBehindRow

LEMMA CommitDeleteStep ==
    ASSUME HostInv, NEW s \in Sessions, CommitDelete(s)
    PROVE  HostInv'
<1>1. HostTypeOK /\ HostPresent
  BY DEF HostInv
<1>2. /\ Done(s) /\ UNCHANGED << token, environment, published >>
      /\ row' = row \/ row' = NoRow
  BY DEF CommitDelete
<1>3. published' \in 0..MaxToken /\ UNCHANGED << token, environment >>
  BY <1>1, <1>2 DEF HostTypeOK
<1>4. CASE row.here
  <2>1. row' = row
    BY <1>4, DeleteRefused
  <2>2. HostPresent'
    BY <1>1, <1>3, <2>1 DEF HostPresent, TokensBehindRow
  <2>3. QED
    BY <1>1, <1>2, <1>3, <2>1, <2>2, EndKeeps DEF HostTypeOK
<1>5. CASE ~row.here
  <2>1. row' \in Rows /\ ~row'.here /\ row'.method = "none"
    <3>1. NoRow \in Rows /\ ~NoRow.here /\ NoRow.method = "none"
      BY RowsWritten DEF NoRow
    <3>2. row \in Rows /\ row.method = "none"
      BY <1>1, <1>5 DEF HostTypeOK, HostPresent, TokensBehindRow
    <3>3. QED
      BY <1>2, <1>5, <3>1, <3>2
  <2>2. /\ row'.active => row.active
        /\ row'.aged => row.aged /\ row'.method = row.method
        /\ row'.verified => row.verified
    BY <1>2 DEF NoRow
  <2>3. ~row'.active /\ ~row'.verified
    BY <1>1, <1>5, <2>2 DEF HostTypeOK, HostPresent, TokensBehindRow
  <2>4. HostPresent'
    BY <1>1, <1>3, <1>5, <2>1, <2>3 DEF HostPresent, TokensBehindRow
  <2>5. row.method = "none"
    BY <1>1, <1>5 DEF HostPresent, TokensBehindRow
  <2>6. QED
    BY <1>1, <1>2, <1>3, <2>1, <2>2, <2>3, <2>4, <2>5, EndKeeps DEF HostTypeOK
<1>6. QED
  BY <1>4, <1>5

\* The exemption, DNS, assignments and flags: a verdict or the environment changes.
LEMMA AnswerStep ==
    ASSUME HostInv, NEW s \in Sessions, Exempted(s) \/ Asked(s) \/ Unanswered(s)
    PROVE  HostInv'
<1>1. /\ doing[s] = "verify" /\ UNCHANGED << row, token, relaxed, assigned, exempt, published, doing, snap, tok >>
      /\ \E v \in {"exempt", "proved", "failed"} : verdict' = [verdict EXCEPT ![s] = v]
  BY DEF Exempted, Asked, Unanswered, environment
<1>2. HostTypeOK'
  BY <1>1 DEF HostInv, HostTypeOK
<1>3. HostPresent' /\ InHand' /\ OnExpired'
  BY <1>1 DEF HostInv, HostPresent, TokensBehindRow, InHand, OnExpired
<1>4. QED
  BY <1>2, <1>3 DEF HostInv

LEMMA EnvironmentStep ==
    ASSUME HostInv, Assign \/ Unassign \/ LoseExemption
    PROVE  HostInv'
<1>1. /\ UNCHANGED << row, token, relaxed, published, doing, snap, tok, verdict >>
      /\ assigned' \in BOOLEAN /\ exempt' \in BOOLEAN
  BY DEF Assign, Unassign, LoseExemption, request, HostInv, HostTypeOK
<1>2. HostTypeOK'
  BY <1>1 DEF HostInv, HostTypeOK
<1>3. HostPresent' /\ InHand' /\ OnExpired'
  BY <1>1 DEF HostInv, HostPresent, TokensBehindRow, InHand, OnExpired
<1>4. QED
  BY <1>2, <1>3 DEF HostInv

\* Time passes between requests only.
LEMMA TimeStep ==
    ASSUME HostInv, Time
    PROVE  HostInv'
<1>1. HostTypeOK /\ HostPresent /\ InHand
  BY DEF HostInv
<1>2. /\ \A s \in Sessions : doing[s] = "nothing"
      /\ UNCHANGED << relaxed, assigned, exempt, published, doing, snap, tok, verdict >>
      /\ \/ row' = [row EXCEPT !.aged = TRUE] /\ UNCHANGED token
         \/ /\ UNCHANGED row
            /\ \E t \in Tokens : token[t] = "open" /\ token' = [token EXCEPT ![t] = "spent"]
  BY DEF Time, Age, ExpireToken, Quiet, environment, request
<1>3. /\ row' \in Rows /\ row'.here = row.here /\ row'.method = row.method /\ row'.active = row.active
      /\ row'.verified = row.verified
  BY <1>1, <1>2 DEF HostTypeOK, Rows
<1>4. /\ token' \in [Tokens -> {"none", "open", "spent"}]
      /\ \A t \in Tokens : token[t] # "none" <=> token'[t] # "none"
      /\ \A t \in Tokens : token[t] = "spent" => token'[t] = "spent"
  BY <1>1, <1>2 DEF HostTypeOK
<1>5. HostTypeOK'
  BY <1>1, <1>2, <1>3, <1>4 DEF HostTypeOK
<1>6. HostPresent'
  BY <1>1, <1>3, <1>4 DEF HostPresent, TokensBehindRow
<1>7. InHand'
  BY <1>1, <1>2, <1>3 DEF InHand
<1>8. OnExpired'
  BY <1>2 DEF OnExpired
<1>9. QED
  BY <1>5, <1>6, <1>7, <1>8 DEF HostInv

LEMMA NextHostInv == ASSUME HostInv, [HostNext]_hostVars PROVE HostInv'
<1>1. CASE Assign \/ Unassign \/ LoseExemption
  BY <1>1, EnvironmentStep
<1>2. CASE Time
  BY <1>2, TimeStep
<1>3. ASSUME NEW s \in Sessions, Step(s) PROVE HostInv'
  <2>1. CASE \E o \in Operations : Begin(s, o)
    BY <2>1, BeginStep
  <2>2. CASE CommitAdd(s) \/ UndoAdd(s)
    BY <2>2, CommitAddStep
  <2>3. CASE CommitShow(s)
    BY <2>3, CommitShowStep
  <2>4. CASE Exempted(s) \/ Asked(s) \/ Unanswered(s)
    BY <2>4, AnswerStep
  <2>5. CASE CommitVerify(s)
    BY <2>5, CommitVerifyStep
  <2>6. CASE CommitDecision(s)
    BY <2>6, CommitDecisionStep
  <2>7. CASE CommitDelete(s)
    BY <2>7, CommitDeleteStep
  <2>8. QED
    BY <1>3, <2>1, <2>2, <2>3, <2>4, <2>5, <2>6, <2>7 DEF Step
<1>4. CASE UNCHANGED hostVars
  <2>1. UNCHANGED << row, token, relaxed, assigned, exempt, published, doing, snap, tok, verdict >>
    BY <1>4 DEF hostVars, environment, request
  <2>2. QED
    BY <2>1 DEF HostInv, HostTypeOK, HostPresent, TokensBehindRow, InHand, OnExpired
<1>5. QED
  BY <1>1, <1>2, <1>3, <1>4 DEF HostNext

-----------------------------------------------------------------------------
\* A decision that was made is undone only by a request that had seen it.
LEMMA DecisionStep ==
    ASSUME HostInv, [HostNext]_hostVars
    PROVE  /\ row.here /\ row.revoked /\ ~row'.revoked =>
                \E s \in Sessions : doing[s] \in {"platform", "confirm"} /\ snap[s].revoked
           /\ row.here /\ ~row.active /\ row'.active =>
                \E s \in Sessions : /\ ~snap[s].active
                                    /\ \/ doing[s] \in {"approve", "platform"}
                                       \/ relaxed /\ doing[s] = "verify"
<1>1. ASSUME NEW s \in Sessions, row' = Merged(s),
             doing[s] \in {"verify", "approve", "suspend", "platform", "confirm", "revoke"}
      PROVE  /\ row.revoked /\ ~row'.revoked => doing[s] \in {"platform", "confirm"} /\ snap[s].revoked
             /\ ~row.active /\ row'.active => /\ ~snap[s].active
                                              /\ \/ doing[s] \in {"approve", "platform"}
                                                 \/ relaxed /\ doing[s] = "verify"
  <2>1. row \in Rows /\ snap[s] \in Rows /\ Assigned(s) \in Rows
    BY RowsWritten DEF HostInv, HostTypeOK
  <2>2. row.revoked /\ ~row'.revoked => ~Assigned(s).revoked /\ snap[s].revoked
    BY <1>1, <2>1, MergedColumns DEF Rows
  <2>3. ~row.active /\ row'.active => Assigned(s).active /\ ~snap[s].active
    BY <1>1, <2>1, MergedColumns DEF Rows
  <2>4. doing[s] = "verify" => ~snap[s].revoked
    BY DEF HostInv, InHand
  <2>5. doing[s] = "revoke" => Assigned(s).revoked /\ ~Assigned(s).active
    BY AssignedColumns
  <2>6. /\ doing[s] = "approve" => Assigned(s).revoked = snap[s].revoked
        /\ doing[s] = "suspend" => Assigned(s).revoked = snap[s].revoked /\ ~Assigned(s).active
    BY <2>1, AssignedColumns DEF Rows
  <2>7. doing[s] = "confirm" => (Assigned(s).active <=> snap[s].active)
    BY AssignedColumns
  <2>8. doing[s] = "verify" => relaxed \/ ~Assigned(s).active \/ (Assigned(s).active <=> snap[s].active)
    BY AssignedColumns
  <2>9. QED
    BY <1>1, <2>1, <2>2, <2>3, <2>4, <2>5, <2>6, <2>7, <2>8
<1>2. ASSUME NEW s \in Sessions, Step(s), row.here
      PROVE  row' = row \/ (CommitVerify(s) \/ CommitDecision(s))
  <2>1. CASE CommitDelete(s)
    BY <1>2, <2>1, DeleteRefused
  <2>2. CASE ~CommitDelete(s)
    BY <1>2, <2>2 DEF Step, Begin, CommitAdd, UndoAdd, CommitShow,
       Exempted, Asked, Unanswered
  <2>3. QED
    BY <2>1, <2>2
<1>3. ASSUME ~\E s \in Sessions : Step(s) PROVE row' = row \/ row' = [row EXCEPT !.aged = TRUE]
  BY <1>3 DEF HostNext, Assign, Unassign, LoseExemption, Time, Age,
     ExpireToken, hostVars
<1>4. row' = [row EXCEPT !.aged = TRUE] => row'.revoked = row.revoked /\ row'.active = row.active
  BY DEF HostInv, HostTypeOK, Rows
<1>5. CASE \E s \in Sessions : Step(s) /\ row.here
  <2>1. PICK s \in Sessions : Step(s) /\ row.here
    BY <1>5
  <2>2. row' = row \/ CommitVerify(s) \/ CommitDecision(s)
    BY <1>2, <2>1
  <2>3. CASE row' = row
    BY <2>3
  <2>4. CASE CommitVerify(s) \/ CommitDecision(s)
    <3>1. row' = Merged(s) /\ doing[s] \in {"verify", "approve", "suspend", "platform", "confirm", "revoke"}
      BY <2>4 DEF CommitVerify, CommitDecision
    <3>2. QED
      BY <1>1, <3>1
  <2>5. QED
    BY <2>2, <2>3, <2>4
<1>6. CASE ~\E s \in Sessions : Step(s)
  BY <1>3, <1>4, <1>6
<1>7. QED
  BY <1>5, <1>6

\* An expired verification is renewed by a request that has an unused token in hand.
LEMMA RenewalStep ==
    ASSUME HostInv, [HostNext]_hostVars, row.aged, ~row'.aged, row'.method = "dns"
    PROVE  \E s \in Sessions : doing[s] = "verify" /\ token[tok[s]] \in {"none", "open"}
<1>1. row \in Rows /\ row' # row
  BY DEF HostInv, HostTypeOK
<1>2. PICK s \in Sessions : Step(s)
  <2>1. [row EXCEPT !.aged = TRUE].aged
    BY <1>1 DEF Rows
  <2>2. QED
    BY <1>1, <2>1 DEF HostNext, Assign, Unassign, LoseExemption, Time,
       Age, ExpireToken, hostVars
<1>3. CASE CommitVerify(s) \/ CommitDecision(s)
  <2>1. row' = Merged(s) /\ doing[s] \in {"verify", "approve", "suspend", "platform", "confirm", "revoke"}
    BY <1>3 DEF CommitVerify, CommitDecision
  <2>2. snap[s] \in Rows /\ Assigned(s) \in Rows
    BY RowsWritten DEF HostInv, HostTypeOK
  <2>3. Assigned(s).aged # snap[s].aged
    BY <2>1, MergedColumns
  <2>4. doing[s] \in {"verify", "platform", "confirm"}
    BY <2>1, <2>2, <2>3, AssignedColumns DEF Rows
  <2>5. snap[s].method = row.method
    BY <2>4 DEF HostInv, OnExpired
  <2>6. row'.method = Assigned(s).method
    BY <2>1, <2>5, MergedColumns
  <2>7. Assigned(s).method = "dns"
    BY <2>6
  <2>8. doing[s] = "verify" /\ ~relaxed
    BY <2>3, <2>4, <2>7, AssignedColumns
  <2>9. tok[s] \in Tokens /\ token[tok[s]] # "spent"
    BY <2>8 DEF HostInv, InHand, OnExpired
  <2>10. token[tok[s]] \in {"none", "open"}
    BY <2>9 DEF HostInv, HostTypeOK
  <2>11. QED
    BY <2>8, <2>10
<1>4. CASE ~(CommitVerify(s) \/ CommitDecision(s))
  <2>1. row' = Added \/ row' = NoRow
    BY <1>1, <1>2, <1>4 DEF Step, Begin, CommitAdd, UndoAdd, CommitShow,
       Exempted, Asked, Unanswered,
                            CommitDelete
  <2>2. row'.method # "dns"
    BY <2>1, AddedColumns DEF NoRow
  <2>3. QED
    BY <2>2
<1>5. QED
  BY <1>3, <1>4

-----------------------------------------------------------------------------

\* The invariant of the host holds in every state.
THEOREM HostInvariance == HostSpec => []HostInv
<1>1. HostInv /\ [HostNext]_hostVars => HostInv'
  BY NextHostInv
<1>2. HostInit => HostInv
  BY InitHostInv
<1>3. QED
  BY <1>1, <1>2, PTL DEF HostSpec

\* HostSound for any sessions and tokens: after whatever merges of add, verify, delete and
\* the decisions, a host that is there has a token, and one verified by DNS has used one up.
THEOREM HostKeptSound == HostSpec => []HostSound
<1>1. HostInv => HostSound
  BY DEF HostInv, HostPresent, HostSound
<1>2. QED
  BY <1>1, HostInvariance, PTL

\* DecisionsStick for any sessions: revoke_verification and revoke_active_scan are undone
\* only by requests that had seen them, whatever was under way.
THEOREM DecisionsKept == HostSpec => DecisionsStick
<1>1. HostInv /\ [HostNext]_hostVars =>
        [/\ row.here /\ row.revoked /\ ~row'.revoked =>
              \E s \in Sessions : doing[s] \in {"platform", "confirm"} /\ snap[s].revoked
         /\ row.here /\ ~row.active /\ row'.active =>
              \E s \in Sessions : /\ ~snap[s].active
                                  /\ \/ doing[s] \in {"approve", "platform"}
                                     \/ relaxed /\ doing[s] = "verify"]_hostVars
  BY DecisionStep
<1>2. HostSpec => []HostInv
  BY HostInvariance
<1>3. QED
  BY <1>1, <1>2, PTL DEF HostSpec, DecisionsStick

\* RenewedByNewToken for any sessions and tokens: verify renews an expired verification with
\* a token that nobody has used.
THEOREM RenewalsNeedNewTokens == HostSpec => RenewedByNewToken
<1>1. HostInv /\ [HostNext]_hostVars =>
        [row.aged /\ ~row'.aged /\ row'.method = "dns" =>
           \E s \in Sessions : doing[s] = "verify" /\ token[tok[s]] \in {"none", "open"}]_hostVars
  BY RenewalStep
<1>2. HostSpec => []HostInv
  BY HostInvariance
<1>3. QED
  BY <1>1, <1>2, PTL DEF HostSpec, RenewedByNewToken
=============================================================================
