--------------------------- MODULE ScanJobs_proofs ---------------------------
(***************************************************************************)
(* Proofs about ScanJobs for every set of scans, sessions and runners.     *)
(***************************************************************************)
EXTENDS ScanJobs, FiniteSetTheorems, TLAPS

\* The part of the type invariant about everything but the row and the runners.
OtherTypes ==
    /\ created \in [Scans -> Age] /\ today \subseteq Scans /\ authorized \in BOOLEAN
    /\ deliveries \in [Scans -> 0..MaxDeliveries]
    /\ spc \in [Sessions -> SessionPc]
    /\ sjob \in [Sessions -> Scans \cup {NoScan}]
    /\ cancelling \in [Cancellers -> Scans \cup {NoScan}]
    /\ sweeping \in [Sweepers -> SUBSET Scans]
    /\ \A a \in Sessions : spc[a] # "idle" => sjob[a] \in Scans

\* The part about the runners.
RunnerTypes ==
    /\ rpc \in [Runners -> RunnerPc]
    /\ rjob \in [Runners -> Scans \cup {NoScan}]
    /\ \A r \in Runners : rpc[r] # "idle" => rjob[r] \in Scans

\* A runner's move keeps every type but those of the row it may also write.
LEMMA MoveType ==
    ASSUME TypeOK, NEW r \in Runners, NEW from, NEW to \in RunnerPc, Move(r, from, to),
           from # "idle"
    PROVE  RunnerTypes' /\ OtherTypes' /\ rjob[r] \in Scans
<1>1. RunnerTypes' /\ rjob[r] \in Scans
  BY DEF TypeOK, Move, RunnerTypes
<1>2. UNCHANGED << created, today, authorized, deliveries, api, cancelling, sweeping >>
  BY DEF Move
<1>3. OtherTypes'
  BY <1>2 DEF TypeOK, OtherTypes, api
<1>4. QED
  BY <1>1, <1>3

\* The same for a move that writes the status by primary key.
LEMMA MoveWritingType ==
    ASSUME TypeOK, NEW r \in Runners, NEW from, NEW to \in RunnerPc, NEW st \in Status,
           MoveWriting(r, from, to, st),
           from # "idle"
    PROVE  RunnerTypes' /\ OtherTypes' /\ rjob[r] \in Scans /\ status' \in [Scans -> Status]
<1>1. Move(r, from, to) /\ status' = [status EXCEPT ![rjob[r]] = st]
  BY DEF MoveWriting
<1>2. status' \in [Scans -> Status]
  BY <1>1 DEF TypeOK
<1>3. QED
  BY <1>1, <1>2, MoveType

\* The initial states are well typed.
LEMMA TypeInit == Init => TypeOK
BY ScansAssumption, LimitsAssumption DEF Init, TypeOK, Status, Age, SessionPc, RunnerPc

\* The type invariant of scan_jobs and of the processes that work on it.
THEOREM TypeCorrect == Spec => []TypeOK
<1> USE ScansAssumption, LimitsAssumption
<1>1. Init => TypeOK
  BY TypeInit
<1>2. TypeOK /\ [Next]_vars => TypeOK'
  <2> SUFFICES ASSUME TypeOK, [Next]_vars PROVE TypeOK'
    OBVIOUS
  <2> USE DEF TypeOK, row, api, runner
  <2>1. ASSUME NEW a \in Sessions, Create(a) PROVE TypeOK'
    <3>1. ASSUME NEW s \in Scans, CreateAuthorize(a, s) PROVE TypeOK'
      BY <3>1 DEF CreateAuthorize, SessionPc
    <3>2. CASE CreateAdmit(a)
      BY <3>2 DEF CreateAdmit, SessionPc
    <3>3. CASE Dispatch(a)
      <4>1. PICK n \in 1..MaxDeliveries : deliveries' = [deliveries EXCEPT ![sjob[a]] = n]
        BY <3>3 DEF Dispatch
      <4> n \in 0..MaxDeliveries
        OBVIOUS
      <4>2. deliveries' \in [Scans -> 0..MaxDeliveries]
        BY <4>1
      <4>3. QED
        BY <3>3, <4>2 DEF Dispatch, SessionPc
    <3>4. CASE CreateCommit(a)
      <4>1. status' \in [Scans -> Status] /\ created' \in [Scans -> Age]
        BY <3>4 DEF CreateCommit, Status, Active, Age
      <4>2. today' \subseteq Scans
        BY <3>4 DEF CreateCommit
      <4>3. QED
        BY <3>4, <4>1, <4>2 DEF CreateCommit, SessionPc
    <3>5. CASE CreateAbort(a)
      <4>1. deliveries' = deliveries \/ deliveries' = [deliveries EXCEPT ![sjob[a]] = 0]
        BY <3>5 DEF CreateAbort
      <4> 0 \in 0..MaxDeliveries
        OBVIOUS
      <4>3. deliveries' \in [Scans -> 0..MaxDeliveries]
        BY <4>1
      <4>2. QED
        BY <3>5, <4>3 DEF CreateAbort, SessionPc
    <3>6. QED
      BY <2>1, <3>1, <3>2, <3>3, <3>4, <3>5 DEF Create
  <2>2. ASSUME NEW c \in Cancellers, Cancel(c) PROVE TypeOK'
    BY <2>2 DEF Cancel, CancelSelect, CancelCommit, CancelAbort, Status, Terminal
  <2>3. ASSUME NEW w \in Sweepers, Sweep(w) PROVE TypeOK'
    BY <2>3 DEF Sweep, SweepSelect, SweepCommit, SweepAbort, ActiveScans, Status, Terminal
  <2>4. ASSUME NEW r \in Runners, Run(r) PROVE TypeOK'
    <3> DEFINE RowTypes == /\ status \in [Scans -> Status]
                           /\ started \in [Scans -> Age]
                           /\ results \subseteq Scans /\ cleared \subseteq Scans
    <3> USE DEF RunnerPc, TryBlock, Executing, PostSteps, Status, Active, Terminal
    <3>a. ASSUME RowTypes', RunnerTypes', OtherTypes' PROVE TypeOK'
      BY <3>a DEF OtherTypes, RunnerTypes
    <3>b. ASSUME UNCHANGED << status, started, results, cleared >> PROVE RowTypes'
      BY <3>b
    <3> HIDE DEF TypeOK, RunnerPc, Status
    <3>c. TypeOK => RowTypes
      BY DEF TypeOK
    <3>1. ASSUME NEW s \in Scans, Start(r, s) PROVE TypeOK'
      <4>1. deliveries' \in [Scans -> 0..MaxDeliveries]
        BY <3>1 DEF Start, Deliverable, TypeOK
      <4>2. RunnerTypes'
        BY <3>1 DEF Start, TypeOK, RunnerPc, RunnerTypes
      <4>3. RowTypes' /\ OtherTypes'
        BY <3>1, <4>1 DEF Start, TypeOK, OtherTypes
      <4>4. QED
        BY <4>2, <4>3, <3>a
    <3>2. CASE Select(r)
      BY <3>2, <3>a, <3>b, MoveType DEF Select, RunnerPc
    <3>3. CASE Claim(r)
      <4>1. CASE Move(r, "claim", "idle") /\ UNCHANGED << status, started, results, cleared >>
        BY <4>1, <3>a, <3>b, MoveType DEF RunnerPc
      <4>2. CASE /\ MoveWriting(r, "claim", "load", "validating")
                 /\ started' = [started EXCEPT ![rjob[r]] = "recent"]
                 /\ cleared' = IF authorized THEN cleared \cup {rjob[r]} ELSE cleared
                 /\ UNCHANGED results
        <5>1. RunnerTypes' /\ OtherTypes' /\ status' \in [Scans -> Status]
          BY <4>2, MoveWritingType DEF RunnerPc, Status
        <5>2. started' \in [Scans -> Age] /\ results' \subseteq Scans
          BY <4>2 DEF TypeOK, Age
        <5>3. cleared' \subseteq Scans
          BY <4>2, MoveWritingType DEF RunnerPc, Status, TypeOK
        <5>4. QED
          BY <5>1, <5>2, <5>3, <3>a
      <4>3. QED
        BY <3>3, <4>1, <4>2 DEF Claim
    <3>4. CASE MarkRunning(r)
      <4>1. PICK from, to \in RunnerPc, st \in Status :
                MoveWriting(r, from, to, st) /\ from # "idle"
        BY <3>4 DEF MarkRunning, RunnerPc, Status
      <4>2. QED
        BY <3>4, <4>1, <3>a, MoveWritingType DEF MarkRunning, TypeOK
    <3>5. CASE Recheck(r)
      <4>1. PICK from, to \in RunnerPc : Move(r, from, to) /\ from # "idle"
        BY <3>5 DEF Recheck, RunnerPc
      <4>2. QED
        BY <3>5, <4>1, <3>a, <3>b, MoveType DEF Recheck
    <3>6. CASE Scan(r)
      <4>1. PICK from, to \in RunnerPc : Move(r, from, to) /\ from # "idle"
        BY <3>6 DEF Scan, RunnerPc
      <4>2. QED
        BY <3>6, <4>1, <3>a, <3>b, MoveType DEF Scan
    <3>7. CASE MarkFailed(r)
      <4>1. PICK from, to \in RunnerPc, st \in Status :
                MoveWriting(r, from, to, st) /\ from # "idle"
        BY <3>7 DEF MarkFailed, RunnerPc, Status
      <4>2. QED
        BY <3>7, <4>1, <3>a, MoveWritingType DEF MarkFailed, TypeOK
    <3>8. CASE MarkParsing(r)
      <4>1. PICK from, to \in RunnerPc, st \in Status :
                MoveWriting(r, from, to, st) /\ from # "idle"
        BY <3>8 DEF MarkParsing, RunnerPc, Status
      <4>2. QED
        BY <3>8, <4>1, <3>a, MoveWritingType DEF MarkParsing, TypeOK
    <3>9. CASE Publish(r)
      <4>1. PICK from, to \in RunnerPc, st \in Status :
                MoveWriting(r, from, to, st) /\ from # "idle"
        BY <3>9 DEF Publish, RunnerPc, Status
      <4>2. QED
        BY <3>9, <4>1, <3>a, MoveWritingType DEF Publish, TypeOK
    <3>10. CASE Post(r)
      <4>1. PICK from, to \in RunnerPc : Move(r, from, to) /\ from # "idle"
        BY <3>10 DEF Post, RunnerPc, NextPost
      <4>2. QED
        BY <3>10, <4>1, <3>a, <3>b, MoveType DEF Post
    <3>11. CASE Raise(r)
      <4>1. PICK from, to \in RunnerPc : Move(r, from, to) /\ from # "idle"
        BY <3>11 DEF Raise, RunnerPc
      <4>2. QED
        BY <3>11, <4>1, <3>a, <3>b, MoveType DEF Raise
    <3>12. CASE FailSelect(r)
      BY <3>12, <3>a, <3>b, MoveType DEF FailSelect, RunnerPc
    <3>13. CASE FailCommit(r)
      <4>1. PICK from, to \in RunnerPc, st \in Status :
                MoveWriting(r, from, to, st) /\ from # "idle"
        BY <3>13 DEF FailCommit, RunnerPc, Status
      <4>2. QED
        BY <3>13, <4>1, <3>a, MoveWritingType DEF FailCommit, TypeOK
    <3>14. CASE Crash(r)
      <4>1. PICK from, to \in RunnerPc : Move(r, from, to) /\ from # "idle"
        BY <3>14 DEF Crash, RunnerPc
      <4>2. QED
        BY <3>14, <4>1, <3>a, <3>b, MoveType DEF Crash
    <3>15. QED
      BY <2>4, <3>1, <3>2, <3>3, <3>4, <3>5, <3>6, <3>7, <3>8, <3>9, <3>10,
         <3>11, <3>12, <3>13, <3>14 DEF Run
  <2>5. CASE Environment
    <3>1. ASSUME NEW s \in Scans, AgeCreated(s) PROVE TypeOK'
      BY <3>1 DEF AgeCreated, Age
    <3>2. ASSUME NEW s \in Scans, AgeStarted(s) PROVE TypeOK'
      BY <3>2 DEF AgeStarted, Age
    <3>3. ASSUME NEW s \in Scans, LoseTask(s) PROVE TypeOK'
      BY <3>3 DEF LoseTask
    <3>4. CASE Midnight
      BY <3>4 DEF Midnight
    <3>5. CASE Revoke
      BY <3>5 DEF Revoke
    <3>6. CASE Authorize
      BY <3>6 DEF Authorize
    <3>7. QED
      BY <2>5, <3>1, <3>2, <3>3, <3>4, <3>5, <3>6 DEF Environment
  <2>6. CASE UNCHANGED vars
    BY <2>6 DEF vars
  <2>7. QED
    BY <2>1, <2>2, <2>3, <2>4, <2>5, <2>6 DEF Next
<1>3. QED
  BY <1>1, <1>2, PTL DEF Spec

-----------------------------------------------------------------------------
(* The inductive invariant behind the safety properties                     *)

\* A row some process may write is committed; ids of new rows are distinct.
Presence ==
    /\ \A a \in Sessions : spc[a] # "idle" => status[sjob[a]] = "absent"
    /\ \A a, b \in Sessions : spc[a] # "idle" /\ spc[b] # "idle" /\ sjob[a] = sjob[b] => a = b
    /\ \A c \in Cancellers : cancelling[c] # NoScan => status[cancelling[c]] # "absent"
    /\ \A w \in Sweepers : \A s \in sweeping[w] : status[s] # "absent"
    /\ \A r \in Runners : rpc[r] \in {"claim", "failCommit"} => status[rjob[r]] # "absent"
    /\ \A s \in Scans : status[s] = "absent" => started[s] = "never"

\* No committed write leads back to "queued", so a claim is won only once.
Ownership ==
    /\ \A r \in Runners : rpc[r] \in Owning =>
          status[rjob[r]] \notin {"absent", "queued"} /\ started[rjob[r]] # "never"
    /\ \A s \in results : status[s] \notin {"absent", "queued"}
    /\ \A s \in Scans : status[s] = "queued" => started[s] = "never"

\* While the target is authorized every claimed scan counts as cleared.
Clearance == \A s \in Scans : authorized /\ started[s] # "never" => s \in cleared

IInv == /\ TypeOK /\ Presence /\ Ownership /\ Clearance
        /\ SingleRunner /\ NoRework /\ AuthorizedSinceClaim

\* The initial states satisfy the inductive invariant.
LEMMA InvInit == Init => IInv
BY ScansAssumption, TypeInit DEF Init, IInv, TypeOK, Presence, Ownership, Clearance, SingleRunner,
      NoRework, AuthorizedSinceClaim, Owning, Executing, PostSteps

\* The actions of the API, the sweepers and the environment keep it.
LEMMA InvOthers ==
    ASSUME IInv, TypeOK',
           \/ \E a \in Sessions : Create(a)
           \/ \E c \in Cancellers : Cancel(c)
           \/ \E w \in Sweepers : Sweep(w)
           \/ Environment
    PROVE  IInv'
<1> USE DEF IInv, row, api, runner
<1> USE ScansAssumption
<1>1. ASSUME NEW a \in Sessions, NEW s \in Scans, CreateAuthorize(a, s) PROVE IInv'
  <2>1. Presence'
    BY <1>1 DEF CreateAuthorize, Fresh, Presence, TypeOK, Active
  <2>2. Ownership'
    BY <1>1 DEF CreateAuthorize, Fresh, Presence, Ownership, TypeOK
  <2>3. Clearance' /\ SingleRunner' /\ NoRework' /\ AuthorizedSinceClaim'
    BY <1>1 DEF CreateAuthorize, Fresh, Clearance, SingleRunner, NoRework, AuthorizedSinceClaim, TypeOK
  <2>4. QED
    BY <2>1, <2>2, <2>3
<1>2. ASSUME NEW a \in Sessions, CreateAdmit(a) PROVE IInv'
  <2>1. Presence'
    BY <1>2 DEF CreateAdmit, Presence, TypeOK, Active
  <2>2. Ownership'
    BY <1>2 DEF CreateAdmit, Presence, Ownership, TypeOK
  <2>3. Clearance' /\ SingleRunner' /\ NoRework' /\ AuthorizedSinceClaim'
    BY <1>2 DEF CreateAdmit, Clearance, SingleRunner, NoRework, AuthorizedSinceClaim, TypeOK
  <2>4. QED
    BY <2>1, <2>2, <2>3
<1>3. ASSUME NEW a \in Sessions, Dispatch(a) PROVE IInv'
  <2>1. Presence'
    BY <1>3 DEF Dispatch, Presence, TypeOK, Active
  <2>2. Ownership'
    BY <1>3 DEF Dispatch, Presence, Ownership, TypeOK
  <2>3. Clearance' /\ SingleRunner' /\ NoRework' /\ AuthorizedSinceClaim'
    BY <1>3 DEF Dispatch, Clearance, SingleRunner, NoRework, AuthorizedSinceClaim, TypeOK
  <2>4. QED
    BY <2>1, <2>2, <2>3
<1>4. ASSUME NEW a \in Sessions, CreateCommit(a) PROVE IInv'
  <2>1. Presence'
    BY <1>4 DEF CreateCommit, Presence, TypeOK, Active
  <2>2. Ownership'
    BY <1>4 DEF CreateCommit, Presence, Ownership, TypeOK
  <2>3. Clearance' /\ SingleRunner' /\ NoRework' /\ AuthorizedSinceClaim'
    BY <1>4 DEF CreateCommit, Clearance, SingleRunner, NoRework, AuthorizedSinceClaim, TypeOK
  <2>4. QED
    BY <2>1, <2>2, <2>3
<1>5. ASSUME NEW a \in Sessions, CreateAbort(a) PROVE IInv'
  <2>1. Presence'
    BY <1>5 DEF CreateAbort, Presence, TypeOK, Active
  <2>2. Ownership'
    BY <1>5 DEF CreateAbort, Presence, Ownership, TypeOK
  <2>3. Clearance' /\ SingleRunner' /\ NoRework' /\ AuthorizedSinceClaim'
    BY <1>5 DEF CreateAbort, Clearance, SingleRunner, NoRework, AuthorizedSinceClaim, TypeOK
  <2>4. QED
    BY <2>1, <2>2, <2>3
<1>6. ASSUME NEW c \in Cancellers, NEW s \in Scans, CancelSelect(c, s) PROVE IInv'
  <2>1. Presence'
    BY <1>6 DEF CancelSelect, Presence, TypeOK, Active
  <2>2. Ownership'
    BY <1>6 DEF CancelSelect, Presence, Ownership, TypeOK
  <2>3. Clearance' /\ SingleRunner' /\ NoRework' /\ AuthorizedSinceClaim'
    BY <1>6 DEF CancelSelect, Clearance, SingleRunner, NoRework, AuthorizedSinceClaim, TypeOK
  <2>4. QED
    BY <2>1, <2>2, <2>3
<1>7. ASSUME NEW c \in Cancellers, CancelCommit(c) PROVE IInv'
  <2>1. Presence'
    BY <1>7 DEF CancelCommit, Presence, TypeOK, Active
  <2>2. Ownership'
    BY <1>7 DEF CancelCommit, Presence, Ownership, TypeOK
  <2>3. Clearance' /\ SingleRunner' /\ NoRework' /\ AuthorizedSinceClaim'
    BY <1>7 DEF CancelCommit, Clearance, SingleRunner, NoRework, AuthorizedSinceClaim, TypeOK
  <2>4. QED
    BY <2>1, <2>2, <2>3
<1>8. ASSUME NEW c \in Cancellers, CancelAbort(c) PROVE IInv'
  <2>1. Presence'
    BY <1>8 DEF CancelAbort, Presence, TypeOK, Active
  <2>2. Ownership'
    BY <1>8 DEF CancelAbort, Presence, Ownership, TypeOK
  <2>3. Clearance' /\ SingleRunner' /\ NoRework' /\ AuthorizedSinceClaim'
    BY <1>8 DEF CancelAbort, Clearance, SingleRunner, NoRework, AuthorizedSinceClaim, TypeOK
  <2>4. QED
    BY <2>1, <2>2, <2>3
<1>9. ASSUME NEW w \in Sweepers, SweepSelect(w) PROVE IInv'
  <2>1. Presence'
    BY <1>9 DEF SweepSelect, ActiveScans, Active, Presence, TypeOK, Active
  <2>2. Ownership'
    BY <1>9 DEF SweepSelect, ActiveScans, Active, Presence, Ownership, TypeOK
  <2>3. Clearance' /\ SingleRunner' /\ NoRework' /\ AuthorizedSinceClaim'
    BY <1>9 DEF SweepSelect, ActiveScans, Active, Clearance, SingleRunner, NoRework, AuthorizedSinceClaim, TypeOK
  <2>4. QED
    BY <2>1, <2>2, <2>3
<1>10. ASSUME NEW w \in Sweepers, SweepCommit(w) PROVE IInv'
  <2>1. Presence'
    BY <1>10 DEF SweepCommit, Presence, TypeOK, Active
  <2>2. Ownership'
    BY <1>10 DEF SweepCommit, Presence, Ownership, TypeOK, Owning, Executing, PostSteps
  <2>3. Clearance' /\ SingleRunner' /\ NoRework' /\ AuthorizedSinceClaim'
    BY <1>10 DEF SweepCommit, Clearance, SingleRunner, NoRework, AuthorizedSinceClaim, TypeOK
  <2>4. QED
    BY <2>1, <2>2, <2>3
<1>11. ASSUME NEW w \in Sweepers, SweepAbort(w) PROVE IInv'
  <2>1. Presence'
    BY <1>11 DEF SweepAbort, Presence, TypeOK, Active
  <2>2. Ownership'
    BY <1>11 DEF SweepAbort, Presence, Ownership, TypeOK
  <2>3. Clearance' /\ SingleRunner' /\ NoRework' /\ AuthorizedSinceClaim'
    BY <1>11 DEF SweepAbort, Clearance, SingleRunner, NoRework, AuthorizedSinceClaim, TypeOK
  <2>4. QED
    BY <2>1, <2>2, <2>3
<1>12. ASSUME NEW s \in Scans, AgeCreated(s) PROVE IInv'
  <2>1. Presence'
    BY <1>12 DEF AgeCreated, Presence, TypeOK, Active
  <2>2. Ownership'
    BY <1>12 DEF AgeCreated, Presence, Ownership, TypeOK
  <2>3. Clearance' /\ SingleRunner' /\ NoRework' /\ AuthorizedSinceClaim'
    BY <1>12 DEF AgeCreated, Clearance, SingleRunner, NoRework, AuthorizedSinceClaim, TypeOK
  <2>4. QED
    BY <2>1, <2>2, <2>3
<1>13. ASSUME NEW s \in Scans, AgeStarted(s) PROVE IInv'
  <2>1. Presence'
    BY <1>13 DEF AgeStarted, Presence, TypeOK, Active
  <2>2. Ownership'
    BY <1>13 DEF AgeStarted, Presence, Ownership, TypeOK
  <2>3. Clearance' /\ SingleRunner' /\ NoRework' /\ AuthorizedSinceClaim'
    BY <1>13 DEF AgeStarted, Clearance, SingleRunner, NoRework, AuthorizedSinceClaim, TypeOK
  <2>4. QED
    BY <2>1, <2>2, <2>3
<1>14. ASSUME NEW s \in Scans, LoseTask(s) PROVE IInv'
  <2>1. Presence'
    BY <1>14 DEF LoseTask, Presence, TypeOK, Active
  <2>2. Ownership'
    BY <1>14 DEF LoseTask, Presence, Ownership, TypeOK
  <2>3. Clearance' /\ SingleRunner' /\ NoRework' /\ AuthorizedSinceClaim'
    BY <1>14 DEF LoseTask, Clearance, SingleRunner, NoRework, AuthorizedSinceClaim, TypeOK
  <2>4. QED
    BY <2>1, <2>2, <2>3
<1>15. ASSUME Midnight PROVE IInv'
  <2>1. Presence'
    BY <1>15 DEF Midnight, Presence, TypeOK, Active
  <2>2. Ownership'
    BY <1>15 DEF Midnight, Presence, Ownership, TypeOK
  <2>3. Clearance' /\ SingleRunner' /\ NoRework' /\ AuthorizedSinceClaim'
    BY <1>15 DEF Midnight, Clearance, SingleRunner, NoRework, AuthorizedSinceClaim, TypeOK
  <2>4. QED
    BY <2>1, <2>2, <2>3
<1>16. ASSUME Revoke PROVE IInv'
  <2>1. Presence'
    BY <1>16 DEF Revoke, Presence, TypeOK, Active
  <2>2. Ownership'
    BY <1>16 DEF Revoke, Presence, Ownership, TypeOK
  <2>3. Clearance' /\ SingleRunner' /\ NoRework' /\ AuthorizedSinceClaim'
    BY <1>16 DEF Revoke, Clearance, SingleRunner, NoRework, AuthorizedSinceClaim, TypeOK
  <2>4. QED
    BY <2>1, <2>2, <2>3
<1>17. ASSUME Authorize PROVE IInv'
  <2>1. Presence'
    BY <1>17 DEF Authorize, Presence, TypeOK, Active
  <2>2. Ownership'
    BY <1>17 DEF Authorize, Presence, Ownership, TypeOK
  <2>3. Clearance' /\ SingleRunner' /\ NoRework' /\ AuthorizedSinceClaim'
    BY <1>17 DEF Authorize, Clearance, SingleRunner, NoRework, AuthorizedSinceClaim, TypeOK
  <2>4. QED
    BY <2>1, <2>2, <2>3
<1>18. QED
  BY <1>1, <1>2, <1>3, <1>4, <1>5, <1>6, <1>7, <1>8, <1>9, <1>10, <1>11, <1>12, <1>13, <1>14, <1>15, <1>16, <1>17 DEF Create, Cancel, Sweep, Environment

\* The steps of run_scan_job keep it.
LEMMA InvRun ==
    ASSUME IInv, TypeOK', NEW r \in Runners, Run(r)
    PROVE  IInv'
<1> USE DEF IInv, row, api, runner, Move, MoveWriting, Owning, Executing, PostSteps
<1> USE ScansAssumption
<1>1. ASSUME NEW s \in Scans, Start(r, s) PROVE IInv'
  <2>1. Presence'
    BY <1>1 DEF Start, Deliverable, Presence, Ownership, TypeOK
  <2>2. Ownership'
    BY <1>1 DEF Start, Deliverable, Presence, Ownership, TypeOK
  <2>3. Clearance' /\ AuthorizedSinceClaim'
    BY <1>1 DEF Start, Deliverable, Presence, Ownership, Clearance, AuthorizedSinceClaim, TypeOK
  <2>4. SingleRunner' /\ NoRework'
    BY <1>1 DEF Start, Deliverable, Ownership, SingleRunner, NoRework, TypeOK
  <2>5. QED
    BY <2>1, <2>2, <2>3, <2>4
<1>2. CASE Select(r)
  <2>1. Presence'
    BY <1>2 DEF Select, Presence, Ownership, TypeOK
  <2>2. Ownership'
    BY <1>2 DEF Select, Presence, Ownership, TypeOK
  <2>3. Clearance' /\ AuthorizedSinceClaim'
    BY <1>2 DEF Select, Presence, Ownership, Clearance, AuthorizedSinceClaim, TypeOK
  <2>4. SingleRunner' /\ NoRework'
    BY <1>2 DEF Select, Ownership, SingleRunner, NoRework, TypeOK
  <2>5. QED
    BY <2>1, <2>2, <2>3, <2>4
<1>3. CASE Claim(r)
  <2>1. Presence'
    BY <1>3 DEF Claim, Presence, Ownership, TypeOK
  <2>2. Ownership'
    BY <1>3 DEF Claim, Presence, Ownership, TypeOK
  <2>3. Clearance' /\ AuthorizedSinceClaim'
    BY <1>3 DEF Claim, Presence, Ownership, Clearance, AuthorizedSinceClaim, TypeOK
  <2>4. SingleRunner' /\ NoRework'
    BY <1>3 DEF Claim, Ownership, SingleRunner, NoRework, TypeOK
  <2>5. QED
    BY <2>1, <2>2, <2>3, <2>4
<1>4. CASE MarkRunning(r)
  <2>1. Presence'
    BY <1>4 DEF MarkRunning, Presence, Ownership, TypeOK
  <2>2. Ownership'
    BY <1>4 DEF MarkRunning, Presence, Ownership, TypeOK
  <2>3. Clearance' /\ AuthorizedSinceClaim'
    BY <1>4 DEF MarkRunning, Presence, Ownership, Clearance, AuthorizedSinceClaim, TypeOK
  <2>4. SingleRunner' /\ NoRework'
    BY <1>4 DEF MarkRunning, Ownership, SingleRunner, NoRework, TypeOK
  <2>5. QED
    BY <2>1, <2>2, <2>3, <2>4
<1>5. CASE Recheck(r)
  <2>1. Presence'
    BY <1>5 DEF Recheck, Presence, Ownership, TypeOK
  <2>2. Ownership'
    BY <1>5 DEF Recheck, Presence, Ownership, TypeOK
  <2>3. Clearance' /\ AuthorizedSinceClaim'
    BY <1>5 DEF Recheck, Presence, Ownership, Clearance, AuthorizedSinceClaim, TypeOK
  <2>4. SingleRunner' /\ NoRework'
    BY <1>5 DEF Recheck, Ownership, SingleRunner, NoRework, TypeOK
  <2>5. QED
    BY <2>1, <2>2, <2>3, <2>4
<1>6. CASE Scan(r)
  <2>1. Presence'
    BY <1>6 DEF Scan, Presence, Ownership, TypeOK
  <2>2. Ownership'
    BY <1>6 DEF Scan, Presence, Ownership, TypeOK
  <2>3. Clearance' /\ AuthorizedSinceClaim'
    BY <1>6 DEF Scan, Presence, Ownership, Clearance, AuthorizedSinceClaim, TypeOK
  <2>4. SingleRunner' /\ NoRework'
    BY <1>6 DEF Scan, Ownership, SingleRunner, NoRework, TypeOK
  <2>5. QED
    BY <2>1, <2>2, <2>3, <2>4
<1>7. CASE MarkFailed(r)
  <2>1. Presence'
    BY <1>7 DEF MarkFailed, Presence, Ownership, TypeOK
  <2>2. Ownership'
    BY <1>7 DEF MarkFailed, Presence, Ownership, TypeOK
  <2>3. Clearance' /\ AuthorizedSinceClaim'
    BY <1>7 DEF MarkFailed, Presence, Ownership, Clearance, AuthorizedSinceClaim, TypeOK
  <2>4. SingleRunner' /\ NoRework'
    BY <1>7 DEF MarkFailed, Ownership, SingleRunner, NoRework, TypeOK
  <2>5. QED
    BY <2>1, <2>2, <2>3, <2>4
<1>8. CASE MarkParsing(r)
  <2>1. Presence'
    BY <1>8 DEF MarkParsing, Presence, Ownership, TypeOK
  <2>2. Ownership'
    BY <1>8 DEF MarkParsing, Presence, Ownership, TypeOK
  <2>3. Clearance' /\ AuthorizedSinceClaim'
    BY <1>8 DEF MarkParsing, Presence, Ownership, Clearance, AuthorizedSinceClaim, TypeOK
  <2>4. SingleRunner' /\ NoRework'
    BY <1>8 DEF MarkParsing, Ownership, SingleRunner, NoRework, TypeOK
  <2>5. QED
    BY <2>1, <2>2, <2>3, <2>4
<1>9. CASE Publish(r)
  <2>1. Presence'
    BY <1>9 DEF Publish, Presence, Ownership, TypeOK
  <2>2. Ownership'
    BY <1>9 DEF Publish, Presence, Ownership, TypeOK
  <2>3. Clearance' /\ AuthorizedSinceClaim'
    BY <1>9 DEF Publish, Presence, Ownership, Clearance, AuthorizedSinceClaim, TypeOK
  <2>4. SingleRunner' /\ NoRework'
    BY <1>9 DEF Publish, Ownership, SingleRunner, NoRework, TypeOK
  <2>5. QED
    BY <2>1, <2>2, <2>3, <2>4
<1>10. CASE Post(r)
  <2>1. Presence'
    BY <1>10 DEF Post, NextPost, Presence, Ownership, TypeOK
  <2>2. Ownership'
    BY <1>10 DEF Post, NextPost, Presence, Ownership, TypeOK
  <2>3. Clearance' /\ AuthorizedSinceClaim'
    BY <1>10 DEF Post, NextPost, Presence, Ownership, Clearance, AuthorizedSinceClaim, TypeOK
  <2>4. SingleRunner' /\ NoRework'
    BY <1>10 DEF Post, NextPost, Ownership, SingleRunner, NoRework, TypeOK
  <2>5. QED
    BY <2>1, <2>2, <2>3, <2>4
<1>11. CASE Raise(r)
  <2>1. Presence'
    BY <1>11 DEF Raise, TryBlock, Presence, Ownership, TypeOK
  <2>2. Ownership'
    BY <1>11 DEF Raise, TryBlock, Presence, Ownership, TypeOK
  <2>3. Clearance' /\ AuthorizedSinceClaim'
    BY <1>11 DEF Raise, TryBlock, Presence, Ownership, Clearance, AuthorizedSinceClaim, TypeOK
  <2>4. SingleRunner' /\ NoRework'
    BY <1>11 DEF Raise, TryBlock, Ownership, SingleRunner, NoRework, TypeOK
  <2>5. QED
    BY <2>1, <2>2, <2>3, <2>4
<1>12. CASE FailSelect(r)
  <2>1. Presence'
    BY <1>12 DEF FailSelect, Terminal, Presence, Ownership, TypeOK
  <2>2. Ownership'
    BY <1>12 DEF FailSelect, Terminal, Presence, Ownership, TypeOK
  <2>3. Clearance' /\ AuthorizedSinceClaim'
    BY <1>12 DEF FailSelect, Terminal, Presence, Ownership, Clearance, AuthorizedSinceClaim, TypeOK
  <2>4. SingleRunner' /\ NoRework'
    BY <1>12 DEF FailSelect, Terminal, Ownership, SingleRunner, NoRework, TypeOK
  <2>5. QED
    BY <2>1, <2>2, <2>3, <2>4
<1>13. CASE FailCommit(r)
  <2>1. Presence'
    BY <1>13 DEF FailCommit, Presence, Ownership, TypeOK
  <2>2. Ownership'
    BY <1>13 DEF FailCommit, Presence, Ownership, TypeOK
  <2>3. Clearance' /\ AuthorizedSinceClaim'
    BY <1>13 DEF FailCommit, Presence, Ownership, Clearance, AuthorizedSinceClaim, TypeOK
  <2>4. SingleRunner' /\ NoRework'
    BY <1>13 DEF FailCommit, Ownership, SingleRunner, NoRework, TypeOK
  <2>5. QED
    BY <2>1, <2>2, <2>3, <2>4
<1>14. CASE Crash(r)
  <2>1. Presence'
    BY <1>14 DEF Crash, RunnerPc, TryBlock, Presence, Ownership, TypeOK
  <2>2. Ownership'
    BY <1>14 DEF Crash, RunnerPc, TryBlock, Presence, Ownership, TypeOK
  <2>3. Clearance' /\ AuthorizedSinceClaim'
    BY <1>14 DEF Crash, RunnerPc, TryBlock, Presence, Ownership, Clearance, AuthorizedSinceClaim, TypeOK
  <2>4. SingleRunner' /\ NoRework'
    BY <1>14 DEF Crash, RunnerPc, TryBlock, Ownership, SingleRunner, NoRework, TypeOK
  <2>5. QED
    BY <2>1, <2>2, <2>3, <2>4
<1>15. QED
  BY <1>1, <1>2, <1>3, <1>4, <1>5, <1>6, <1>7, <1>8, <1>9, <1>10, <1>11, <1>12, <1>13, <1>14 DEF Run

\* The inductive invariant holds in every reachable state.
THEOREM Invariance == Spec => []IInv
<1>1. Init => IInv
  BY InvInit
<1>2. IInv /\ TypeOK' /\ [Next]_vars => IInv'
  <2> SUFFICES ASSUME IInv, TypeOK', [Next]_vars PROVE IInv'
    OBVIOUS
  <2>1. ASSUME NEW r \in Runners, Run(r) PROVE IInv'
    BY <2>1, InvRun
  <2>2. CASE UNCHANGED vars
    BY <2>2 DEF vars, IInv, TypeOK, Presence, Ownership, Clearance, SingleRunner,
                NoRework, AuthorizedSinceClaim
  <2>3. QED
    BY <2>1, <2>2, InvOthers DEF Next
<1>3. QED
  BY <1>1, <1>2, TypeCorrect, PTL DEF Spec

\* At most one run_scan_job is past the claim of a scan, for any number of
\* runners and deliveries.
THEOREM AtMostOneRunner == Spec => []SingleRunner
<1>1. IInv => SingleRunner
  BY DEF IInv
<1>2. QED
  BY <1>1, Invariance, PTL

\* A scan whose findings are committed is never worked again.
THEOREM NoSecondRun == Spec => []NoRework
<1>1. IInv => NoRework
  BY DEF IInv
<1>2. QED
  BY <1>1, Invariance, PTL

\* Scanners run and findings are committed only for a scan whose target was
\* authorized at some moment since the claim.
THEOREM AuthorizationRespected == Spec => []AuthorizedSinceClaim
<1>1. IInv => AuthorizedSinceClaim
  BY DEF IInv
<1>2. QED
  BY <1>1, Invariance, PTL

-----------------------------------------------------------------------------
(* The daily quota                                                          *)

\* Sessions that counted the day's scans and have yet to commit theirs.
Counted == {a \in Sessions : spc[a] \in {"admitted", "dispatched"} /\ sjob[a] \notin AdminScans}

\* Each counted session saw room for one more scan, and they saw it at most
\* once each: committed and counted scans together stay within the bound.
QuotaInv == Cardinality(today \ AdminScans) + Cardinality(Counted)
               <= DailyQuota - 1 + Cardinality(Sessions)

\* Cardinalities of the sets involved are naturals, and Counted is bounded.
LEMMA QuotaFinite ==
    ASSUME TypeOK
    PROVE  /\ IsFiniteSet(today) /\ IsFiniteSet(today \ AdminScans) /\ IsFiniteSet(Counted)
           /\ Cardinality(Counted) \in Nat /\ Cardinality(Sessions) \in Nat
           /\ Cardinality(today) \in Nat /\ Cardinality(today \ AdminScans) \in Nat
           /\ Cardinality(Counted) <= Cardinality(Sessions)
           /\ Cardinality(today \ AdminScans) <= Cardinality(today)
<1>1. IsFiniteSet(today) /\ IsFiniteSet(Sessions)
  BY FS_Subset, FiniteAssumption DEF TypeOK
<1>2. today \ AdminScans \subseteq today /\ Counted \subseteq Sessions
  BY DEF Counted
<1>3. QED
  BY <1>1, <1>2, FS_Subset, FS_CardinalityType

\* A step that neither adds a scan to the day nor a session to the counted
\* ones keeps the bound.
LEMMA QuotaShrink ==
    ASSUME TypeOK, TypeOK', QuotaInv, today' \subseteq today, Counted' \subseteq Counted
    PROVE  QuotaInv'
<1>1. /\ IsFiniteSet(today \ AdminScans) /\ IsFiniteSet(Counted)
      /\ Cardinality(today \ AdminScans) \in Nat /\ Cardinality(Counted) \in Nat
      /\ Cardinality(Sessions) \in Nat
  BY QuotaFinite
<1>2. (today \ AdminScans)' \subseteq today \ AdminScans
  OBVIOUS
<1>3. /\ Cardinality((today \ AdminScans)') <= Cardinality(today \ AdminScans)
      /\ Cardinality(Counted') <= Cardinality(Counted)
      /\ Cardinality((today \ AdminScans)') \in Nat /\ Cardinality(Counted') \in Nat
  BY <1>1, <1>2, FS_Subset, FS_CardinalityType
<1>4. QED
  BY <1>1, <1>3, LimitsAssumption DEF QuotaInv

\* Every step keeps the bound.
LEMMA QuotaStep ==
    ASSUME TypeOK, TypeOK', QuotaInv, [Next]_vars
    PROVE  QuotaInv'
<1> USE DEF row, api, runner
<1>1. ASSUME NEW a \in Sessions, CreateAdmit(a) PROVE QuotaInv'
  <2>1. CASE sjob[a] \in AdminScans
    <3>1. Counted' = Counted /\ today' = today
      BY <1>1, <2>1 DEF CreateAdmit, Counted, TypeOK
    <3>2. QED
      BY <3>1, QuotaShrink
  <2>2. CASE sjob[a] \notin AdminScans
    <3>1. Cardinality(today) < DailyQuota /\ today' = today
      BY <1>1, <2>2 DEF CreateAdmit, WithinLimits
    <3>2. /\ Cardinality(today) \in Nat /\ Cardinality(today \ AdminScans) \in Nat
          /\ Cardinality(today \ AdminScans) <= Cardinality(today)
          /\ Cardinality(Sessions) \in Nat
      BY QuotaFinite
    <3>3. Cardinality(Counted)' \in Nat /\ Cardinality(Counted)' <= Cardinality(Sessions)
      <4>1. Counted' \subseteq Sessions
        BY DEF Counted
      <4>2. QED
        BY <4>1, FS_Subset, FS_CardinalityType, FiniteAssumption
    <3>4. QED
      BY <3>1, <3>2, <3>3, LimitsAssumption DEF QuotaInv
  <2>3. QED
    BY <2>1, <2>2
<1>2. ASSUME NEW a \in Sessions, CreateCommit(a) PROVE QuotaInv'
  <2>1. CASE sjob[a] \in AdminScans
    <3>1. Counted' = Counted /\ (today \ AdminScans)' = today \ AdminScans
      BY <1>2, <2>1 DEF CreateCommit, Counted, TypeOK
    <3>2. QED
      BY <3>1 DEF QuotaInv
  <2>2. CASE sjob[a] \notin AdminScans
    <3>1. /\ a \in Counted /\ Counted' = Counted \ {a}
          /\ (today \ AdminScans)' = (today \ AdminScans) \cup {sjob[a]}
      BY <1>2, <2>2 DEF CreateCommit, Counted, TypeOK
    <3>2. /\ IsFiniteSet(today \ AdminScans) /\ IsFiniteSet(Counted)
          /\ Cardinality(today \ AdminScans) \in Nat /\ Cardinality(Counted) \in Nat
          /\ Cardinality(Sessions) \in Nat
      BY QuotaFinite
    <3>3. Cardinality(Counted') = Cardinality(Counted) - 1
      BY <3>1, <3>2, FS_RemoveElement
    <3>4. /\ Cardinality((today \ AdminScans)') <= Cardinality(today \ AdminScans) + 1
          /\ Cardinality((today \ AdminScans)') \in Nat
      <4>1. CASE sjob[a] \in today \ AdminScans
        <5>1. (today \ AdminScans)' = today \ AdminScans
          BY <3>1, <4>1
        <5>2. QED
          BY <5>1, <3>2
      <4>2. CASE sjob[a] \notin today \ AdminScans
        <5>1. Cardinality((today \ AdminScans) \cup {sjob[a]}) = Cardinality(today \ AdminScans) + 1
          BY <3>2, <4>2, FS_AddElement
        <5>2. Cardinality((today \ AdminScans)') = Cardinality((today \ AdminScans) \cup {sjob[a]})
          BY <3>1, Zenon
        <5>3. QED
          BY <5>1, <5>2, <3>2
      <4>3. QED
        BY <4>1, <4>2
    <3>5. QED
      BY <3>2, <3>3, <3>4, LimitsAssumption DEF QuotaInv
  <2>3. QED
    BY <2>1, <2>2
<1>3. ASSUME NEW a \in Sessions, NEW s \in Scans, CreateAuthorize(a, s) PROVE QuotaInv'
  <2>1. Counted' \subseteq Counted /\ today' = today
    BY <1>3 DEF CreateAuthorize, Counted, TypeOK
  <2>2. QED
    BY <2>1, QuotaShrink
<1>4. ASSUME NEW a \in Sessions, Dispatch(a) \/ CreateAbort(a) PROVE QuotaInv'
  <2>1. Counted' \subseteq Counted /\ today' = today
    BY <1>4 DEF Dispatch, CreateAbort, Counted, TypeOK
  <2>2. QED
    BY <2>1, QuotaShrink
<1>5. CASE UNCHANGED api /\ today' \subseteq today
  <2>1. Counted' = Counted
    BY <1>5 DEF Counted
  <2>2. QED
    BY <1>5, <2>1, QuotaShrink
<1>6. ASSUME NEW c \in Cancellers, Cancel(c) PROVE UNCHANGED api /\ today' \subseteq today
  BY <1>6 DEF Cancel, CancelSelect, CancelCommit, CancelAbort
<1>7. ASSUME NEW w \in Sweepers, Sweep(w) PROVE UNCHANGED api /\ today' \subseteq today
  BY <1>7 DEF Sweep, SweepSelect, SweepCommit, SweepAbort
<1>8. ASSUME NEW r \in Runners, Run(r) PROVE UNCHANGED api /\ today' \subseteq today
  BY <1>8 DEF Run, Start, Select, Claim, MarkRunning, Recheck, Scan, MarkFailed, MarkParsing,
              Publish, Post, Raise, FailSelect, FailCommit, Crash, Move, MoveWriting
<1>9. ASSUME Environment PROVE UNCHANGED api /\ today' \subseteq today
  BY <1>9 DEF Environment, AgeCreated, AgeStarted, LoseTask, Midnight, Revoke, Authorize
<1>10. ASSUME UNCHANGED vars PROVE UNCHANGED api /\ today' \subseteq today
  BY <1>10 DEF vars
<1>11. QED
  BY <1>1, <1>2, <1>3, <1>4, <1>5, <1>6, <1>7, <1>8, <1>9, <1>10 DEF Next, Create

\* Racing API sessions exceed the daily quota by fewer scans than there are
\* sessions; one session alone never exceeds it.
THEOREM QuotaOvershoot == Spec => []QuotaOvershootBounded
<1>1. Init => QuotaInv
  <2> SUFFICES ASSUME Init PROVE QuotaInv
    OBVIOUS
  <2>1. today \ AdminScans = {} /\ Counted = {}
    BY DEF Init, Counted
  <2>2. Cardinality(today \ AdminScans) = 0 /\ Cardinality(Counted) = 0
    BY <2>1, FS_EmptySet
  <2>3. Cardinality(Sessions) \in Nat
    BY FS_CardinalityType, FiniteAssumption
  <2>4. QED
    BY <2>2, <2>3, LimitsAssumption DEF QuotaInv
<1>2. TypeOK /\ TypeOK' /\ QuotaInv /\ [Next]_vars => QuotaInv'
  BY QuotaStep
<1>3. TypeOK /\ QuotaInv => QuotaOvershootBounded
  <2> SUFFICES ASSUME TypeOK, QuotaInv PROVE QuotaOvershootBounded
    OBVIOUS
  <2>1. /\ Cardinality(today \ AdminScans) \in Nat /\ Cardinality(Counted) \in Nat
        /\ Cardinality(Sessions) \in Nat
    BY QuotaFinite
  <2>2. QED
    BY <2>1, LimitsAssumption DEF QuotaInv, QuotaOvershootBounded
<1>4. QED
  BY <1>1, <1>2, <1>3, TypeCorrect, PTL DEF Spec

-----------------------------------------------------------------------------
(* The concurrency limit                                                    *)

\* The scans a runner is at work on, whatever their rows say.
InHand == {s \in Scans : \E r \in Runners : rjob[r] = s /\ rpc[r] \in Executing}

\* The scans that count against the limit, or that a runner may make count again.
Held == (ActiveScans \cup InHand) \ AdminScans

\* The bound in terms of held scans, which no runner's write can enlarge.
HeldInv == Cardinality(Held) + Cardinality(Counted)
               <= ConcurrencyLimit - 1 + Cardinality(Sessions) + Cardinality(Runners)

\* The sets whose sizes are compared are finite.
LEMMA HeldFinite ==
    /\ IsFiniteSet(Held) /\ Cardinality(Held) \in Nat
    /\ IsFiniteSet(Counted) /\ Cardinality(Counted) \in Nat
    /\ Cardinality(Counted) <= Cardinality(Sessions)
    /\ Cardinality(Sessions) \in Nat /\ Cardinality(Runners) \in Nat
<1>1. Held \subseteq Scans /\ Counted \subseteq Sessions
  BY DEF Held, ActiveScans, InHand, Counted
<1>2. QED
  BY <1>1, FS_Subset, FS_CardinalityType, FiniteAssumption

\* A step that adds neither a held scan nor a counted session keeps the bound.
LEMMA HeldShrink ==
    ASSUME HeldInv, Held' \subseteq Held, Counted' \subseteq Counted
    PROVE  HeldInv'
<1>1. /\ Cardinality(Held') <= Cardinality(Held) /\ Cardinality(Counted') <= Cardinality(Counted)
      /\ Cardinality(Held') \in Nat /\ Cardinality(Counted') \in Nat
  BY HeldFinite, FS_Subset, FS_CardinalityType
<1>2. QED
  BY <1>1, HeldFinite, LimitsAssumption DEF HeldInv

\* No more scans are in hand than there are runners.
LEMMA InHandBounded == IsFiniteSet(InHand) /\ Cardinality(InHand) <= Cardinality(Runners)
<1> DEFINE busy == {r \in Runners : rpc[r] \in Executing /\ rjob[r] \in Scans}
           job == [r \in busy |-> rjob[r]]
<1>1. IsFiniteSet(busy) /\ Cardinality(busy) <= Cardinality(Runners)
      /\ Cardinality(busy) \in Nat /\ Cardinality(Runners) \in Nat
  <2>1. busy \subseteq Runners
    OBVIOUS
  <2>2. QED
    BY <2>1, FiniteAssumption, FS_Subset, FS_CardinalityType
<1>2. job \in Surjection(busy, InHand)
  BY DEF Surjection, InHand
<1>3. IsFiniteSet(InHand) /\ Cardinality(InHand) <= Cardinality(busy)
  BY <1>1, <1>2, FS_Surjection
<1>4. QED
  BY <1>1, <1>3, FS_CardinalityType

\* A runner's move, and its write of st, enlarge the held scans only by a scan
\* that was held before.
LEMMA HeldMove ==
    ASSUME TypeOK, NEW r \in Runners, NEW from, NEW to, Move(r, from, to), from # "idle",
           \/ status' = status
           \/ \E st : /\ status' = [status EXCEPT ![rjob[r]] = st]
                      /\ st \notin Active \/ rjob[r] \in ActiveScans \cup InHand,
           to \notin Executing \/ rjob[r] \in ActiveScans \cup InHand
    PROVE  Held' \subseteq Held /\ Counted' = Counted
<1>1. /\ rpc[r] # "idle" /\ rjob[r] \in Scans
      /\ rpc' = [rpc EXCEPT ![r] = to]
      /\ rjob' = [rjob EXCEPT ![r] = IF to = "idle" THEN NoScan ELSE rjob[r]]
      /\ spc' = spc /\ sjob' = sjob
  BY DEF Move, TypeOK, api
<1>2. \A s \in Scans : s \in InHand' => s \in ActiveScans \cup InHand
  <2> SUFFICES ASSUME NEW s \in Scans, NEW q \in Runners, rjob'[q] = s, rpc'[q] \in Executing
               PROVE  s \in ActiveScans \cup InHand
    BY DEF InHand
  <2>1. CASE q = r
    BY <1>1, <2>1 DEF TypeOK, Executing
  <2>2. CASE q # r
    BY <1>1, <2>2 DEF TypeOK, InHand
  <2>3. QED
    BY <2>1, <2>2
<1>3. \A s \in Scans : s \in ActiveScans' => s \in ActiveScans \cup InHand
  BY <1>1 DEF TypeOK, ActiveScans
<1>4. Counted' = Counted
  BY <1>1 DEF Counted
<1>5. QED
  BY <1>2, <1>3, <1>4 DEF Held, ActiveScans, InHand

\* No step of a runner enlarges the held scans.
LEMMA HeldRun ==
    ASSUME TypeOK, NEW r \in Runners, Run(r)
    PROVE  Held' \subseteq Held /\ Counted' = Counted
<1>1. ASSUME NEW s \in Scans, Start(r, s) PROVE Held' \subseteq Held /\ Counted' = Counted
  <2>1. /\ rpc' = [rpc EXCEPT ![r] = "select"] /\ rjob' = [rjob EXCEPT ![r] = s]
        /\ status' = status /\ spc' = spc /\ sjob' = sjob
    BY <1>1 DEF Start, row, api
  <2>2. InHand' \subseteq InHand
    BY <2>1 DEF InHand, Executing, TypeOK
  <2>3. QED
    BY <2>1, <2>2 DEF Held, ActiveScans, Counted
<1>2. CASE Claim(r)
  <2>1. CASE status[rjob[r]] = "queued"
    <3>1. rjob[r] \in ActiveScans /\ rpc[r] = "claim"
      BY <1>2, <2>1 DEF Claim, ActiveScans, Active, TypeOK
    <3>2. Move(r, "claim", "load") /\ status' = [status EXCEPT ![rjob[r]] = "validating"]
      BY <1>2, <2>1 DEF Claim, MoveWriting
    <3>3. QED
      BY <3>1, <3>2, HeldMove
  <2>2. CASE status[rjob[r]] # "queued"
    <3>1. Move(r, "claim", "idle") /\ status' = status
      BY <1>2, <2>2 DEF Claim
    <3>2. QED
      BY <3>1, HeldMove DEF Executing
  <2>3. QED
    BY <2>1, <2>2
<1>3. ASSUME rpc[r] \in Executing PROVE rjob[r] \in InHand
  BY <1>3 DEF InHand, TypeOK, Executing
<1>4. CASE MarkRunning(r) \/ MarkParsing(r)
  <2>1. PICK from \in {"load", "parse"}, to \in {"recheck", "publish"}, st \in {"running", "parsing"} :
           Move(r, from, to) /\ status' = [status EXCEPT ![rjob[r]] = st]
    BY <1>4 DEF MarkRunning, MarkParsing, MoveWriting
  <2>2. rjob[r] \in InHand
    BY <1>3, <2>1 DEF Move, Executing
  <2>3. QED
    BY <2>1, <2>2, HeldMove
<1>5. CASE Recheck(r) \/ Scan(r)
  <2>1. PICK from \in {"recheck", "scan"}, to \in {"scan", "fail", "parse"} : Move(r, from, to) /\ status' = status
    BY <1>5 DEF Recheck, Scan
  <2>2. rjob[r] \in InHand
    BY <1>3, <2>1 DEF Move, Executing
  <2>3. QED
    BY <2>1, <2>2, HeldMove
<1>6. CASE Publish(r) \/ MarkFailed(r) \/ FailCommit(r)
  <2>1. PICK from \in {"publish", "fail", "failCommit"}, to \in {"profile", "idle", "failSelect"},
             st \in {"completed", "failed"} :
           Move(r, from, to) /\ status' = [status EXCEPT ![rjob[r]] = st]
    BY <1>6 DEF Publish, MarkFailed, FailCommit, MoveWriting
  <2>2. QED
    BY <2>1, HeldMove DEF Executing, Active
<1>7. CASE Select(r) \/ Post(r) \/ Raise(r) \/ FailSelect(r) \/ Crash(r)
  <2>1. PICK from, to : /\ Move(r, from, to) /\ from # "idle" /\ to \notin Executing
                        /\ status' = status
    <3>1. CASE Select(r)
      BY <3>1 DEF Select, Executing
    <3>2. CASE Post(r)
      BY <3>2 DEF Post, PostSteps, NextPost, Executing
    <3>3. CASE Raise(r)
      BY <3>3 DEF Raise, TryBlock, PostSteps, Executing
    <3>4. CASE FailSelect(r)
      BY <3>4 DEF FailSelect, Executing
    <3>5. CASE Crash(r)
      BY <3>5 DEF Crash, Executing
    <3>6. QED
      BY <1>7, <3>1, <3>2, <3>3, <3>4, <3>5
  <2>2. QED
    BY <2>1, HeldMove
<1>8. QED
  BY <1>1, <1>2, <1>4, <1>5, <1>6, <1>7 DEF Run

\* Every step keeps the bound.
LEMMA HeldStep ==
    ASSUME TypeOK, TypeOK', HeldInv, [Next]_vars
    PROVE  HeldInv'
<1> USE DEF row, api, runner
<1>1. ASSUME NEW a \in Sessions, CreateAdmit(a) PROVE HeldInv'
  <2>1. status' = status /\ rpc' = rpc /\ rjob' = rjob
    BY <1>1 DEF CreateAdmit
  <2>2. Held' = Held
    BY <2>1 DEF Held, ActiveScans, InHand
  <2>3. CASE sjob[a] \in AdminScans
    <3>1. Counted' = Counted
      BY <1>1, <2>3 DEF CreateAdmit, Counted, TypeOK
    <3>2. QED
      BY <2>2, <3>1, HeldShrink
  <2>4. CASE sjob[a] \notin AdminScans
    <3>1. Cardinality(ActiveScans) < ConcurrencyLimit
      BY <1>1, <2>4 DEF CreateAdmit, WithinLimits
    <3>2. IsFiniteSet(ActiveScans) /\ Cardinality(ActiveScans) \in Nat
      <4>1. ActiveScans \subseteq Scans
        BY DEF ActiveScans
      <4>2. QED
        BY <4>1, FS_Subset, FS_CardinalityType, FiniteAssumption
    <3>3. /\ Held \subseteq ActiveScans \cup InHand
          /\ IsFiniteSet(ActiveScans \cup InHand)
          /\ Cardinality(ActiveScans \cup InHand)
                = Cardinality(ActiveScans) + Cardinality(InHand) - Cardinality(ActiveScans \cap InHand)
      BY <3>2, InHandBounded, FS_Union DEF Held
    <3>4. /\ Cardinality(Held) <= Cardinality(ActiveScans \cup InHand)
          /\ Cardinality(ActiveScans \cap InHand) \in Nat /\ Cardinality(InHand) \in Nat
          /\ Cardinality(ActiveScans \cup InHand) \in Nat
      BY <3>2, <3>3, InHandBounded, FS_Subset, FS_Intersection, FS_CardinalityType
    <3>5. Cardinality(Counted)' \in Nat /\ Cardinality(Counted)' <= Cardinality(Sessions)
      <4>1. Counted' \subseteq Sessions
        BY DEF Counted
      <4>2. QED
        BY <4>1, FS_Subset, FS_CardinalityType, FiniteAssumption
    <3>6. Cardinality(Held) <= ConcurrencyLimit - 1 + Cardinality(Runners)
      BY <3>1, <3>2, <3>3, <3>4, InHandBounded, HeldFinite, LimitsAssumption
    <3>7. Cardinality(Held') = Cardinality(Held)
      BY <2>2
    <3>8. QED
      BY <3>5, <3>6, <3>7, HeldFinite, LimitsAssumption DEF HeldInv
  <2>5. QED
    BY <2>3, <2>4
<1>2. ASSUME NEW a \in Sessions, CreateCommit(a) PROVE HeldInv'
  <2>1. /\ status' = [status EXCEPT ![sjob[a]] = "queued"] /\ sjob[a] \in Scans
        /\ rpc' = rpc /\ rjob' = rjob
    BY <1>2 DEF CreateCommit, TypeOK
  <2>2. Held' \subseteq Held \cup ({sjob[a]} \ AdminScans)
    BY <2>1 DEF Held, ActiveScans, InHand, TypeOK
  <2>3. CASE sjob[a] \in AdminScans
    <3>1. Counted' = Counted
      BY <1>2, <2>3 DEF CreateCommit, Counted, TypeOK
    <3>2. QED
      BY <2>2, <2>3, <3>1, HeldShrink
  <2>4. CASE sjob[a] \notin AdminScans
    <3>1. a \in Counted /\ Counted' = Counted \ {a}
      BY <1>2, <2>4 DEF CreateCommit, Counted, TypeOK
    <3>2. Cardinality(Counted') = Cardinality(Counted) - 1
      BY <3>1, HeldFinite, FS_RemoveElement
    <3>3. /\ IsFiniteSet(Held \cup {sjob[a]})
          /\ Cardinality(Held \cup {sjob[a]}) <= Cardinality(Held) + 1
          /\ Cardinality(Held \cup {sjob[a]}) \in Nat
      <4>1. CASE sjob[a] \in Held
        <5>1. Held \cup {sjob[a]} = Held
          BY <4>1
        <5>2. Cardinality(Held \cup {sjob[a]}) = Cardinality(Held) /\ IsFiniteSet(Held \cup {sjob[a]})
          BY <5>1, HeldFinite
        <5>3. QED
          BY <5>2, HeldFinite
      <4>2. CASE sjob[a] \notin Held
        <5>1. /\ IsFiniteSet(Held \cup {sjob[a]})
              /\ Cardinality(Held \cup {sjob[a]}) = Cardinality(Held) + 1
          BY <4>2, HeldFinite, FS_AddElement
        <5>2. QED
          BY <5>1, HeldFinite
      <4>3. QED
        BY <4>1, <4>2
    <3>4. Held' \subseteq Held \cup {sjob[a]}
      BY <2>2
    <3>5. Cardinality(Held') <= Cardinality(Held \cup {sjob[a]}) /\ Cardinality(Held') \in Nat
      BY <3>3, <3>4, FS_Subset, FS_CardinalityType
    <3>6. QED
      BY <3>2, <3>3, <3>5, HeldFinite, LimitsAssumption DEF HeldInv
  <2>5. QED
    BY <2>3, <2>4
<1>3. ASSUME NEW a \in Sessions,
             \/ \E s \in Scans : CreateAuthorize(a, s)
             \/ Dispatch(a) \/ CreateAbort(a)
      PROVE HeldInv'
  <2>1. status' = status /\ rpc' = rpc /\ rjob' = rjob
    BY <1>3 DEF CreateAuthorize, Dispatch, CreateAbort
  <2>2. Counted' \subseteq Counted
    BY <1>3 DEF CreateAuthorize, Dispatch, CreateAbort, Counted, TypeOK
  <2>3. Held' = Held
    BY <2>1 DEF Held, ActiveScans, InHand
  <2>4. QED
    BY <2>2, <2>3, HeldShrink
<1>4. ASSUME NEW r \in Runners, Run(r) PROVE HeldInv'
  BY <1>4, HeldRun, HeldShrink
<1>5. CASE /\ UNCHANGED << rpc, rjob, api >>
           /\ \A s \in Scans : status'[s] \in Active => status[s] \in Active
  <2>1. Held' \subseteq Held /\ Counted' = Counted
    BY <1>5 DEF Held, ActiveScans, InHand, Counted
  <2>2. QED
    BY <2>1, HeldShrink
<1>6. ASSUME NEW c \in Cancellers, Cancel(c) PROVE HeldInv'
  <2>1. UNCHANGED << rpc, rjob, api >>
    BY <1>6 DEF Cancel, CancelSelect, CancelCommit, CancelAbort
  <2>2. \A s \in Scans : status'[s] = status[s] \/ status'[s] = "cancelled"
    BY <1>6 DEF Cancel, CancelSelect, CancelCommit, CancelAbort, TypeOK
  <2>3. QED
    BY <1>5, <2>1, <2>2 DEF Active
<1>7. ASSUME NEW w \in Sweepers, Sweep(w) PROVE HeldInv'
  <2>1. UNCHANGED << rpc, rjob, api >>
    BY <1>7 DEF Sweep, SweepSelect, SweepCommit, SweepAbort
  <2>2. \A s \in Scans : status'[s] = status[s] \/ status'[s] = "failed"
    BY <1>7 DEF Sweep, SweepSelect, SweepCommit, SweepAbort, TypeOK
  <2>3. QED
    BY <1>5, <2>1, <2>2 DEF Active
<1>8. ASSUME Environment PROVE HeldInv'
  <2>1. UNCHANGED << rpc, rjob, api, status >>
    BY <1>8 DEF Environment, AgeCreated, AgeStarted, LoseTask, Midnight, Revoke, Authorize
  <2>2. QED
    BY <1>5, <2>1
<1>9. CASE UNCHANGED vars
  BY <1>5, <1>9 DEF vars
<1>10. QED
  BY <1>1, <1>2, <1>3, <1>4, <1>6, <1>7, <1>8, <1>9 DEF Next, Create

\* The concurrency limit is exceeded by racing requests, by fewer scans than
\* there are sessions, and by scans that runners revive, one per runner.
THEOREM ConcurrencyOvershoot == Spec => []ConcurrencyOvershootBounded
<1>1. Init => HeldInv
  <2> SUFFICES ASSUME Init PROVE HeldInv
    OBVIOUS
  <2>1. Held = {} /\ Counted = {}
    BY DEF Init, Held, ActiveScans, Active, InHand, Executing, Counted
  <2>2. Cardinality(Held) = 0 /\ Cardinality(Counted) = 0
    BY <2>1, FS_EmptySet
  <2>3. QED
    BY <2>2, HeldFinite, LimitsAssumption DEF HeldInv
<1>2. TypeOK /\ TypeOK' /\ HeldInv /\ [Next]_vars => HeldInv'
  BY HeldStep
<1>3. HeldInv => ConcurrencyOvershootBounded
  <2>1. Cardinality(ActiveScans \ AdminScans) <= Cardinality(Held)
        /\ Cardinality(ActiveScans \ AdminScans) \in Nat
    <3>1. ActiveScans \ AdminScans \subseteq Held
      BY DEF Held
    <3>2. QED
      BY <3>1, HeldFinite, FS_Subset, FS_CardinalityType
  <2>2. QED
    BY <2>1, HeldFinite, LimitsAssumption DEF HeldInv, ConcurrencyOvershootBounded
<1>4. QED
  BY <1>1, <1>2, <1>3, TypeCorrect, PTL DEF Spec

-----------------------------------------------------------------------------
(* Execution at most once                                                   *)

\* A runner is executing s.
Busy(s) == \E r \in Runners : rjob[r] = s /\ rpc[r] \in Executing \cup {"fail"}

\* What the mapping reads about s is the same before and after the step.
Same(s) == /\ (started'[s] = "never") <=> (started[s] = "never")
           /\ (status'[s] = "absent") <=> (status[s] = "absent")
           /\ (s \in results') <=> (s \in results)
           /\ Busy(s)' <=> Busy(s)

\* The mapping then gives the same value.
LEMMA MapSame ==
    ASSUME NEW s \in Scans, Same(s)
    PROVE  Execution'[s] = Execution[s]
BY DEF Same, Execution, Busy

\* A step that leaves every scan the same is a stuttering step.
LEMMA MapStutter ==
    ASSUME \A s \in Scans : Same(s)
    PROVE  Execution' = Execution
<1>1. \A s \in Scans : Execution'[s] = Execution[s]
  BY MapSame
<1>2. QED
  BY <1>1 DEF Execution

\* A step that moves one scan from a value to another is a step of ScanExecution.
LEMMA MapStep ==
    ASSUME NEW s \in Scans, NEW to, Execution'[s] = to,
           \A q \in Scans \ {s} : Same(q)
    PROVE  Execution' = [Execution EXCEPT ![s] = to]
<1>1. \A q \in Scans \ {s} : Execution'[q] = Execution[q]
  BY MapSame
<1>2. /\ Execution = [q \in Scans |-> Execution[q]]
      /\ Execution' = [q \in Scans |-> Execution'[q]]
  BY DEF Execution
<1>3. QED
  BY <1>1, <1>2

\* A runner that moves leaves the other scans alone.
LEMMA MoveSame ==
    ASSUME TypeOK, NEW r \in Runners, NEW from, NEW to, Move(r, from, to), from # "idle",
           status' = status \/ \E st : status' = [status EXCEPT ![rjob[r]] = st],
           started' = started \/ \E x : started' = [started EXCEPT ![rjob[r]] = x],
           results' = results \/ results' = results \cup {rjob[r]}
    PROVE  \A q \in Scans \ {rjob[r]} : Same(q)
<1> SUFFICES ASSUME NEW q \in Scans \ {rjob[r]} PROVE Same(q)
  OBVIOUS
<1>1. Busy(q)' <=> Busy(q)
  BY ScansAssumption DEF Busy, Move, TypeOK
<1>2. QED
  BY <1>1 DEF Same, TypeOK

\* A runner that leaves the executing positions abandons its scan.
LEMMA MoveAbandons ==
    ASSUME IInv, NEW r \in Runners, NEW from \in Executing \cup {"fail"},
           NEW to \in {"idle", "failSelect"}, Move(r, from, to),
           status' = status \/ status' = [status EXCEPT ![rjob[r]] = "failed"],
           UNCHANGED << started, results >>
    PROVE  \E s \in Scans : AtMostOnce!Abandon(s)
<1> USE DEF Executing
<1>0. PICK s \in Scans : s = rjob[r]
  BY DEF IInv, TypeOK, Move
<1>1. rpc[r] = from /\ from # "idle"
  BY DEF Move
<1>2. s \notin results /\ started[s] # "never"
  BY <1>0, <1>1 DEF IInv, NoRework, Ownership, Owning
<1>3. Execution[s] = "executing"
  BY <1>0, <1>1, <1>2 DEF Execution
<1>4. ~ Busy(s)'
  BY <1>0, <1>1, ScansAssumption DEF Busy, Move, IInv, TypeOK, SingleRunner, Owning
<1>5. Execution'[s] = "abandoned"
  BY <1>2, <1>4 DEF Execution, Busy
<1>6. \A q \in Scans \ {s} : Same(q)
  BY <1>0, <1>1, MoveSame DEF IInv
<1>7. QED
  BY <1>3, <1>5, <1>6, MapStep DEF AtMostOnce!Abandon, AtMostOnce!Step

\* A runner that moves within or outside the executing positions stutters.
LEMMA MoveStutters ==
    ASSUME IInv, NEW r \in Runners, NEW from, NEW to, Move(r, from, to), from # "idle",
           from \in Executing \cup {"fail"} <=> to \in Executing \cup {"fail"},
           \/ status' = status
           \/ \E st : /\ status' = [status EXCEPT ![rjob[r]] = st] /\ st # "absent"
                      /\ status[rjob[r]] # "absent",
           UNCHANGED << started, results >>
    PROVE  Execution' = Execution
<1>0. PICK s \in Scans : s = rjob[r]
  BY DEF IInv, TypeOK, Move
<1>1. rpc[r] = from
  BY DEF Move
<1>2. \A q \in Scans \ {s} : Same(q)
  BY <1>0, MoveSame DEF IInv
<1>3. Busy(s)' <=> Busy(s)
  BY <1>0, <1>1, ScansAssumption DEF Busy, Move, IInv, TypeOK, Executing
<1>4. Same(s)
  BY <1>0, <1>1, <1>3 DEF Same, IInv, TypeOK
<1>5. QED
  BY <1>2, <1>4, MapStutter

\* The steps of run_scan_job implement steps of ScanExecution.
LEMMA RunRefines ==
    ASSUME IInv, NEW r \in Runners, Run(r)
    PROVE  AtMostOnce!Next \/ Execution' = Execution
<1> USE DEF Executing
<1>1. ASSUME NEW s \in Scans, Start(r, s) PROVE Execution' = Execution
  <2>1. \A q \in Scans : Busy(q)' <=> Busy(q)
    BY <1>1, ScansAssumption DEF Start, Busy, IInv, TypeOK
  <2>2. \A q \in Scans : Same(q)
    BY <1>1, <2>1 DEF Start, Same, row
  <2>3. QED
    BY <2>2, MapStutter
<1>2. CASE Select(r)
  BY <1>2, MoveStutters DEF Select
<1>3. CASE Claim(r)
  <2>1. CASE Move(r, "claim", "idle") /\ UNCHANGED << status, started, results >>
    BY <2>1, MoveStutters
  <2>2. CASE /\ rpc[r] = "claim" /\ status[rjob[r]] = "queued"
             /\ MoveWriting(r, "claim", "load", "validating")
             /\ started' = [started EXCEPT ![rjob[r]] = "recent"]
             /\ UNCHANGED results
    <3>1. PICK s \in Scans : s = rjob[r]
      BY <2>2 DEF IInv, TypeOK
    <3>2. started[s] = "never" /\ s \notin results /\ Execution[s] = "requested"
      BY <2>2, <3>1 DEF IInv, Ownership, Execution
    <3>3. rjob'[r] = s /\ rpc'[r] = "load" /\ started'[s] = "recent"
      BY <2>2, <3>1 DEF MoveWriting, Move, IInv, TypeOK
    <3>4. Execution'[s] = "executing"
      BY <2>2, <3>2, <3>3 DEF Execution
    <3>5. \A q \in Scans \ {s} : Same(q)
      BY <2>2, <3>1, MoveSame DEF IInv, MoveWriting
    <3>6. QED
      BY <3>2, <3>4, <3>5, MapStep DEF AtMostOnce!Next, AtMostOnce!Execute, AtMostOnce!Step
  <2>3. QED
    BY <1>3, <2>1, <2>2 DEF Claim
<1>4. CASE MarkRunning(r)
  BY <1>4, MoveStutters DEF MarkRunning, MoveWriting, Move, IInv, Ownership, Owning
<1>5. CASE Recheck(r)
  BY <1>5, MoveStutters DEF Recheck
<1>6. CASE Scan(r)
  BY <1>6, MoveStutters DEF Scan
<1>7. CASE MarkFailed(r)
  BY <1>7, MoveAbandons DEF MarkFailed, MoveWriting, AtMostOnce!Next
<1>8. CASE MarkParsing(r)
  BY <1>8, MoveStutters DEF MarkParsing, MoveWriting, Move, IInv, Ownership, Owning
<1>9. CASE Publish(r)
  <2>1. PICK s \in Scans : s = rjob[r]
    BY <1>9 DEF Publish, MoveWriting, Move, IInv, TypeOK
  <2>2. rpc[r] = "publish" /\ s \notin results /\ started[s] # "never"
    BY <1>9, <2>1 DEF Publish, MoveWriting, Move, IInv, NoRework, Ownership, Owning
  <2>3. Execution[s] = "executing"
    BY <2>1, <2>2 DEF Execution
  <2>4. Execution'[s] = "published"
    BY <1>9, <2>1 DEF Publish, Execution
  <2>5. \A q \in Scans \ {s} : Same(q)
    BY <1>9, <2>1, MoveSame DEF IInv, Publish, MoveWriting
  <2>6. QED
    BY <2>3, <2>4, <2>5, MapStep DEF AtMostOnce!Next, AtMostOnce!Publish, AtMostOnce!Step
<1>10. CASE Post(r)
  BY <1>10, MoveStutters DEF Post, PostSteps, NextPost
<1>11. ASSUME NEW from \in RunnerPc \ {"idle"}, NEW to \in {"idle", "failSelect"},
              Move(r, from, to), UNCHANGED << status, started, results >>
       PROVE  AtMostOnce!Next \/ Execution' = Execution
  <2>1. CASE from \in Executing \cup {"fail"}
    BY <1>11, <2>1, MoveAbandons DEF AtMostOnce!Next
  <2>2. CASE from \notin Executing \cup {"fail"}
    BY <1>11, <2>2, MoveStutters
  <2>3. QED
    BY <2>1, <2>2
<1>12. CASE Raise(r)
  BY <1>12, <1>11 DEF Raise, RunnerPc, TryBlock, PostSteps
<1>13. CASE FailSelect(r)
  BY <1>13, MoveStutters DEF FailSelect
<1>14. CASE FailCommit(r)
  BY <1>14, MoveStutters DEF FailCommit, MoveWriting, Move, IInv, Presence
<1>15. CASE Crash(r)
  BY <1>15, <1>11 DEF Crash
<1>16. QED
  BY <1>1, <1>2, <1>3, <1>4, <1>5, <1>6, <1>7, <1>8, <1>9, <1>10, <1>12, <1>13, <1>14,
     <1>15 DEF Run

\* The other processes only request new executions.
LEMMA OthersRefine ==
    ASSUME IInv,
           \/ \E a \in Sessions : Create(a)
           \/ \E c \in Cancellers : Cancel(c)
           \/ \E w \in Sweepers : Sweep(w)
           \/ Environment
    PROVE  AtMostOnce!Next \/ Execution' = Execution
<1> USE DEF row, api, runner
<1>0. UNCHANGED runner => \A q \in Scans : Busy(q)' <=> Busy(q)
  BY DEF Busy
<1>1. ASSUME UNCHANGED << status, started, results, runner >> PROVE Execution' = Execution
  BY <1>0, <1>1, MapStutter DEF Same
<1>2. ASSUME NEW a \in Sessions, CreateCommit(a) PROVE AtMostOnce!Next
  <2>1. PICK s \in Scans : s = sjob[a]
    BY <1>2 DEF CreateCommit, IInv, TypeOK
  <2>2. status[s] = "absent" /\ started[s] = "never" /\ s \notin results
    BY <1>2, <2>1 DEF CreateCommit, IInv, Presence, Ownership
  <2>3. Execution[s] = "none" /\ Execution'[s] = "requested"
    BY <1>2, <2>1, <2>2 DEF CreateCommit, Execution, IInv, TypeOK
  <2>4. \A q \in Scans \ {s} : Same(q)
    BY <1>0, <1>2, <2>1 DEF CreateCommit, Same, IInv, TypeOK
  <2>5. QED
    BY <2>3, <2>4, MapStep DEF AtMostOnce!Next, AtMostOnce!Request, AtMostOnce!Step
<1>3. ASSUME NEW a \in Sessions, Create(a) PROVE AtMostOnce!Next \/ Execution' = Execution
  BY <1>1, <1>2, <1>3 DEF Create, CreateAuthorize, CreateAdmit, Dispatch, CreateAbort
<1>4. ASSUME UNCHANGED << started, results, runner >>,
             \A q \in Scans : status'[q] = "absent" <=> status[q] = "absent"
      PROVE  Execution' = Execution
  BY <1>0, <1>4, MapStutter DEF Same
<1>5. ASSUME NEW c \in Cancellers, Cancel(c) PROVE Execution' = Execution
  <2>1. CASE CancelCommit(c)
    BY <1>4, <2>1 DEF CancelCommit, IInv, TypeOK, Presence
  <2>2. QED
    BY <1>1, <1>5, <2>1 DEF Cancel, CancelSelect, CancelAbort
<1>6. ASSUME NEW w \in Sweepers, Sweep(w) PROVE Execution' = Execution
  <2>1. CASE SweepCommit(w)
    BY <1>4, <2>1 DEF SweepCommit, IInv, TypeOK, Presence
  <2>2. QED
    BY <1>1, <1>6, <2>1 DEF Sweep, SweepSelect, SweepAbort
<1>7. ASSUME NEW s \in Scans, AgeStarted(s) PROVE Execution' = Execution
  BY <1>0, <1>7, MapStutter DEF AgeStarted, Same, IInv, TypeOK
<1>8. CASE Environment
  BY <1>1, <1>7, <1>8 DEF Environment, AgeCreated, LoseTask, Midnight, Revoke, Authorize
<1>9. QED
  BY <1>3, <1>5, <1>6, <1>8

\* ScanJobs implements ScanExecution: whatever the status of its row goes
\* through, a scan is executed at most once and never taken up again.
THEOREM ExecutionRefined == Spec => ExecutedAtMostOnce
<1>1. Init => AtMostOnce!Init
  BY DEF Init, AtMostOnce!Init, Execution
<1>2. IInv /\ [Next]_vars => [AtMostOnce!Next]_Execution
  <2> SUFFICES ASSUME IInv, [Next]_vars PROVE AtMostOnce!Next \/ Execution' = Execution
    OBVIOUS
  <2>1. CASE UNCHANGED vars
    BY <2>1, MapStutter DEF vars, Same, Busy
  <2>2. QED
    BY <2>1, RunRefines, OthersRefine DEF Next
<1>3. QED
  BY <1>1, <1>2, Invariance, PTL DEF Spec, ExecutedAtMostOnce, AtMostOnce!Spec
-----------------------------------------------------------------------------
(* A failure after the publication, for tasks delivered once.              *)

\* A copy of the task, its runner and a session about to send it exclude each other.
Alone ==
    /\ \A s \in Scans : deliveries[s] \in {0, 1}
    /\ \A r \in Runners : rpc[r] # "idle" => deliveries[rjob[r]] = 0
    /\ \A q, r \in Runners : rpc[q] # "idle" /\ rpc[r] # "idle" /\ rjob[q] = rjob[r] => q = r
    /\ \A a \in Sessions : spc[a] \in {"authorized", "admitted"} =>
          /\ deliveries[sjob[a]] = 0
          /\ \A r \in Runners : rpc[r] # "idle" => rjob[r] # sjob[a]

\* What is published has a settled row: nobody who still writes it revives it.
Settled == \A s \in results : status[s] \in Terminal

OnceInv == Alone /\ Settled /\ LateFailureHarmless

\* A runner that moves on is as alone as before.
LEMMA MoveAlone ==
    ASSUME TypeOK, Alone, NEW r \in Runners, NEW from, NEW to, Move(r, from, to), from # "idle"
    PROVE  Alone'
<1>1. /\ UNCHANGED << deliveries, spc, sjob >> /\ rpc[r] # "idle" /\ rpc'[r] = to
      /\ to # "idle" => rjob'[r] = rjob[r]
      /\ \A q \in Runners \ {r} : rpc'[q] = rpc[q] /\ rjob'[q] = rjob[q]
  BY DEF TypeOK, Move, api
<1>2. QED
  BY <1>1 DEF Alone

LEMMA OnceRun ==
    ASSUME IInv, OnceInv, MaxDeliveries = 1, NEW r \in Runners, Run(r)
    PROVE  OnceInv'
<1> USE DEF row, api, runner
<1>1. ASSUME NEW from, NEW to, Move(r, from, to), from # "idle",
             UNCHANGED << status, results >>,
             to = "failCommit" => rjob[r] \notin results
      PROVE  OnceInv'
  <2>1. Alone'
    BY <1>1, MoveAlone DEF IInv, OnceInv
  <2>2. Settled'
    BY <1>1 DEF OnceInv, Settled
  <2>3. LateFailureHarmless'
    BY <1>1 DEF OnceInv, LateFailureHarmless, Move, IInv, TypeOK
  <2>4. QED
    BY <2>1, <2>2, <2>3 DEF OnceInv
<1>2. ASSUME NEW from, NEW to, NEW st, MoveWriting(r, from, to, st), from # "idle",
             to # "failCommit", UNCHANGED results,
             st \in Terminal \/ rjob[r] \notin results
      PROVE  OnceInv'
  <2>1. Move(r, from, to) /\ status' = [status EXCEPT ![rjob[r]] = st]
    BY <1>2 DEF MoveWriting
  <2>2. Alone'
    BY <1>2, <2>1, MoveAlone DEF IInv, OnceInv
  <2>3. Settled'
    BY <1>2, <2>1 DEF OnceInv, Settled, IInv, TypeOK
  <2>4. LateFailureHarmless'
    BY <1>2, <2>1 DEF OnceInv, LateFailureHarmless, Move, IInv, TypeOK
  <2>5. QED
    BY <2>2, <2>3, <2>4 DEF OnceInv
<1>3. ASSUME NEW s \in Scans, Start(r, s) PROVE OnceInv'
  <2>1. /\ deliveries[s] = 1 /\ deliveries' = [deliveries EXCEPT ![s] = 0] /\ rpc[r] = "idle"
        /\ rpc' = [rpc EXCEPT ![r] = "select"] /\ rjob' = [rjob EXCEPT ![r] = s]
        /\ UNCHANGED << status, results, spc, sjob >>
    <3>1. deliveries[s] \in {0, 1} /\ deliveries[s] > 0
      BY <1>3 DEF Start, Deliverable, OnceInv, Alone
    <3>2. deliveries[s] = 1 /\ deliveries[s] - 1 = 0
      BY <3>1
    <3>3. QED
      BY <1>3, <3>2 DEF Start
  <2>2. /\ deliveries'[s] = 0 /\ rpc'[r] = "select" /\ rjob'[r] = s
        /\ \A q \in Scans \ {s} : deliveries'[q] = deliveries[q]
        /\ \A q \in Runners \ {r} : rpc'[q] = rpc[q] /\ rjob'[q] = rjob[q]
    BY <2>1 DEF IInv, TypeOK
  <2>3. /\ \A q \in Runners : rpc[q] # "idle" => rjob[q] \in Scans /\ rjob[q] # s
        /\ \A a \in Sessions : spc[a] \in {"authorized", "admitted"} =>
              sjob[a] \in Scans /\ sjob[a] # s
    BY <2>1 DEF OnceInv, Alone, IInv, TypeOK
  <2>4. Alone'
    <3>1. \A q \in Scans : deliveries'[q] \in {0, 1}
      BY <2>2 DEF OnceInv, Alone
    <3>2. \A q \in Runners : rpc'[q] # "idle" => deliveries'[rjob'[q]] = 0
      BY <2>2, <2>3 DEF OnceInv, Alone
    <3>3. \A q1, q2 \in Runners : rpc'[q1] # "idle" /\ rpc'[q2] # "idle" /\ rjob'[q1] = rjob'[q2]
             => q1 = q2
      BY <2>2, <2>3 DEF OnceInv, Alone
    <3>4. \A a \in Sessions : spc'[a] \in {"authorized", "admitted"} =>
             /\ deliveries'[sjob'[a]] = 0
             /\ \A q \in Runners : rpc'[q] # "idle" => rjob'[q] # sjob'[a]
      BY <2>1, <2>2, <2>3 DEF OnceInv, Alone
    <3>5. QED
      BY <3>1, <3>2, <3>3, <3>4 DEF Alone
  <2>5. Settled' /\ LateFailureHarmless'
    BY <2>1, <2>2 DEF OnceInv, Settled, LateFailureHarmless
  <2>6. QED
    BY <2>4, <2>5 DEF OnceInv
<1>4. CASE Claim(r)
  <2>1. CASE status[rjob[r]] = "queued"
    <3>1. MoveWriting(r, "claim", "load", "validating") /\ UNCHANGED results
      BY <1>4, <2>1 DEF Claim
    <3>2. rjob[r] \notin results
      BY <2>1 DEF IInv, Ownership
    <3>3. QED
      BY <1>2, <3>1, <3>2
  <2>2. CASE status[rjob[r]] # "queued"
    BY <1>1, <1>4, <2>2 DEF Claim
  <2>3. QED
    BY <2>1, <2>2
<1>5. CASE MarkRunning(r) \/ MarkParsing(r)
  <2>1. rjob[r] \notin results
    BY <1>5 DEF MarkRunning, MarkParsing, MoveWriting, Move, IInv, NoRework, Executing
  <2>2. QED
    BY <1>2, <1>5, <2>1 DEF MarkRunning, MarkParsing
<1>6. CASE MarkFailed(r) \/ FailCommit(r)
  <2>1. "failed" \in Terminal
    BY DEF Terminal
  <2>2. QED
    BY <1>2, <1>6, <2>1 DEF MarkFailed, FailCommit
<1>7. CASE Publish(r)
  <2>1. /\ Move(r, "publish", "profile") /\ status' = [status EXCEPT ![rjob[r]] = "completed"]
        /\ results' = results \cup {rjob[r]}
    BY <1>7 DEF Publish, MoveWriting
  <2>2. Alone'
    BY <2>1, MoveAlone DEF IInv, OnceInv
  <2>3. Settled'
    <3>1. rjob[r] \in Scans
      BY <2>1 DEF Move, IInv, TypeOK
    <3>2. status'[rjob[r]] = "completed" /\ \A s \in Scans \ {rjob[r]} : status'[s] = status[s]
      BY <2>1, <3>1 DEF IInv, TypeOK
    <3>3. results \subseteq Scans
      BY DEF IInv, TypeOK
    <3>4. QED
      BY <2>1, <3>2, <3>3 DEF OnceInv, Settled, Terminal
  <2>4. LateFailureHarmless'
    BY <2>1 DEF OnceInv, LateFailureHarmless, Alone, Move, IInv, TypeOK
  <2>5. QED
    BY <2>2, <2>3, <2>4 DEF OnceInv
<1>8. CASE FailSelect(r)
  <2>1. /\ Move(r, "failSelect", IF status[rjob[r]] \in Terminal \cup {"absent"}
                                 THEN "idle" ELSE "failCommit")
        /\ UNCHANGED << status, results >>
    BY <1>8 DEF FailSelect
  <2>2. status[rjob[r]] \notin Terminal => rjob[r] \notin results
    BY DEF OnceInv, Settled
  <2>3. QED
    BY <1>1, <2>1, <2>2
<1>9. CASE Post(r)
  <2>1. PICK p \in PostSteps : Move(r, p, NextPost[p]) /\ UNCHANGED << status, results >>
    BY <1>9 DEF Post
  <2>2. p # "idle" /\ NextPost[p] # "failCommit"
    BY DEF PostSteps, NextPost
  <2>3. QED
    BY <1>1, <2>1, <2>2
<1>10. CASE Raise(r)
  <2>1. PICK p \in TryBlock : Move(r, p, "failSelect") /\ UNCHANGED << status, results >>
    BY <1>10 DEF Raise
  <2>2. p # "idle"
    BY DEF TryBlock, Executing, PostSteps
  <2>3. QED
    BY <1>1, <2>1, <2>2
<1>11. CASE Select(r) \/ Recheck(r) \/ Scan(r) \/ Crash(r)
  BY <1>1, <1>11 DEF Select, Recheck, Scan, Crash
<1>12. QED
  BY <1>3, <1>4, <1>5, <1>6, <1>7, <1>8, <1>9, <1>10, <1>11 DEF Run

LEMMA OnceOthers ==
    ASSUME IInv, OnceInv, MaxDeliveries = 1,
           \/ \E a \in Sessions : Create(a)
           \/ \E c \in Cancellers : Cancel(c)
           \/ \E w \in Sweepers : Sweep(w)
           \/ Environment
    PROVE  OnceInv'
<1> USE DEF row, api, runner
<1>1. ASSUME UNCHANGED << results, runner >>, Alone',
             \A s \in results : status'[s] = status[s] \/ status'[s] \in Terminal
      PROVE  OnceInv'
  BY <1>1 DEF OnceInv, Settled, LateFailureHarmless
<1>2. ASSUME UNCHANGED << deliveries, spc, sjob, rpc, rjob >> PROVE Alone'
  BY <1>2 DEF OnceInv, Alone
<1>3. ASSUME NEW a \in Sessions, NEW s \in Scans, CreateAuthorize(a, s) PROVE OnceInv'
  <2>1. /\ deliveries[s] = 0 /\ \A r \in Runners : rjob[r] # s
        /\ spc' = [spc EXCEPT ![a] = "authorized"] /\ sjob' = [sjob EXCEPT ![a] = s]
        /\ UNCHANGED << status, results, deliveries, rpc, rjob >>
    BY <1>3 DEF CreateAuthorize, Fresh
  <2>2. Alone'
    BY <2>1 DEF OnceInv, Alone, IInv, TypeOK
  <2>3. QED
    BY <1>1, <2>1, <2>2
<1>4. ASSUME NEW a \in Sessions, CreateAdmit(a) PROVE OnceInv'
  <2>1. /\ spc[a] = "authorized" /\ spc' = [spc EXCEPT ![a] = "admitted"]
        /\ UNCHANGED << status, results, deliveries, sjob, rpc, rjob >>
    BY <1>4 DEF CreateAdmit
  <2>2. Alone'
    BY <2>1 DEF OnceInv, Alone, IInv, TypeOK
  <2>3. QED
    BY <1>1, <2>1, <2>2
<1>5. ASSUME NEW a \in Sessions, Dispatch(a) PROVE OnceInv'
  <2>1. /\ spc[a] = "admitted" /\ spc' = [spc EXCEPT ![a] = "dispatched"]
        /\ deliveries' = [deliveries EXCEPT ![sjob[a]] = 1]
        /\ UNCHANGED << status, results, sjob, rpc, rjob >>
    BY <1>5 DEF Dispatch
  <2>2. /\ sjob[a] \in Scans
        /\ \A b \in Sessions \ {a} : spc[b] # "idle" => sjob[b] # sjob[a]
    BY <2>1 DEF IInv, TypeOK, Presence
  <2>3. Alone'
    BY <2>1, <2>2 DEF OnceInv, Alone, IInv, TypeOK
  <2>4. QED
    BY <1>1, <2>1, <2>3
<1>6. ASSUME NEW a \in Sessions, CreateCommit(a) PROVE OnceInv'
  <2>1. /\ spc[a] = "dispatched" /\ spc' = [spc EXCEPT ![a] = "idle"]
        /\ sjob' = [sjob EXCEPT ![a] = NoScan] /\ status' = [status EXCEPT ![sjob[a]] = "queued"]
        /\ UNCHANGED << results, deliveries, rpc, rjob >>
    BY <1>6 DEF CreateCommit
  <2>2. sjob[a] \notin results
    BY <2>1 DEF IInv, Presence, Ownership
  <2>3. Alone'
    BY <2>1 DEF OnceInv, Alone, IInv, TypeOK
  <2>4. QED
    BY <1>1, <2>1, <2>2, <2>3 DEF IInv, TypeOK
<1>7. ASSUME NEW a \in Sessions, CreateAbort(a) PROVE OnceInv'
  <2>1. /\ spc' = [spc EXCEPT ![a] = "idle"] /\ sjob' = [sjob EXCEPT ![a] = NoScan]
        /\ deliveries' = deliveries \/ deliveries' = [deliveries EXCEPT ![sjob[a]] = 0]
        /\ UNCHANGED << status, results, rpc, rjob >>
    BY <1>7 DEF CreateAbort
  <2>2. \A s \in Scans : deliveries'[s] = deliveries[s] \/ deliveries'[s] = 0
    BY <2>1 DEF IInv, TypeOK
  <2>3. Alone'
    BY <2>1, <2>2 DEF OnceInv, Alone, IInv, TypeOK
  <2>4. QED
    BY <1>1, <2>1, <2>3
<1>8. ASSUME NEW c \in Cancellers, Cancel(c) PROVE OnceInv'
  <2>1. \A s \in results : status'[s] = status[s] \/ status'[s] \in Terminal
    BY <1>8 DEF Cancel, CancelSelect, CancelCommit, CancelAbort, Terminal, IInv, TypeOK
  <2>2. UNCHANGED << results, deliveries, spc, sjob, rpc, rjob >>
    BY <1>8 DEF Cancel, CancelSelect, CancelCommit, CancelAbort
  <2>3. QED
    BY <1>1, <1>2, <2>1, <2>2
<1>9. ASSUME NEW w \in Sweepers, Sweep(w) PROVE OnceInv'
  <2>1. \A s \in results : status'[s] = status[s] \/ status'[s] \in Terminal
    BY <1>9 DEF Sweep, SweepSelect, SweepCommit, SweepAbort, Terminal, IInv, TypeOK
  <2>2. UNCHANGED << results, deliveries, spc, sjob, rpc, rjob >>
    BY <1>9 DEF Sweep, SweepSelect, SweepCommit, SweepAbort
  <2>3. QED
    BY <1>1, <1>2, <2>1, <2>2
<1>10. ASSUME NEW s \in Scans, LoseTask(s) PROVE OnceInv'
  <2>1. deliveries' = [deliveries EXCEPT ![s] = 0] /\ UNCHANGED << status, results, spc, sjob, rpc, rjob >>
    BY <1>10 DEF LoseTask
  <2>2. \A q \in Scans : deliveries'[q] = deliveries[q] \/ deliveries'[q] = 0
    BY <2>1 DEF IInv, TypeOK
  <2>3. Alone'
    BY <2>1, <2>2 DEF OnceInv, Alone, IInv, TypeOK
  <2>4. QED
    BY <1>1, <2>1, <2>3
<1>11. CASE Environment
  <2>1. CASE \E s \in Scans : LoseTask(s)
    BY <1>10, <2>1
  <2>2. CASE \/ \E s \in Scans : AgeCreated(s) \/ AgeStarted(s)
             \/ Midnight \/ Revoke \/ Authorize
    <3>1. UNCHANGED << status, results, deliveries, spc, sjob, rpc, rjob >>
      BY <2>2 DEF AgeCreated, AgeStarted, Midnight, Revoke, Authorize
    <3>2. QED
      BY <1>1, <1>2, <3>1
  <2>3. QED
    BY <1>11, <2>1, <2>2 DEF Environment
<1>12. QED
  BY <1>3, <1>4, <1>5, <1>6, <1>7, <1>8, <1>9, <1>11 DEF Create

\* When a task is delivered once, no failure after the publication, be it of a notification,
\* the site profile, the benchmark or the delta, turns a published scan FAILED.
THEOREM LateFailuresHarmless == ASSUME MaxDeliveries = 1 PROVE Spec => []LateFailureHarmless
<1>1. Init => OnceInv
  BY ScansAssumption DEF Init, OnceInv, Alone, Settled, LateFailureHarmless
<1>2. IInv /\ OnceInv /\ [Next]_vars => OnceInv'
  <2> SUFFICES ASSUME IInv, OnceInv, [Next]_vars PROVE OnceInv'
    OBVIOUS
  <2>1. CASE UNCHANGED vars
    BY <2>1 DEF vars, OnceInv, Alone, Settled, LateFailureHarmless
  <2>2. QED
    BY <2>1, OnceRun, OnceOthers DEF Next
<1>3. OnceInv => LateFailureHarmless
  BY DEF OnceInv
<1>4. QED
  BY <1>1, <1>2, <1>3, Invariance, PTL DEF Spec
=============================================================================
