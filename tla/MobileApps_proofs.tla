-------------------------- MODULE MobileApps_proofs --------------------------
(***************************************************************************)
(* Proofs about MobileApps for every set of digests, rows, upload sessions *)
(* and runners.                                                            *)
(***************************************************************************)
EXTENDS MobileApps, FiniteSetTheorems, TLAPS

\* An upload has a row from the moment it stores the file, and nobody else's.
Sessions ==
    /\ \A u \in Uploads : upc[u] \in {"idle", "stage", "store"} <=> uapp[u] = NoApp
    /\ \A u, v \in Uploads : uapp[u] = uapp[v] /\ uapp[u] # NoApp => u = v
    /\ \A u \in Uploads : upc[u] \in {"stage", "store", "commit"} => udigest[u] \in Digests

\* What an upload knows of its row: not committed, not dispatched, committed.
Uncommitted == \A u \in Uploads : upc[u] = "commit" =>
                   status[uapp[u]] = "absent" /\ uapp[u] \in files
Undispatched == \A u \in Uploads : upc[u] = "dispatch" =>
                    status[uapp[u]] = "queued" /\ deliveries[uapp[u]] = 0
Committed == \A u \in Uploads : upc[u] \in {"taskId", "unavailable"} => status[uapp[u]] # "absent"

\* Nothing works a row before it is dispatched, and its digest comes with its commit.
Untouched == \A a \in Apps :
    /\ status[a] = "absent" => digest[a] = NoDigest /\ deliveries[a] = 0 /\ a \notin undelivered
    /\ \A r \in Runners : rapp[r] = a =>
         /\ status[a] # "absent"
         /\ \A u \in Uploads : uapp[u] = a => upc[u] \notin {"commit", "dispatch"}

\* A runner that has written its row has left "queued" behind for good.
Marked == \A r \in Runners : rpc[r] # "idle" /\ (rpc[r] # "mark" \/ rsaw[r] = "running") =>
              status[rapp[r]] # "queued"

QueuedStored == \A a \in Apps : status[a] = "queued" => a \in files

\* A task delivered once is in the queue or in the hands of one runner.
Once == MaxDeliveries = 1 =>
    /\ \A a \in Apps : deliveries[a] > 0 =>
         a \in files /\ \A r \in Runners : rapp[r] # a
    /\ \A r, q \in Runners : rapp[r] = rapp[q] /\ rapp[r] # NoApp => r = q
    /\ \A r \in Runners : rpc[r] \in {"mark", "analyze"} => rapp[r] \in files

Steps == Sessions /\ Uncommitted /\ Undispatched /\ Committed /\ Untouched /\ Marked
IInv == TypeOK /\ Steps /\ QueuedStored /\ Once /\ DeletedAfterAnalysis /\ ErrorLogHonest
-----------------------------------------------------------------------------
(* One lemma per action: what it disturbs step by step, then the rest.      *)

GoesOn(r) == Analyze(r) \/ CompleteBenchmark(r) \/ Raise(r)

\* An upload that is being staged has no row yet.
LEMMA BeginStagingStep ==
    ASSUME IInv, NEW u \in Uploads, NEW d \in Digests, BeginStaging(u, d) PROVE IInv'
<1> USE MobileAssumption DEF IInv, Steps, TypeOK, Pending, Terminal, UploadPc, RunnerPc,
        table, upload, runner, BeginStaging
<1>1. TypeOK'
  BY DEF Sessions
<1>2. Sessions'
  BY DEF Sessions
<1>3. Uncommitted' /\ Undispatched' /\ Committed' /\ Untouched' /\ Marked' /\ QueuedStored' /\
      Once' /\ DeletedAfterAnalysis' /\ ErrorLogHonest'
  BY DEF Uncommitted, Untouched, Undispatched, Committed, Marked, QueuedStored, Once,
          DeletedAfterAnalysis, ErrorLogHonest
<1>4. QED
  BY <1>1, <1>2, <1>3

\* A session that found no duplicate goes on to store the file.
LEMMA FindNoneStep ==
    ASSUME IInv, NEW u \in Uploads, FindNone(u) PROVE IInv'
<1> USE MobileAssumption DEF IInv, Steps, TypeOK, Pending, Terminal, UploadPc, RunnerPc,
        table, upload, runner, FindNone
<1>1. TypeOK'
  BY DEF Sessions
<1>2. Sessions'
  BY DEF Sessions
<1>3. Uncommitted' /\ Undispatched' /\ Committed' /\ Untouched' /\ Marked' /\ QueuedStored' /\
      Once' /\ DeletedAfterAnalysis' /\ ErrorLogHonest'
  BY DEF Uncommitted, Untouched, Undispatched, Committed, Marked, QueuedStored, Once,
          DeletedAfterAnalysis, ErrorLogHonest
<1>4. QED
  BY <1>1, <1>2, <1>3

\* An upload that ends before it has a row leaves none.
LEMMA DiscardStep ==
    ASSUME IInv, NEW u \in Uploads, RejectStaged(u) \/ FindDuplicate(u) PROVE IInv'
<1> USE MobileAssumption DEF IInv, Steps, TypeOK, Pending, Terminal, UploadPc, RunnerPc,
        table, upload, runner, RejectStaged, FindDuplicate, Discard, Answer
<1>1. TypeOK'
  BY DEF Sessions
<1>2. Sessions'
  BY DEF Sessions
<1>3. Uncommitted' /\ Undispatched' /\ Committed' /\ Untouched' /\ Marked' /\ QueuedStored' /\
      Once' /\ DeletedAfterAnalysis' /\ ErrorLogHonest'
  BY DEF Uncommitted, Untouched, Undispatched, Committed, Marked, QueuedStored, Once,
          DeletedAfterAnalysis, ErrorLogHonest
<1>4. QED
  BY <1>1, <1>2, <1>3

\* A fresh row and its file: nobody has either in hand.
LEMMA StoreStep == ASSUME IInv, NEW u \in Uploads, NEW a \in Apps, Store(u, a) PROVE IInv'
<1> USE MobileAssumption DEF IInv, Steps, TypeOK, Pending, Terminal, UploadPc, RunnerPc,
        table, upload, runner, Store, Fresh
<1>1. TypeOK'
  BY DEF Sessions
<1>2. Sessions'
  BY DEF Sessions
<1>3. Uncommitted'
  BY DEF Uncommitted
<1>4. Once'
  BY DEF Once, Untouched
<1>5. Undispatched' /\ Committed' /\ Untouched' /\ Marked' /\ QueuedStored' /\
      DeletedAfterAnalysis' /\ ErrorLogHonest'
  BY DEF Sessions, Undispatched, Untouched, Committed, Marked, QueuedStored,
          DeletedAfterAnalysis, ErrorLogHonest
<1>6. QED
  BY <1>1, <1>2, <1>3, <1>4, <1>5

\* The row becomes queued: its file is there, and nobody works it yet.
LEMMA CommitRowStep == ASSUME IInv, NEW u \in Uploads, CommitRow(u) PROVE IInv'
<1> USE MobileAssumption DEF IInv, Steps, TypeOK, Pending, Terminal, UploadPc, RunnerPc,
        table, upload, runner, CommitRow
<1>1. TypeOK'
  BY DEF Sessions
<1>2. Untouched'
  BY DEF Untouched
<1>3. Undispatched'
  BY DEF Uncommitted, Undispatched, Untouched
<1>4. Marked'
  BY DEF Marked, Untouched
<1>5. QueuedStored'
  BY DEF QueuedStored, Uncommitted
<1>6. Once'
  BY DEF Once, Untouched
<1>7. Sessions' /\ Uncommitted' /\ Committed' /\ DeletedAfterAnalysis' /\ ErrorLogHonest'
  BY DEF Sessions, Uncommitted, Committed, DeletedAfterAnalysis, ErrorLogHonest
<1>8. QED
  BY <1>1, <1>2, <1>3, <1>4, <1>5, <1>6, <1>7

\* The message is sent while the row has no other and its file is there.
LEMMA DispatchStep == ASSUME IInv, NEW u \in Uploads, Dispatch(u) PROVE IInv'
<1> USE MobileAssumption DEF IInv, Steps, TypeOK, Pending, Terminal, UploadPc, RunnerPc,
        table, upload, runner, Dispatch
<1>1. TypeOK'
  BY DEF Sessions
<1>2. Undispatched'
  BY DEF Sessions, Undispatched
<1>3. Committed'
  BY DEF Sessions, Committed, Undispatched
<1>4. Once'
  BY DEF Once, Untouched, Undispatched, QueuedStored
<1>5. Sessions' /\ Uncommitted' /\ Untouched' /\ Marked' /\ QueuedStored' /\
      DeletedAfterAnalysis' /\ ErrorLogHonest'
  BY DEF Sessions, Uncommitted, Untouched, Undispatched, Marked, QueuedStored,
          DeletedAfterAnalysis, ErrorLogHonest
<1>6. QED
  BY <1>1, <1>2, <1>3, <1>4, <1>5

\* The answer of an accepted upload.
LEMMA CommitTaskIdStep == ASSUME IInv, NEW u \in Uploads, CommitTaskId(u) PROVE IInv'
<1> USE MobileAssumption DEF IInv, Steps, TypeOK, Pending, Terminal, UploadPc, RunnerPc,
        table, upload, runner, CommitTaskId, Answer
<1>1. TypeOK'
  BY DEF Sessions
<1>2. Sessions'
  BY DEF Sessions
<1>3. Uncommitted' /\ Undispatched' /\ Committed' /\ Untouched' /\ Marked' /\ QueuedStored' /\
      Once' /\ DeletedAfterAnalysis' /\ ErrorLogHonest'
  BY DEF Uncommitted, Untouched, Undispatched, Committed, Marked, QueuedStored, Once,
          DeletedAfterAnalysis, ErrorLogHonest
<1>4. QED
  BY <1>1, <1>2, <1>3

\* FAILED over whatever the row has become: not queued, not completed.
LEMMA CommitUnavailableStep == ASSUME IInv, NEW u \in Uploads, CommitUnavailable(u) PROVE IInv'
<1> USE MobileAssumption DEF IInv, Steps, TypeOK, Pending, Terminal, UploadPc, RunnerPc,
        table, upload, runner, CommitUnavailable, Answer
<1>1. TypeOK'
  BY DEF Sessions
<1>2. Sessions'
  BY DEF Sessions
<1>3. Untouched'
  BY DEF Untouched
<1>4. DeletedAfterAnalysis'
  BY DEF DeletedAfterAnalysis
<1>5. ErrorLogHonest'
  BY DEF ErrorLogHonest, Sessions
<1>6. Uncommitted' /\ Undispatched' /\ Committed' /\ Marked' /\ QueuedStored' /\ Once'
  BY DEF Sessions, Uncommitted, Undispatched, Committed, Marked, QueuedStored, Once
<1>7. QED
  BY <1>1, <1>2, <1>3, <1>4, <1>5, <1>6

\* The file that is removed belongs to a row that was never committed.
LEMMA UploadFailsStep == ASSUME IInv, NEW u \in Uploads, UploadFails(u) PROVE IInv'
<1> USE MobileAssumption DEF IInv, Steps, TypeOK, Pending, Terminal, UploadPc, RunnerPc,
        table, upload, runner, UploadFails, Answer
<1>1. TypeOK'
  BY DEF Sessions
<1>2. Sessions'
  BY DEF Sessions
<1>3. Uncommitted'
  BY DEF Sessions, Uncommitted
<1>4. QueuedStored'
  BY DEF QueuedStored, Uncommitted, Sessions
<1>5. Once'
  BY DEF Once, Untouched, Uncommitted, QueuedStored, Sessions
<1>6. Undispatched' /\ Committed' /\ Untouched' /\ Marked' /\ DeletedAfterAnalysis' /\
      ErrorLogHonest'
  BY DEF Sessions, Uncommitted, Undispatched, Untouched, Committed, Marked,
          DeletedAfterAnalysis, ErrorLogHonest
<1>7. QED
  BY <1>1, <1>2, <1>3, <1>4, <1>5, <1>6

\* A killed upload leaves row and file as they are.
LEMMA UploadKilledStep == ASSUME IInv, NEW u \in Uploads, UploadKilled(u) PROVE IInv'
<1> USE MobileAssumption DEF IInv, Steps, TypeOK, Pending, Terminal, UploadPc, RunnerPc,
        table, upload, runner, UploadKilled, Answer
<1>1. TypeOK'
  BY DEF Sessions
<1>2. Sessions'
  BY DEF Sessions
<1>3. Untouched'
  BY DEF Untouched
<1>4. Uncommitted' /\ Undispatched' /\ Committed' /\ Marked' /\ QueuedStored' /\ Once' /\
      DeletedAfterAnalysis' /\ ErrorLogHonest'
  BY DEF Uncommitted, Undispatched, Committed, Marked, QueuedStored, Once,
          DeletedAfterAnalysis, ErrorLogHonest
<1>5. QED
  BY <1>1, <1>2, <1>3, <1>4

\* A message is taken: it was in no other runner's hands.
LEMMA BeginStep == ASSUME IInv, NEW r \in Runners, NEW a \in Apps, Begin(r, a) PROVE IInv'
<1> USE MobileAssumption DEF IInv, Steps, TypeOK, Pending, Terminal, UploadPc, RunnerPc,
        table, upload, runner, Begin, GoTo
<1>1. TypeOK'
  BY DEF Sessions
<1>2. Untouched'
  BY DEF Uncommitted, Undispatched, Untouched
<1>3. Marked'
  BY DEF Marked, Untouched
<1>4. Once'
  BY DEF Once
<1>5. Sessions' /\ Uncommitted' /\ Undispatched' /\ Committed' /\ QueuedStored' /\
      DeletedAfterAnalysis' /\ ErrorLogHonest'
  BY DEF Sessions, Uncommitted, Undispatched, Committed, QueuedStored, DeletedAfterAnalysis,
          ErrorLogHonest
<1>6. QED
  BY <1>1, <1>2, <1>3, <1>4, <1>5

\* The row leaves queued, here or when the runner loaded it.
LEMMA MarkRunningStep == ASSUME IInv, NEW r \in Runners, MarkRunning(r) PROVE IInv'
<1> USE MobileAssumption DEF IInv, Steps, TypeOK, Pending, Terminal, UploadPc, RunnerPc,
        table, upload, runner, MarkRunning, GoTo
<1>1. TypeOK'
  BY DEF Sessions
<1>2. Marked'
  BY DEF Marked
<1>3. Undispatched'
  BY DEF Sessions, Undispatched, Untouched
<1>4. DeletedAfterAnalysis'
  BY DEF DeletedAfterAnalysis, Uncommitted
<1>5. Sessions' /\ Uncommitted' /\ Committed' /\ Untouched' /\ QueuedStored' /\ Once' /\
      ErrorLogHonest'
  BY DEF Sessions, Uncommitted, Untouched, Committed, QueuedStored, Once, ErrorLogHonest
<1>6. QED
  BY <1>1, <1>2, <1>3, <1>4, <1>5

\* COMPLETED, by a runner that will clean up.
LEMMA PublishStep == ASSUME IInv, NEW r \in Runners, Publish(r) PROVE IInv'
<1> USE MobileAssumption DEF IInv, Steps, TypeOK, Pending, Terminal, UploadPc, RunnerPc,
        table, upload, runner, Publish, GoTo
<1>1. TypeOK'
  BY DEF Sessions
<1>2. Undispatched'
  BY DEF Undispatched, Untouched
<1>3. DeletedAfterAnalysis'
  BY DEF DeletedAfterAnalysis, Uncommitted
<1>4. ErrorLogHonest'
  BY DEF ErrorLogHonest
<1>5. Sessions' /\ Uncommitted' /\ Committed' /\ Untouched' /\ Marked' /\ QueuedStored' /\ Once'
  BY DEF Sessions, Uncommitted, Untouched, Committed, Marked, QueuedStored, Once
<1>6. QED
  BY <1>1, <1>2, <1>3, <1>4, <1>5

\* Steps of a runner that write nothing.
LEMMA GoesOnStep == ASSUME IInv, NEW r \in Runners, GoesOn(r) PROVE IInv'
<1> USE MobileAssumption DEF IInv, Steps, TypeOK, Pending, Terminal, UploadPc, RunnerPc,
        table, upload, runner, GoesOn, Analyze, CompleteBenchmark, Raise, GoTo
<1>1. TypeOK'
  BY DEF Sessions
<1>2. Marked'
  BY DEF Marked
<1>3. Once'
  BY DEF Once
<1>4. Sessions' /\ Uncommitted' /\ Undispatched' /\ Committed' /\ Untouched' /\ QueuedStored'
     /\ DeletedAfterAnalysis' /\ ErrorLogHonest'
  BY DEF Sessions, Uncommitted, Untouched, Undispatched, Committed, QueuedStored,
          DeletedAfterAnalysis, ErrorLogHonest
<1>5. QED
  BY <1>1, <1>2, <1>3, <1>4

\* FAILED by the handler.
LEMMA CommitFailedStep == ASSUME IInv, NEW r \in Runners, CommitFailed(r) PROVE IInv'
<1> USE MobileAssumption DEF IInv, Steps, TypeOK, Pending, Terminal, UploadPc, RunnerPc,
        table, upload, runner, CommitFailed, GoTo
<1>1. TypeOK'
  BY DEF Sessions
<1>2. Undispatched'
  BY DEF Undispatched, Untouched
<1>3. DeletedAfterAnalysis'
  BY DEF DeletedAfterAnalysis, Uncommitted
<1>4. ErrorLogHonest'
  BY DEF ErrorLogHonest
<1>5. Sessions' /\ Uncommitted' /\ Committed' /\ Untouched' /\ Marked' /\ QueuedStored' /\ Once'
  BY DEF Sessions, Uncommitted, Untouched, Committed, Marked, QueuedStored, Once
<1>6. QED
  BY <1>1, <1>2, <1>3, <1>4, <1>5

\* The file that is removed is not needed: the row left queued before, and no other runner
\* has it if the task was delivered once.
LEMMA CleanupStep == ASSUME IInv, NEW r \in Runners, Cleanup(r) PROVE IInv'
<1> USE MobileAssumption DEF IInv, Steps, TypeOK, Pending, Terminal, UploadPc, RunnerPc,
        table, upload, runner, Cleanup, GoTo
<1>1. TypeOK'
  BY DEF Sessions
<1>2. Uncommitted'
  BY DEF Uncommitted, Untouched
<1>3. QueuedStored'
  BY DEF QueuedStored, Uncommitted, Untouched, Marked
<1>4. Once'
  BY DEF Once, Uncommitted
<1>5. DeletedAfterAnalysis'
  BY DEF DeletedAfterAnalysis
<1>6. Sessions' /\ Undispatched' /\ Committed' /\ Untouched' /\ Marked' /\ ErrorLogHonest'
  BY DEF Sessions, Undispatched, Untouched, Committed, Marked, ErrorLogHonest
<1>7. QED
  BY <1>1, <1>2, <1>3, <1>4, <1>5, <1>6

\* However a runner leaves its row to nobody, the row is harmed; if the file went with it,
\* the runner had left queued behind before.
LEMMA StruckStep == ASSUME IInv, NEW r \in Runners, Struck(r) PROVE IInv'
<1> USE MobileAssumption DEF IInv, Steps, TypeOK, Pending, Terminal, UploadPc, RunnerPc,
        table, upload, runner
<1>1. /\ rpc[r] # "idle" /\ Abandon(r)
      /\ files' = files \/ (rpc[r] # "mark" /\ files' = files \ {rapp[r]})
  <2>1. CASE Kill(r) \/ MarkFails(r) \/ CleanupFails(r)
    BY <2>1 DEF Kill, MarkFails, CleanupFails
  <2>2. CASE Cancelled(r)
    BY <2>2 DEF Cancelled
  <2>3. CASE HandlerFails(r)
    <3>1. PICK reached \in SUBSET {rapp[r]} : files' = files \ reached
      BY <2>3 DEF HandlerFails
    <3>2. reached = {} \/ reached = {rapp[r]}
      OBVIOUS
    <3>3. QED
      BY <2>3, <3>1, <3>2 DEF HandlerFails
  <2>4. QED
    BY <2>1, <2>2, <2>3 DEF Struck
<1> USE DEF Abandon, GoTo
<1>2. TypeOK'
  BY <1>1 DEF Sessions
<1>3. Untouched'
  BY <1>1 DEF Untouched
<1>4. Uncommitted'
  BY <1>1 DEF Uncommitted, Untouched
<1>5. QueuedStored'
  BY <1>1 DEF QueuedStored, Marked
<1>6. Once'
  BY <1>1 DEF Once
<1>7. DeletedAfterAnalysis'
  BY <1>1 DEF DeletedAfterAnalysis
<1>8. Sessions' /\ Undispatched' /\ Committed' /\ Marked' /\ ErrorLogHonest'
  BY <1>1 DEF Sessions, Undispatched, Committed, Marked, ErrorLogHonest
<1>9. QED
  BY <1>2, <1>3, <1>4, <1>5, <1>6, <1>7, <1>8

\* A lost message harms its row.
LEMMA LoseTaskStep == ASSUME IInv, NEW a \in Apps, LoseTask(a) PROVE IInv'
<1> USE MobileAssumption DEF IInv, Steps, TypeOK, Pending, Terminal, UploadPc, RunnerPc,
        table, upload, runner, LoseTask
<1>1. TypeOK'
  BY DEF Sessions
<1>2. Undispatched'
  BY DEF Undispatched
<1>3. Once'
  BY DEF Once, Undispatched
<1>4. Sessions' /\ Uncommitted' /\ Committed' /\ Untouched' /\ Marked' /\ QueuedStored' /\
      DeletedAfterAnalysis' /\ ErrorLogHonest'
  BY DEF Sessions, Uncommitted, Untouched, Committed, Marked, QueuedStored,
          DeletedAfterAnalysis, ErrorLogHonest
<1>5. QED
  BY <1>1, <1>2, <1>3, <1>4

\* The first state: no row, no file, nobody at work.
LEMMA InitIInv == Init => IInv
BY MobileAssumption DEF Init, IInv, Steps, TypeOK, Pending, Terminal, UploadPc, RunnerPc, Sessions,
        Uncommitted, Undispatched, Committed, Untouched, Marked, QueuedStored, Once,
        DeletedAfterAnalysis, ErrorLogHonest

\* What a step says of a state it says of the variables only.
LEMMA Stutter == ASSUME IInv, UNCHANGED vars PROVE IInv'
BY DEF IInv, Steps, TypeOK, Sessions, Uncommitted, Undispatched, Committed, Untouched, Marked,
        QueuedStored, Once, DeletedAfterAnalysis, ErrorLogHonest, vars, table, upload, runner

\* Every step keeps the inductive invariant.
LEMMA Step == ASSUME IInv, [Next]_vars PROVE IInv'
<1>1. CASE UNCHANGED vars
  BY <1>1, Stutter
<1>2. ASSUME NEW u \in Uploads, \/ \E d \in Digests : BeginStaging(u, d)
                                \/ RejectStaged(u) \/ FindNone(u) \/ FindDuplicate(u)
      PROVE  IInv'
  BY <1>2, BeginStagingStep, DiscardStep, FindNoneStep
<1>3. ASSUME NEW u \in Uploads, NEW a \in Apps, Store(u, a) PROVE IInv'
  BY <1>3, StoreStep
<1>4. ASSUME NEW u \in Uploads, Serve(u) PROVE IInv'
  BY <1>4, CommitRowStep, DispatchStep, CommitTaskIdStep, CommitUnavailableStep DEF Serve
<1>5. ASSUME NEW u \in Uploads, UploadFails(u) \/ UploadKilled(u) PROVE IInv'
  BY <1>5, UploadFailsStep, UploadKilledStep
<1>6. ASSUME NEW r \in Runners, NEW a \in Apps, Begin(r, a) PROVE IInv'
  BY <1>6, BeginStep
<1>7. ASSUME NEW r \in Runners, Work(r) PROVE IInv'
  BY <1>7, MarkRunningStep, PublishStep, GoesOnStep, CommitFailedStep, CleanupStep DEF Work, GoesOn
<1>8. ASSUME NEW r \in Runners, Struck(r) PROVE IInv'
  BY <1>8, StruckStep
<1>9. ASSUME NEW a \in Apps, LoseTask(a) PROVE IInv'
  BY <1>9, LoseTaskStep
<1>10. QED
  BY <1>1, <1>2, <1>3, <1>4, <1>5, <1>6, <1>7, <1>8, <1>9 DEF Next

\* The inductive invariant holds of every reachable state.
THEOREM Invariance == Spec => []IInv
<1>1. Init => IInv
  BY InitIInv
<1>2. IInv /\ [Next]_vars => IInv'
  BY Step
<1>3. QED
  BY <1>1, <1>2, PTL DEF Spec

\* The APK stays while its row waits for the task and, the task being delivered once,
\* until the analysis has read it, whatever raises, dies or is taken for a failure
\* meanwhile (cleanup_artifact in the finally block of run_analysis).
THEOREM ArtifactKept == Spec => []ArtifactOutlivesNeed
<1>1. IInv => ArtifactOutlivesNeed
  BY DEF IInv, QueuedStored, Once, ArtifactOutlivesNeed
<1>2. QED
  BY <1>1, Invariance, PTL

-----------------------------------------------------------------------------
(* How many rows one APK can have.                                          *)

\* Uploads of an APK that have found no row of it and not committed theirs.
Seekers(d) == {u \in Uploads : upc[u] \in {"store", "commit"} /\ udigest[u] = d}

\* Rows of an APK and the uploads that will add one: the lookup that finds no row starts
\* the count again, and a commit moves an upload from one side to the other.
Bounded(d) == Cardinality(Rows(d)) + Cardinality(Seekers(d)) <= Cardinality(Uploads)

\* The sets that are counted are finite, before and after a step.
LEMMA Finite ==
    ASSUME NEW d
    PROVE  /\ IsFiniteSet(Rows(d)) /\ Cardinality(Rows(d)) \in Nat
           /\ IsFiniteSet(Seekers(d)) /\ Cardinality(Seekers(d)) \in Nat
           /\ Cardinality(Seekers(d)) <= Cardinality(Uploads) /\ Cardinality(Uploads) \in Nat
<1>1. Rows(d) \subseteq Apps /\ Seekers(d) \subseteq Uploads
  BY DEF Rows, Seekers
<1>2. QED
  BY <1>1, MobileAssumption, FS_Subset, FS_CardinalityType

\* A step that adds neither a row nor a seeker keeps the bound.
LEMMA Shrinks ==
    ASSUME NEW d, Bounded(d), Rows(d)' \subseteq Rows(d), Seekers(d)' \subseteq Seekers(d)
    PROVE  Bounded(d)'
<1>1. /\ Cardinality(Rows(d)') \in Nat /\ Cardinality(Rows(d)') <= Cardinality(Rows(d))
      /\ Cardinality(Seekers(d)') \in Nat /\ Cardinality(Seekers(d)') <= Cardinality(Seekers(d))
  BY Finite, FS_Subset, FS_CardinalityType
<1>2. QED
  BY <1>1, Finite DEF Bounded

\* A lookup that finds no row: the seekers are at most all the uploads.
LEMMA LookupBounded ==
    ASSUME NEW d, NEW u \in Uploads, IInv, Bounded(d), FindNone(u)
    PROVE  Bounded(d)'
<1>1. CASE d = udigest[u]
  <2>1. Rows(d)' = {}
    BY <1>1 DEF FindNone, Rows, table
  <2>2. Seekers(d)' \subseteq Uploads
    BY DEF Seekers
  <2>3. Cardinality(Rows(d)') = 0
    BY <2>1, FS_EmptySet
  <2>4. /\ Cardinality(Seekers(d)') \in Nat /\ Cardinality(Seekers(d)') <= Cardinality(Uploads)
        /\ Cardinality(Uploads) \in Nat
    BY <2>2, MobileAssumption, FS_Subset, FS_CardinalityType
  <2>5. QED
    BY <2>3, <2>4 DEF Bounded
<1>2. CASE d # udigest[u]
  <2>1. Rows(d)' = Rows(d) /\ Seekers(d)' \subseteq Seekers(d)
    BY <1>2 DEF FindNone, Rows, Seekers, table, IInv, TypeOK
  <2>2. QED
    BY <2>1, Shrinks
<1>3. QED
  BY <1>1, <1>2

\* A commit turns one seeker into one row.
LEMMA CommitBounded ==
    ASSUME NEW d \in Digests, NEW u \in Uploads, IInv, Bounded(d), CommitRow(u)
    PROVE  Bounded(d)'
<1> DEFINE a == uapp[u]
<1>1. a \in Apps /\ digest[a] = NoDigest
  BY DEF CommitRow, IInv, Steps, Sessions, Uncommitted, Untouched, TypeOK
<1>2. CASE udigest[u] = d
  <2>1. /\ Rows(d)' = Rows(d) \cup {a} /\ a \notin Rows(d)
        /\ Seekers(d)' = Seekers(d) \ {u} /\ u \in Seekers(d)
    BY <1>1, <1>2, MobileAssumption DEF CommitRow, Rows, Seekers, IInv, TypeOK
  <2>2. Cardinality(Rows(d)') = Cardinality(Rows(d)) + 1
    BY <2>1, Finite, FS_AddElement
  <2>3. Cardinality(Seekers(d)') = Cardinality(Seekers(d)) - 1
    BY <2>1, Finite, FS_RemoveElement
  <2>4. QED
    BY <2>2, <2>3, Finite DEF Bounded
<1>3. CASE udigest[u] # d
  <2>1. Rows(d)' = Rows(d) /\ Seekers(d)' = Seekers(d)
    BY <1>1, <1>3, MobileAssumption DEF CommitRow, Rows, Seekers, IInv, TypeOK
  <2>2. QED
    BY <2>1, Shrinks
<1>4. QED
  BY <1>2, <1>3

\* Every other step adds neither.
LEMMA BoundedStep == ASSUME NEW d \in Digests, IInv, Bounded(d), [Next]_vars PROVE Bounded(d)'
<1> USE DEF Rows, Seekers, table, upload, IInv, TypeOK
<1>1. CASE UNCHANGED vars
  <2>1. Rows(d)' = Rows(d) /\ Seekers(d)' = Seekers(d)
    BY <1>1 DEF vars
  <2>2. QED
    BY <2>1, Shrinks
<1>2. ASSUME NEW u \in Uploads, FindNone(u) PROVE Bounded(d)'
  BY <1>2, LookupBounded
<1>3. ASSUME NEW u \in Uploads, CommitRow(u) PROVE Bounded(d)'
  BY <1>3, CommitBounded
<1>4. ASSUME NEW u \in Uploads, \/ \E e \in Digests : BeginStaging(u, e)
                                \/ RejectStaged(u) \/ FindDuplicate(u)
                                \/ \E a \in Apps : Store(u, a)
                                \/ Dispatch(u) \/ CommitTaskId(u) \/ CommitUnavailable(u)
                                \/ UploadFails(u) \/ UploadKilled(u)
      PROVE  Bounded(d)'
  <2>1. digest' = digest
    BY <1>4 DEF BeginStaging, RejectStaged, FindDuplicate, Discard, Store, Dispatch, CommitTaskId,
                CommitUnavailable, UploadFails, UploadKilled
  <2>2. Seekers(d)' \subseteq Seekers(d)
    BY <1>4 DEF BeginStaging, RejectStaged, FindDuplicate, Discard, Store, Dispatch, CommitTaskId,
                CommitUnavailable, UploadFails, UploadKilled, Answer
  <2>3. QED
    BY <2>1, <2>2, Shrinks
<1>5. CASE digest' = digest /\ UNCHANGED upload
  BY <1>5, Shrinks
<1>6. ASSUME NEW r \in Runners, (\E a \in Apps : Begin(r, a)) \/ Work(r) \/ Struck(r)
      PROVE  digest' = digest /\ UNCHANGED upload
  BY <1>6 DEF Begin, Work, Struck, Kill, MarkFails, Cancelled, HandlerFails,
              CleanupFails, Abandon, MarkRunning, Analyze, Publish, CompleteBenchmark, Raise,
              CommitFailed, Cleanup
<1>7. ASSUME NEW a \in Apps, LoseTask(a) PROVE digest' = digest /\ UNCHANGED upload
  BY <1>7 DEF LoseTask
<1>8. QED
  BY <1>1, <1>2, <1>3, <1>4, <1>5, <1>6, <1>7 DEF Next, Serve

\* One APK has at most as many rows as there are sessions that may upload it at a time.
THEOREM DuplicatesFew == Spec => []DuplicatesBounded
<1> DEFINE Inv == \A d \in Digests : Bounded(d)
<1>1. Init => Inv
  <2> SUFFICES ASSUME Init, NEW d \in Digests PROVE Bounded(d)
    OBVIOUS
  <2>1. Rows(d) = {} /\ Seekers(d) = {}
    BY MobileAssumption DEF Init, Rows, Seekers
  <2>2. Cardinality(Rows(d)) = 0 /\ Cardinality(Seekers(d)) = 0
    BY <2>1, FS_EmptySet
  <2>3. QED
    BY <2>2, Finite DEF Bounded
<1>2. IInv /\ Inv /\ [Next]_vars => Inv'
  BY BoundedStep
<1>3. Inv => DuplicatesBounded
  BY Finite DEF Bounded, DuplicatesBounded
<1>4. QED
  BY <1>1, <1>2, <1>3, Invariance, PTL DEF Spec

\* An upload has its temporary file exactly while it is staged or about to be stored.
THEOREM NothingLeftStaged == Spec => []StagedInHand
<1>1. Init => StagedInHand
  BY DEF Init, StagedInHand
<1>2. IInv /\ StagedInHand /\ [Next]_vars => StagedInHand'
  <2> SUFFICES ASSUME IInv, StagedInHand, [Next]_vars PROVE StagedInHand'
    OBVIOUS
  <2> USE DEF StagedInHand, IInv, TypeOK
  <2>1. ASSUME NEW u \in Uploads, \/ \E d \in Digests : BeginStaging(u, d)
                                  \/ RejectStaged(u) \/ FindNone(u) \/ FindDuplicate(u)
        PROVE  StagedInHand'
    BY <2>1 DEF BeginStaging, RejectStaged, FindNone, FindDuplicate, Discard, Answer
  <2>2. ASSUME NEW u \in Uploads, \/ \E a \in Apps : Store(u, a)
                                  \/ UploadFails(u) \/ UploadKilled(u)
        PROVE  StagedInHand'
    BY <2>2 DEF Store, UploadFails, UploadKilled, Answer
  <2>3. ASSUME NEW u \in Uploads, Serve(u) PROVE StagedInHand'
    BY <2>3 DEF Serve, CommitRow, Dispatch, CommitTaskId, CommitUnavailable, Answer
  <2>4. CASE UNCHANGED upload
    BY <2>4 DEF upload
  <2>5. ASSUME NEW r \in Runners, (\E a \in Apps : Begin(r, a)) \/ Work(r) \/ Struck(r)
        PROVE  UNCHANGED upload
    BY <2>5 DEF Begin, Work, Struck, Kill, MarkFails, Cancelled, HandlerFails,
              CleanupFails, Abandon, MarkRunning, Analyze, Publish, CompleteBenchmark, Raise,
                CommitFailed, Cleanup
  <2>6. ASSUME NEW a \in Apps, LoseTask(a) PROVE UNCHANGED upload
    BY <2>6 DEF LoseTask
  <2>7. QED
    BY <2>1, <2>2, <2>3, <2>4, <2>5, <2>6 DEF Next, vars
<1>3. QED
  BY <1>1, <1>2, Invariance, PTL DEF Spec

\* Types, files, rows and error logs, as the run checks them: an analysed application
\* keeps its file only if its message was lost or its execution killed, or its handler or
\* its deletion failed.
THEOREM ArtifactsInStep == Spec => []ArtifactsSound
<1>1. IInv /\ DuplicatesBounded /\ StagedInHand => ArtifactsSound
  BY DEF IInv, ArtifactsSound
<1>2. QED
  BY <1>1, Invariance, DuplicatesFew, NothingLeftStaged, PTL
=============================================================================
