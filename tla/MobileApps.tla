----------------------------- MODULE MobileApps -----------------------------
(***************************************************************************)
(* Uploaded Android applications: the API sessions that store an APK and   *)
(* hand its analysis to Celery, and the executions of run_analysis that    *)
(* work it and delete the file.  The configuration is the one of           *)
(* production: Celery only, an upload whose dispatch fails is answered     *)
(* with MOBILE_ANALYSIS_UNAVAILABLE.                                       *)
(*                                                                         *)
(* As in ScanJobs an action is one SELECT or one commit, and rows are      *)
(* written by primary key.  One organization is modelled; an APK is its    *)
(* digest.                                                                 *)
(***************************************************************************)
EXTENDS Integers, FiniteSets

CONSTANTS
    Digests,        \* sha256 of the APKs that are uploaded
    Apps,           \* ids of mobile_applications rows that may come to exist
    Uploads,        \* API sessions serving POST /applications
    Runners,        \* executions of run_analysis
    MaxDeliveries,  \* bound: times one dispatched task may be delivered
    NoApp, NoDigest

ASSUME MobileAssumption == /\ NoApp \notin Apps /\ NoDigest \notin Digests
                           /\ MaxDeliveries \in Nat \ {0}
                           /\ IsFiniteSet(Apps) /\ IsFiniteSet(Uploads)

VARIABLES
    status,      \* analysis_status, "absent" while no row is committed
    digest,      \* sha256 of a committed row
    undelivered, \* rows whose error_log says that the dispatch failed
    files,       \* rows whose artifact is on disk
    published,   \* rows whose findings are committed
    deliveries,  \* copies of the task still to be delivered
    upc, udigest, uapp, \* uploads: where they are, what they upload, their row
    staging,     \* uploads whose temporary file is on disk
    rpc, rapp,   \* runners: where they are, the row they work on
    rsaw,        \* the status a runner has loaded
    harmed       \* history: rows whose message was lost, or whose execution was killed,
                 \* cancelled or failed outside of its try block

table == << status, digest, undelivered, published >>
upload == << upc, udigest, uapp, staging >>
runner == << rpc, rapp, rsaw >>
vars == << table, files, deliveries, upload, runner, harmed >>

Pending == {"queued", "running"}
Terminal == {"completed", "failed"}
UploadPc == {"idle", "stage", "store", "commit", "dispatch", "taskId", "unavailable"}
RunnerPc == {"idle", "mark", "analyze", "publish", "benchmark", "except", "cleanup"}

TypeOK ==
    /\ status \in [Apps -> {"absent"} \cup Pending \cup Terminal]
    /\ digest \in [Apps -> Digests \cup {NoDigest}]
    /\ undelivered \in SUBSET Apps /\ files \in SUBSET Apps /\ published \in SUBSET Apps
    /\ harmed \in SUBSET Apps
    /\ deliveries \in [Apps -> 0..MaxDeliveries]
    /\ upc \in [Uploads -> UploadPc]
    /\ staging \in SUBSET Uploads
    /\ udigest \in [Uploads -> Digests \cup {NoDigest}]
    /\ uapp \in [Uploads -> Apps \cup {NoApp}]
    /\ rpc \in [Runners -> RunnerPc]
    /\ rapp \in [Runners -> Apps \cup {NoApp}]
    /\ rsaw \in [Runners -> {"absent"} \cup Pending]
    /\ \A r \in Runners : rpc[r] = "idle" <=> rapp[r] = NoApp

Init ==
    /\ status = [a \in Apps |-> "absent"]
    /\ digest = [a \in Apps |-> NoDigest]
    /\ undelivered = {} /\ files = {} /\ published = {} /\ harmed = {} /\ staging = {}
    /\ deliveries = [a \in Apps |-> 0]
    /\ upc = [u \in Uploads |-> "idle"]
    /\ udigest = [u \in Uploads |-> NoDigest]
    /\ uapp = [u \in Uploads |-> NoApp]
    /\ rpc = [r \in Runners |-> "idle"]
    /\ rapp = [r \in Runners |-> NoApp]
    /\ rsaw = [r \in Runners |-> "absent"]

-----------------------------------------------------------------------------
(* upload_mobile_application                                               *)

\* A row's id is a fresh uuid4
Fresh(a) == status[a] = "absent" /\ a \notin files /\ \A v \in Uploads : uapp[v] # a

Rows(d) == {a \in Apps : digest[a] = d}

\* The request is over, answered or not
Answer(u) ==
    /\ upc' = [upc EXCEPT ![u] = "idle"]
    /\ udigest' = [udigest EXCEPT ![u] = NoDigest]
    /\ uapp' = [uapp EXCEPT ![u] = NoApp]

\* stage_mobile_upload makes a temporary file and streams the APK into it
BeginStaging(u, d) ==
    /\ upc[u] = "idle"
    /\ upc' = [upc EXCEPT ![u] = "stage"]
    /\ udigest' = [udigest EXCEPT ![u] = d]
    /\ staging' = staging \cup {u}
    /\ UNCHANGED << table, files, deliveries, uapp, runner, harmed >>

\* The temporary file goes before the request does
Discard(u) ==
    /\ staging' = staging \ {u}
    /\ Answer(u)
    /\ UNCHANGED << table, files, deliveries, runner, harmed >>

\* The stream breaks off, is empty or too long, or is no APK that
\* _validate_zip_bomb would let anyone open; or the SELECT fails
RejectStaged(u) == upc[u] = "stage" /\ Discard(u)

\* _find_duplicate finds no row
FindNone(u) ==
    /\ upc[u] = "stage"
    /\ Rows(udigest[u]) = {}
    /\ upc' = [upc EXCEPT ![u] = "store"]
    /\ UNCHANGED << table, files, deliveries, udigest, uapp, staging, runner, harmed >>

\* A row found is the answer, whatever became of its analysis; two rows make
\* scalar_one_or_none raise MultipleResultsFound.  No row is written either way
FindDuplicate(u) ==
    /\ upc[u] = "stage"
    /\ Rows(udigest[u]) # {}
    /\ Discard(u)

\* finalize_staged_artifact renames the temporary file, then the INSERT
Store(u, a) ==
    /\ upc[u] = "store"
    /\ Fresh(a)
    /\ files' = files \cup {a}
    /\ staging' = staging \ {u}
    /\ uapp' = [uapp EXCEPT ![u] = a]
    /\ upc' = [upc EXCEPT ![u] = "commit"]
    /\ UNCHANGED << table, deliveries, udigest, runner, harmed >>

CommitRow(u) ==
    /\ upc[u] = "commit"
    /\ status' = [status EXCEPT ![uapp[u]] = "queued"]
    /\ digest' = [digest EXCEPT ![uapp[u]] = udigest[u]]
    /\ upc' = [upc EXCEPT ![u] = "dispatch"]
    /\ UNCHANGED << undelivered, published, files, deliveries, udigest, uapp, staging,
                    runner, harmed >>

\* The message is sent, or not, and what follows in the try block works, or
\* raises: the task may be under way though the dispatch is taken as failed
Dispatch(u) ==
    /\ upc[u] = "dispatch"
    /\ \/ /\ \E n \in 1..MaxDeliveries : deliveries' = [deliveries EXCEPT ![uapp[u]] = n]
          /\ \E pc \in {"taskId", "unavailable"} : upc' = [upc EXCEPT ![u] = pc]
       \/ /\ upc' = [upc EXCEPT ![u] = "unavailable"]
          /\ UNCHANGED deliveries
    /\ UNCHANGED << table, files, udigest, uapp, staging, runner, harmed >>

CommitTaskId(u) ==
    /\ upc[u] = "taskId"
    /\ Answer(u)
    /\ UNCHANGED << table, files, deliveries, staging, runner, harmed >>

\* The handler marks the row FAILED, commits and re-raises
CommitUnavailableDeletes(u) ==
    /\ upc[u] = "unavailable"
    /\ status' = [status EXCEPT ![uapp[u]] = "failed"]
    /\ undelivered' = undelivered \cup {uapp[u]}
    /\ files' = files \ {uapp[u]}
    /\ Answer(u)
    /\ UNCHANGED << digest, published, deliveries, staging, runner, harmed >>
CommitUnavailable(u) ==
    /\ upc[u] = "unavailable"
    /\ status' = [status EXCEPT ![uapp[u]] = "failed"]
    /\ undelivered' = undelivered \cup {uapp[u]}
    /\ Answer(u)
    /\ UNCHANGED << digest, published, files, deliveries, staging, runner, harmed >>

\* An exception in the service: rollback, the artifact and the temporary file
\* are removed, whichever there is
UploadFails(u) ==
    /\ upc[u] \in {"store", "commit"}
    /\ files' = files \ {uapp[u]}
    /\ staging' = staging \ {u}
    /\ Answer(u)
    /\ UNCHANGED << table, deliveries, runner, harmed >>

\* The API process dies, or a commit outside the service fails: the artifact
\* stays, or the temporary file, which is nobody's from then on
UploadKilled(u) ==
    /\ upc[u] # "idle"
    /\ staging' = staging \ {u}
    /\ Answer(u)
    /\ harmed' = harmed \cup ({uapp[u]} \ {NoApp})
    /\ UNCHANGED << table, files, deliveries, runner >>

-----------------------------------------------------------------------------
(* run_analysis                                                            *)

GoTo(r, pc) == rpc' = [rpc EXCEPT ![r] = pc]

\* The SELECT: a finished application is left alone
Begin(r, a) ==
    /\ rpc[r] = "idle" /\ deliveries[a] > 0
    /\ deliveries' = [deliveries EXCEPT ![a] = @ - 1]
    /\ IF status[a] \in Pending
       THEN /\ GoTo(r, "mark")
            /\ rapp' = [rapp EXCEPT ![r] = a]
            /\ rsaw' = [rsaw EXCEPT ![r] = status[a]]
       ELSE UNCHANGED runner
    /\ UNCHANGED << table, files, upload, harmed >>

\* RUNNING is written only if the loaded row was not RUNNING already
MarkRunning(r) ==
    /\ rpc[r] = "mark"
    /\ status' = [status EXCEPT ![rapp[r]] = IF rsaw[r] = "running" THEN @ ELSE "running"]
    /\ GoTo(r, "analyze")
    /\ UNCHANGED << digest, undelivered, published, files, deliveries, upload, rapp, rsaw, harmed >>

Analyze(r) ==
    /\ rpc[r] = "analyze"
    /\ rapp[r] \in files
    /\ GoTo(r, "publish")
    /\ UNCHANGED << table, files, deliveries, upload, rapp, rsaw, harmed >>

\* Findings, score and COMPLETED in one commit
Publish(r) ==
    /\ rpc[r] = "publish"
    /\ status' = [status EXCEPT ![rapp[r]] = "completed"]
    /\ published' = published \cup {rapp[r]}
    /\ undelivered' = undelivered \ {rapp[r]}
    /\ GoTo(r, "benchmark")
    /\ UNCHANGED << digest, files, deliveries, upload, rapp, rsaw, harmed >>

\* complete_for_mobile and its commit
CompleteBenchmark(r) ==
    /\ rpc[r] = "benchmark"
    /\ GoTo(r, "cleanup")
    /\ UNCHANGED << table, files, deliveries, upload, rapp, rsaw, harmed >>

\* The execution is over, its row is left to nobody
Abandon(r) ==
    /\ harmed' = harmed \cup {rapp[r]}
    /\ GoTo(r, "idle")
    /\ rapp' = [rapp EXCEPT ![r] = NoApp]
    /\ rsaw' = [rsaw EXCEPT ![r] = "absent"]
    /\ UNCHANGED << table, deliveries, upload >>

\* The commit of RUNNING is outside of the try block: no handler, no cleanup
MarkFails(r) == rpc[r] = "mark" /\ UNCHANGED files /\ Abandon(r)

\* CancelledError passes by `except Exception`: a soft time limit that strikes
\* in the event loop cancels the task, and of its handlers only `finally` runs
Cancelled(r) ==
    /\ rpc[r] \in {"analyze", "publish", "benchmark"}
    /\ files' = files \ {rapp[r]}
    /\ Abandon(r)

\* The rollback, the SELECT or the commit of the handler raises, or is cancelled:
\* `finally` runs, and finds the file's name unless the rollback has expired the row
HandlerFails(r) ==
    /\ rpc[r] = "except"
    /\ \E reached \in SUBSET {rapp[r]} : files' = files \ reached
    /\ Abandon(r)

\* The deletion raises, which is logged
CleanupFails(r) == rpc[r] = "cleanup" /\ UNCHANGED files /\ Abandon(r)

\* Any exception of the try block, a missing artifact and the soft time limit included
Raise(r) ==
    /\ rpc[r] \in {"analyze", "publish", "benchmark"}
    /\ GoTo(r, "except")
    /\ UNCHANGED << table, files, deliveries, upload, rapp, rsaw, harmed >>

\* The handler: rollback, SELECT again, FAILED
HandlerOnlyLogs(r) ==
    /\ rpc[r] = "except"
    /\ GoTo(r, "cleanup")
    /\ UNCHANGED << table, files, deliveries, upload, rapp, rsaw, harmed >>
CommitFailed(r) ==
    /\ rpc[r] = "except"
    /\ status' = [status EXCEPT ![rapp[r]] = "failed"]
    /\ undelivered' = undelivered \ {rapp[r]}
    /\ GoTo(r, "cleanup")
    /\ UNCHANGED << digest, published, files, deliveries, upload, rapp, rsaw, harmed >>

CleanupFailedOnly(r) ==
    /\ rpc[r] = "cleanup"
    /\ files' = IF status[rapp[r]] = "failed" THEN files \ {rapp[r]} ELSE files
    /\ GoTo(r, "idle")
    /\ rapp' = [rapp EXCEPT ![r] = NoApp]
    /\ rsaw' = [rsaw EXCEPT ![r] = "absent"]
    /\ UNCHANGED << table, deliveries, upload, harmed >>
Cleanup(r) ==
    /\ rpc[r] = "cleanup"
    /\ files' = files \ {rapp[r]}
    /\ GoTo(r, "idle")
    /\ rapp' = [rapp EXCEPT ![r] = NoApp]
    /\ rsaw' = [rsaw EXCEPT ![r] = "absent"]
    /\ UNCHANGED << table, deliveries, upload, harmed >>

\* The hard time limit or the death of the worker; a lost message
Kill(r) == rpc[r] # "idle" /\ UNCHANGED files /\ Abandon(r)

LoseTask(a) ==
    /\ deliveries[a] > 0
    /\ deliveries' = [deliveries EXCEPT ![a] = @ - 1]
    /\ harmed' = harmed \cup {a}
    /\ UNCHANGED << table, files, upload, runner >>

-----------------------------------------------------------------------------
Work(r) == MarkRunning(r) \/ Analyze(r) \/ Publish(r) \/ CompleteBenchmark(r)
           \/ Raise(r) \/ CommitFailed(r) \/ Cleanup(r)
Struck(r) == Kill(r) \/ MarkFails(r) \/ Cancelled(r) \/ HandlerFails(r) \/ CleanupFails(r)
Serve(u) == CommitRow(u) \/ Dispatch(u) \/ CommitTaskId(u) \/ CommitUnavailable(u)

Next == \/ \E u \in Uploads :
              \/ \E d \in Digests : BeginStaging(u, d)
              \/ RejectStaged(u) \/ FindNone(u) \/ FindDuplicate(u)
              \/ \E a \in Apps : Store(u, a)
              \/ Serve(u) \/ UploadFails(u) \/ UploadKilled(u)
        \/ \E r \in Runners :
              \/ \E a \in Apps : Begin(r, a)
              \/ Work(r) \/ Struck(r)
        \/ \E a \in Apps : LoseTask(a)

Spec == Init /\ [][Next]_vars

\* A request that is being served goes on, the worker takes the messages of
\* its queue and goes on with its task
FairSpec == /\ Spec
            /\ \A u \in Uploads : WF_vars(Serve(u))
            /\ \A r \in Runners : WF_vars(Work(r))
            /\ \A a \in Apps : WF_vars(\E r \in Runners : Begin(r, a))

-----------------------------------------------------------------------------
\* The APK stays as long as an analysis needs it: while the row waits for its
\* task and, the task being delivered once, until the analysis has read it,
\* even if the API has taken the dispatch for a failure in the meantime
ArtifactOutlivesNeed ==
    /\ \A a \in Apps : status[a] = "queued" => a \in files
    /\ MaxDeliveries = 1 => \A r \in Runners : rpc[r] \in {"mark", "analyze"} => rapp[r] \in files

\* An exception that the dispatch or the analysis raises, wherever in its try block,
\* leaves no application pending.  What does is what passes by the handlers (`harmed`):
\* a lost message, a kill, a cancellation, a database that refuses the commit of
\* RUNNING or one of the handler's statements
AnalysisEnds ==
    \A a \in Apps : status[a] \in Pending ~> status[a] \in Terminal \/ a \in harmed

\* "APK uploads: deleted after analysis": once nobody works on a completed
\* application its file is gone.  A kill, or a handler or a deletion that fails,
\* leaves it: nothing cleans up later
DeletedAfterAnalysis ==
    \A a \in Apps : status[a] = "completed" /\ a \in files
        => a \in harmed \/ \E r \in Runners : rapp[r] = a

\* The duplicate check precedes the insert, so uploads of one APK may both insert it,
\* but no more rows come of it than there are concurrent uploads.
DuplicatesBounded == \A d \in Digests : Cardinality(Rows(d)) <= Cardinality(Uploads)

\* The error_log of an application that was completed does not say that its analysis
\* could not be dispatched, though that may have been written while it ran.
ErrorLogHonest == \A a \in undelivered : status[a] # "completed"

\* A temporary file is there as long as its upload needs it: no answer, no rejection and
\* no exception leaves one behind.
StagedInHand == \A u \in Uploads : u \in staging <=> upc[u] \in {"stage", "store"}

\* The table, the files and the processes are of their types, and what an upload or an
\* analysis leaves behind in them is in step.
ArtifactsSound == /\ TypeOK /\ StagedInHand
                  /\ DeletedAfterAnalysis /\ DuplicatesBounded /\ ErrorLogHonest
=============================================================================
