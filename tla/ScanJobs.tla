------------------------------ MODULE ScanJobs ------------------------------
(***************************************************************************)
(* The life of the rows of scan_jobs: the API sessions that admit and      *)
(* commit a scan, the executions of run_scan_job that claim and work it,   *)
(* the sessions that cancel it and the Celery task that fails stale rows.  *)
(*                                                                         *)
(* PostgreSQL runs READ COMMITTED and the sessions neither autoflush nor   *)
(* expire on commit, so a session sees what was committed when it          *)
(* SELECTed and later writes the row by primary key, whatever the row has  *)
(* become.  Every action below is therefore one SELECT or one commit; the  *)
(* only conditional write of the code is the claim's UPDATE ... WHERE      *)
(* status = 'queued'.                                                      *)
(*                                                                         *)
(* One organization and one verified domain are modelled: admission        *)
(* counts rows per organization and authorization is a fact of the domain. *)
(***************************************************************************)
EXTENDS Integers, FiniteSets

CONSTANTS
    Scans,             \* ids of scan_jobs rows that may come to exist
    AdminScans,        \* those a platform admin requests: no limit applies
    Sessions,          \* API sessions serving a POST that starts a scan
    Cancellers,        \* API sessions serving POST /scans/{id}/cancel
    Sweepers,          \* executions of recover_stale_scan_jobs
    Runners,           \* executions of run_scan_job
    ConcurrencyLimit,  \* settings.scan_concurrency_limit
    DailyQuota,        \* PilotService.effective_daily_quota
    MaxDeliveries,     \* bound: times one dispatched task may be delivered
    UseBroker,         \* TRUE: dispatched to Celery, FALSE: background task
    NoScan             \* a process that has no scan in hand

ASSUME ScansAssumption == NoScan \notin Scans /\ AdminScans \subseteq Scans
ASSUME LimitsAssumption == /\ ConcurrencyLimit \in Nat \ {0}
                           /\ DailyQuota \in Nat \ {0}
                           /\ MaxDeliveries \in Nat \ {0}
                           /\ UseBroker \in BOOLEAN
ASSUME FiniteAssumption == IsFiniteSet(Scans) /\ IsFiniteSet(Sessions) /\ IsFiniteSet(Runners)

VARIABLES
    status,      \* scan_jobs.status, "absent" while no row is committed
    created,     \* age of created_at: recent or older than the cutoff
    started,     \* age of started_at, "never" while it is NULL
    today,       \* rows whose created_at is on the current day
    results,     \* scans whose findings and findings_count are committed
    authorized,  \* would assert_scan_authorized accept the domain now
    deliveries,  \* copies of the task still to be delivered
    spc, sjob,   \* API sessions: where they are, the row they will insert
    cancelling,  \* the row a cancel session has loaded
    sweeping,    \* the rows a sweep has selected
    rpc, rjob,   \* runners: where they are, the scan they work on
    cleared      \* history: scans authorized at some point since the claim

vars == << status, created, started, today, results, authorized, deliveries,
           spc, sjob, cancelling, sweeping, rpc, rjob, cleared >>

row == << status, created, started, today, results >>
api == << spc, sjob >>
runner == << rpc, rjob >>

Active == {"queued", "validating", "running", "parsing"}
Terminal == {"completed", "failed", "cancelled"}
Status == {"absent"} \cup Active \cup Terminal
Age == {"never", "recent", "old"}
SessionPc == {"idle", "authorized", "admitted", "dispatched"}

\* What run_scan_job does after the commit of COMPLETED, each with its commit
PostSteps == {"profile", "benchmark", "delta", "enrich"}
NextPost == [profile |-> "benchmark", benchmark |-> "delta",
             delta |-> "enrich", enrich |-> "idle"]
\* Positions between the claim and the commit of COMPLETED
Executing == {"load", "recheck", "scan", "parse", "publish"}
\* Positions inside the outer try block, and in the handlers that follow
TryBlock == {"select", "claim", "fail"} \cup Executing \cup PostSteps
RunnerPc == {"idle", "failSelect", "failCommit"} \cup TryBlock

ActiveScans == {s \in Scans : status[s] \in Active}

\* coalesce(started_at, created_at) < cutoff
StaleStartedOnly(s) == started[s] = "old"
Stale(s) == IF started[s] = "never" THEN created[s] = "old"
                                    ELSE started[s] = "old"

-----------------------------------------------------------------------------
Init ==
    /\ status = [s \in Scans |-> "absent"]
    /\ created = [s \in Scans |-> "never"]
    /\ started = [s \in Scans |-> "never"]
    /\ today = {} /\ results = {} /\ cleared = {}
    /\ authorized \in BOOLEAN
    /\ deliveries = [s \in Scans |-> 0]
    /\ spc = [a \in Sessions |-> "idle"]
    /\ sjob = [a \in Sessions |-> NoScan]
    /\ cancelling = [c \in Cancellers |-> NoScan]
    /\ sweeping = [w \in Sweepers |-> {}]
    /\ rpc = [r \in Runners |-> "idle"]
    /\ rjob = [r \in Runners |-> NoScan]

-----------------------------------------------------------------------------
(* Starting a scan: ScanService.create, dispatch_scan_job, commit           *)

\* uuid4 ids: a new row's id is unknown to everyone else
Fresh(s) == /\ status[s] = "absent" /\ deliveries[s] = 0
            /\ \A b \in Sessions : sjob[b] # s
            /\ \A r \in Runners : rjob[r] # s

\* A request for a new scan passes assert_scan_authorized
CreateAuthorize(a, s) ==
    /\ spc[a] = "idle"
    /\ Fresh(s)
    /\ authorized
    /\ spc' = [spc EXCEPT ![a] = "authorized"]
    /\ sjob' = [sjob EXCEPT ![a] = s]
    /\ UNCHANGED << row, authorized, deliveries, cancelling, sweeping, runner, cleared >>

WithinLimitsOffByOne(s) ==
    s \notin AdminScans => /\ Cardinality(ActiveScans) < ConcurrencyLimit
                           /\ Cardinality(today) <= DailyQuota
WithinLimitsQuotaOnly(s) == s \notin AdminScans => Cardinality(today) < DailyQuota
WithinLimits(s) ==
    s \notin AdminScans => /\ Cardinality(ActiveScans) < ConcurrencyLimit
                           /\ Cardinality(today) < DailyQuota

\* The two counts, of committed rows only
CreateAdmit(a) ==
    /\ spc[a] = "authorized"
    /\ WithinLimits(sjob[a])
    /\ spc' = [spc EXCEPT ![a] = "admitted"]
    /\ UNCHANGED << row, authorized, deliveries, sjob, cancelling, sweeping, runner, cleared >>

\* The task is handed over before the row is committed
Dispatch(a) ==
    /\ spc[a] = "admitted"
    /\ spc' = [spc EXCEPT ![a] = "dispatched"]
    /\ \E n \in 1..MaxDeliveries : deliveries' = [deliveries EXCEPT ![sjob[a]] = n]
    /\ UNCHANGED << row, authorized, sjob, cancelling, sweeping, runner, cleared >>

CreateCommit(a) ==
    /\ spc[a] = "dispatched"
    /\ status' = [status EXCEPT ![sjob[a]] = "queued"]
    /\ created' = [created EXCEPT ![sjob[a]] = "recent"]
    /\ today' = today \cup {sjob[a]}
    /\ spc' = [spc EXCEPT ![a] = "idle"]
    /\ sjob' = [sjob EXCEPT ![a] = NoScan]
    /\ UNCHANGED << started, results, authorized, deliveries, cancelling, sweeping, runner, cleared >>

\* Rejection, an exception or the death of the API process: rollback.  A
\* background task dies with its request, a message already sent does not.
CreateAbort(a) ==
    /\ spc[a] # "idle"
    /\ deliveries' = IF UseBroker THEN deliveries
                                  ELSE [deliveries EXCEPT ![sjob[a]] = 0]
    /\ spc' = [spc EXCEPT ![a] = "idle"]
    /\ sjob' = [sjob EXCEPT ![a] = NoScan]
    /\ UNCHANGED << row, authorized, cancelling, sweeping, runner, cleared >>

-----------------------------------------------------------------------------
(* Cancelling a scan: load, check, write at the end of the request          *)

CancelSelect(c, s) ==
    /\ cancelling[c] = NoScan
    /\ status[s] \in Active
    /\ cancelling' = [cancelling EXCEPT ![c] = s]
    /\ UNCHANGED << row, authorized, deliveries, api, sweeping, runner, cleared >>

CancelCommit(c) ==
    /\ cancelling[c] # NoScan
    /\ status' = [status EXCEPT ![cancelling[c]] = "cancelled"]
    /\ cancelling' = [cancelling EXCEPT ![c] = NoScan]
    /\ UNCHANGED << created, started, today, results, authorized, deliveries,
                    api, sweeping, runner, cleared >>

CancelAbort(c) ==
    /\ cancelling[c] # NoScan
    /\ cancelling' = [cancelling EXCEPT ![c] = NoScan]
    /\ UNCHANGED << row, authorized, deliveries, api, sweeping, runner, cleared >>

-----------------------------------------------------------------------------
(* recover_stale_scan_jobs and the commit of the Celery task around it      *)

SweepSelect(w) ==
    /\ sweeping[w] = {}
    /\ \E s \in ActiveScans : Stale(s)
    /\ sweeping' = [sweeping EXCEPT ![w] = {s \in ActiveScans : Stale(s)}]
    /\ UNCHANGED << row, authorized, deliveries, api, cancelling, runner, cleared >>

SweepCommit(w) ==
    /\ sweeping[w] # {}
    /\ status' = [s \in Scans |-> IF s \in sweeping[w] THEN "failed" ELSE status[s]]
    /\ sweeping' = [sweeping EXCEPT ![w] = {}]
    /\ UNCHANGED << created, started, today, results, authorized, deliveries,
                    api, cancelling, runner, cleared >>

SweepAbort(w) ==
    /\ sweeping[w] # {}
    /\ sweeping' = [sweeping EXCEPT ![w] = {}]
    /\ UNCHANGED << row, authorized, deliveries, api, cancelling, runner, cleared >>

-----------------------------------------------------------------------------
(* run_scan_job                                                             *)

\* Runner r, at position from, moves on with the row unchanged
Move(r, from, to) ==
    /\ rpc[r] = from
    /\ rpc' = [rpc EXCEPT ![r] = to]
    /\ rjob' = [rjob EXCEPT ![r] = IF to = "idle" THEN NoScan ELSE rjob[r]]
    /\ UNCHANGED << created, today, authorized, deliveries, api, cancelling, sweeping >>

\* Runner r commits st into its row without looking at what the row holds
MoveWriting(r, from, to, st) ==
    /\ Move(r, from, to)
    /\ status' = [status EXCEPT ![rjob[r]] = st]

\* A background task starts after the response, that is after the commit; a
\* worker may take its message as soon as it was sent
Deliverable(s) == deliveries[s] > 0 /\ (UseBroker \/ status[s] # "absent")

Start(r, s) ==
    /\ rpc[r] = "idle"
    /\ Deliverable(s)
    /\ deliveries' = [deliveries EXCEPT ![s] = deliveries[s] - 1]
    /\ rpc' = [rpc EXCEPT ![r] = "select"]
    /\ rjob' = [rjob EXCEPT ![r] = s]
    /\ UNCHANGED << row, authorized, api, cancelling, sweeping, cleared >>

\* The process that holds the undelivered task dies
LoseTask(s) ==
    /\ deliveries[s] > 0
    /\ deliveries' = [deliveries EXCEPT ![s] = 0]
    /\ UNCHANGED << row, authorized, api, cancelling, sweeping, runner, cleared >>

\* First SELECT: only a queued row is worth claiming
Select(r) ==
    /\ Move(r, "select", IF status[rjob[r]] = "queued" THEN "claim" ELSE "idle")
    /\ UNCHANGED << status, started, results, cleared >>

\* UPDATE ... SET status = 'validating' WHERE id = ... AND status = 'queued'
ClaimUnguarded(r) ==
    /\ MoveWriting(r, "claim", "load", "validating")
    /\ started' = [started EXCEPT ![rjob[r]] = "recent"]
    /\ cleared' = IF authorized THEN cleared \cup {rjob[r]} ELSE cleared
    /\ UNCHANGED results
Claim(r) ==
    \/ /\ rpc[r] = "claim" /\ status[rjob[r]] = "queued"
       /\ MoveWriting(r, "claim", "load", "validating")
       /\ started' = [started EXCEPT ![rjob[r]] = "recent"]
       /\ cleared' = IF authorized THEN cleared \cup {rjob[r]} ELSE cleared
       /\ UNCHANGED results
    \/ /\ rpc[r] = "claim" /\ status[rjob[r]] # "queued"
       /\ Move(r, "claim", "idle")
       /\ UNCHANGED << status, started, results, cleared >>

MarkRunning(r) ==
    /\ MoveWriting(r, "load", "recheck", "running")
    /\ UNCHANGED << started, results, cleared >>

\* The second look at the authorization, taken by the runner itself
RecheckSkipped(r) ==
    /\ Move(r, "recheck", "scan")
    /\ UNCHANGED << status, started, results, cleared >>
Recheck(r) ==
    /\ Move(r, "recheck", IF authorized THEN "scan" ELSE "fail")
    /\ UNCHANGED << status, started, results, cleared >>

\* run_scan_for_profile returns its findings, or raises
Scan(r) ==
    /\ \E to \in {"parse", "fail"} : Move(r, "scan", to)
    /\ UNCHANGED << status, started, results, cleared >>

\* _mark_scan_failed on the object in hand; its notification may still raise
MarkFailed(r) ==
    /\ \E to \in {"idle", "failSelect"} : MoveWriting(r, "fail", to, "failed")
    /\ UNCHANGED << started, results, cleared >>

MarkParsing(r) ==
    /\ MoveWriting(r, "parse", "publish", "parsing")
    /\ UNCHANGED << started, results, cleared >>

\* Findings, findings_count, telemetry and COMPLETED in one transaction
Publish(r) ==
    /\ MoveWriting(r, "publish", "profile", "completed")
    /\ results' = results \cup {rjob[r]}
    /\ UNCHANGED << started, cleared >>

\* Site profile, benchmark run, monitoring delta, AI enrichment
Post(r) ==
    /\ \E p \in PostSteps : Move(r, p, NextPost[p])
    /\ UNCHANGED << status, started, results, cleared >>

\* Any other exception: rollback, then fail_scan_job_by_id in a new session
Raise(r) ==
    /\ \E p \in TryBlock : Move(r, p, "failSelect")
    /\ UNCHANGED << status, started, results, cleared >>

FailSelectUnchecked(r) ==
    /\ rpc[r] = "failSelect"
    /\ Move(r, "failSelect", IF status[rjob[r]] = "absent" THEN "idle" ELSE "failCommit")
    /\ UNCHANGED << status, started, results, cleared >>
FailSelect(r) ==
    /\ Move(r, "failSelect",
            IF status[rjob[r]] \in Terminal \cup {"absent"} THEN "idle" ELSE "failCommit")
    /\ UNCHANGED << status, started, results, cleared >>

FailCommit(r) ==
    /\ MoveWriting(r, "failCommit", "idle", "failed")
    /\ UNCHANGED << started, results, cleared >>

\* The process running r is killed
Crash(r) ==
    /\ \E p \in RunnerPc \ {"idle"} : Move(r, p, "idle")
    /\ UNCHANGED << status, started, results, cleared >>

-----------------------------------------------------------------------------
(* The environment: time, and the owner of the domain                       *)

\* Only a sweep reads ages, and only those of active rows: no others grow old
AgeCreated(s) ==
    /\ Sweepers # {} /\ status[s] \in Active /\ created[s] = "recent"
    /\ created' = [created EXCEPT ![s] = "old"]
    /\ UNCHANGED << status, started, today, results, authorized, deliveries,
                    api, cancelling, sweeping, runner, cleared >>

AgeStarted(s) ==
    /\ status[s] \in Active /\ created[s] = "old" /\ started[s] = "recent"
    /\ started' = [started EXCEPT ![s] = "old"]
    /\ UNCHANGED << status, created, today, results, authorized, deliveries,
                    api, cancelling, sweeping, runner, cleared >>

Midnight ==
    /\ today # {}
    /\ today' = {}
    /\ UNCHANGED << status, created, started, results, authorized, deliveries,
                    api, cancelling, sweeping, runner, cleared >>

\* Verification expires or is revoked, an assignment ends, a pilot is stopped
Revoke ==
    /\ authorized
    /\ authorized' = FALSE
    /\ UNCHANGED << row, deliveries, api, cancelling, sweeping, runner, cleared >>

Authorize ==
    /\ ~authorized
    /\ authorized' = TRUE
    /\ cleared' = cleared \cup {s \in Scans : started[s] # "never"}
    /\ UNCHANGED << row, deliveries, api, cancelling, sweeping, runner >>

-----------------------------------------------------------------------------
Create(a) == \/ \E s \in Scans : CreateAuthorize(a, s)
             \/ CreateAdmit(a) \/ Dispatch(a) \/ CreateCommit(a) \/ CreateAbort(a)

Cancel(c) == \/ \E s \in Scans : CancelSelect(c, s)
             \/ CancelCommit(c) \/ CancelAbort(c)

Sweep(w) == SweepSelect(w) \/ SweepCommit(w) \/ SweepAbort(w)

Run(r) == \/ \E s \in Scans : Start(r, s)
          \/ Select(r) \/ Claim(r) \/ MarkRunning(r) \/ Recheck(r) \/ Scan(r)
          \/ MarkFailed(r) \/ MarkParsing(r) \/ Publish(r) \/ Post(r)
          \/ Raise(r) \/ FailSelect(r) \/ FailCommit(r) \/ Crash(r)

Environment == \/ \E s \in Scans : AgeCreated(s) \/ AgeStarted(s) \/ LoseTask(s)
               \/ Midnight \/ Revoke \/ Authorize

Next == \/ \E a \in Sessions : Create(a)
        \/ \E c \in Cancellers : Cancel(c)
        \/ \E w \in Sweepers : Sweep(w)
        \/ \E r \in Runners : Run(r)
        \/ Environment

Spec == Init /\ [][Next]_vars

(* Time passes and beat keeps triggering sweeps, not all of which die: the  *)
(* only scheduling the recovery of a scan relies on.                        *)
Fairness == /\ \A s \in Scans : WF_vars(AgeCreated(s)) /\ WF_vars(AgeStarted(s))
            /\ \A w \in Sweepers : WF_vars(SweepSelect(w)) /\ SF_vars(SweepCommit(w))

FairSpec == Spec /\ Fairness

-----------------------------------------------------------------------------
(* Properties                                                               *)

TypeOK ==
    /\ status \in [Scans -> Status]
    /\ created \in [Scans -> Age]
    /\ started \in [Scans -> Age]
    /\ today \subseteq Scans /\ results \subseteq Scans /\ cleared \subseteq Scans
    /\ authorized \in BOOLEAN
    /\ deliveries \in [Scans -> 0..MaxDeliveries]
    /\ spc \in [Sessions -> SessionPc]
    /\ sjob \in [Sessions -> Scans \cup {NoScan}]
    /\ cancelling \in [Cancellers -> Scans \cup {NoScan}]
    /\ sweeping \in [Sweepers -> SUBSET Scans]
    /\ rpc \in [Runners -> RunnerPc]
    /\ rjob \in [Runners -> Scans \cup {NoScan}]
    /\ \A a \in Sessions : spc[a] # "idle" => sjob[a] \in Scans
    /\ \A r \in Runners : rpc[r] # "idle" => rjob[r] \in Scans

\* Positions a runner reaches only by winning the claim
Owning == Executing \cup {"fail"} \cup PostSteps

\* However often a task is delivered, and whatever cancels or recovers the
\* row meanwhile, at most one run_scan_job is past the claim of a scan.
SingleRunner ==
    \A r1, r2 \in Runners :
        rpc[r1] \in Owning /\ rpc[r2] \in Owning /\ rjob[r1] = rjob[r2] => r1 = r2

\* Once a scan's findings are committed no runner is ever again on its way
\* to scan the target or to commit findings for it.
NoRework ==
    \A r \in Runners : rpc[r] \in Executing \cup {"fail"} => rjob[r] \notin results

\* Scanners run, and findings are committed, only for a scan whose target was
\* authorized at some moment since its claim: a revocation that reached the
\* database while the scan was queued keeps the scanners from starting.
AuthorizedSinceClaim ==
    /\ results \subseteq cleared
    /\ \A r \in Runners : rpc[r] \in {"scan", "parse", "publish"} => rjob[r] \in cleared

\* The daily quota is counted before the insert, so racing requests overshoot
\* it, but by fewer scans than there are concurrent API sessions.
QuotaOvershootBounded ==
    Cardinality(today \ AdminScans) <= DailyQuota + Cardinality(Sessions) - 1

\* SCAN_CONCURRENCY_LIMIT is exceeded in two ways only: requests that count
\* before either inserts, and runners that write an active status over a row
\* that was cancelled or failed, and no longer counted, while they worked.
ConcurrencyOvershootBounded ==
    Cardinality(ActiveScans \ AdminScans)
        <= ConcurrencyLimit + Cardinality(Sessions) - 1 + Cardinality(Runners)

\* When a task is delivered once, the failure handling of a runner whose
\* findings are committed never reaches its write: a failing notification,
\* site profile, benchmark or monitoring step cannot turn the scan to FAILED.
LateFailureHarmless ==
    \A r \in Runners : rpc[r] = "failCommit" => rjob[r] \notin results

\* A scan whose row is active is eventually out of the active statuses for
\* good, whoever died or hung on the way: nothing is queued forever.
Settles ==
    \A s \in Scans : status[s] \in Active ~> [](status[s] \notin Active)

-----------------------------------------------------------------------------
(* What the row's status hides: every request is executed at most once      *)

Execution == [s \in Scans |->
    IF s \in results THEN "published"
    ELSE IF started[s] # "never"
         THEN IF \E r \in Runners : rjob[r] = s /\ rpc[r] \in Executing \cup {"fail"}
              THEN "executing" ELSE "abandoned"
    ELSE IF status[s] = "absent" THEN "none" ELSE "requested"]

AtMostOnce == INSTANCE ScanExecution WITH execution <- Execution

\* run_scan_job implements at-most-once execution of every scan.
ExecutedAtMostOnce == AtMostOnce!Spec
=============================================================================
