# Siber: a TLA+ verification project

Siber is a multi-tenant web and mobile application scanner: a FastAPI backend
(`src/backend/app`), PostgreSQL, Redis, Celery workers with a beat, and a
Next.js frontend.  This directory models the backend's stateful core.  Most of the
program's difficulty is not in its algorithms but in how independent processes
(API requests, background tasks, Celery workers, periodic tasks, event-loop
tasks, browser tabs) read and write the same rows and files, and that is what most
modules are about.  Four modules are about algorithms: what two scanners and the APK
analyzer find, what the analysis makes of the findings, and how a benchmark judges them.

    tlc -workers 2 -config ScanJobs_claim.cfg MCScanJobs.tla      # a run
    tlapm ScanJobs_proofs.tla                                     # the proofs of a module

PROJECT.json has the runs, the mutations each property is tested against, the
lines every definition models, the hazards and the theorems.  Paths below are
relative to `src/backend/app` unless they start with `docs/` or `README`.

## 1. Inventory

State, operations, interactions, what is hard, and what correctness means.  The
column "module" says where it is modelled; "-" means not at all (section 7).

| component | state | operations | module |
|---|---|---|---|
| Scan jobs (`services/scan_service.py`, `scan_dispatch.py`, `tasks/scan_tasks.py`) | `scan_jobs` rows: status, created_at, started_at; messages or background tasks in flight | create, dispatch, `run_scan_job`, cancel, `fail_scan_job_by_id`, `recover_stale_scan_jobs` | ScanJobs, ScanExecution |
| Scanner suite (`scanners/orchestrator.py`) | asyncio tasks, module-level telemetry, results | start, end of a scanner, deadline, cancellation, collection, report | ScannerSuite |
| Schedules (`services/monitoring_service.py`, `tasks/monitoring_tasks.py`) | `scan_schedules`: enabled, next_run_at, last_scan_job_id | CRUD, the periodic check, trigger, recovery, delta analysis | ScheduledScans; the delta in FindingStore |
| Findings (`services/finding_service.py`) | `findings`, `finding_history` | persist by fingerprint, status change, retest | FindingStore |
| AI enrichment (`tasks/ai_tasks.py`) | AI columns of `findings` | load, ask the model, write back | FindingStore; its dispatch in ScanJobs |
| Mobile applications (`mobile/services/`, `mobile/tasks/`) | `mobile_applications` rows, APK files | upload, deduplication, dispatch, analysis, cleanup | MobileApps |
| Attack surface discovery (`services/asm_service.py`, `asm_dispatch.py`, `asm/`) | `asm_jobs`, `assets`, the scan of what was found | create, dispatch with fallback, run, recover, upsert of the inventory | AsmDiscovery |
| Domains and scan authorization (`services/domain_service.py`, `scan_authorization_service.py`) | `domains`, verification tokens, test assignments, operator flags | add, verify, approve, suspend, revoke, delete, expiry, the decision itself | Domains; as a fact that changes in ScanJobs and ScheduledScans |
| Quotas and pilot accounts (`services/quota_service.py`) | counts of rows, the flags of a tenant | daily quota, concurrency limit, activation | ScanJobs, Tenancy |
| Accounts and sessions (`services/auth_service.py`, `user_service.py`; the browser's token store) | refresh tokens, the password, what localStorage holds | login, refresh, logout, change and reset of the password | Sessions |
| Rate limiting (`core/rate_limit.py`) | a Redis counter per window | count, expire | Sessions |
| Organizations, projects, support grants (`services/organization_service.py`, `project_service.py`, `support_grant_service.py`) | organizations, memberships, projects, grants | create, invite, change, remove, delete, grant, revoke | Tenancy |
| Quick scan (`services/quick_scan_service.py`) | none of its own | find or make a workspace, a project, a scan | Tenancy; the host in Domains |
| Analysis pipeline (`analysis/`) | none (pure) | ZAP grouping, correlation, verification, risk score | FindingAnalysis |
| Benchmark matching and gates (`benchmark/`) | none (pure) | match, metrics, customer view, baseline, release gates | BenchmarkMatching |
| Benchmark runs (`benchmark/runner.py`, `services/benchmark_run_service.py`) | run rows, expected items, services, a baseline file | run a suite with its deadline and failures | BenchmarkRuns |
| Individual scanners (`scanners/passive_http.py`, `sensitive_data.py`) | none (pure, given the answers of the target) | the findings of a page, its certificate, its redirects, its scripts | PassiveChecks; nuclei's process and ZAP's spiders in ScannerSuite |
| Mobile analyzers (`mobile/analyzers/`) | none (pure) | the findings of an APK | AndroidChecks |
| URL checks, reports, mail, audit log, frontend, deployment | none that another part decides on | I/O and formatting | - |

How they interact:

* **API request -> worker.** A request inserts a row and hands its id to Celery
  or to a FastAPI background task.  A scan is dispatched *before* its
  request commits (`api/v1/scans.py:80`, commit in `get_db`); the mobile upload
  commits before it dispatches and once more after; discovery does too, and takes
  a failure of the second commit for a failed dispatch.
* **Worker -> row.** A worker loads the row in a session of its own, keeps the
  object over minutes of scanning, and writes it by primary key.  Cancel,
  recovery and failure handlers write the same row from other sessions.
* **Beat -> worker.** `siber.check_scheduled_scans` creates scans and runs them
  inline; the recovery tasks fail what is stuck.  The production worker has two
  processes, so both may overlap with themselves and with each other.
* **Scan -> its consumers.** After COMPLETED is committed the same process runs
  the site profile, the benchmark run, the monitoring delta and the dispatch of
  the AI enrichment, each with its own commit, each able to raise.
* **Request -> request.** Two requests of one tenant, or of a tenant and an
  operator of the platform, read the same rows and commit one after the other;
  roles are resolved once per request, tokens and limits are counted once.

What is hard, and therefore what the properties are about: reads that are stale
when they are acted on, tasks delivered twice or never, processes that die between
two commits, limits counted before the insert, row locks held over many
statements, one transaction spanning several schedules that is committed early by a
rejection, results collected from tasks that are being cancelled, lists whose
order nobody fixed.

What makes each component correct:

* *Scan jobs*: one runner per scan; what is published is not worked again; no
  scanning of a target whose authorization was already gone; bounded overshoot
  of limits; a late failure does not undo a published scan; every scan settles.
* *Scanner suite*: it ends; it keeps the findings of those who returned; nobody
  runs on behind the report; the report says what happened.
* *Schedules*: a schedule advances only with its scan; overlaps are bounded.
* *Findings*: one row per fingerprint with a history that explains its status; all
  findings of a scan or none; a delta that compares what the two scans saw; columns
  that a scan which found the finding has written; no transaction waits for ever.
* *Mobile*: the file stays while it is needed and goes afterwards; duplicates are
  bounded by the races that make them; an accepted upload comes to an end.
* *Discovery*: the inventory is that of the discoveries that finished, an asset is
  inserted once and under a parent that exists; the row says what happened.
* *Domains*: a decision of an admin survives a verification in progress; a host and
  its tokens agree; an old record renews nothing; the owner of a host gets through.
* *Sessions*: what the tabs share stays usable; a password change ends every
  session that began before; a window lets no more through than its limit.
* *Tenancy*: one owner per organization, for ever; no membership twice; nobody
  changes what is not theirs; lists and access agree.
* *Analysis and benchmark*: no issue lost or repeated by correlation; scores
  ordered; every finding judged once; a result that no row order can change; a
  success that was measured.

## 2. Plan

| step | module | composes / implements | state |
|---|---|---|---|
| 1 | ScanJobs, with the abstract ScanExecution | implements ScanExecution | checked and proved |
| 2 | ScannerSuite | the `Scan` step of ScanJobs in detail | checked, safety proved |
| 3 | ScheduledScans | the producer of scans; `RunInline` stands for ScanJobs' run | checked, safety proved |
| 4 | MobileApps | same pattern, with files | checked, safety proved |
| 5 | FindingStore | runners publishing into one project, reviewers, deltas, AI enrichment | checked, safety proved |
| 6 | AsmDiscovery | the same pattern without a claim | checked, safety proved |
| 7 | Domains | what `authorized` of ScanJobs stands for, for one host | checked, safety proved |
| 8 | Sessions | tokens, tabs and the limiter in front of them | checked, safety proved |
| 9 | Tenancy | organizations under overlapping requests | checked, safety proved |
| 10 | FindingAnalysis, BenchmarkMatching, BenchmarkRuns | operators; BenchmarkRuns drives both through a whole suite | checked, safety proved |
| 11 | PassiveChecks, AndroidChecks | operators; what the scanners and the analyzer of a BenchmarkRuns suite report | checked, safety proved with BenchmarkRuns |

What is left: e-mail verification of accounts; the findings of a nuclei run, which
PassiveChecks does not cover.

## 3. The modules

### Common ground: what an action is

PostgreSQL runs READ COMMITTED.  The session factory (`core/database.py:20-40`)
sets `expire_on_commit=False, autoflush=False`.  A session thus sees the rows as
they were committed when it SELECTed, keeps that copy across its own commits, and
an assignment to a loaded object becomes `UPDATE ... WHERE id = ...`, of the columns
whose value differs from the loaded one, with no condition on what the row has
become.  In the modules about rows **an action is one SELECT with the decision made
on it, or one commit**; between the two every other process may move.  The one
conditional write in scope is the claim of `run_scan_job`
(`UPDATE ... WHERE id = ... AND status = 'queued'`), and it is one action.  In
ScheduledScans, FindingStore and AsmDiscovery a transaction holds its writes over
many steps, so the uncommitted rows and the row locks they imply are state.
ScannerSuite is about one event loop: an action is the code between two awaits.

### ScanJobs (core)

| state | code |
|---|---|
| `status, created, started` | the row; times are ages: `"never"`, `"recent"`, `"old"` (beyond the stale cutoff) |
| `today`, `results` | rows counted for the daily quota; scans whose findings are committed |
| `authorized` | what `assert_scan_authorized` would answer now |
| `deliveries` | copies of the task still to come |
| `spc, sjob` | an API session: idle, authorized, admitted, dispatched |
| `cancelling`, `sweeping` | what a cancel or a sweep has SELECTed |
| `rpc, rjob` | where an execution of `run_scan_job` is |
| `cleared` | history: scans authorized at some moment since their claim |

`CreateAuthorize, CreateAdmit, Dispatch, CreateCommit, CreateAbort` are
`ScanService.create`; `Cancel*` is `cancel`; `Sweep*` is
`recover_stale_scan_jobs` inside its Celery task; `Start` to `Post` is
`run_scan_job` in order (select, claim, mark running, re-check, scan, mark parsing,
publish, the four post-steps); `MarkFailed`, `Raise`, `FailSelect`, `FailCommit`
are its failure paths; `Crash` and `LoseTask` the death of a process.
`UseBroker` selects Celery (a worker may start before the commit, the message
survives the rollback) or background tasks (start after the response).

Cut away: several organizations and domains (limits and authorization are per
organization and domain, so one of each is where the races are), what a scanner
finds, the wording of errors.  `dispatch_scan_job` has two ways; every caller of
today passes `background_tasks`, the Celery way is taken by a caller that does
not.  Both are modelled: the code has both, and its guarded claim ("Scan %s claim
lost (already started elsewhere)") is there for the second.  A message is
delivered at most `MaxDeliveries` times: once normally, twice after a visibility
timeout or a resubmission by hand.

### ScanExecution (abstract)

Per scan: none, requested, executing, published or abandoned, never twice.
ScanJobs implements it under `Execution`, which reads the state of a scan off
`results`, `started` and the runners, and *not* off the status column: a
runner overwrites CANCELLED and FAILED, so the column does not tell whether
anyone still works.

### ScannerSuite

`run_scan_for_profile`: `Start`, `Finish(x)` (a scanner returns, gives up, times
out by itself or raises; telemetry is written in its `finally` block), `AllDone`
or `Deadline` (the two ways `asyncio.wait` returns), `Cut(x)` (CancelledError
reaches the task, whose `finally` block writes telemetry again), `Collect`,
`Report`.  `RunStatus` is the order of the conditions in the loop that builds
`scanner_runs`.

Two kinds of scanner have their work done outside of the event loop, which `tool`
follows.  `StartProcess` is nuclei's process, `StartSpider` the request to ZAP;
`LeaveSpider` is `_wait_spider` returning before the spider is through, which nobody
stops then; `ToolEnds` is the end of either.  `May` says which end a scanner can come
to in which state of its tool: nuclei's findings are read from a process that has
exited, its own timeout kills the process, ZAP's alerts are fetched when nobody waits
for the spider any more, and a ZAP that is disabled or out of reach is left alone.  A
scanner that is cut off leaves its process or spider at work: the handlers of both catch
`Exception`, and CancelledError is none.  `ProcessesWatched` therefore speaks of
scanners that end by themselves.

### ScheduledScans

`Begin` (sweep in the tick's session), `SelectDue`, then per schedule `Reject`
(its audit commit commits everything the session holds), `Refuse` (limit),
`Admit`, `Trigger`, `RunInline` (`run_scan_job` awaited in a session of its own,
which cannot see the uncommitted row), `Finish` (the commit), `Abort`.  Around
them recovery, cancellation, edits of a schedule, changes of the admission
decision, and time: `GrowOld` and `ComeDue`, where an interval (at least an hour) is longer
than the stale age (12 minutes) and the time limit of a task (10) together.

### MobileApps

`BeginStaging` to `Answer` are `upload_mobile_application` and the service it calls:
the APK is streamed into a temporary file, rejected (`RejectStaged`), found to be a
duplicate (`FindDuplicate`) or new (`FindNone`), renamed and inserted (`Store`), committed
(`CommitRow`) and dispatched (`Dispatch`, `CommitTaskId`, `CommitUnavailable`);
`UploadFails` and `UploadKilled` are its other ends.  `staging` has the uploads whose
temporary file is there; that of a killed process stays on the disk and is nobody's.
A found duplicate is answered without a write, and two found rows make the lookup
raise, which writes nothing either.  `Begin` to `Cleanup` is `run_analysis`, `Raise` and
`CommitFailed` its `except` block.  What passes by that block is `Struck`: `Kill`;
`MarkFails` (the commit of RUNNING stands before the try block); `Cancelled`
(CancelledError is no `Exception`, only the `finally` block runs); `HandlerFails` (the
handler's own statements raise); `CleanupFails`.  With `LoseTask` these are what `harmed`
remembers the rows of.  The configuration is
production's: Celery is on, so a failed dispatch is
answered as unavailable.  The local background fallback is not modelled.

### FindingStore

One project.  A writer (`Writers`: scans, and executions of a mobile analysis) goes
through `persist_analyzed_findings` as one transaction: `Look` SELECTs one
fingerprint, `Flush` writes what is dirty and takes the row locks, `Commit` ends
it.  The session flushes by itself when a new finding needs its id and at the
commit, so a writer may hold locks while it still looks (`Flushing`).  `Conflict` is
the unique key on (project, fingerprint): the second INSERT fails with its whole
transaction (`ConflictFails`).  `Waits` is the lock queue and `Victim` PostgreSQL's
answer to a cycle in it.  `GiveUp` and `Raise` are the other ends of a failed scan.
`StatusWritten` and `Logged` are the cases of the code: new, seen again, reopened
because it was resolved.  Of an existing row the session writes the columns whose value
is not the one in `seen`, what `Look` loaded: `StatusWritten`, `SeverityWritten` and
`EnrichByRules` leave the others as they have become.  A text by the rules is told by the
severity it names.  `clock` counts the transactions begun, `began` is the one of a
writer: `created_at` of what it logs (`func.now()`), and the only order of
`list_history`; `committed` is where the entry really stands.  `enriched` remembers the
findings an LLM ever wrote about.

`BeginReview / OpenReview / SetStatus` are a reviewer, `Retest` the request that logs
`retest_started` and starts a scan; `AnalyzeDelta` is `analyze_scan_delta`, which
joins the histories of two scans by correlation key with the *current* rows;
`LoadForEnrichment / WriteEnrichment` are the Celery task on both sides of the
LLM's answer.  History entries carry in `to` the status they set, or `"kept"`.

### AsmDiscovery

`Create / Dispatch / LoseRequest / LoseTask` are the request and the two ways of
`dispatch_asm_discovery`: when recording the Celery task id fails after Celery has
taken the task, the fallback runs the job a second time.  `Load, Start, Authorize,
Discover, UpdateAsset / InsertAsset, ScanHosts, Finish, Fail, Die` are
`run_discovery_job`.  There is no claim: `Start` writes RUNNING over whatever
became of the row.  The inventory is one transaction, so `asset`, `finding` and
`scan` change at `Finish` and the uncommitted inserts are `inserted[e]`; a second
execution that inserts the same name waits for the first and then breaks the
unique key.  `SweepRead / SweepWrite / SweepFails` are a sweep (the beat tasks, the list of
jobs): what it selected it writes by primary key afterwards, whatever became of it.
`overtaken` remembers the jobs that were COMPLETED by then.

### Domains

One hostname of one project: `row` (what of `domains` decides: here, verified,
method, revoked, active, aged), `token` (the verification tokens),
`published` (which token the owner's DNS holds), `assigned`, `exempt` and `relaxed` (a
test assignment, an admin's exemption, the development setting).  `Begin` SELECTs, the commits
merge: `Merged(s)` takes over only the columns whose value differs from the snapshot,
which is what SQLAlchemy writes.  `Asked / Unanswered` are the DNS lookup in
between.  The platform verifies with an approval of active scanning (`platform`) or without
(`confirm`).  `Status` and `Authorized` are `verification_status` and
`resolve_scan_authorization`.  SELECTs that follow each other without an await on
something else are one action here.

### Sessions

One account in the tabs of one browser.  Tabs share `stored` (localStorage) and post
it for a new one; `Incr / Expire` are the limiter's two Redis commands in front of
the endpoint, `RedisFails` their failure with the effect there or not, `RetryAfterWait` the
second post after a 429, which the limiter counts and may refuse; `ReadRefresh / Rotate` its transaction, `Receive` or `LoseAnswer` the
way back.  `ReadLogin / Login`, `ReadChange / ReadReset / SavePassword`, `Logout` are
the others; `since[t]` is the password a token was issued under, `crossed` the tokens
whose issue and a password change were under way together, `lost` those whose
exchange was answered to nobody.

### FindingAnalysis and BenchmarkMatching

Operators only.  FindingAnalysis: the grouping of ZAP alerts, `CorrelationKey`,
`Correlate` (of the raw findings in the order the scanners ended),
`Fingerprint`, the verdicts of passive verification, `RiskScore`.
BenchmarkMatching: `MatchFindings` (greedy, in the order the rows come, so it takes
sequences), `Metrics`, the blind evaluation, `CustomerViews`, `Delta`,
`GateFailures / GateExit`, the release gates and `ReadyFor`.  The loops of the code are
told by what they come to, so that they can be reasoned about: a group is the members
with its key, its primary the first of the most trusted and severest.  An item of
the ground truth that finds a row takes all the free ones it matches, one as its own
and the others as duplicates; so what is free when the next one looks is what no
earlier measurable item matches (`TakenBy`), and no state of the loop is left.  A text the code splits
at a prefix is a pair; a URL is scheme, path and spelling; paths are numbered in
alphabetical order because ties are broken by it; scores and ratios are integers.

### PassiveChecks and AndroidChecks

Operators only, with sets of findings for values.  `PassiveFindings(target, look)` is
`run_passive_http_scan`, a `look` being what the target shows of its certificate, its plain
HTTP address and its page, failures included: missing headers, cookies without a flag,
disclosures, server errors, certificates and redirects, and the one finding of a failed
request, which is dropped when the certificate was reported already.
`SensitiveFindings` is `scan_sensitive_data`: one finding per body and pattern, for its
first match, which counts unless a check (the digits of a card number, an IBAN another
pattern has had) says otherwise.

`AndroidFindings(apk)` is `AndroidStaticAnalyzer.analyze`: attributes of the manifest,
which only a manifest in its text form shows, dangerous permissions, the first secret
of every entry, the network configurations.  `AndroidRows` are the rows
`persist_mobile_findings` makes of them, one per key and component.

### BenchmarkRuns

`run_suite` of the benchmark runner over all these operators, for one suite of two kinds.
A web suite: services start or are late, `Sync` (the ground truth, possibly a subset),
`CreateRun`, scanners report in any order what they find, `Analyze`, `Verify` (one
finding at a time; the first answer of the target is cached, the target may change
between findings), `Store` (which ends what the scan has in memory), `Match` (any order of
the rows), `Judge` (gate, comparison, `--write-baseline`), `Finish`; `ScanFails`,
`MatchFails`, `NoResult` and `SuiteEnds` (the deadline, or an exception) are the ways it
goes wrong.  `Stop` is the `finally` block, which calls `docker compose down` and does not
look whether that failed: `services` may stay TRUE.  `Die` is the end of a runner that is
killed at any step, as it has to be when a `docker compose` command hangs: no block runs
and the services stay as they are.  The next suite (`Leaves`) starts from what this one
left: expected rows, baseline, the row of the APK, and maybe its containers.

The Android suite: `UploadFixture` inserts the run and the row of the APK in one
transaction, or finds the row an earlier run has inserted; `AnalyzeApk` analyses and
stores, `SkipAnalysis` is `run_analysis` returning because the row is settled,
`MatchApk` is `complete_for_mobile`, `AnalysisFails` its `except` block, `JudgeApk` the
gate.  Every build of the fixture has the same digest, so only the first run on a database
is ever measured: later runs find the row settled, have no result and exit with 1
(`NoResult`), or, if the first was killed before its analysis, the lookup of the
run by its application finds two and the application FAILED.  `linked` counts the runs
up to two, all the code distinguishes.  The gate is told that no critical item of an APK
was missed, whatever was.

### Tenancy

A request is a record in a slot: what it has read and the row it is about to write.
`Authorize` resolves the role once; `Invite*`, `MemberRead / ChangeRole / Remove`,
`CreateProject / UpdateProject / DeleteProject`, `DeleteOrg` are the organization's
endpoints, `AskCreate / AskManaged / Create` and `AskLab / LabRead / EnsureLab` the ways an
organization comes to be, `QuickLook / QuickRead / Quick` the workspace of a one-step
scan, `AskGrant / GiveGrant / RevokeGrant / Expire` support access, `UpdatePilot`
the platform's switch.  `Leave` is a request that is refused or rolled back.  Where
the code takes the first of several rows by date or name, any of them may be taken.

### MC modules

They name model values, small sets of them, and their symmetry.  Symmetry is not
used in runs that check liveness, and in the others only over sets whose members
the specification treats alike.  MCFindingStore constrains its run to three cases
(`Cases`): two scans of two findings, three by hand of one, and two of one together with two
reviewers.  A transaction that has begun to persist stays in its case until it ends,
so the constraint hides no step that `PersistEnds` waits for.  MCBenchmarkRuns is the one with content: a small
target (a page and its script, five looks at it, two pairs of secrets, three lists of ZAP
alerts), an APK with findings of every kind, and a ground truth for each.

## 4. The runs

| run | question | bounds |
|---|---|---|
| `scan_claim` | one runner, no rework, authorization since the claim, refinement of ScanExecution; does every scan settle for good | 1 scan delivered up to twice by a broker, 2 runners, 1 canceller, 1 sweeper, fair time and sweeps |
| `scan_quota` | how far racing requests overshoot the daily quota and the concurrency limit; can a late failure undo a published scan | 4 scans delivered once, 2 sessions, 1 runner, 1 canceller, both limits 1 |
| `suite_safety` | findings kept, nobody left behind, honest report, hard timeout | 4 scanners of the `deep` profile, one with a process and one with a spider, up to 2 findings each |
| `schedule_overlap` | active scans per schedule when ticks overlap, advance with the scan | 2 schedules, 3 scans, 2 ticks, limit 2 |
| `mobile_safety` | the APK outlives its need and no longer; duplicates; every application ends | 1 digest, 3 rows, 2 upload sessions, 2 runners, 1 delivery, crashes |
| `finding_store` | history and delta in step under conflicts, deadlocks and failures, every transaction ends; what a row says when sessions write only what they changed; does the history explain the status, whoever commits last | three cases: 2 scans, 2 fingerprints with one correlation key, 2 severities of one of them; 3 scans by hand, 1 fingerprint, 2 severities; 2 scans, 2 reviewers, 2 edits, 1 fingerprint |
| `discovery_jobs` | inventory of finished discoveries only, honest rows, every job settles | 1 job delivered twice, 2 executions, 1 sweep at a time, a root with one host and one address |
| `domain_host` | decisions stick, rows and tokens agree, an old record renews nothing, the owner gets through | the owner and the admins, 3 tokens |
| `session_tabs` | the shared token stays usable, a password change ends sessions, the window's limit and its one end | 2 tabs, 3 tokens, 1 change, limit 1, production |
| `benchmark_quality` | analysis, matching and verdicts over whole suites | a web suite with 3 scanners, 4 expected items, 5 looks and 2 answers of the target, with and without subset and baseline; an Android suite with one APK and 5 expected items |
| `benchmark_documented` | is every unmatched finding of info severity informational, as the metric definitions say (violated) | the same |
| `tenancy` | owners, memberships, grants, who changes what | 4 accounts, 2 organizations, 2 projects, 2 grants, 2 requests at a time, 3 in all |

Why these bounds are enough for the questions: every race in the list is between
two processes of a kind over one row, or between two rows counted together, and
the actions never compare identities beyond equality.  Two runners and two
deliveries are what a violated claim needs; a third adds runners that lose the
same UPDATE.  Two sessions and limits of one give the smallest overshoot; both
bounds are tight there (TLC reaches them; a session here is one API request, which
inserts one row; a tick of the schedules may hold several uncommitted scans, which neither
bound counts, and is in ScheduledScans), and the theorems `QuotaOvershoot` and
`ConcurrencyOvershoot` cover every number.  `scan_quota` has no sweeper, so no
row grows old in it: only sweeps read ages.  Two ticks are the production
concurrency.  Two writers over two fingerprints are the smallest lock cycle, and
one correlation key for both is what separates a delta by key from one by
fingerprint.  A third scan gives a row three texts to be made of, a second reviewer a
transaction that is open while another one's decision is committed; mobile writers take the same steps with other constants and are not in
the run.  Three rows let two racing uploads leave a duplicate and a third upload
meet it.  Three tokens let a host's verification expire and be renewed, and a tab
rotate a token the other one has still in hand.  Three requests are a change, the
one it overlaps, and one that meets the result; `MaxRows` leaves two memberships
beyond the founder's.  All safety properties of the runs
but the one that is violated are proved for all sizes (section 6).

A property with a name like `...Sound` is a conjunction of named parts, each with
its comment in the module, checked together:

| property | parts |
|---|---|
| `TicksBounded` | type, `OverlapBounded` |
| `ArtifactsSound` | type, `StagedInHand`, `DeletedAfterAnalysis`, `DuplicatesBounded`, `ErrorLogHonest` |
| `HistorySound` | type, `DetectedOnce`, `FoundAllOrNothing` |
| `InventorySound` | type, `InventoryOfFinished`, `InsertedOnce`, `ParentsKnown` |
| `RowHonest` | `CompletedBacked`, `FailureHonest` |
| `HostSound` | type, `TokensBehindRow` |
| `StorageSound` | type, `StoredUsable` |
| `AnalysisFaithful` | `GroupingFaithful`, `HeaderVerdictsAgree`, `ScoreOrdered` |
| `NobodyLeftBehind` | no scanner of a collected run goes on; `ProcessesWatched` |
| `ResultFaithful` | `Measurements`, `JudgedOnce`, `ResultByDefinition`, `ViewsOrderFree` |
| `VerdictEarned` | type, `ZeroMeansJudged`, `ReleaseMonotone` |
| `AccessSound` | type, `MemberOnce`, `ListMatchesAccess`, `GrantsOverlap`, `WorkspacesOverlap` |

Every property of a passing run has a mutation of the modelled code, listed in
PROJECT.json and defined next to the original (`ClaimUnguarded`,
`DeadlineForgetsCancel`, ...), under which the run finds it violated.

### What the code does that its documents or callers do not expect

Met while translating.  Each is in the model; `benchmark_documented` shows one of them by a
run of its own, for the others the properties say what holds instead.

| where | what the code does |
|---|---|
| `services/scan_service.py:495` | the status is not looked at after the claim: a cancelled running scan is worked to its end and becomes COMPLETED (`docs/pilot/incident-response-checklist.md:4`: "cancel running scans").  `ConcurrencyOvershootBounded` counts it |
| `services/scan_service.py:402` | a scan claimed between the sweep's SELECT and its write is failed as stale |
| `scanners/nuclei.py`, `zap_passive.py` | a scanner the deadline cuts off leaves its process or spider at work on the target.  `ProcessesWatched` excepts it |
| `scanners/orchestrator.py:60` | the `finally` block of a cancelled scanner overwrites its timeout record; it is reported as completed.  `OwnEndReported` speaks of own ends |
| `tasks/monitoring_tasks.py:56` | the inline run does not see the uncommitted scan, nobody else takes it, recovery fails it (README.md:82: scheduled scans) |
| `mobile/services/mobile_service.py:119` | lookup and insert are not atomic and no key backs them (README.md:99: "SHA-256 deduplikasyonu"); later uploads of that APK fail.  `DuplicatesBounded` says how many rows |
| `mobile/services/mobile_service.py:120` | the retry the 503 asks for (`mobile_dispatch.py:50`) finds the failed row and is answered as a duplicate: nothing is dispatched |
| `mobile/services/mobile_service.py:228, 260` | a failed commit of RUNNING, a handler that fails and a cancellation leave the row pending, and no sweep looks at mobile rows.  `AnalysisEnds` excepts them |
| `mobile/services/mobile_service.py:221, 257` | a second delivery of the task, or an exception after COMPLETED, turns an analysed application FAILED |
| `services/monitoring_service.py:136` | after a scan that failed, the next delta compares with nothing and reports old findings as new (README.md:83).  `DeltaMatchesScan` says what a delta's events do mean |
| `services/finding_service.py:330` | a history is listed by the begin of the transactions: the decision committed last need not be on top.  `StatusExplained` says how far it can be from it |
| `services/finding_service.py:119` | overlapping scans write different columns of one row: it may be listed under one scan with the text of another.  `TextBelongs` |
| `services/monitoring_service.py:182, 258` | severities of a delta are those of the current rows |
| `core/rate_limit.py:71` | a process or a command that fails between INCR and EXPIRE leaves a window without an end (`core/rate_limit.py:47`: "Atomically"); once over its limit it refuses for ever.  `WindowBounded` says that nobody puts an end off |
| `services/asm_service.py:54` | a sweep writes by primary key what it has selected: a job that is published in between becomes FAILED with its inventory there (`asm_service.py:43`: "stuck in active states").  `RowHonest` and `LateStartHarmless` say who may (`overtaken`) |
| `services/scan_authorization_service.py:146` | a host that was added and then assigned is scannable by neither way |
| `services/domain_service.py:187` | a DELETE of a host is refused by the foreign key of its tokens (`docs/api-endpoints.md:104`: "Remove domain") |
| `services/benchmark_matching_service.py:130` | an unmatched finding of info severity counts as false positive unless zap or nuclei reports it (`docs/benchmark-metrics.md:13`: "Unmatched info-severity"): run `benchmark_documented`.  `ResultByDefinition` says by how many (`OwnNotes`) |
| `benchmark/docker_control.py:84, 106` | `docker compose` runs without a timeout and outside of every deadline, and a failed `down` goes unnoticed: a suite may hang, or leave its containers behind |
| `services/benchmark_run_service.py` | when two expected items accept one finding, the second may be swallowed as a duplicate (`docs/benchmark-metrics.md:10`): `ResultByDefinition` holds under `AcceptedOnce` |
| `benchmark/` | expected rows are never deleted, so a `--subset` run after a full one is measured against the full set; a baseline is written also when the gate fails; a timeout leaves the run RUNNING; the Android suite is measured once per database and its missed critical items are not counted; gates without baselines report `closed_pilot` |
| `services/support_grant_service.py:97` | two active grants make the next lookup raise: the admin is locked out (`ListMatchesAccess`, `GrantsOverlap`) |
| `services/benchmark_workspace_service.py:71` | the runner's organization is found by its slug whoever owns it: that tenant's organization is hidden and gets a project (`ByRunner` in `TenantsApart`) |
| `services/organization_service.py:363` | `update_pilot_tenant` sets `is_active` of any organization, pilot or not |
| `services/auth_service.py` | a failed login counts in a transaction its own error rolls back: no counter is ever stored |

## 5. Fairness

* *ScanJobs*: time passes for an active row (weak fairness of ageing); a sweep
  that finds stale rows is started by beat every two minutes (weak) and, started
  again and again, is not killed every time before its commit (strong fairness of
  `SweepCommit`).  Nothing is assumed of runners, requests or the broker: they may
  stop at any step, and `Settles` holds all the same.
* *ScannerSuite*: the event loop runs what is ready, its timer fires and a
  cancelled task is resumed.  No scanner is assumed to end.
* *MobileApps*: a request being served goes on; the worker takes the messages of
  its queue and goes on with its task.  Rows that a lost message, a kill, a cancellation or
  a failure outside of the try block has struck are excepted in `AnalysisEnds`: the code
  has no recovery for mobile rows, and they stay QUEUED or RUNNING.  What the property
  shows is that an exception of the dispatch or inside the try block, wherever it
  strikes, leaves no row pending as long as the handler can write.
* *FindingStore*: a transaction that can go on does, and PostgreSQL's deadlock
  detector picks a victim (weak fairness of `Persist`).  Reviewers, deltas and the
  LLM may stop for ever.
* *AsmDiscovery*: beat sweeps (weak fairness of `SweepRead`) and not every sweep fails
  before its commit (strong, of `SweepWrite`), an execution that is alive goes on, time
  passes.
  Requests and messages may be lost, executions may die at any step.
* *Domains*: of the owner's requests only.  They end (weak), and the owner asks again
  as long as that is possible, DNS answering sometimes (strong).  Nothing is assumed
  of the admins; a revoked host and an assignment are the exceptions of
  `OwnerGetsThrough`.
* *BenchmarkRuns*: none, only safety is stated.  The deadline of a web suite covers neither
  the start nor the stop of its services, which block the event loop without a timeout,
  and the Android suite has none: that a suite ends does not follow from the code.
* *ScheduledScans, Sessions, Tenancy*: none; only safety is stated.

## 6. What is proved

`ScanJobs_proofs` holds for every finite set of scans, sessions and runners, every
set of cancellers and sweepers, and every value of the limits, from the named
assumptions of ScanJobs (`ScansAssumption`: `NoScan` is no scan and the admins'
scans are scans; `LimitsAssumption`: positive limits; `FiniteAssumption`, needed to
count).

| theorem | statement |
|---|---|
| `TypeCorrect` | `Spec => []TypeOK` |
| `Invariance` | `Spec => []IInv`, the inductive invariant |
| `AtMostOneRunner`, `NoSecondRun`, `AuthorizationRespected` | its conjuncts `SingleRunner`, `NoRework`, `AuthorizedSinceClaim` |
| `QuotaOvershoot` | `Spec => []QuotaOvershootBounded` |
| `ConcurrencyOvershoot` | `Spec => []ConcurrencyOvershootBounded` |
| `ExecutionRefined` | `Spec => ExecutedAtMostOnce` |
| `LateFailuresHarmless` | `MaxDeliveries = 1` implies `Spec => []LateFailureHarmless` |

`SingleRunner` is not inductive.  Nothing in it says why a second runner cannot
pass the claim while the first works on a row that a cancel or a late FAILED has
rewritten.  The reason is that no action ever writes "queued" over a row that
left it.  `IInv` says so in three conjuncts next to the properties:

* `Presence`: the row a session is about to insert is not committed, no two
  sessions insert the same, and every row that a canceller, a sweeper or a runner
  will write is committed; so only `CreateCommit` makes a row "queued", once;
* `Ownership`: a scan someone owns, or whose findings are committed, is not
  "queued", so the guard of the claim is false for it for ever, and a queued scan
  has never been started;
* `Clearance`: while the target is authorized, every claimed scan is in `cleared`,
  which is what the runner's own look at the authorization turns into
  `AuthorizedSinceClaim`.

`QuotaOvershoot` needs another one, `QuotaInv`: the day's scans plus the sessions
that have counted and not yet committed theirs are at most the quota minus one plus
the number of sessions.  `CreateAdmit` is the step that uses the count just made;
every other step moves a session's scan from one side to the other or makes the sum
smaller.  `ConcurrencyOvershoot` has the same argument with the scans that are
active or that a runner works on in place of the day's scans: that set, not the
active ones alone, is what a runner's write of RUNNING or PARSING cannot enlarge.

`ExecutionRefined` maps every step: the claim to `Execute`, `Publish` to
`Publish`, a failure or a crash while executing to `Abandon`, the commit of a
request to `Request`, everything else to a stutter.  `Ownership` and `SingleRunner`
are what makes the mapped state change for one scan at a time.

`LateFailuresHarmless` has one hypothesis more than the others, that a task is
delivered once, because two deliveries do undo a published scan: the second execution
may raise while the first works, find the row active and write FAILED after the first has
published.  With one
delivery, a copy of the task, the runner that has taken it and a session that is about
to send it exclude each other (`Alone`), so nobody but the runner itself fails the scan
it has published; and the row of a published scan is terminal (`Settled`), which is
what the handler of that one runner looks at.

`ScanDetails_proofs` is about the two modules that fill in what ScanJobs takes for
granted of a scan.  Its first part, on ScannerSuite, holds for every finite set of scanners
(`ScannersAssumption`), any of them with processes or with spiders (`ToolsAssumption`),
and every bound on what one of them finds (`MaxFindingsAssumption`).

| theorem | statement |
|---|---|
| `TypeCorrect` | `Spec => []TypeOK` |
| `Invariance` | `Spec => []IInv`, the inductive invariant |
| `NobodyIsLeft` | `Spec => []NobodyLeftBehind` |
| `AllFindingsAccounted` | `Spec => []FindingsAccounted` |
| `OwnEndsReported` | `Spec => []OwnEndReported` |

The report is computed from the last telemetry record of each scanner, and a
scanner may have up to two: the deadline's and that of its own `finally` block.
`IInv` therefore says what the last record is (`LastRecords`: of a scanner that
ended by itself, what that end records; of one cut off, the empty record), that only
a scanner that returned has a batch (`Batches`), that nobody is pending once results
are collected (`NobodyLeftBehind`, an inductive conjunct), and that the collected
results and the report are functions of these (`Results`).  The part of
`NobodyLeftBehind` about processes is `ProcessesWatched`, inductive by itself: `Finish`
ends what its scanner runs (`ToolAfter`), and nothing starts a process for a scanner
that is no longer running.  The count in
`OwnEndReported` follows because completed and failed checks partition the scanners;
it is where the finiteness of the set is used.

Its second part, on Domains, holds for all sessions, whatever operations they are asked
for, and every number of tokens (`DomainAssumption`: the owner is a session, the bound a
number).

| theorem | statement |
|---|---|
| `HostInvariance` | `HostSpec => []HostInv`, the inductive invariant |
| `HostKeptSound` | `HostSpec => []HostSound` |
| `DecisionsKept` | `HostSpec => DecisionsStick` |
| `RenewalsNeedNewTokens` | `HostSpec => RenewedByNewToken` |

A request writes the columns it has changed over whatever the row has become, so the row
may be a mixture of what several requests meant.  `HostInv` says which mixtures there are.
`HostPresent`: `TokensBehindRow` (the row is there exactly as long as it has tokens, which is
why a delete is refused whatever was loaded when, and a row verified by DNS has used one
up), and a verified row names a method.  `InHand`: a verification
has the token it needs and has loaded a row that was not revoked, so its "not revoked" is
no change and is not written; that is the whole reason why `DecisionsStick` holds against
a lookup that takes seconds.  `OnExpired`: a verification does not
expire within a request, so a request under way on an expired row has loaded it expired, with a
token nobody has used; where one renews it, the token is the one in its hand.
`NextTokenIssued` and the lemmas before it (a finite set of tokens has a newest and a
first) are where the library's well-founded induction comes in.

`Tenancy_proofs` holds for every set of users, organizations, projects, grants and
requests at a time, from `TenancyAssumption` (the founder and the runner are users,
the home organization is one, the bounds are numbers) and `RoleAssumption`;
`AccessInvariance` needs `FiniteAssumption` too (there are finitely many
organizations and grants).

| theorem | statement |
|---|---|
| `TenancyInvariance` | `Spec => []IInv`, the inductive invariant |
| `OwnershipKept` | `Spec => []OneOwner` |
| `MembershipUnique` | `Spec => []MemberOnce` |
| `TInvariance` | `Spec => []TInv`, the invariant with what requests have in hand |
| `TenantsKeptApart` | `Spec => TenantsApart` |
| `AccessInvariance` | `Spec => []AInv`, the invariant with what requests have seen |
| `AccessKeptSound` | `Spec => []AccessSound` |

`OneOwner` alone is not inductive: a request that changes or removes a member reads
the row, finds it is not the owner's, and writes it by id steps later, when anything
may have been committed.  `IInv` adds `Tables` (ids of membership rows are unique and
below the counter, rows belong to organizations that exist) and `Requests`: the row a
member request has in hand is not an owner's *now*, and an invitation's row is not
one.  That stays true because owners' rows are inserted only together with their
organization and with a fresh id, and no update makes a row an owner's.  The proof
goes request by request (`RequestStep`), with one lemma per kind of write
(`OwnedInsertOrg`, `OwnedInvite`, `OwnedChangeRole`, `OwnedRemove`) and one that says
what requests in other slots rely on (`OthersRely`).

`TenantsApart` builds on it.  The guards of an endpoint look at the role resolved when the request began, the
property at the membership the caller held then; and a member's row is written by its
id alone.  `Hand` connects them: a role of admin or owner rank was a membership's (a
support grant gives a viewer, which `Ranked` keeps below every guard), and the row with
the id in hand, if it is still there, belongs to the request's own organization.  The
second survives other requests because no row changes its organization and new rows
have new ids (`RowsStay`, `HandsKept`); so does the slug by which the benchmark's runner
has found an organization, the one place where a project is added without its admins.

`AccessSound` is about what two requests did not see of each other.  `AInv` keeps, of every
grant and every one-step workspace, that what its request saw exists and is another's:
another organization's or admin's grant, another user's organization (`GrantsSeen`,
`WorkspacesSeen`), and the same of requests still under way (`Seen`).  It survives because
organizations are deactivated and grants revoked but their rows never go and never change
hands (`Grows`).  Two of the same kind therefore cannot have seen each other, which is what
`GrantsOverlap` and `WorkspacesOverlap` state.  That a slug is always found is the pigeonhole
principle, where finiteness is used; the list and the access check agree
(`ListsAgree`) by what both say of memberships and grants, with `MemberOnce`.

`FindingStore_proofs` holds for all sets of fingerprints, scans, mobile runs and reviewers,
every correlation key and every number of edits (`FindingAssumption`: scans are no mobile
runs, the fingerprints of a mobile analysis are fingerprints).

| theorem | statement |
|---|---|
| `Invariance` | `Spec => []IInv`, the inductive invariant |
| `HistoriesSound` | `Spec => []HistorySound` |
| `StatusesExplained` | `Spec => []StatusExplained` |
| `DeltasMatch` | `Spec => []DeltaMatchesScan` |
| `TextsBelong` | `Spec => []TextBelongs` |

A writer decides what to log when it looks at a row and writes it with all the others at its
commit.  In between other writers commit, reviewers set statuses and enrichments write
texts.  `Locks` says what saves the history: a locked row has one owner, a row that was
there when its owner looked is there still, and a row it is inserting nobody else has
inserted, the unique key having let it through.  `Working` says that the rows a transaction
has still to look at, has dirty or has locked are at every moment all it has found, which
gives all or nothing.  `SeenRows` and `Locks` are for `TextBelongs`: a column that is left alone
has the value that was loaded, so there was a row, there is one still, and what it says
came from a run that found it; and before any LLM the text and the severity that were loaded go together, so
both are written or neither.  `Stamps` (what has begun, has begun before now) is for
`StatusExplained`.  `Loaded`: an enrichment asks about findings of its own scan.  `Scheduled` (nothing is logged for a scan that has not begun, and a scheduled one
is no retest) and `Compared` (only published scans are compared) are for `DeltaMatchesScan`.
The lemmas `EntriesAfter`, `DetectionAfter` and `ExplainedAfter` say what an entry appended
to a history keeps true of it; `Appended` is what they need of `Append`.

`SessionsAndSuites_proofs` has two parts.  The first, on Sessions, holds for all tabs,
tokens, numbers of password changes and limits, in production and elsewhere
(`SessionAssumption`).

| theorem | statement |
|---|---|
| `Invariance` | `Spec => []IInv`, the inductive invariant |
| `StorageKeptSound` | `Spec => []StorageSound` |
| `ChangesEndSessions` | `Spec => []ChangeEndsSessions` |
| `WindowsBounded` | `Spec => []WindowBounded` |

What a tab stores is usable because of what nobody else could do to it before: the token in
an answer on its way is known to its tab alone, neither stored nor posted nor in another
answer, so that only a change of the password can have revoked it (`Sent`), and a token
not issued yet is known to nobody (`Known`).  A change has read the tokens it will revoke
before it writes the password: every live token is among them or was issued across the
change (`Pending`), and none is issued under a password that does not exist yet (`Times`).
The request about to set the time to live is the only one there, was counted and has not
been let through (`Tally`).

The second part, on BenchmarkRuns and the operators under it, holds for every target,
set of answers, alerts and pages, every APK and every finite ground truth, under
every gate mode.  Its assumptions say what kind of thing the constants are (addresses
have a scheme, severities are the five, a page has finitely many cookies, ...), and one
thing more, of the fixtures: no two items of a ground truth have the same key
(`GroundTruthAssumption`), which is how `sync_ground_truth` finds the row of an item.

| theorem | statement |
|---|---|
| `VerdictMonotone` | `MonotoneAt` for all measurements in `Nat`, not only those of a run |
| `VerdictsEarned` | `SuiteSpec => []VerdictEarned`, by the inductive invariant `SuiteInv` |
| `AnalysisKeptFaithful` | `SuiteSpec => []AnalysisFaithful`, by `AnalysisInv` |
| `ResultKeptFaithful` | `SuiteSpec => []ResultFaithful`, by `ResultInv` and `SuiteInv` |

`ZeroMeansJudged` looks at the end of a suite, `SuiteInv` says how the run got there:
which places only one kind of suite comes to (`Places`), that a result exists from its
publication to the stop and a report from the judgement on (`Phases`), that an APK's
result is that of its first run (`FirstRun`: `MatchApk` needs one run, and from
then on no upload intervenes), and what a gate without failures says of a run that is
judged (`FairlyJudged`): it fails for a missed critical item, the finite number of which is
zero only if there is none, and for a recall that dropped, unless this very step
has made the run the baseline.  `VerdictMonotone` is about the gates alone: a suite
reaches its thresholds or not, reaching them survives an improvement
(`BetterReaches`), and the verdict rises with what reaches them (`ReleaseRank`).

`AnalysisFaithful` is about operators, on the raw findings a scan collected and the
findings verified so far, and its proof goes from the one to the other:

* *Merging.*  `MergedIdentity`: the fingerprint of a merged finding is the group it was
  merged from.  This is where the address matters: a secret's group has its own
  token, any other the canonical address of all its members, and the merged finding keeps
  both, whichever member leads (`PrimaryIn`, `MergedUrl`).  `CorrelateSound`
  makes of it that findings correlate to distinct identities, one for each group.
* *Order.*  `ShapeOrderFree`: keys, tools, severities and addresses of the findings are
  those of any list with the same members.  `IssueByKey` and `IssuesCounted`: the issues,
  which the property states as the classes of a relation between raw findings, are
  the groups, which the code makes of keys.  What does depend on the order, the primary
  among equals, the property does not claim.
* *Score.*  `FindingScored`: a score does not fall when the severity, the confidence or
  the status rises, nor when a tool of the highest reliability joins.  `BaseOrder` and
  `PlainOrder` carry the order through the products and the rounding, `AverageOrder` says
  that such a tool does not lower the average.
* *Scanners.*  `PassiveReported`, `SensitiveReported`, `AlertsReported`: whatever the
  target shows, a scanner reports finitely many findings of the form the analysis expects.
* *Run.*  `AnalysisInv`: what is pending and what is verified have distinct identities
  between them, and every verified header was judged by the one answer that is
  cached, so two verdicts cannot contradict each other although the target may change
  in between (`HeaderOutcome`).

`ResultFaithful` is about the match of the stored rows with the ground truth, in whatever
order the database returns either:

* *One record per row.*  `ClaimedOnce`, `MatchedIs`, `JudgedInOne`: an item takes
  what no earlier item matches, so nothing is taken twice, and a row nobody took has
  exactly one record of its own; the blind evaluation changes classes only (`BlindOnce`).
* *By definition.*  As long as no two items accept one row, an item takes all it matches
  (`TakenAll`), the missed items are those that match nothing (`ItemCounts`), and the
  false rows those nothing accepts, no missed item resembles and the code does not call
  informational (`FalseOnesAre`, `UnmatchedIs`); none of it mentions an order.  The last
  step, `ByDefinition`, splits the false rows into those the document calls false as well
  and the notes of the project's own scanners (`OwnNotes`), on which the two disagree.
* *Counts.*  The metrics count records, the property counts items and rows: `RecordsCounted`,
  `Positions` and `OwnCount` carry the one to the other by bijections, `Settled` adds
  found and missed up to required, `DuplicateCount` takes the items' own rows from all
  accepted ones, `RatioType` bounds the ratios.
* *Rows.*  Two rows of a run differ by their fingerprint and by their id (`StoredRows`); for a
  web run this is `AnalysisInv` at `Store`, for the Android suite what
  `AndroidRows` keeps of one key and component (`MobileRows`, `AnalyzedRows`).
* *Views.*  `ViewsSame`: the customer's views of a web run's rows are the same for every
  order of them.  The sort that picks the lead of a group is by tool, address and rule and
  may tie, but rows that tie have one severity (`LeadsAgree`, from `WebRows`), and
  nothing else of the lead is shown that the key of the group does not fix.

`ResultInv` is what is left of all this for the state of a run: a web run's rows are
`WebRows`, an APK's `StoredRows`, a result is the match of the rows with the expected
ones in some order of each, the report's views are those of the rows, and a baseline's
ratios are ratios.

`ScheduledScans_proofs` holds for every set of schedules, finite sets of scans and tick
processes, and every limit (`ScheduledAssumption`).

| theorem | statement |
|---|---|
| `Invariance` | `Spec => []IInv`, the inductive invariant |
| `OverlapsBounded` | `Spec => []TicksBounded` |
| `AdvancesWithItsScan` | `Spec => AdvancedWithItsScan` |

`OverlapBounded` counts the active scans of a schedule, and nothing in the tick counts
them: the limit is the organization's.  Two facts take turns.  While a schedule is due,
every tick under way has swept all its active scans (`SweptBefore`), so the first
commit of a new one fails the others; once it is not due, no tick takes it up, and its
active scans plus the ticks that may still commit one (`Pending`) are at most the number
of ticks (`Counted`).  What a tick has in hand (`InHand`: it triggers a schedule once)
and that uncommitted rows belong to one tick and are in no table (`Unseen`) carry both
through `CommitSession`, whose effect on a single row or schedule is the lemma
`Committed`; `AdvancesWithItsScan` follows from the same lemma.  `Unseen` also proves
that `RunInline` changes nothing, which is the observation about
`tasks/monitoring_tasks.py:56` in section 4.  The bound rests on the interval of a
schedule being longer than the stale age and a task's time limit together, the guard of
`ComeDue`.

`MobileApps_proofs` holds for every set of digests and runners, and all finite sets of
rows and upload sessions (`MobileAssumption`).

| theorem | statement |
|---|---|
| `Invariance` | `Spec => []IInv`, the inductive invariant |
| `ArtifactKept` | `Spec => []ArtifactOutlivesNeed` |
| `DuplicatesFew` | `Spec => []DuplicatesBounded` |
| `NothingLeftStaged` | `Spec => []StagedInHand` |
| `ArtifactsInStep` | `Spec => []ArtifactsSound` |

Neither the upload nor the worker claims a row, so what protects a file is what each
process knows of the row it has in hand.  `IInv` says it: an upload has a row of its own
(`Sessions`), not committed before `CommitRow`, queued and with no message before
`Dispatch` (`Uncommitted`, `Undispatched`), and never absent afterwards
(`Committed`); nobody works a row before its dispatch (`Untouched`); a runner that has
written its row has left "queued" behind (`Marked`), so the cleanup never takes the
file of a row that waits; and a task delivered once is in the queue or with one
runner, its file being there (`Once`).  `DuplicatesFew` counts: the rows of
an APK plus the uploads that have found none and not committed theirs are at most the
number of upload sessions (`Bounded`), because a lookup that adds to the second finds
the first empty.

`AsmDiscovery_proofs` holds for every set of jobs, executions, hosts and addresses
(`AsmAssumption`).

| theorem | statement |
|---|---|
| `Invariance` | `Spec => []IInv`, the inductive invariant |
| `InventoryKeptSound` | `Spec => []InventorySound` |
| `RowsHonest` | `Spec => []RowHonest` |
| `LateStartsHarmless` | `Spec => LateStartHarmless` |

Nothing claims a job, so what keeps two executions of it apart is the unique key on an
asset and the order of the list.  `IInv` says what an execution has in hand: it works only
what it loaded as active and publishes at its end (`Working`, `Exists`); what it has
discovered is what it has still to upsert and what it has upserted, the root first and the
others under it (`Upserts`), which is where `ParentsKnown` comes from; and a row it found is
never absent again (`RowsFound`), so another's commit and its own insert of the same key
exclude each other.  `RowHonest` rests on `WorkedAgain`: a published job whose row no longer
says so was written by another execution that had loaded it as active, or by a sweep that
selected it before it was published (`overtaken`).  `LateStartsHarmless` names the actor: the
step that touches a settled row is one of the execution, or of the sweep, that read it
earlier.

Only model-checked: the liveness properties (`Settles`, `HardTimeout`,
`AnalysisEnds`, `PersistEnds`, `OwnerGetsThrough`, and `Settles` of AsmDiscovery), which are out of the prover's reach: liveness under fairness needs
ENABLED.

## 7. Not modelled

* Of the scanners and the APK analyzer the requests, the parsing and the regular
  expressions, the output of nuclei and the crawl; URL and hostname checks, evidence
  masking, localization and PDF reports: I/O and string functions.  What a scanner can
  end in is in ScannerSuite, what two of them find in PassiveChecks, what becomes of
  it in FindingAnalysis.
* DNS, file and HTTP proofs of ownership themselves: their answer is a choice.
* Registration's mails, e-mail verification, access tokens, the failed-login counter
  (never stored, see section 4), the in-memory fallback of the limiter.
* The listings, the onboarding checklist, renaming, the audit log: they only read, or
  nothing reads them.
* The local background fallback of the mobile upload; the Docker command lines, the
  report files and the blind runner's loop of the benchmark.
* The web frontend beyond its token store, migrations, deployment and benchmark
  fixtures: no behaviour of the backend depends on state they keep.  Migrations and
  compose files were read for constraints and process counts.
* PostgreSQL, Celery, Redis and asyncio themselves: what they promise is assumed as
  described in sections 3 and 5.
