---------------------------- MODULE AsmDiscovery ----------------------------
(***************************************************************************)
(* Attack surface discovery: a job is created by a request, dispatched to  *)
(* Celery or to a background task, worked by run_discovery_job and swept   *)
(* by recover_stale_asm_jobs when it is active for too long.               *)
(*                                                                         *)
(* Nothing claims a job: an execution writes RUNNING by primary key over   *)
(* whatever the row says by then, so a late execution may work a job that  *)
(* was swept, and a job dispatched twice is worked twice.  A sweep reads   *)
(* the jobs that are stuck and writes FAILED by primary key afterwards,    *)
(* over whatever they say by then.  The inventory (assets, findings, the   *)
(* "asm" scan) is written in one transaction.                              *)
(***************************************************************************)
EXTENDS Naturals, FiniteSets

CONSTANTS
    Jobs,        \* discovery jobs of one project
    Executions,  \* runs of run_discovery_job; each works one job
    Sweepers,    \* sessions that sweep: the beat tasks, a request for the list of jobs
    Root,        \* hostname of the domain
    Hosts,       \* subdomains known to certificate logs and DNS
    Ips,
    NoJob, NoOne

ASSUME AsmAssumption ==
    /\ Root \notin Hosts \cup Ips
    /\ Hosts \cap Ips = {}
    /\ NoJob \notin Jobs /\ NoOne \notin Executions

VARIABLES
    status,    \* AsmDiscoveryJob.status, "absent" before the INSERT
    old,       \* jobs older than scan_stale_minutes (started_at, else created_at)
    requests,  \* jobs whose request has committed and not dispatched
    tasks,     \* deliveries in the broker or in the server's background tasks
    asset,     \* assets by identifier
    scan,      \* executions whose "asm" ScanJob is in the database
    finding,   \* pairs: asset, execution whose findings it carries
    pc,
    job,       \* the job an execution works
    loaded,    \* the status it has loaded
    items,     \* what it has discovered: a status per identifier
    left,      \* identifiers still to upsert
    under,     \* identifiers whose parent was in parent_map when they were upserted
    known,     \* the rows it found, with the status they had
    inserted,  \* identifiers it has inserted and not committed
    picked,    \* jobs a sweep has selected and not written yet
    overtaken  \* history: jobs that said COMPLETED when a sweep wrote FAILED on them

database == << status, old, asset, scan, finding >>
session == << job, loaded, items, left, under, known, inserted >>
queue == << requests, tasks >>
sweep == << picked, overtaken >>
vars == << database, queue, pc, session, sweep >>

Names == {Root} \cup Hosts \cup Ips
Active == {"queued", "running"}
Settled == {"completed", "failed"}
AssetStatus == {"active", "inactive", "unknown"}
Missing == [status |-> "absent", job |-> NoJob, parent |-> NoOne]

TypeOK ==
    /\ status \in [Jobs -> {"absent"} \cup Active \cup Settled]
    /\ old \subseteq Jobs /\ requests \subseteq Jobs
    /\ tasks \in [Jobs -> 0..2]
    /\ asset \in [Names -> [status : AssetStatus \cup {"absent"}, job : Jobs \cup {NoJob},
                            parent : {Root, NoOne}]]
    /\ scan \subseteq Executions /\ finding \subseteq Names \X Executions
    /\ picked \in [Sweepers -> SUBSET Jobs] /\ overtaken \subseteq Jobs
    /\ pc \in [Executions -> {"idle", "loaded", "check", "discover", "save", "finish",
                              "raised", "done", "dead"}]
    /\ job \in [Executions -> Jobs \cup {NoJob}]
    /\ loaded \in [Executions -> {"absent"} \cup Active \cup Settled]
    /\ \A e \in Executions :
          /\ DOMAIN items[e] \subseteq Names
          /\ left[e] \cup DOMAIN known[e] \cup inserted[e] \subseteq DOMAIN items[e]
          /\ DOMAIN known[e] \cap inserted[e] = {} /\ Root \notin under[e]
          /\ under[e] \subseteq DOMAIN known[e] \cup inserted[e]

Init ==
    /\ status = [j \in Jobs |-> "absent"]
    /\ old = {} /\ requests = {} /\ tasks = [j \in Jobs |-> 0]
    /\ asset = [n \in Names |-> Missing] /\ scan = {} /\ finding = {}
    /\ pc = [e \in Executions |-> "idle"]
    /\ job = [e \in Executions |-> NoJob]
    /\ loaded = [e \in Executions |-> "absent"]
    /\ items = [e \in Executions |-> << >>] /\ known = items
    /\ left = [e \in Executions |-> {}] /\ under = left /\ inserted = left
    /\ picked = [w \in Sweepers |-> {}] /\ overtaken = {}

GoTo(e, to) == pc' = [pc EXCEPT ![e] = to]

-----------------------------------------------------------------------------
(* start_asm_discovery, dispatch_asm_discovery                             *)

Create(j) ==
    /\ status[j] = "absent"
    /\ status' = [status EXCEPT ![j] = "queued"]
    /\ requests' = requests \cup {j}
    /\ UNCHANGED << old, asset, scan, finding, tasks, pc, session, sweep >>

\* One delivery; a second one when Celery took the job and the request failed
\* on the task id afterwards: the fallback adds a background task
Dispatch(j) ==
    /\ j \in requests
    /\ requests' = requests \ {j}
    /\ \E n \in {1, 2} : tasks' = [tasks EXCEPT ![j] = n]
    /\ UNCHANGED << database, pc, session, sweep >>

\* The server stops before the dispatch, or the broker or the server loses a delivery
LoseRequest(j) ==
    /\ j \in requests
    /\ requests' = requests \ {j}
    /\ UNCHANGED << database, tasks, pc, session, sweep >>
LoseTask(j) ==
    /\ tasks[j] > 0
    /\ tasks' = [tasks EXCEPT ![j] = @ - 1]
    /\ UNCHANGED << database, requests, pc, session, sweep >>

-----------------------------------------------------------------------------
(* recover_stale_asm_jobs: the beat tasks, and the list of jobs            *)

GetOld(j) ==
    /\ status[j] \in Active /\ j \notin old
    /\ old' = old \cup {j}
    /\ UNCHANGED << status, asset, scan, finding, queue, pc, session, sweep >>

StuckRunning == {j \in old : status[j] = "running"}
\* What the SELECT of a sweep returns
Stuck == {j \in old : status[j] \in Active}

SweepRead(w) ==
    /\ picked[w] = {} /\ Stuck # {}
    /\ picked' = [picked EXCEPT ![w] = Stuck]
    /\ UNCHANGED << database, queue, pc, session, overtaken >>

\* FAILED by primary key for each of them, and the caller's commit; the UPDATE
\* waits behind a commit under way, so it is the last to write
SweepWrite(w) ==
    /\ picked[w] # {}
    /\ status' = [j \in Jobs |-> IF j \in picked[w] THEN "failed" ELSE status[j]]
    /\ overtaken' = overtaken \cup {j \in picked[w] : status[j] = "completed"}
    /\ picked' = [picked EXCEPT ![w] = {}]
    /\ UNCHANGED << old, asset, scan, finding, queue, pc, session >>

\* The tick or the request that sweeps fails before its commit
SweepFails(w) ==
    /\ picked[w] # {}
    /\ picked' = [picked EXCEPT ![w] = {}]
    /\ UNCHANGED << database, queue, pc, session, overtaken >>

-----------------------------------------------------------------------------
(* run_discovery_job                                                       *)

WorkableAny(j) == status[j] # "absent"
\* What the first SELECT lets through
Workable(j) == status[j] \in Active

Load(e, j) ==
    /\ pc[e] = "idle" /\ tasks[j] > 0
    /\ tasks' = [tasks EXCEPT ![j] = @ - 1]
    /\ job' = [job EXCEPT ![e] = j]
    /\ loaded' = [loaded EXCEPT ![e] = status[j]]
    /\ GoTo(e, IF Workable(j) THEN "loaded" ELSE "done")
    /\ UNCHANGED << database, requests, items, left, under, known, inserted, sweep >>

\* RUNNING is written when it is a change to what was loaded; started_at always
Start(e) ==
    /\ pc[e] = "loaded"
    /\ status' = [status EXCEPT ![job[e]] = IF loaded[e] = "queued" THEN "running" ELSE @]
    /\ old' = old \ {job[e]}
    /\ GoTo(e, "check")
    /\ UNCHANGED << asset, scan, finding, queue, session, sweep >>

\* assert_scan_authorized again; a refusal is an exception like any other
Authorize(e) ==
    /\ pc[e] = "check"
    /\ \E allowed \in BOOLEAN : GoTo(e, IF allowed THEN "discover" ELSE "raised")
    /\ UNCHANGED << database, queue, session, sweep >>

\* discover_attack_surface: the root, its addresses, then its subdomains; a
\* probed host is active or inactive, the root is never inactive
Surface(ips, hosts, probed, reached) ==
    [n \in {Root} \cup ips \cup hosts |->
        IF n \in hosts \ probed THEN "unknown"
        ELSE IF n \in probed \ reached THEN "inactive" ELSE "active"]

Discover(e) ==
    /\ pc[e] = "discover"
    /\ \E ips \in SUBSET Ips, hosts \in SUBSET Hosts : \E probed \in SUBSET hosts :
       \E reached \in SUBSET probed :
          /\ items' = [items EXCEPT ![e] = Surface(ips, hosts, probed, reached)]
          /\ left' = [left EXCEPT ![e] = DOMAIN items'[e]]
    /\ GoTo(e, "save")
    /\ UNCHANGED << database, queue, job, loaded, under, known, inserted, sweep >>

\* The root's asset is the first in the list
NextInList(e, n) == n \in left[e] /\ (Root \in left[e] => n = Root)

HeldByOther(e, n) == \E o \in Executions \ {e} : n \in inserted[o]

\* The parent is the root, when parent_map has it by now
PlaceUnder(e, n) ==
    under' = IF n # Root /\ Root \in DOMAIN known[e] \cup inserted[e]
             THEN [under EXCEPT ![e] = @ \cup {n}] ELSE under

\* _upsert_asset finds the row, by its fingerprint
UpdateAsset(e, n) ==
    /\ pc[e] = "save" /\ NextInList(e, n)
    /\ asset[n].status # "absent"
    /\ known' = [known EXCEPT ![e] = [x \in DOMAIN @ \cup {n} |->
                    IF x = n THEN asset[n].status ELSE @[x]]]
    /\ left' = [left EXCEPT ![e] = @ \ {n}]
    /\ PlaceUnder(e, n)
    /\ UNCHANGED << database, queue, pc, job, loaded, items, inserted, sweep >>

KeyFree(e, n) == asset[n].status = "absent" /\ ~HeldByOther(e, n)

InsertAssetAtOnce(e, n) ==
    /\ pc[e] = "save" /\ NextInList(e, n)
    /\ KeyFree(e, n)
    /\ asset' = [asset EXCEPT ![n] = [status |-> items[e][n], job |-> job[e], parent |-> NoOne]]
    /\ inserted' = [inserted EXCEPT ![e] = @ \cup {n}]
    /\ left' = [left EXCEPT ![e] = @ \ {n}]
    /\ PlaceUnder(e, n)
    /\ UNCHANGED << status, old, scan, finding, queue, pc, job, loaded, items, known, sweep >>

\* It finds none: the row is inserted at once, and its key held to the commit.
\* Behind another's uncommitted row the INSERT waits: it goes on when that row
\* is rolled back, and raises when it is committed (Raise)
InsertAsset(e, n) ==
    /\ pc[e] = "save" /\ NextInList(e, n)
    /\ KeyFree(e, n)
    /\ inserted' = [inserted EXCEPT ![e] = @ \cup {n}]
    /\ left' = [left EXCEPT ![e] = @ \ {n}]
    /\ PlaceUnder(e, n)
    /\ UNCHANGED << database, queue, pc, job, loaded, items, known, sweep >>

\* Root and subdomains with an address that is not inactive are scanned
Probed(e) == {n \in DOMAIN items[e] \ Ips : items[e][n] # "inactive"}

\* The probe of every URL, up to the findings that hang on the session
ScanHosts(e) ==
    /\ pc[e] = "save" /\ left[e] = {}
    /\ GoTo(e, "finish")
    /\ UNCHANGED << database, queue, session, sweep >>

\* A status that equals the one loaded is not written: the row keeps its own
Saved(e, n) ==
    [status |-> IF n \in DOMAIN known[e] /\ known[e][n] = items[e][n]
                THEN asset[n].status ELSE items[e][n],
     job |-> job[e],
     parent |-> IF n \in under[e] THEN Root ELSE asset[n].parent]

FinishWithoutScan(e) ==
    /\ pc[e] = "finish"
    /\ status' = [status EXCEPT ![job[e]] = "completed"]
    /\ inserted' = [inserted EXCEPT ![e] = {}]
    /\ known' = [known EXCEPT ![e] = << >>]
    /\ under' = [under EXCEPT ![e] = {}]
    /\ GoTo(e, "done")
    /\ UNCHANGED << old, asset, scan, finding, queue, job, loaded, items, left, sweep >>

\* One commit: assets, findings, the asm scan, the job by primary key
Finish(e) ==
    /\ pc[e] = "finish"
    /\ asset' = [n \in Names |-> IF n \in DOMAIN items[e] THEN Saved(e, n) ELSE asset[n]]
    /\ scan' = scan \cup {e}
    /\ \E ns \in SUBSET Probed(e) : finding' = finding \cup (ns \X {e})
    /\ status' = [status EXCEPT ![job[e]] = "completed"]
    /\ inserted' = [inserted EXCEPT ![e] = {}]
    /\ known' = [known EXCEPT ![e] = << >>]
    /\ under' = [under EXCEPT ![e] = {}]
    /\ GoTo(e, "done")
    /\ UNCHANGED << old, queue, job, loaded, items, left, sweep >>

\* An exception: refused, unreachable, a key taken meanwhile, a deadlock
Raise(e) ==
    /\ pc[e] \in {"discover", "save", "finish"}
    /\ GoTo(e, "raised")
    /\ UNCHANGED << database, queue, session, sweep >>

\* PostgreSQL or the unique key ends an INSERT that waits or comes too late
Waits(e) == pc[e] = "save" /\ \E n \in left[e] : NextInList(e, n) /\ HeldByOther(e, n)

Forget(e) ==
    /\ inserted' = [inserted EXCEPT ![e] = {}]
    /\ known' = [known EXCEPT ![e] = << >>]
    /\ under' = [under EXCEPT ![e] = {}]
    /\ left' = [left EXCEPT ![e] = {}]

\* rollback, SELECT and FAILED by primary key
Fail(e) ==
    /\ pc[e] = "raised"
    /\ status' = [status EXCEPT ![job[e]] = "failed"]
    /\ Forget(e)
    /\ GoTo(e, "done")
    /\ UNCHANGED << old, asset, scan, finding, queue, job, loaded, items, sweep >>

\* The worker is killed (time limit, restart), or the commit of RUNNING or the
\* handler itself raises out of the task: the connection is closed and
\* the transaction rolled back
Die(e) ==
    /\ pc[e] \in {"loaded", "check", "discover", "save", "finish", "raised"}
    /\ Forget(e)
    /\ GoTo(e, "dead")
    /\ UNCHANGED << database, queue, job, loaded, items, sweep >>

-----------------------------------------------------------------------------
Work(e) == \/ Start(e) \/ Authorize(e) \/ Discover(e) \/ ScanHosts(e) \/ Finish(e) \/ Fail(e)
           \/ (Waits(e) /\ Raise(e))
           \/ \E n \in Names : UpdateAsset(e, n) \/ InsertAsset(e, n)

Next == \/ \E j \in Jobs : \/ Create(j) \/ Dispatch(j) \/ LoseRequest(j) \/ LoseTask(j) \/ GetOld(j)
                           \/ \E e \in Executions : Load(e, j)
        \/ \E w \in Sweepers : SweepRead(w) \/ SweepWrite(w) \/ SweepFails(w)
        \/ \E e \in Executions : Work(e) \/ Raise(e) \/ Die(e)

Spec == Init /\ [][Next]_vars

\* Beat sweeps every two minutes and not every sweep fails, workers work, and
\* time passes
FairSpec == /\ Spec
            /\ \A w \in Sweepers : (WF_vars(SweepRead(w)) /\ SF_vars(SweepWrite(w)))
            /\ \A j \in Jobs : WF_vars(GetOld(j))
            /\ \A e \in Executions : WF_vars(Work(e))
-----------------------------------------------------------------------------
Published(j) == {e \in scan : job[e] = j}

\* The inventory is what the discoveries that finished have found, all of it
\* and nothing of one that failed, died or was overtaken half-way; the status
\* on an asset and its findings are those of one of them
InventoryOfFinished ==
    /\ {n \in Names : asset[n].status # "absent"} = UNION {DOMAIN items[e] : e \in scan}
    /\ \A n \in Names : asset[n].status # "absent" =>
          \E e \in scan : n \in DOMAIN items[e] /\ items[e][n] = asset[n].status
    /\ \A f \in finding : f[2] \in scan /\ f[1] \in Probed(f[2])

\* Two discoveries of the same surface never both insert an asset
InsertedOnce ==
    \A e \in Executions, n \in Names : n \in inserted[e] =>
        asset[n].status = "absent" /\ ~HeldByOther(e, n)

\* Every asset but the root hangs under the root
ParentsKnown ==
    \A n \in Names : asset[n].status # "absent" =>
        (n # Root => asset[n].parent = Root /\ asset[Root].status # "absent")

\* A job that says COMPLETED has an inventory and a scan to show
CompletedBacked == \A j \in Jobs : status[j] = "completed" => Published(j) # {}

\* A job whose inventory is there says FAILED only if it was worked twice, or if
\* a sweep selected it before its commit and wrote after it
FailureHonest ==
    \A j \in Jobs : \A e \in Published(j) : status[j] = "failed" =>
        \/ j \in overtaken
        \/ \E o \in Executions \ {e} : job[o] = j /\ loaded[o] \in Active

\* A settled job is touched only by whoever read it before it was settled: the
\* step is that of an execution which loaded it active, or of a sweep which has
\* selected it.  A task that arrives afterwards leaves it alone
LateStartHarmless ==
    [][\A j \in Jobs : status[j] \in Settled /\ status'[j] # status[j] =>
         \/ \E e \in Executions : job[e] = j /\ loaded[e] \in Active /\ pc'[e] # pc[e]
         \/ \E w \in Sweepers : j \in picked[w] /\ picked'[w] # picked[w]]_vars

\* Whatever dies or is lost, every job settles for good
Settles == \A j \in Jobs : status[j] = "queued" ~> [](status[j] \in Settled)

\* The inventory as a whole: of its type, of the finished discoveries only, each asset
\* inserted once, under a root that is there.
InventorySound == TypeOK /\ InventoryOfFinished /\ InsertedOnce /\ ParentsKnown

\* The row of a job tells the truth about its inventory, either way.
RowHonest == CompletedBacked /\ FailureHonest
=============================================================================
