--------------------------- MODULE ScheduledScans ---------------------------
(***************************************************************************)
(* Scan schedules of one organization and the Celery task that checks them *)
(* (siber.check_scheduled_scans).  One execution of the task, a tick, is   *)
(* one database session: it fails stale scans, selects the due schedules,  *)
(* creates a scan for each and commits at the end, or earlier, because     *)
(* every rejected creation commits its audit record in the same session.   *)
(* The worker runs two processes, so ticks may overlap.                    *)
(*                                                                         *)
(* Admission is the part of ScanService.create that ScanJobs models; its   *)
(* reads are one step here.  Rows a session has written and not committed  *)
(* are locked against other writers and invisible to other readers.        *)
(***************************************************************************)
EXTENDS Integers, FiniteSets

CONSTANTS
    Schedules,         \* ids of scan_schedules rows
    Scans,             \* ids of scan_jobs rows that may come to exist
    Ticks,             \* processes that can execute the task
    ConcurrencyLimit,  \* settings.scan_concurrency_limit
    NoScan, NoSchedule

ASSUME ScheduledAssumption == /\ NoScan \notin Scans
                              /\ NoSchedule \notin Schedules
                              /\ ConcurrencyLimit \in Nat \ {0}
                              /\ IsFiniteSet(Scans) /\ IsFiniteSet(Ticks)

VARIABLES
    enabled,   \* scan_schedules.enabled
    due,       \* next_run_at <= now
    last,      \* scan_schedules.last_scan_job_id
    status,    \* scan_jobs.status, "absent" while no row is committed
    old,       \* scans that reached the age at which they count as stale
    origin,    \* scope_config.schedule_id of a committed scan
    admitting, \* does create() accept a scan: authorization, pilot and quota
    pc,        \* a tick: where it is
    todo,      \* the due schedules it has still to look at
    current,   \* the schedule it is triggering
    swept,     \* scans it has failed, not committed
    inserted   \* pairs of a schedule and the scan created for it, not committed

schedule == << enabled, due, last >>
scan == << status, old, origin >>
tick == << pc, todo, current, swept, inserted >>
vars == << schedule, scan, admitting, tick >>

Active == {"queued"}  \* the states in between are those of ScanJobs
Status == Active \cup {"absent", "completed", "failed", "cancelled"}
TickPc == {"idle", "select", "loop", "write", "run"}

TypeOK ==
    /\ enabled \in [Schedules -> BOOLEAN]
    /\ due \in [Schedules -> BOOLEAN]
    /\ last \in [Schedules -> Scans \cup {NoScan}]
    /\ status \in [Scans -> Status]
    /\ old \in SUBSET Scans
    /\ origin \in [Scans -> Schedules \cup {NoSchedule}]
    /\ admitting \in BOOLEAN
    /\ pc \in [Ticks -> TickPc]
    /\ todo \in [Ticks -> SUBSET Schedules]
    /\ current \in [Ticks -> Schedules \cup {NoSchedule}]
    /\ swept \in [Ticks -> SUBSET Scans]
    /\ inserted \in [Ticks -> SUBSET (Schedules \X Scans)]
    /\ \A k \in Ticks : pc[k] = "idle" => swept[k] = {} /\ inserted[k] = {}

Init ==
    /\ enabled \in [Schedules -> BOOLEAN]
    /\ due = enabled            \* next_run_at is the time of creation
    /\ last = [h \in Schedules |-> NoScan]
    /\ status = [s \in Scans |-> "absent"]
    /\ old = {}
    /\ origin = [s \in Scans |-> NoSchedule]
    /\ admitting \in BOOLEAN
    /\ pc = [k \in Ticks |-> "idle"]
    /\ todo = [k \in Ticks |-> {}]
    /\ current = [k \in Ticks |-> NoSchedule]
    /\ swept = [k \in Ticks |-> {}]
    /\ inserted = [k \in Ticks |-> {}]

ActiveScans == {s \in Scans : status[s] \in Active}
ScheduledBy(k) == {p[1] : p \in inserted[k]}
CreatedBy(k) == {p[2] : p \in inserted[k]}
Uncommitted == UNION {CreatedBy(k) : k \in Ticks}

\* coalesce(started_at, created_at) < cutoff; a queued scan has no started_at
Stale(s) == status[s] \in Active /\ s \in old

\* Rows another session holds locked: a write to them waits for its commit
ScanLocked(k, s) == \E j \in Ticks \ {k} : s \in swept[j]
ScheduleLocked(k, h) == \E j \in Ticks \ {k} : h \in ScheduledBy(j)

-----------------------------------------------------------------------------
(* A tick                                                                  *)

\* recover_stale_scan_jobs: SELECT and flush, in the session of the tick
BeginWithoutSweep(k) ==
    /\ pc[k] = "idle"
    /\ pc' = [pc EXCEPT ![k] = "select"]
    /\ UNCHANGED << schedule, scan, admitting, todo, current, swept, inserted >>
Begin(k) ==
    LET stale == {s \in Scans : Stale(s)} IN
    /\ pc[k] = "idle"
    /\ \A s \in stale : ~ScanLocked(k, s)
    /\ swept' = [swept EXCEPT ![k] = stale]
    /\ pc' = [pc EXCEPT ![k] = "select"]
    /\ UNCHANGED << schedule, scan, admitting, todo, current, inserted >>

\* due_schedules
SelectDue(k) ==
    /\ pc[k] = "select"
    /\ todo' = [todo EXCEPT ![k] = {h \in Schedules : enabled[h] /\ due[h]}]
    /\ pc' = [pc EXCEPT ![k] = "loop"]
    /\ UNCHANGED << schedule, scan, admitting, current, swept, inserted >>

\* What a commit of the tick's session makes of the tables
CommitSession(k) ==
    /\ status' = [s \in Scans |-> CASE s \in CreatedBy(k) -> "queued"
                                    [] s \in swept[k] \ CreatedBy(k) -> "failed"
                                    [] OTHER -> status[s]]
    /\ origin' = [s \in Scans |-> IF s \in CreatedBy(k)
                                  THEN CHOOSE h \in Schedules : << h, s >> \in inserted[k]
                                  ELSE origin[s]]
    /\ due' = [h \in Schedules |-> due[h] /\ h \notin ScheduledBy(k)]
    /\ last' = [h \in Schedules |-> IF h \in ScheduledBy(k)
                                    THEN CHOOSE s \in Scans : << h, s >> \in inserted[k]
                                    ELSE last[h]]
    /\ swept' = [swept EXCEPT ![k] = {}]
    /\ inserted' = [inserted EXCEPT ![k] = {}]

\* What count(*) returns to the tick: its own writes are flushed
Count(k) == Cardinality((ActiveScans \ swept[k]) \cup CreatedBy(k))

\* _reject_scan: the audit record is committed, and all the rest with it
Reject(k, h) ==
    /\ pc[k] = "loop" /\ h \in todo[k]
    /\ ~admitting
    /\ CommitSession(k)
    /\ todo' = [todo EXCEPT ![k] = @ \ {h}]
    /\ UNCHANGED << enabled, old, admitting, pc, current >>

\* SCAN_CONCURRENCY_LIMIT: nothing written, nothing committed
RefuseAdvances(k, h) ==
    /\ pc[k] = "loop" /\ h \in todo[k]
    /\ admitting /\ Count(k) >= ConcurrencyLimit
    /\ todo' = [todo EXCEPT ![k] = @ \ {h}]
    /\ due' = [due EXCEPT ![h] = FALSE]
    /\ UNCHANGED << enabled, last, scan, admitting, pc, current, swept, inserted >>
Refuse(k, h) ==
    /\ pc[k] = "loop" /\ h \in todo[k]
    /\ admitting /\ Count(k) >= ConcurrencyLimit
    /\ todo' = [todo EXCEPT ![k] = @ \ {h}]
    /\ UNCHANGED << schedule, scan, admitting, pc, current, swept, inserted >>

Admit(k, h) ==
    /\ pc[k] = "loop" /\ h \in todo[k]
    /\ admitting /\ Count(k) < ConcurrencyLimit
    /\ pc' = [pc EXCEPT ![k] = "write"]
    /\ current' = [current EXCEPT ![k] = h]
    /\ todo' = [todo EXCEPT ![k] = @ \ {h}]
    /\ UNCHANGED << schedule, scan, admitting, swept, inserted >>

\* INSERT of the scan, UPDATE of next_run_at, last_run_at, last_scan_job_id
Trigger(k, s) ==
    /\ pc[k] = "write"
    /\ status[s] = "absent" /\ s \notin Uncommitted
    /\ ~ScheduleLocked(k, current[k])
    /\ inserted' = [inserted EXCEPT ![k] = @ \cup {<< current[k], s >>}]
    /\ pc' = [pc EXCEPT ![k] = "run"]
    /\ UNCHANGED << schedule, scan, admitting, todo, current, swept >>

\* run_scan_job in a session of its own.  It finds the row only if it is
\* committed; it then works the scan to its end (ScanJobs), else returns.
RunInline(k) ==
    /\ pc[k] = "run"
    /\ status' = [s \in Scans |->
                    IF << current[k], s >> \in inserted[k] /\ status[s] = "queued"
                    THEN "completed" ELSE status[s]]
    /\ pc' = [pc EXCEPT ![k] = "loop"]
    /\ current' = [current EXCEPT ![k] = NoSchedule]
    /\ UNCHANGED << schedule, old, origin, admitting, todo, swept, inserted >>

Finish(k) ==
    /\ pc[k] = "loop" /\ todo[k] = {}
    /\ CommitSession(k)
    /\ pc' = [pc EXCEPT ![k] = "idle"]
    /\ UNCHANGED << enabled, old, admitting, todo, current >>

\* The worker is killed, the connection is lost, or a flush fails (deadlock
\* of two ticks included) and the session cannot commit any more
Abort(k) ==
    /\ pc[k] # "idle"
    /\ pc' = [pc EXCEPT ![k] = "idle"]
    /\ todo' = [todo EXCEPT ![k] = {}]
    /\ current' = [current EXCEPT ![k] = NoSchedule]
    /\ swept' = [swept EXCEPT ![k] = {}]
    /\ inserted' = [inserted EXCEPT ![k] = {}]
    /\ UNCHANGED << schedule, scan, admitting >>

-----------------------------------------------------------------------------
(* Around the ticks                                                        *)

\* siber.recover_stale_scans, whose races are those of ScanJobs
Recover ==
    LET stale == {s \in Scans : Stale(s)} IN
    /\ stale # {}
    /\ \A s \in stale : \A k \in Ticks : s \notin swept[k]
    /\ status' = [s \in Scans |-> IF s \in stale THEN "failed" ELSE status[s]]
    /\ UNCHANGED << schedule, old, origin, admitting, tick >>

\* POST /scans/{id}/cancel
Cancel(s) ==
    /\ status[s] \in Active
    /\ \A k \in Ticks : s \notin swept[k]
    /\ status' = [status EXCEPT ![s] = "cancelled"]
    /\ UNCHANGED << schedule, old, origin, admitting, tick >>

\* PATCH of a schedule writes the changed column only
Toggle(h) ==
    /\ \A k \in Ticks : h \notin ScheduledBy(k)
    /\ enabled' = [enabled EXCEPT ![h] = ~@]
    /\ UNCHANGED << due, last, scan, admitting, tick >>

Decide ==
    /\ admitting' = ~admitting
    /\ UNCHANGED << schedule, scan, tick >>

\* Minutes pass: an active scan reaches the stale age
GrowOld(s) ==
    /\ status[s] \in Active /\ s \notin old
    /\ old' = old \cup {s}
    /\ UNCHANGED << schedule, status, origin, admitting, tick >>

\* Hours pass: the interval of a schedule ends.  It is longer than the stale
\* age and the time limit of a task together: whatever the last trigger left
\* is old by now, and was when the ticks still running began.
ComeDue(h) ==
    LET left == {s \in ActiveScans : origin[s] = h} IN
    /\ ~due[h]
    /\ left \subseteq old
    /\ \A k \in Ticks : pc[k] # "idle" => left \subseteq swept[k]
    /\ \A k \in Ticks : h \notin todo[k] \cup ScheduledBy(k) /\ current[k] # h
    /\ due' = [due EXCEPT ![h] = TRUE]
    /\ UNCHANGED << enabled, last, scan, admitting, tick >>

Step(k) ==
    \/ Begin(k) \/ SelectDue(k) \/ RunInline(k) \/ Finish(k)
    \/ \E h \in Schedules : Reject(k, h) \/ Refuse(k, h) \/ Admit(k, h)
    \/ \E s \in Scans : Trigger(k, s)

Next == \/ \E k \in Ticks : Step(k) \/ Abort(k)
        \/ Recover \/ Decide
        \/ \E s \in Scans : Cancel(s) \/ GrowOld(s)
        \/ \E h \in Schedules : Toggle(h) \/ ComeDue(h)

Spec == Init /\ [][Next]_vars

-----------------------------------------------------------------------------
\* A schedule moves on to its next interval only together with the commit of
\* a scan created for it: a rejected or lost trigger leaves it due
AdvancedWithItsScan ==
    [][\A h \in Schedules : due[h] /\ ~due'[h] =>
          \E s \in Scans : /\ status[s] = "absent" /\ status'[s] = "queued"
                          /\ origin'[s] = h /\ last'[h] = s]_vars

\* However ticks overlap, a schedule has at most one active scan per tick
\* process: the sweep in every tick clears the way before the next interval
OverlapBounded ==
    \A h \in Schedules :
        Cardinality({s \in ActiveScans : origin[s] = h}) <= Cardinality(Ticks)

\* In every state the rows and the ticks are of their types, and ticks that overlap
\* leave a schedule no more active scans than there are tick processes.
TicksBounded == TypeOK /\ OverlapBounded
=============================================================================
