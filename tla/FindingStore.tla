---------------------------- MODULE FindingStore ----------------------------
(***************************************************************************)
(* The findings of a project: scans and mobile analyses persist what they  *)
(* found by fingerprint, reviewers change statuses, scheduled scans report *)
(* what changed since the scan before, and an enrichment by an LLM writes  *)
(* texts onto rows it loaded minutes earlier.                              *)
(*                                                                         *)
(* A writer is one transaction: it SELECTs a row per fingerprint, writes   *)
(* rows when the session flushes (a new finding flushes at once, the rest  *)
(* at the end), keeps the row locks until its commit, and is the victim    *)
(* when PostgreSQL finds it in a deadlock.  Rows are written by primary    *)
(* key, and of their columns those that were assigned something else than  *)
(* what the session had loaded, whatever became of them.                   *)
(*                                                                         *)
(* An entry of finding_history is stamped with the begin of its            *)
(* transaction, and list_history knows no other order.                     *)
(***************************************************************************)
EXTENDS Naturals, Sequences

CONSTANTS
    Fingerprints,       \* fingerprints of findings of the project
    MobileFingerprints, \* those of build_mobile_fingerprint
    Key,                \* their correlation keys
    Scans,              \* scans of the project
    MobileRuns,         \* executions of run_analysis for its applications
    Reviewers,          \* sessions serving PATCH /findings/{id} and retest
    Statuses,           \* statuses a reviewer may set
    Severities,
    MaxEdits,           \* bound: status changes by reviewers
    NoScan

ASSUME FindingAssumption ==
    /\ MobileFingerprints \subseteq Fingerprints
    /\ NoScan \notin Scans \cup MobileRuns
    /\ Scans \cap MobileRuns = {}
    /\ Statuses \cap {"absent", "kept"} = {}
    /\ Severities \cap {"none", "llm"} = {}
    /\ "none" \notin Fingerprints
    /\ MaxEdits \in Nat

VARIABLES
    row,      \* findings: status ("absent" before the INSERT), severity, scan_job_id, ai_summary:
              \* an LLM's, or the one by the rules, told by the severity it names; about whose finding
    history,  \* finding_history per finding, in the order of the commits
    events,   \* monitoring_events
    last,     \* last_scan_job_id of the schedule
    pc,       \* where a writer is
    previous, \* previous_scan_job_id in the scope of a scheduled scan
    found,    \* severities a writer has found, by fingerprint
    left,     \* fingerprints it still has to look at
    seen,     \* the row it loaded, by fingerprint
    dirty,    \* rows assigned in its session and not flushed
    locked,   \* rows it has flushed and not committed
    loaded,   \* rows the enrichment of a scan has loaded
    review,   \* what a reviewer's session has loaded
    edits,
    clock,    \* now(), as the number of transactions begun
    began,    \* created_at of what a writer will log: the begin of its transaction
    enriched  \* findings that an LLM ever wrote about

store == << row, history >>
writer == << pc, found, left, seen, dirty, locked, began >>
vars == << store, events, last, writer, previous, loaded, review, edits, clock, enriched >>

Writers == Scans \cup MobileRuns
Open == {"open", "resolved"} \cup Statuses
Absent == [status |-> "absent", severity |-> "none", scan |-> NoScan,
           text |-> "none", about |-> NoScan]
Unseen == [f \in Fingerprints |-> Absent]
Nothing == [finding |-> "none", status |-> "none", began |-> 0]
WriterPc == {"idle", "scanning", "persist", "flush", "commit", "delta", "enrich",
             "asking", "done", "failed"}
EventTypes == {"new_finding", "resolved_finding", "severity_changed"}
History == [type : {"detected", "redetected", "reopened", "retest_started", "status_change"},
            scan : Scans \cup {NoScan}, to : Open \cup {"kept"}, created : Nat, committed : Nat]
Row == [status : Open \cup {"absent"}, severity : Severities \cup {"none"}, scan : Scans \cup {NoScan},
        text : Severities \cup {"none", "llm"}, about : Writers \cup {NoScan}]

TypeOK ==
    /\ row \in [Fingerprints -> Row]
    /\ history \in [Fingerprints -> Seq(History)]
    /\ events \subseteq [type : EventTypes, scan : Scans, key : {Key[f] : f \in Fingerprints}]
    /\ last \in Scans \cup {NoScan}
    /\ pc \in [Writers -> WriterPc]
    /\ previous \in [Scans -> Scans \cup {NoScan}]
    /\ found \in [Writers -> UNION {[fs -> Severities] : fs \in SUBSET Fingerprints}]
    /\ left \in [Writers -> SUBSET Fingerprints]
    /\ dirty \in [Writers -> SUBSET Fingerprints]
    /\ locked \in [Writers -> SUBSET Fingerprints]
    /\ seen \in [Writers -> [Fingerprints -> Row]]
    /\ loaded \in [Scans -> SUBSET Fingerprints]
    /\ review \in [Reviewers -> [finding : Fingerprints \cup {"none"}, status : Open \cup {"none"}, began : Nat]]
    /\ edits \in 0..MaxEdits
    /\ clock \in Nat \ {0} /\ began \in [Writers -> Nat]
    /\ enriched \subseteq Fingerprints

Init ==
    /\ row = [f \in Fingerprints |-> Absent]
    /\ history = [f \in Fingerprints |-> << >>]
    /\ events = {} /\ last = NoScan /\ edits = 0
    /\ pc = [w \in Writers |-> "idle"]
    /\ previous = [s \in Scans |-> NoScan]
    /\ found = [w \in Writers |-> << >>]
    /\ left = [w \in Writers |-> {}] /\ dirty = left /\ locked = left
    /\ seen = [w \in Writers |-> Unseen]
    /\ loaded = [s \in Scans |-> {}]
    /\ review = [u \in Reviewers |-> Nothing]
    /\ clock = 1 /\ began = [w \in Writers |-> 0] /\ enriched = {}

GoTo(w, to) == pc' = [pc EXCEPT ![w] = to]

\* Whether another transaction holds the row lock of f
LockedByOther(w, f) == \E v \in Writers \ {w} : f \in locked[v]

-----------------------------------------------------------------------------
(* Where scans come from                                                   *)

\* trigger_schedule_scan: the scan remembers the schedule's last scan
StartScheduled(s) ==
    /\ pc[s] = "idle"
    /\ previous' = [previous EXCEPT ![s] = last]
    /\ last' = s
    /\ GoTo(s, "scanning")
    /\ UNCHANGED << store, events, found, left, seen, dirty, locked, loaded, review, edits, clock, began, enriched >>

\* A scan by hand, or an analysis of a mobile application
StartOther(w) ==
    /\ pc[w] = "idle"
    /\ GoTo(w, "scanning")
    /\ UNCHANGED << store, events, last, found, left, seen, dirty, locked, previous, loaded, review, edits, clock, began, enriched >>

\* retest: the finding's scan must still be there, the new one is logged
Retest(f, s) ==
    /\ pc[s] = "idle"
    /\ row[f].status # "absent" /\ row[f].scan # NoScan
    /\ GoTo(s, "scanning")
    /\ history' = [history EXCEPT ![f] =
                     Append(@, [type |-> "retest_started", scan |-> s, to |-> "kept",
                                created |-> clock, committed |-> clock + 1])]
    /\ clock' = clock + 1
    /\ UNCHANGED << row, events, last, found, left, seen, dirty, locked, previous, loaded, review, edits, began, enriched >>

-----------------------------------------------------------------------------
(* persist_analyzed_findings, persist_mobile_findings                      *)

Reach(w) == IF w \in MobileRuns THEN MobileFingerprints ELSE Fingerprints \ MobileFingerprints

\* The pipeline leaves one item per fingerprint
Analyze(w) ==
    /\ pc[w] = "scanning"
    /\ \E fs \in SUBSET Reach(w) : \E found_w \in [fs -> Severities] :
          /\ found' = [found EXCEPT ![w] = found_w]
          /\ left' = [left EXCEPT ![w] = fs]
    /\ GoTo(w, "persist")
    /\ UNCHANGED << store, events, last, seen, dirty, locked, previous, loaded, review, edits, clock, began, enriched >>

\* SELECT by fingerprint, the first of which begins the transaction; a row that
\* is not there is added and flushed at once
Look(w, f) ==
    /\ pc[w] = "persist" /\ f \in left[w]
    /\ IF began[w] = 0 THEN began' = [began EXCEPT ![w] = clock] /\ clock' = clock + 1
                       ELSE UNCHANGED << began, clock >>
    /\ seen' = [seen EXCEPT ![w][f] = row[f]]
    /\ left' = [left EXCEPT ![w] = @ \ {f}]
    /\ dirty' = [dirty EXCEPT ![w] = @ \cup {f}]
    /\ GoTo(w, IF row[f].status = "absent" THEN "flush" ELSE "persist")
    /\ UNCHANGED << store, events, last, found, locked, previous, loaded, review, edits, enriched >>

Flushing(w) == pc[w] = "flush" \/ (pc[w] = "persist" /\ left[w] = {})

\* uq_project_fingerprint: a row inserted since the SELECT breaks the INSERT
ConflictIgnored(w) == FALSE
Conflict(w) == \E f \in dirty[w] : seen[w][f].status = "absent" /\ row[f].status # "absent"

\* The session writes what it has assigned and keeps the row locks
Flush(w) ==
    /\ Flushing(w)
    /\ \A f \in dirty[w] : ~LockedByOther(w, f)
    /\ ~Conflict(w)
    /\ locked' = [locked EXCEPT ![w] = @ \cup dirty[w]]
    /\ dirty' = [dirty EXCEPT ![w] = {}]
    /\ GoTo(w, IF pc[w] = "flush" THEN "persist" ELSE "commit")
    /\ UNCHANGED << store, events, last, found, left, seen, previous, loaded, review, edits, clock, began, enriched >>

LoggedFor(w) == IF w \in MobileRuns THEN NoScan ELSE w

StatusReopensAll(w, f) == "open"
\* Of the statuses only RESOLVED, as it was loaded, is reopened
StatusWritten(w, f) == IF seen[w][f].status \in {"absent", "resolved"} THEN "open" ELSE row[f].status

\* A severity that was loaded is not written again: the row keeps what it has by now
SeverityWritten(w, f) ==
    IF found[w][f] # seen[w][f].severity THEN found[w][f] ELSE row[f].severity

\* The rules' text names the severity; where that is the text that was loaded, it is not written
EnrichByRules(r, w, f) ==
    IF found[w][f] # seen[w][f].text THEN [r EXCEPT !.text = found[w][f], !.about = w] ELSE r

\* What the session has made of a row, given what it is when it is flushed
WebRow(w, f) == [row[f] EXCEPT !.status = StatusWritten(w, f), !.severity = SeverityWritten(w, f), !.scan = w]
MobileRow(w, f) == [row[f] EXCEPT !.status = StatusWritten(w, f), !.severity = SeverityWritten(w, f)]
Written(w, f) == EnrichByRules(IF w \in MobileRuns THEN MobileRow(w, f) ELSE WebRow(w, f), w, f)

Entry(w, type, to) == [type |-> type, scan |-> LoggedFor(w), to |-> to,
                       created |-> began[w], committed |-> clock]
Logged(w, f) ==
    CASE seen[w][f].status = "absent" -> Entry(w, "detected", "open")
      [] seen[w][f].status = "resolved" -> Entry(w, "reopened", "open")
      [] OTHER -> Entry(w, "redetected", "kept")

\* Findings, history and COMPLETED in one commit
Commit(w) ==
    /\ pc[w] = "commit"
    /\ row' = [f \in Fingerprints |-> IF f \in locked[w] THEN Written(w, f) ELSE row[f]]
    /\ history' = [f \in Fingerprints |->
                     IF f \in locked[w] THEN Append(history[f], Logged(w, f)) ELSE history[f]]
    /\ locked' = [locked EXCEPT ![w] = {}]
    /\ seen' = [seen EXCEPT ![w] = Unseen] /\ began' = [began EXCEPT ![w] = 0]
    /\ GoTo(w, IF w \in MobileRuns THEN "done" ELSE "delta")
    /\ UNCHANGED << events, last, found, left, dirty, previous, loaded, review, edits, clock, enriched >>

RollbackKeepsLocks(w) ==
    /\ left' = [left EXCEPT ![w] = {}]
    /\ dirty' = [dirty EXCEPT ![w] = {}]
    /\ locked' = locked

\* The transaction is given up: an exception, a conflict or PostgreSQL's
\* choice of a victim; it is rolled back and releases its locks
Rollback(w) ==
    /\ left' = [left EXCEPT ![w] = {}]
    /\ dirty' = [dirty EXCEPT ![w] = {}]
    /\ locked' = [locked EXCEPT ![w] = {}]

Waits(w, v) == Flushing(w) /\ dirty[w] \cap locked[v] # {}

\* What a rollback leaves of the rows that were flushed: nothing
Undone(w) == UNCHANGED store

GiveUp(w) ==
    /\ Rollback(w)
    /\ Undone(w)
    /\ seen' = [seen EXCEPT ![w] = Unseen] /\ began' = [began EXCEPT ![w] = 0]
    /\ GoTo(w, "failed")
    /\ UNCHANGED << events, last, found, previous, loaded, review, edits, clock, enriched >>

ConflictFails(w) ==
    /\ Flushing(w) /\ Conflict(w)
    /\ \A f \in dirty[w] : ~LockedByOther(w, f)
    /\ GiveUp(w)
Victim(w) ==
    /\ \E v \in Writers \ {w} : Waits(w, v) /\ Waits(v, w)
    /\ GiveUp(w)
Raise(w) ==
    /\ pc[w] \in {"scanning", "persist", "flush", "commit"}
    /\ GiveUp(w)

-----------------------------------------------------------------------------
(* after_scan_completed, analyze_scan_delta                                *)

FoundBy(s) == {f \in Fingerprints : \E i \in DOMAIN history[f] : history[f][i].scan = s}

\* _findings_by_correlation: of several rows with one key one is kept
Indexes(fs) == {ix \in [{Key[f] : f \in fs} -> fs] : \A k \in DOMAIN ix : Key[ix[k]] = k}

\* The severity the session knows: a row it wrote itself is not loaded again,
\* so both indexes show such a row with the severity of this scan
KnownSeverity(s, f) == IF f \in DOMAIN found[s] THEN found[s][f] ELSE row[f].severity

EventsSwapped(s, current, before) ==
    {[type |-> "new_finding", scan |-> s, key |-> k] : k \in DOMAIN before \ DOMAIN current}
    \cup {[type |-> "resolved_finding", scan |-> s, key |-> k] : k \in DOMAIN current \ DOMAIN before}

Events(s, current, before) ==
    {[type |-> "new_finding", scan |-> s, key |-> k] : k \in DOMAIN current \ DOMAIN before}
    \cup {[type |-> "resolved_finding", scan |-> s, key |-> k] : k \in DOMAIN before \ DOMAIN current}
    \cup {[type |-> "severity_changed", scan |-> s, key |-> k] :
             k \in {k \in DOMAIN current \cap DOMAIN before :
                      KnownSeverity(s, current[k]) # KnownSeverity(s, before[k])}}

AnalyzeDelta(s) ==
    /\ pc[s] = "delta"
    /\ \/ previous[s] = NoScan /\ UNCHANGED events
       \/ /\ previous[s] # NoScan
          /\ \E current \in Indexes(FoundBy(s)), before \in Indexes(FoundBy(previous[s])) :
                events' = events \cup Events(s, current, before)
    /\ GoTo(s, "enrich")
    /\ UNCHANGED << store, last, found, left, seen, dirty, locked, previous, loaded, review, edits, clock, began, enriched >>

\* A post-step before it raises: no delta and no enrichment
SkipDelta(s) ==
    /\ pc[s] = "delta"
    /\ GoTo(s, "done")
    /\ UNCHANGED << store, events, last, found, left, seen, dirty, locked, previous, loaded, review, edits, clock, began, enriched >>

-----------------------------------------------------------------------------
(* dispatch_ai_enrichment, _enrich_scan_findings                           *)

LoadAllForEnrichment(s) ==
    /\ pc[s] = "enrich"
    /\ loaded' = [loaded EXCEPT ![s] = {f \in Fingerprints : row[f].status # "absent"}]
    /\ GoTo(s, "asking")
    /\ UNCHANGED << store, events, last, found, left, seen, dirty, locked, previous, review, edits, clock, began, enriched >>

\* The rows whose scan_job_id is the scan when they are loaded
LoadForEnrichment(s) ==
    /\ pc[s] = "enrich"
    /\ loaded' = [loaded EXCEPT ![s] = {f \in Fingerprints : row[f].status # "absent" /\ row[f].scan = s}]
    /\ GoTo(s, "asking")
    /\ UNCHANGED << store, events, last, found, left, seen, dirty, locked, previous, review, edits, clock, began, enriched >>

EnrichByLlm(r, s) == [r EXCEPT !.text = "llm", !.about = s]

\* The model has answered for some of them; one commit writes them all
WriteEnrichment(s) ==
    /\ pc[s] = "asking"
    /\ \E answered \in SUBSET loaded[s] :
          /\ \A f \in answered : ~LockedByOther(s, f)
          /\ row' = [f \in Fingerprints |->
                       IF f \in answered THEN EnrichByLlm(row[f], s) ELSE row[f]]
          /\ enriched' = enriched \cup answered
    /\ loaded' = [loaded EXCEPT ![s] = {}]
    /\ GoTo(s, "done")
    /\ UNCHANGED << history, events, last, found, left, seen, dirty, locked, previous, review, edits, clock, began >>

\* AI switched off, no key, or the task fails or is lost
NoEnrichment(s) ==
    /\ pc[s] \in {"enrich", "asking"}
    /\ loaded' = [loaded EXCEPT ![s] = {}]
    /\ GoTo(s, "done")
    /\ UNCHANGED << store, events, last, found, left, seen, dirty, locked, previous, review, edits, clock, began, enriched >>

-----------------------------------------------------------------------------
(* update                                                                  *)

\* The request's transaction begins with the SELECT of its user
BeginReview(u) ==
    /\ review[u] = Nothing /\ edits < MaxEdits
    /\ review' = [review EXCEPT ![u].began = clock]
    /\ clock' = clock + 1 /\ edits' = edits + 1
    /\ UNCHANGED << store, events, last, writer, previous, loaded, enriched >>

OpenReview(u, f) ==
    /\ review[u] # Nothing /\ review[u].finding = "none"
    /\ row[f].status # "absent"
    /\ review' = [review EXCEPT ![u].finding = f, ![u].status = row[f].status]
    /\ UNCHANGED << store, events, last, writer, previous, loaded, edits, clock, enriched >>

\* A status other than the one loaded is written and logged
SetStatus(u, to) ==
    /\ review[u].finding # "none"
    /\ LET f == review[u].finding IN
         /\ \A w \in Writers : f \notin locked[w]
         /\ IF to = review[u].status THEN UNCHANGED store
            ELSE /\ row' = [row EXCEPT ![f].status = to]
                 /\ history' = [history EXCEPT ![f] =
                                  Append(@, [type |-> "status_change", scan |-> NoScan, to |-> to,
                                             created |-> review[u].began, committed |-> clock])]
    /\ review' = [review EXCEPT ![u] = Nothing]
    /\ UNCHANGED << events, last, writer, previous, loaded, edits, clock, enriched >>

-----------------------------------------------------------------------------
Persist(w) == (\E f \in Fingerprints : Look(w, f)) \/ Flush(w) \/ ConflictFails(w)
              \/ Victim(w) \/ Commit(w)
After(s) == AnalyzeDelta(s) \/ SkipDelta(s) \/ LoadForEnrichment(s) \/ WriteEnrichment(s)
            \/ NoEnrichment(s)

Next == \/ \E s \in Scans : StartScheduled(s) \/ After(s) \/ \E f \in Fingerprints : Retest(f, s)
        \/ \E w \in Writers : StartOther(w) \/ Analyze(w) \/ Persist(w) \/ Raise(w)
        \/ \E u \in Reviewers : \/ BeginReview(u)
                                \/ \E f \in Fingerprints : OpenReview(u, f)
                                \/ \E to \in Open : SetStatus(u, to)

Spec == Init /\ [][Next]_vars

\* A transaction goes on while the database lets it, and PostgreSQL ends a deadlock
FairSpec == Spec /\ \A w \in Writers : WF_vars(Persist(w))

-----------------------------------------------------------------------------
Published(w) == pc[w] \in {"delta", "enrich", "asking", "done"}

\* The history explains the status: whatever scans and reviewers overwrite
\* each other's statuses, the entry committed last of those that set one sets the
\* row's.  The list may show another above it, by created_at, only if that one's
\* transaction had begun before this one's was committed
StatusExplained ==
    \A f \in Fingerprints : row[f].status # "absent" =>
        \E i \in DOMAIN history[f] :
            /\ history[f][i].to = row[f].status
            /\ \A j \in DOMAIN history[f] : history[f][j].to # "kept" =>
                  j <= i /\ history[f][j].created < history[f][i].committed

\* One row per fingerprint, however many scans find it at the same time: it is
\* detected once, committed before anything else is known of it
DetectedOnce ==
    \A f \in Fingerprints : \A i \in DOMAIN history[f] :
        (history[f][i].type = "detected") <=> (i = 1)

\* What a scan has found is in the history, all of it or nothing: nothing of a
\* scan that failed half-way counts as found when the next delta is computed
FoundAllOrNothing ==
    \A s \in Scans, f \in Fingerprints :
        (\E i \in DOMAIN history[f] : history[f][i].scan = s /\ history[f][i].type # "retest_started")
            <=> (Published(s) /\ f \in DOMAIN found[s])

\* What a delta reports as gone its scan did not find, at no address, and what
\* it reports as new its scan did find; nothing is both
DeltaMatchesScan ==
    \A e \in events :
        LET keys == {Key[f] : f \in DOMAIN found[e.scan]}
        IN IF e.type = "resolved_finding" THEN e.key \notin keys ELSE e.key \in keys

\* A row is made of columns written by several sessions, each only of what it
\* has changed: the scan it is listed under, its severity and its text each come
\* from a published run that did find it, and unless an LLM's text was ever
\* among those overwritten the rules' text names the severity that is listed
TextBelongs ==
    \A f \in Fingerprints : row[f].status # "absent" =>
        LET finders == {w \in Writers : Published(w) /\ f \in DOMAIN found[w]} IN
        /\ row[f].about \in finders
        /\ row[f].text \in {"llm", found[row[f].about][f]}
        /\ row[f].scan \in finders \cup {NoScan}
        /\ \E w \in finders : row[f].severity = found[w][f]
        /\ f \notin enriched => row[f].text = row[f].severity

\* Transactions over the same rows never wait for each other for ever
PersistEnds == \A w \in Writers : pc[w] = "persist" ~> pc[w] \notin {"persist", "flush", "commit"}

\* The tables are of their types, a finding has one history row per scan that found it,
\* the scan's own rows come in all or not at all.
HistorySound == TypeOK /\ DetectedOnce /\ FoundAllOrNothing
=============================================================================
