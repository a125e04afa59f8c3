--------------------------- MODULE BenchmarkRuns ---------------------------
(***************************************************************************)
(* One suite of the benchmark runner, run again and again.  A web suite:   *)
(* start the fixture services, synchronise the ground truth, create the    *)
(* run and its scan, analyse and store what the scanners report, match it  *)
(* with the ground truth, judge the result against the baseline, stop the  *)
(* services.  The Android suite: build the fixture APK, upload it with a   *)
(* run of its own, analyse it if that was not done yet, match, judge.      *)
(* The options of a command are chosen where the runner reads them.        *)
(*                                                                         *)
(* A web suite has a deadline around everything between the start of the   *)
(* services and their stop; whatever is not committed by then is lost.     *)
(* A runner that is killed stops nothing: its run stays RUNNING and its    *)
(* containers stay up.                                                     *)
(***************************************************************************)
EXTENDS BenchmarkMatching, PassiveChecks, AndroidChecks

CONSTANTS
    Target,         \* the address that is scanned
    Looks,          \* the certificates, redirects and pages passive_http may meet there
    Bodies,         \* what sensitive_data may match in the page and its scripts
    AlertLists,     \* the lists of alerts ZAP can report
    Allowlists,     \* None, or << the plugins the benchmark keeps >>
    Pages,          \* the sets of checked headers the target may answer with
    Apk,            \* the fixture APK: every build of it has the same digest
    GroundTruth,    \* for each suite its expected findings
    SubsetKeys,     \* the keys a run with --subset keeps
    GateMode,       \* "off", "report" or "enforce"
    FailOnDuration

Address(url) == url[1] \in {"http", "https"} /\ url[2] \in Nat

ASSUME GateModeAssumption == GateMode \in {"off", "report", "enforce"}
ASSUME TargetAssumption == Address(Target)
ASSUME LooksAssumption ==
    \A look \in Looks :
        /\ look.certificate \in {"good", "none", "invalid", "expiring", "expires_this_week"}
        /\ look.redirect \in {"https", "none", "page", "http"}
        /\ look.page.ok => IsFiniteSet(look.page.cookies)
ASSUME BodiesAssumption ==
    \A bodies \in Bodies :
        /\ IsFiniteSet(DOMAIN bodies)
        /\ \A url \in DOMAIN bodies : Address(url) /\ DOMAIN bodies[url] \subseteq DOMAIN SecretSeverity
ASSUME AlertListsAssumption ==
    \A alerts \in AlertLists :
        /\ alerts \in Seq(Range(alerts))
        /\ \A alert \in Range(alerts) : alert.risk \in DOMAIN SeverityRank /\ Address(alert.url)
ASSUME ApkAssumption ==
    /\ IsFiniteSet(DOMAIN Apk.entries) /\ IsFiniteSet(Apk.manifest.permissions)
    /\ Apk.manifest.set \subseteq DOMAIN ManifestRules
\* No fixture repeats an expected_key, by which its rows are inserted and updated
ASSUME GroundTruthAssumption ==
    \A s \in {"web", "android"} :
        /\ IsFiniteSet(GroundTruth[s])
        /\ \A item \in GroundTruth[s] : item.required \in BOOLEAN
        /\ \A a, b \in GroundTruth[s] : a.key = b.key => a = b

VARIABLES
    suite,      \* "web" or "android"
    pc,         \* where the runner, or the scan it waits for, is
    services,   \* containers of the suite are up
    expected,   \* the rows of expected_findings
    status,     \* benchmark_runs.status of this run, NONE before it is created
    reported,   \* the scanners that have reported
    raws,       \* what they reported, in the order they ended
    pending,    \* the correlated findings still to verify
    response,   \* the answer of the target that verification has cached
    analyzed,   \* the findings verified so far
    rows,       \* the stored findings of the scan
    result,     \* None, or << the result and match records of the run >>
    app,        \* the row of the APK: "none", "queued", "completed" or "failed"
    linked,     \* the runs that point to it, up to two
    report,     \* None, or << what its judgement came to >>
    baseline,   \* None, or << the suite's entry in the baseline file >>
    exit        \* None while the suite runs, then << the exit code >>

suiteVars == << suite, pc, services, expected, status, reported, raws, pending, response,
                analyzed, rows, result, app, linked, report, baseline, exit >>
\* Left alone together by most steps
android == << app, linked >>
scanVars == << reported, raws, pending, response, analyzed >>
verdictVars == << result, report, baseline >>

Scanners == {"passive_http", "sensitive_data", "zap"}
InsideAndroid == {"building", "analyzing", "persisted"}
Inside == InsideAndroid \cup
    {"syncing", "creating", "scanning", "verifying", "scanned", "published", "judged"}
Measured == {"precision", "recall"}

-----------------------------------------------------------------------------
SuiteInit ==
    /\ suite \in {"web", "android"} /\ app = "none" /\ linked = 0
    /\ pc = "idle" /\ services = FALSE
    /\ expected = {} /\ status = "NONE" /\ reported = {} /\ raws = << >>
    /\ pending = {} /\ response = None /\ analyzed = {} /\ rows = {}
    /\ result = None /\ report = None /\ baseline = None /\ exit = None

Start ==
    /\ pc = "idle"
    /\ pc' = IF suite = "web" THEN "starting" ELSE "building"
    /\ UNCHANGED << suite, android, services, expected, status, scanVars, rows, verdictVars,
                    exit >>

\* `up` has returned, the containers run and the target answers
ServicesReady ==
    /\ pc = "starting"
    /\ services' = TRUE
    /\ pc' = "syncing"
    /\ UNCHANGED << suite, android, expected, status, scanVars, rows, verdictVars, exit >>

\* What a scan has in memory is local to it: nothing of it survives, however it ends
ScanForgotten ==
    reported' = {} /\ raws' = << >> /\ pending' = {} /\ response' = None /\ analyzed' = {}

Ends(code) ==
    /\ pc' = "stopping"
    /\ exit' = << code >>
    /\ ScanForgotten
    /\ UNCHANGED << suite, android, expected, rows, verdictVars >>

\* `up` fails, or one of the two waits for what it has started ends
ServicesLate ==
    /\ pc = "starting"
    /\ Ends(1)
    /\ services' \in {services, TRUE}
    /\ UNCHANGED status

\* Rows of the ground truth, or of its subset, are inserted or updated, never deleted
Sync ==
    /\ pc = "syncing"
    /\ \E items \in {GroundTruth[suite], {i \in GroundTruth[suite] : i.key \in SubsetKeys}} :
         expected' = expected \cup items
    /\ pc' = "creating"
    /\ UNCHANGED << suite, android, services, status, scanVars, rows, verdictVars, exit >>

CreateRun ==
    /\ pc = "creating"
    /\ status' = "RUNNING"
    /\ pc' = "scanning"
    /\ UNCHANGED << suite, android, services, expected, scanVars, rows, verdictVars, exit >>

Reports(scanner) ==
    /\ pc = "scanning"
    /\ scanner \notin reported
    /\ reported' = reported \cup {scanner}
    /\ UNCHANGED << suite, android, pc, services, expected, status, pending, response,
                    analyzed, rows, verdictVars, exit >>

PassiveReports ==
    /\ Reports("passive_http")
    /\ \E look \in Looks : raws' = raws \o SetToSeq(PassiveFindings(Target, look))

SensitiveReports ==
    /\ Reports("sensitive_data")
    /\ \E bodies \in Bodies : raws' = raws \o SetToSeq(SensitiveFindings(bodies))

ZapReports ==
    /\ Reports("zap")
    /\ \E alerts \in AlertLists, allowlist \in Allowlists :
         raws' = raws \o SetToSeq(AlertFindings(alerts, allowlist))

\* A scanner raises or is cut off
ScannerFails == (\E s \in Scanners : Reports(s)) /\ UNCHANGED raws

\* The scan fails or is cancelled before it is COMPLETED
ScanFails ==
    /\ pc \in {"scanning", "verifying"}
    /\ status' = "FAILED"
    /\ Ends(1)
    /\ UNCHANGED services

-----------------------------------------------------------------------------
\* Analysis
Analyze ==
    /\ pc = "scanning" /\ reported = Scanners
    /\ pending' = Correlate(raws)
    /\ raws' = << >>
    /\ pc' = "verifying"
    /\ UNCHANGED << suite, android, services, expected, status, reported, response, analyzed,
                    rows, verdictVars, exit >>

\* Findings come in descending severity, those of one severity in any order
NextToVerify ==
    {f \in pending : \A g \in pending : SeverityRank[g.severity] <= SeverityRank[f.severity]}

\* The target is asked once; a request that fails is made again for the next header
Answers == IF response # None THEN {response} ELSE {None} \cup {<< page >> : page \in Pages}

HeaderCheck(finding, answer) ==
    HeaderVerdict(finding, IF answer = None THEN [ok |-> FALSE, headers |-> {}]
                           ELSE [ok |-> TRUE, headers |-> answer[1]])

Verify ==
    /\ pc = "verifying"
    /\ \E f \in NextToVerify :
         /\ pending' = pending \ {f}
         /\ IF f.key \in HeaderChecks
            THEN \E answer \in Answers :
                   /\ response' = answer
                   /\ analyzed' = analyzed \cup {Scored(Judged(f, HeaderCheck(f, answer)))}
            ELSE \E verdict \in Verdicts(f) :
                   /\ response' = response
                   /\ analyzed' = analyzed \cup {Scored(Judged(f, verdict))}
    /\ UNCHANGED << suite, android, pc, services, expected, status, reported, raws, rows,
                    verdictVars, exit >>

\* The rows and COMPLETED are committed together
Store ==
    /\ pc = "verifying" /\ pending = {}
    /\ rows' = {Stored(f) : f \in analyzed}
    /\ ScanForgotten
    /\ pc' = "scanned"
    /\ UNCHANGED << suite, android, services, expected, status, verdictVars, exit >>

-----------------------------------------------------------------------------
\* The result.  Both tables are read in no particular order, which matters
\* only among the measurable items and among the rows one of them accepts
Orders(all, sorted) == {SetToSeq(all \ sorted) \o seq : seq \in SetToSeqs(sorted)}
MeasurableItems == {i \in expected : Measurable(i)}
Accepted(items) == {r \in rows : \E i \in items : Matches(i, r)}

PublishResult ==
    /\ \E items \in Orders(expected, MeasurableItems),
          found \in Orders(rows, Accepted(MeasurableItems)) :
         LET records == MatchFindings(items, found)
         IN  result' = << [records |-> records, metrics |-> Metrics(items, records)] >>
    /\ status' = "COMPLETED"
    /\ pc' = "published"
    /\ UNCHANGED << suite, android, services, expected, scanVars, rows, report, baseline, exit >>

Match == pc = "scanned" /\ PublishResult

\* A step after the commit of COMPLETED raises: that is logged, no more
MatchFails ==
    /\ pc = "scanned"
    /\ pc' = "published"
    /\ UNCHANGED << suite, android, services, expected, status, scanVars, rows, verdictVars,
                    exit >>

-----------------------------------------------------------------------------
\* The Android suite.  One transaction inserts the run and the row of the APK,
\* or finds the row an earlier run has inserted for the same digest
UploadFixture ==
    /\ pc = "building"
    /\ expected' = expected \cup GroundTruth[suite]
    /\ status' = "RUNNING"
    /\ app' = IF app = "none" THEN "queued" ELSE app
    /\ linked' = IF linked = 2 THEN 2 ELSE linked + 1
    /\ pc' = "analyzing"
    /\ UNCHANGED << suite, services, scanVars, rows, verdictVars, exit >>

\* An application that was analysed, or failed, is not analysed again
SkipAnalysis ==
    /\ pc = "analyzing" /\ app \in {"completed", "failed"}
    /\ pc' = "published"
    /\ UNCHANGED << suite, android, services, expected, status, scanVars, rows, verdictVars,
                    exit >>

AnalyzeApk ==
    /\ pc = "analyzing" /\ app = "queued"
    /\ rows' = AndroidRows(Apk)
    /\ app' = "completed"
    /\ pc' = "persisted"
    /\ UNCHANGED << suite, linked, services, expected, status, scanVars, verdictVars, exit >>

\* The run is looked up by its application: two of them are an error
MatchApk ==
    /\ pc = "persisted" /\ linked = 1
    /\ PublishResult

\* An error before or after the findings are committed; they stay, the result does not
AnalysisFails ==
    /\ pc = "persisted" \/ (pc = "analyzing" /\ app = "queued")
    /\ app' = "failed"
    /\ pc' = "published"
    /\ UNCHANGED << suite, linked, services, expected, status, scanVars, rows, verdictVars,
                    exit >>

-----------------------------------------------------------------------------
\* The judgement
NoResultEndsWell ==
    /\ pc = "published" /\ result = None
    /\ Ends(0)
    /\ UNCHANGED << services, status >>

NoResult ==
    /\ pc = "published" /\ result = None
    /\ Ends(1)
    /\ UNCHANGED << services, status >>

MissedItems ==
    {i \in expected : \E class \in {"false_negative", "partial_negative"} :
        Record(i.key, None, class) \in result[1].records}

Critical(items) == {i \in items : i.severity = "critical" /\ i.required}

\* With --write-baseline the baseline file is written in the same step, before
\* the commit and whatever the gate says
Judges(missedCritical, found) ==
    /\ pc = "published" /\ result # None
    /\ \E slow \in BOOLEAN :
         report' = << [failures |-> GateFailures(result[1].metrics,
                                                 Delta(result[1].metrics, baseline), FALSE,
                                                 missedCritical, slow, FailOnDuration),
                       views |-> CustomerViews(found),
                       customer |-> CustomerMetrics(result[1].metrics, found)] >>
    /\ baseline' \in {baseline, << [m \in Measured |-> result[1].metrics[m]] >>}
    /\ pc' = "judged"
    /\ UNCHANGED << suite, android, services, expected, status, scanVars, rows, result, exit >>

\* The findings are read in an order of no consequence (ViewsOrderFree)
Judge == suite = "web" /\ Judges(Cardinality(Critical(MissedItems)), SetToSeq(rows))

\* Of an APK no missed item counts as critical, and there is no customer's view
JudgeApk == suite = "android" /\ Judges(0, << >>)

Finish ==
    /\ pc = "judged"
    /\ Ends(GateExit(GateMode, report[1].failures, FALSE))
    /\ UNCHANGED << services, status >>

\* The deadline of a web suite, or an exception of the runner
SuiteEnds ==
    /\ pc \in Inside
    /\ Ends(1)
    /\ UNCHANGED << services, status >>

\* The next command starts from nothing but the tables and the baseline file
Leaves ==
    /\ pc' = "idle" /\ status' = "NONE"
    /\ ScanForgotten
    /\ rows' = {} /\ result' = None /\ report' = None /\ exit' = None
    /\ UNCHANGED << suite, android, expected, baseline >>

\* The finally block of a web suite has run; nobody looks whether `down` has failed
Stop ==
    /\ pc = "stopping"
    /\ services' \in {services, FALSE}
    /\ Leaves

\* The runner is killed, or hangs in a command without a timeout until it is
Die ==
    /\ pc # "idle"
    /\ services' \in {services} \cup (IF pc = "starting" THEN {TRUE} ELSE {})
    /\ Leaves

SuiteNext ==
    \/ Start \/ ServicesReady \/ ServicesLate \/ Sync \/ CreateRun \/ PassiveReports
    \/ SensitiveReports \/ ZapReports \/ ScannerFails
    \/ ScanFails \/ Analyze \/ Verify \/ Store \/ Match \/ MatchFails
    \/ UploadFixture \/ SkipAnalysis \/ AnalyzeApk \/ MatchApk \/ AnalysisFails
    \/ NoResult \/ Judge \/ JudgeApk \/ Finish \/ SuiteEnds \/ Stop \/ Die

\* Nothing is fair: `docker compose` runs without a timeout, outside of any deadline
SuiteSpec == SuiteInit /\ [][SuiteNext]_suiteVars

-----------------------------------------------------------------------------
(* Properties *)

\* The state of the runner: a web suite works only while its services are up,
\* the run exists from its creation to the end of the suite and is COMPLETED
\* exactly when it has a result.
SuiteTypeOK ==
    /\ suite \in {"web", "android"}
    /\ pc \in {"idle", "starting", "stopping"} \cup Inside
    /\ services \in BOOLEAN
    /\ suite = "web" /\ pc \in Inside => services
    /\ expected \subseteq GroundTruth[suite]
    /\ status \in {"NONE", "RUNNING", "FAILED", "COMPLETED"}
    /\ reported \subseteq Scanners
    /\ pc \in Inside \ {"syncing", "creating", "building"} => status # "NONE"
    /\ (status = "COMPLETED") = (result # None)
    /\ app \in {"none", "queued", "completed", "failed"} /\ linked \in 0..2
    /\ exit \in {None, << 0 >>, << 1 >>}

\* Two raw findings are of one issue: the same key at the same address, or
\* the same secret wherever it is
SameIssue(a, b) ==
    /\ CorrelationKey(a) = CorrelationKey(b)
    /\ LET token(r) == SecretToken(CorrelationKey(r), r.evidence)
       IN  IF token(a) = None THEN token(b) = None /\ Canonical(a.url) = Canonical(b.url)
           ELSE token(a) = token(b)

IssuesOf(seq) == {{b \in Range(seq) : SameIssue(a, b)} : a \in Range(seq)}

\* Correlation loses no raw finding and invents none, whichever order the
\* scanners end in: one finding per issue, each with the tools and the worst
\* severity of its issue, and no two of them share the row they are stored in.
GroupingFaithful ==
    LET found == Correlate(raws)
        shape(f) == << f.key, f.tools, f.severity, f.url >>
    IN  /\ Cardinality(found) = Cardinality(IssuesOf(raws))
        /\ \A issue \in IssuesOf(raws) : \E f \in found :
             /\ f.tools = {r.tool : r \in issue}
             /\ \A r \in issue : SeverityRank[r.severity] <= SeverityRank[f.severity]
             /\ \E r \in issue : r.severity = f.severity /\ CorrelationKey(r) = f.key
             /\ \E r \in issue : Canonical(r.url) = f.url
        /\ Cardinality({Fingerprint(f) : f \in found}) = Cardinality(found)
        /\ {shape(f) : f \in Correlate(Reverse(raws))} = {shape(f) : f \in found}

\* Every header finding of a scan is judged by one answer of the target: no
\* two of them contradict each other about what the page sends, though the
\* page may change while they are verified.
HeaderVerdictsAgree ==
    LET checked == {f \in analyzed : f.key \in HeaderChecks /\ f.status # "unverified"}
        present == {f.key[2] : f \in {g \in checked : g.status = "inconclusive"}}
        absent == {f.key[2] : f \in {g \in checked : g.status = "verified"}}
    IN  checked # {} => \E page \in Pages : present \subseteq page /\ absent \cap page = {}

\* A score lies between 1 and 100 and never falls when the severity, the
\* confidence or the outcome of the verification gets worse for the target,
\* nor when one more equally reliable tool agrees.
ScoreOrdered ==
    \A f \in analyzed :
        /\ f.risk \in 10..1000
        /\ \A s \in DOMAIN SeverityRank : SeverityRank[s] >= SeverityRank[f.severity] =>
             RiskScore([f EXCEPT !.severity = s]) >= f.risk
        /\ \A c \in DOMAIN ConfidenceRank : ConfidenceRank[c] >= ConfidenceRank[f.verified] =>
             RiskScore([f EXCEPT !.verified = c]) >= f.risk
        /\ RiskScore([f EXCEPT !.status = "verified"]) >= f.risk
        /\ \A t \in {"passive_http", "tls_check"} :
             RiskScore([f EXCEPT !.tools = @ \cup {t}]) >= f.risk

\* Every stored finding is judged in exactly one record and every required
\* item is found or missed, in the result and in the blind evaluation of the
\* same rows, which moves findings between the classes but finds and misses
\* the same items and calls no more findings false.
JudgedOnce ==
    result # None =>
    LET items == SetToSeq(expected)
        found == SetToSeq(rows)
        blind == BlindRecords(items, found)
        strict == MatchFindings(items, found)
        once(records) == \A r \in rows : Cardinality({m \in records : m.row = r.id}) = 1
        settled(m) == m.tp + m.fn = m.expected
    IN  /\ once(result[1].records) /\ settled(result[1].metrics)
        /\ once(blind) /\ settled(BlindMetrics(items, found))
        /\ CountOf(blind, "true_positive") = CountOf(strict, "true_positive")
        /\ CountOf(blind, "confirmed_false_positive") <= CountOf(strict, "confirmed_false_positive")

AcceptedBy(item) == {r \in rows : Matches(item, r)}
AcceptedOnce ==
    \A i, j \in MeasurableItems : i # j => AcceptedBy(i) \cap AcceptedBy(j) = {}

\* What docs/benchmark-metrics.md calls informational
DocumentedInformational(row) == row.severity = "info" \/ row.key \in InformationalKeys

\* Notes of the project's own scanners: informational by that document, false by the code
OwnNotes(found) ==
    {r \in found : /\ r.severity = "info" /\ r.key \notin InformationalKeys
                   /\ r.tool \notin {"zap", "nuclei"}}

\* Whatever order the tables are read in, as long as no finding is accepted by
\* two expected items, a result counts what docs/benchmark-metrics.md says of
\* found items, missed items and surplus findings of a found item.  Of the
\* findings that no item accepts and no missed item resembles it counts as false
\* positives those that are not informational, as it says, and against it the
\* notes of scanners other than zap and nuclei, and no others.
ResultByDefinition ==
    result # None /\ AcceptedOnce =>
    LET required == {i \in MeasurableItems : i.support = "supported" /\ i.required}
        found == {i \in MeasurableItems : AcceptedBy(i) # {}}
        other == rows \ Accepted(MeasurableItems)
        resembles(r) == \E i \in required \ found : RelaxedMatch(i, r)
    IN  /\ result[1].metrics.tp = Cardinality(required \cap found)
        /\ result[1].metrics.fn = Cardinality(required \ found)
        /\ result[1].metrics.duplicates =
             Cardinality(Accepted(MeasurableItems)) - Cardinality(found)
        /\ result[1].metrics.confirmed =
             Cardinality({r \in other : ~resembles(r) /\ ~DocumentedInformational(r)})
             + Cardinality(OwnNotes({r \in other : ~resembles(r)}))

\* docs/benchmark-metrics.md:13 and metrics_definitions.py:37: an unmatched finding of
\* info severity, or of a known informational key, is informational, hence no false
\* positive, whoever reports it.
InformationalAsDocumented ==
    result # None =>
        \A m \in result[1].records : m.class = "confirmed_false_positive" =>
            \A r \in rows : r.id = m.row => ~DocumentedInformational(r)

\* What a customer is shown of a scan does not depend on the order the
\* database returns the findings in, and shows each group of findings once.
ViewsOrderFree ==
    pc = "judged" /\ suite = "web" =>
        /\ \A order \in SetToSeqs(rows) : CustomerViews(order) = report[1].views
        /\ Cardinality(report[1].views) = Cardinality({v.group : v \in report[1].views})

\* The command succeeds only for a run that is COMPLETED and was judged: never
\* for one that timed out, whose scan failed or that has no result, and of the
\* fixture APK only for the first run, whatever became of it.  Under an enforced
\* gate no critical item of a web suite was missed, and recall has not dropped
\* by more than the limit below the baseline unless this run is the baseline.
ZeroMeansJudged ==
    exit = << 0 >> =>
        /\ status = "COMPLETED" /\ report # None
        /\ suite = "android" => linked = 1 /\ app = "completed"
        /\ GateMode = "enforce" /\ suite = "web" => Critical(MissedItems) = {}
        /\ GateMode = "enforce" /\ baseline # None =>
             \/ baseline[1].recall = result[1].metrics.recall
             \/ ~(Delta(result[1].metrics, baseline).drop > RecallDropLimit)

\* The metrics the release gates read of a suite, from below every threshold to above
Quality ==
    {None} \cup {<< [precision |-> p, recall |-> r] >> : p \in {600, 750, 900}, r \in {650, 900}}
Better(a, b) == a # None /\ b # None /\ a[1].precision <= b[1].precision /\ a[1].recall <= b[1].recall

Readiness == [internal_alpha |-> 0, closed_pilot_candidate |-> 1, closed_pilot |-> 2]
Release(web, api, customer, blind) ==
    Readiness[ReadyFor(RawGates(web, api, None, None), CustomerGates(customer, None, None),
                       OperationalGates(0, blind))]

\* What improving one of its measurements does to the verdict on a release
MonotoneAt(web, api, customer, blind, measurements) ==
    LET ready == Release(web, api, customer, blind)
    IN  /\ \A q \in measurements :
             /\ Better(web, q) => Release(q, api, customer, blind) >= ready
             /\ Better(api, q) => Release(web, q, customer, blind) >= ready
             /\ Better(customer, q) => Release(web, api, q, blind) >= ready
        /\ blind = << FALSE >> => Release(web, api, customer, << TRUE >>) >= ready
        /\ ready = 2 => /\ \A q \in {web, api} : q # None => q[1].precision >= 800
                        /\ blind # << FALSE >>

\* A release that measures better in one suite, in the customer's view or in
\* the blind evaluation is never judged less ready, and a measurement below
\* its threshold always costs the closed pilot.
ReleaseMonotone ==
    pc = "idle" /\ expected = {} =>
        \A web, api, customer \in Quality, blind \in {None, << FALSE >>, << TRUE >>} :
            MonotoneAt(web, api, customer, blind, Quality)

\* From the raw findings to the scored ones: nothing is lost or repeated, verdicts of one
\* page agree, scores keep their order.
AnalysisFaithful == GroupingFaithful /\ HeaderVerdictsAgree /\ ScoreOrdered

\* No two stored rows have one identity, and what a baseline keeps is a ratio.
Measurements ==
    /\ Cardinality({r.id : r \in rows}) = Cardinality(rows)
    /\ baseline # None => baseline[1].recall \in 0..1000 /\ baseline[1].precision \in 0..1000

\* From the stored rows to the measured run: each row is judged once, the counts are the
\* documented ones but for the scanners' own notes, and neither they nor the customer's
\* view depend on the order of the rows.
ResultFaithful == Measurements /\ JudgedOnce /\ ResultByDefinition /\ ViewsOrderFree

\* From the measured run to the verdicts on it: the state is of its type, success means
\* judged, and a better measurement is never judged less ready.
VerdictEarned == SuiteTypeOK /\ ZeroMeansJudged /\ ReleaseMonotone
=============================================================================
