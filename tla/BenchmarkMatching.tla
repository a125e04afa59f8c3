------------------------- MODULE BenchmarkMatching -------------------------
(***************************************************************************)
(* How a benchmark judges the findings of a scan: the greedy match with    *)
(* the ground truth, its variant for the blind holdout, the view a         *)
(* customer would get, the comparison with a baseline, the regression gate *)
(* of a run and the release gates over the baselines.  Ratios are in       *)
(* thousandths.                                                            *)
(***************************************************************************)
EXTENDS FindingAnalysis

Ratio(part, whole, otherwise) == IF whole = 0 THEN otherwise ELSE (1000 * part) \div whole

-----------------------------------------------------------------------------
\* The row a scan stores for an analysed finding; source_tool is the first
\* of the sorted tools and source_rule_id is the correlation key
ToolsSorted == << "code_scan", "deep_scan", "nuclei", "passive_http", "sensitive_data",
                  "surface_crawl", "tls_check", "zap" >>
LeadTool(tools) == ToolsSorted[Min({i \in DOMAIN ToolsSorted : ToolsSorted[i] \in tools})]

\* Read again as a raw finding, a row of nuclei is looked up by this rule
RuleWords(key) ==
    CASE key = << "", "permissive-cors" >> -> {"cors"}
      [] key = << "", "x-powered-by-disclosure" >> -> {"x-powered-by"}
      [] OTHER -> {}

Stored(finding) ==
    [id |-> Fingerprint(finding), fingerprint |-> Fingerprint(finding), key |-> finding.key,
     rule |-> finding.key, tool |-> LeadTool(finding.tools), tools |-> finding.tools,
     title |-> finding.title, mentions |-> finding.mentions,
     words |-> IF LeadTool(finding.tools) = "nuclei" THEN RuleWords(finding.key)
               ELSE finding.words,
     severity |-> finding.severity, url |-> finding.url,
     confidence |-> finding.verified, evidence |-> finding.evidence]

-----------------------------------------------------------------------------
\* Matching.  An expected item: key, category or None, alternatives, location
\* or None, support, required, severity
InformationalKeys == {<< "", "info-modern-web-app" >>, << "generic.", "info-modern-web-app" >>}

Categories(item) == IF item.category = None THEN {} ELSE {item.category}
ExpectedKeys(item) == {item.key} \cup Categories(item) \cup item.alternatives
FindingKeys(row) == {row.key, row.rule} \cup {<< "", t >> : t \in row.tools}

\* An equal category is an equal key: expected keys contain the category
MatchReason(item, row) ==
    IF ExpectedKeys(item) \cap FindingKeys(row) # {} THEN "key"
    ELSE IF /\ item.location # None
            /\ Canonical(row.url) = Canonical(item.location)
            /\ Categories(item) \cap row.mentions # {}
    THEN "location_and_category" ELSE "none"

Matches(item, row) == MatchReason(item, row) # "none"

RelaxedMatch(item, row) ==
    Matches(item, row) \/ (Categories(item) \cup {item.key}) \cap row.mentions # {}

Informational(row) ==
    row.key \in InformationalKeys \/ (row.severity = "info" /\ row.tool \in {"zap", "nuclei"})

DuplicateOf(row, others) ==
    \E o \in others : o.id # row.id /\ o.key = row.key /\ o.fingerprint = row.fingerprint

Record(item, row, class) == [item |-> item, row |-> row, class |-> class]

MatchClass(item) ==
    CASE item.support = "partially_supported" /\ item.required -> "partial_positive"
      [] item.support = "partially_supported" /\ ~item.required -> "partial_additional"
      [] item.support = "supported" /\ item.required -> "true_positive"
      [] item.support = "supported" /\ ~item.required -> "valid_additional"

MissClass(item) == IF item.support = "supported" THEN "false_negative" ELSE "partial_negative"

Measurable(item) == item.support \in {"supported", "partially_supported"}

\* An item leaves no row free that it matches, so a row goes to the first
\* measurable item that matches it
TakenBy(expected, rows, i) ==
    {j \in DOMAIN rows :
        /\ Matches(expected[i], rows[j])
        /\ \A k \in 1..(i - 1) : Measurable(expected[k]) => ~Matches(expected[k], rows[j])}

\* The first of the rows an item takes is its own, the others are duplicates
Claim(expected, rows, i) ==
    LET item == expected[i]
        taken == TakenBy(expected, rows, i)
        own == Min(taken)
    IN  IF taken # {}
        THEN {Record(item.key, rows[own].id, MatchClass(item))}
             \cup {Record(item.key, rows[j].id, "duplicate") : j \in taken \ {own}}
        ELSE IF item.required THEN {Record(item.key, None, MissClass(item))} ELSE {}

Claimed(expected, rows) ==
    UNION {Claim(expected, rows, i) : i \in {k \in DOMAIN expected : Measurable(expected[k])}}

UnmatchedAlwaysFalse(row, missed, matched) ==
    IF \E item \in missed : RelaxedMatch(item, row) THEN "matcher_failure"
    ELSE "confirmed_false_positive"

\* A row no expected item took
UnmatchedClass(row, missed, matched) ==
    IF \E item \in missed : RelaxedMatch(item, row) THEN "matcher_failure"
    ELSE IF DuplicateOf(row, matched) THEN "duplicate"
    ELSE IF Informational(row) THEN "informational"
    ELSE "confirmed_false_positive"

MatchFindings(expected, rows) ==
    LET claimed == Claimed(expected, rows)
        missed == {item \in Range(expected) : Record(item.key, None, "false_negative") \in claimed}
        matched == {r \in Range(rows) : \E m \in claimed : m.row = r.id /\ m.class # "duplicate"}
        left == {r \in Range(rows) : \A m \in claimed : m.row # r.id}
    IN  {Record(item.key, None, "ground_truth_missing") :
            item \in {i \in Range(expected) : ~Measurable(i)}}
        \cup claimed
        \cup {Record(None, r.id, UnmatchedClass(r, missed, matched)) : r \in left}

CountOf(records, class) == Cardinality({r \in records : r.class = class})
RequiredCount(expected, support) ==
    Cardinality({item \in Range(expected) : item.support = support /\ item.required})

Metrics(expected, records) ==
    LET tp == CountOf(records, "true_positive")
        confirmed == CountOf(records, "confirmed_false_positive")
        required == RequiredCount(expected, "supported")
    IN  [expected |-> required, tp |-> tp, fn |-> CountOf(records, "false_negative"),
         confirmed |-> confirmed,
         legacy |-> confirmed + CountOf(records, "matcher_failure"),
         additional |-> CountOf(records, "valid_additional"),
         duplicates |-> CountOf(records, "duplicate"),
         failures |-> CountOf(records, "matcher_failure"),
         informational |-> CountOf(records, "informational"),
         gaps |-> CountOf(records, "ground_truth_missing"),
         partial |-> CountOf(records, "partial_positive"),
         partial_missed |-> CountOf(records, "partial_negative"),
         precision |-> Ratio(tp, tp + confirmed, 0), recall |-> Ratio(tp, required, 1000)]

FalsePositiveRate(metrics) == Ratio(metrics.confirmed, metrics.tp + metrics.confirmed, 0)

-----------------------------------------------------------------------------
\* The blind holdout: a finding it does not contain is not yet a false one
BlindValidKeys ==
    HeaderChecks \cup {<< "", n >> : n \in
        {"x-powered-by-disclosure", "server-disclosure", "insecure-cookie-flags", "no-https",
         "hardcoded-password", "db-connection-string", "generic-iban", "turkish-iban",
         "credit-card-number", "permissive-cors"}}

BlindInformational(row) ==
    \/ row.key \in InformationalKeys
    \/ row.severity = "info"
    \/ row.key[1] = "generic."
    \/ row.key = << "", "cross-domain-javascript-inclusion" >>

ValidOutOfHoldout(row, holdout) ==
    row.key \notin holdout /\ (row.key \in BlindValidKeys \/ row.key[1] = "missing-header-")

BlindClass(row, holdout) ==
    IF BlindInformational(row) THEN "informational"
    ELSE IF ValidOutOfHoldout(row, holdout) THEN "valid_additional"
    ELSE "confirmed_false_positive"

BlindRecords(expected, rows) ==
    LET holdout == {item.key : item \in Range(expected)}
        row(id) == CHOOSE r \in Range(rows) : r.id = id
    IN  {IF r.class # "confirmed_false_positive" THEN r
         ELSE [r EXCEPT !.class = BlindClass(row(r.row), holdout)] :
            r \in MatchFindings(expected, rows)}

\* Its legacy count is of the false and the additional ones
BlindMetrics(expected, rows) ==
    LET m == Metrics(expected, BlindRecords(expected, rows))
    IN  [m EXCEPT !.legacy = m.confirmed + m.additional]

-----------------------------------------------------------------------------
\* The customer's view, computed from the stored rows read as raw findings
SiteWide(key) ==
    key[1] = "missing-header-" \/ key \in {<< "", n >> : n \in
        {"server-disclosure", "x-powered-by-disclosure", "permissive-cors", "info-modern-web-app"}}

CustomerGroup(raw) ==
    LET key == CorrelationKey(raw)
        token == SecretToken(key, raw.evidence)
    IN  IF token # None THEN << key, token >>
        ELSE IF SiteWide(key) THEN << key >>
        ELSE << key, Canonical(raw.url) >>

ConfidenceRank == [high |-> 3, medium |-> 2, low |-> 1]
BestConfidence(items) ==
    CHOOSE c \in {r.confidence : r \in items} :
        \A r \in items : ConfidenceRank[r.confidence] <= ConfidenceRank[c]

\* Sorted by tool, address and rule (in an order left open by CHOOSE, like that of
\* the hashes); the first of equal ones leads
CustomerLead(items) ==
    LET best == Min({ToolPriority(r.tool) : r \in Range(items)})
        trusted == {i \in DOMAIN items : ToolPriority(items[i].tool) = best}
        url == LeastUrl({Canonical(items[i].url) : i \in trusted})
        near == {i \in trusted : Canonical(items[i].url) = url}
        rule == CHOOSE r \in {items[i].rule : i \in near} : TRUE
    IN  items[Min({i \in near : items[i].rule = rule})]

\* Of the evidence only which fields it has is looked at
MergeForCustomer(items) ==
    LET lead == CustomerLead(items)
    IN  [tool |-> lead.tool, rule |-> lead.rule, severity |-> lead.severity,
         url |-> LeastUrl({Canonical(r.url) : r \in Range(items)}),
         confidence |-> BestConfidence(Range(items)),
         fields |-> UNION {DOMAIN r.evidence : r \in Range(items)}]

HeaderEvidence(fields) ==
    fields \cap {"missing_header", "allow_origin", "server", "x_powered_by"} # {}

Visibility(merged, members) ==
    LET header == HeaderEvidence(merged.fields)
        inspected ==
            \/ \E r \in members : HeaderEvidence(DOMAIN r.evidence)
            \/ merged.tool = "passive_http" /\ merged.confidence \in {"high", "medium"}
            \/ \E r \in members : r.tool = "passive_http" /\ r.rule[1] = "missing-header-"
    IN  IF merged.rule[1] = "missing-header-" /\ (header \/ inspected) THEN "confirmed"
        ELSE IF merged.rule = << "", "permissive-cors" >> /\ header THEN "confirmed"
        ELSE IF /\ merged.rule = << "exposed-", "api-docs" >>
                /\ "discovered_paths" \in merged.fields THEN "confirmed"
        ELSE IF /\ merged.rule \in {<< "", "server-disclosure" >>, << "", "x-powered-by-disclosure" >>}
                /\ header THEN "high_confidence"
        ELSE IF merged.severity = "info" THEN "informational"
        ELSE IF merged.confidence = "high" /\ "dedup_fingerprint" \in merged.fields
        THEN "high_confidence" ELSE "needs_review"

\* The view of each group: what the snapshot of a validation shows of it
CustomerView(group, raws) ==
    LET members == Restrict(raws, {i \in DOMAIN raws : CustomerGroup(raws[i]) = group})
        merged == MergeForCustomer(members)
    IN  [group |-> group, rule |-> merged.rule, url |-> merged.url,
         visibility |-> Visibility(merged, Range(members))]

CustomerViews(raws) ==
    {CustomerView(g, raws) : g \in {CustomerGroup(r) : r \in Range(raws)}}

CustomerMetrics(metrics, raws) ==
    LET visible == Cardinality({v \in CustomerViews(raws) :
                                  v.visibility \in {"confirmed", "high_confidence"}})
        wrong == IF visible > metrics.tp THEN visible - metrics.tp ELSE 0
    IN  [visible |-> visible, precision |-> Ratio(metrics.tp, metrics.tp + wrong, 0),
         recall |-> Ratio(metrics.tp, metrics.tp + metrics.fn, 0)]

-----------------------------------------------------------------------------
\* Comparison with a baseline, and the gate of a run
Delta(metrics, baseline) ==
    IF baseline = None THEN [available |-> FALSE, drop |-> 0]
    ELSE [available |-> TRUE,
          drop |-> IF baseline[1].recall > metrics.recall
                   THEN baseline[1].recall - metrics.recall ELSE 0]

MaxFalsePositiveRate == 200
RecallDropLimit == 50

GateFailures(metrics, delta, failed, missedCritical, slow, failOnDuration) ==
    {f \in {"scanner", "missed_critical", "recall", "false_positives", "duration"} :
        \/ f = "scanner" /\ failed
        \/ f = "missed_critical" /\ missedCritical > 0
        \/ f = "recall" /\ delta.available /\ delta.drop > RecallDropLimit
        \/ f = "false_positives" /\ FalsePositiveRate(metrics) > MaxFalsePositiveRate
        \/ f = "duration" /\ slow /\ failOnDuration}

GateExit(mode, failures, failed) ==
    IF mode = "enforce" THEN IF failures # {} THEN 1 ELSE 0
    ELSE IF failed THEN 1 ELSE 0

-----------------------------------------------------------------------------
\* Release gates over the baselines of the four realistic suites; a suite
\* without a baseline (None) adds no gate
Gate(id, passed) == [id |-> id, passed |-> passed]

SuiteGates(suite, baseline, minPrecision, minRecall) ==
    IF baseline = None THEN {}
    ELSE {Gate(<< suite, "precision" >>, baseline[1].precision >= minPrecision),
          Gate(<< suite, "recall" >>, baseline[1].recall >= minRecall)}

RawGates(webPassive, apiPassive, webActive, apiActive) ==
    SuiteGates("passive_web", webPassive, 800, 700)
    \cup SuiteGates("passive_api", apiPassive, 800, 700)
    \cup SuiteGates("active_web", webActive, 700, 700)
    \cup SuiteGates("active_api", apiActive, 700, 600)

CustomerGates(web, api, variance) ==
    SuiteGates("customer_web", web, 700, 700) \cup SuiteGates("customer_api", api, 700, 600)
    \cup (IF variance = None THEN {} ELSE {Gate(<< "customer", "variance" >>, variance[1] <= 50)})

\* variance counts as a customer gate and as an operational one
OperationalGates(external, blind) ==
    {Gate(<< "operational", "external" >>, external = 0),
     Gate(<< "operational", "risk_labels" >>, TRUE), Gate(<< "operational", "ai_labels" >>, TRUE)}
    \cup (IF blind = None THEN {} ELSE {Gate(<< "operational", "blind" >>, blind[1])})

AllPass(gates) == \A g \in gates : g.passed

ReadyFor(raw, customer, operational) ==
    IF AllPass(raw \cup customer \cup operational) THEN "closed_pilot"
    ELSE IF customer # {} /\ AllPass(customer \cup operational) /\ ~AllPass(raw)
    THEN "closed_pilot_candidate" ELSE "internal_alpha"
=============================================================================
