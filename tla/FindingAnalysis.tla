-------------------------- MODULE FindingAnalysis --------------------------
(***************************************************************************)
(* What the analysis of a scan makes of the raw findings its scanners      *)
(* reported: ZAP alerts are grouped, raw findings of one issue become one  *)
(* correlated finding, a finding is verified passively and scored.         *)
(*                                                                         *)
(* A text that the code splits at a prefix (a rule, a key, a title) is a   *)
(* pair << prefix, rest >>; a URL is << scheme, path, spelling >>, paths   *)
(* numbered in their alphabetical order, spellings of one address told     *)
(* apart by a number (case, port, trailing slash, order of the query).     *)
(* Lists the code sorts before anything reads their order are sets; part   *)
(* of a list is the list restricted to some of its positions.              *)
(***************************************************************************)
EXTENDS Naturals, SequencesExt

None == << >>

SeverityRank == [critical |-> 5, high |-> 4, medium |-> 3, low |-> 2, info |-> 1]

-----------------------------------------------------------------------------
\* Addresses
Canonical(url) == << url[1], url[2], 0 >>

UrlBefore(u, v) ==
    \/ u[1] = "http" /\ v[1] = "https"
    \/ u[1] = v[1] /\ u[2] < v[2]

LeastUrl(urls) == CHOOSE u \in urls : \A v \in urls \ {u} : UrlBefore(u, v)

-----------------------------------------------------------------------------
\* Correlation keys
Header(name) == << "missing-header-", name >>
CheckedHeaders == {"strict-transport-security", "x-content-type-options", "x-frame-options",
                   "content-security-policy", "referrer-policy"}
HeaderChecks == {Header(h) : h \in CheckedHeaders}

ZapRules == <<
    << "10020", Header("x-frame-options") >>, << "10021", Header("x-content-type-options") >>,
    << "10035", Header("strict-transport-security") >>,
    << "10038", Header("content-security-policy") >>, << "10063", Header("referrer-policy") >>,
    << "10096", << "", "server-disclosure" >> >>, << "10037", << "", "x-powered-by-disclosure" >> >>,
    << "10098", << "", "permissive-cors" >> >>, << "10109", << "", "info-modern-web-app" >> >> >>

\* Fragments of a title or template id in the order they are looked for
ZapTitles == <<
    << "leaks version", << "", "server-disclosure" >> >>,
    << "x-powered-by", << "", "x-powered-by-disclosure" >> >>,
    << "csp header not set", Header("content-security-policy") >>,
    << "strict-transport-security", Header("strict-transport-security") >>,
    << "x-content-type-options", Header("x-content-type-options") >>,
    << "x-frame-options", Header("x-frame-options") >>,
    << "referrer-policy", Header("referrer-policy") >>,
    << "cross-origin resource sharing", << "", "permissive-cors" >> >>,
    << "cross-domain javascript", << "", "cross-domain-javascript-inclusion" >> >>,
    << "modern web application", << "", "info-modern-web-app" >> >> >>

NucleiFragments == <<
    << "strict-transport-security", Header("strict-transport-security") >>,
    << "x-frame-options", Header("x-frame-options") >>,
    << "x-content-type-options", Header("x-content-type-options") >>,
    << "content-security-policy", Header("content-security-policy") >>,
    << "referrer-policy", Header("referrer-policy") >>,
    << "x-powered-by", << "", "x-powered-by-disclosure" >> >>,
    << "cors", << "", "permissive-cors" >> >>,
    << "openapi", << "exposed-", "api-docs" >> >>,
    << "swagger", << "exposed-", "api-docs" >> >>,
    << "tls", << "cert-", "invalid" >> >>,
    << "ssl", << "cert-", "invalid" >> >>,
    << "exposure", << "exposed-", "env-file" >> >> >>

\* The key of the first entry that is among the words of a text
Mentioned(table, words) ==
    LET hits == {i \in DOMAIN table : table[i][1] \in words}
    IN  IF hits = {} THEN None ELSE table[Min(hits)][2]

\* raw.words: the fragments in the text its tool is looked up by, the title
\* for ZAP and the template id for nuclei; raw.mentions: the keys its title spells
CorrelationKey(raw) ==
    LET rule == raw.rule
        unknown == << "generic.", raw.title >>
        mapped == Mentioned(ZapRules, {rule[2]})
        titled == Mentioned(ZapTitles, raw.words)
        template == Mentioned(NucleiFragments, raw.words)
    IN  IF rule[1] = "missing-header-" THEN rule
        ELSE IF rule[1] = "zap-" /\ mapped # None THEN mapped
        ELSE CASE raw.tool = "zap" -> IF titled # None THEN titled ELSE unknown
               [] raw.tool = "nuclei" -> IF template # None THEN template ELSE unknown
               [] raw.tool \in {"passive_http", "code_scan", "tls_check"} -> rule
               [] raw.tool = "deep_scan" -> << "deep.", rule[2] >>
               [] raw.tool = "sensitive_data" ->
                    IF rule[1] = "sensitive-" THEN << "", rule[2] >> ELSE unknown
               [] OTHER -> unknown

SecretKeys == {<< "", name >> : name \in
    {"hardcoded-password", "db-connection-string", "turkish-iban", "generic-iban",
     "credit-card-number", "bank-account-hint", "api-secret-assignment"}}

\* Evidence is a function from the fields that are set to their values
SecretToken(key, evidence) ==
    IF key \in SecretKeys /\ "masked_sample" \in DOMAIN evidence
    THEN << IF "pattern" \in DOMAIN evidence THEN evidence["pattern"] ELSE key,
            evidence["masked_sample"] >>
    ELSE None

-----------------------------------------------------------------------------
\* ZAP alerts: one raw finding for the instances of one alert
AlertFingerprint(alert) ==
    << alert.plugin, Canonical(alert.url), alert.method, alert.param, alert.attack,
       alert.kind, alert.name >>

AlertGroup(fingerprint, alerts) ==
    LET members == {i \in DOMAIN alerts : AlertFingerprint(alerts[i]) = fingerprint}
    IN  [fingerprint |-> fingerprint, primary |-> alerts[Min(members)], members |-> members,
         urls |-> {Canonical(alerts[i].url) : i \in members}]

GroupAlerts(alerts) == {AlertGroup(AlertFingerprint(a), alerts) : a \in Range(alerts)}

\* The benchmark keeps the alerts of its allowlist and one group per plugin;
\* the groups come sorted by hash, so which one leads is left open by CHOOSE
AllowedAlerts(alerts, allowlist) ==
    Restrict(alerts, {i \in DOMAIN alerts : alerts[i].plugin \in allowlist})

CollapsedGroup(groups) ==
    LET lead == CHOOSE g \in groups : TRUE
    IN  [lead EXCEPT !.members = UNION {g.members : g \in groups},
                     !.urls = UNION {g.urls : g \in groups}]

CollapseByPlugin(groups) ==
    {CollapsedGroup({h \in groups : h.primary.plugin = g.primary.plugin}) : g \in groups}

AlertFinding(group) ==
    LET alert == group.primary
        instances == Cardinality(group.members)
    IN  [tool |-> "zap", rule |-> << "zap-", alert.plugin >>, title |-> alert.name,
         words |-> alert.words, mentions |-> alert.mentions, severity |-> alert.risk, url |-> Canonical(alert.url),
         confidence |-> alert.confidence,
         evidence |->
            IF Cardinality(group.urls) > 1
            THEN [dedup_fingerprint |-> group.fingerprint, instance_count |-> instances,
                  affected_endpoints |-> group.urls]
            ELSE [dedup_fingerprint |-> group.fingerprint, instance_count |-> instances]]

AlertFindings(alerts, allowlist) ==
    LET groups == IF allowlist = None THEN GroupAlerts(alerts)
                  ELSE CollapseByPlugin(GroupAlerts(AllowedAlerts(alerts, allowlist[1])))
    IN  {AlertFinding(g) : g \in groups}

-----------------------------------------------------------------------------
\* Correlation
GroupKeyByAddress(raw) == << CorrelationKey(raw), Canonical(raw.url) >>

GroupKey(raw) ==
    LET key == CorrelationKey(raw)
        token == SecretToken(key, raw.evidence)
    IN  << key, IF token # None THEN token ELSE Canonical(raw.url) >>

Severest(items) ==
    CHOOSE s \in {r.severity : r \in items} :
        \A r \in items : SeverityRank[r.severity] <= SeverityRank[s]

PreferredTools == << "passive_http", "zap", "nuclei", "code_scan", "deep_scan", "tls_check" >>

ToolPriority(tool) ==
    IF \E i \in DOMAIN PreferredTools : PreferredTools[i] = tool
    THEN CHOOSE i \in DOMAIN PreferredTools : PreferredTools[i] = tool ELSE 99

\* Of the members of the most trusted tool the severest, of those the first
Primary(items) ==
    LET best == Min({ToolPriority(r.tool) : r \in Range(items)})
        pool == {i \in DOMAIN items : ToolPriority(items[i].tool) = best}
        worst == Severest({items[i] : i \in pool})
    IN  items[Min({i \in pool : items[i].severity = worst})]

\* Every field of a member; the primary's value comes first, then the first member's
MergedEvidence(items) ==
    LET lead == Primary(items).evidence
        first(f) == Min({i \in DOMAIN items : f \in DOMAIN items[i].evidence})
    IN  [f \in UNION {DOMAIN r.evidence : r \in Range(items)} |->
            IF f \in DOMAIN lead THEN lead[f] ELSE items[first(f)].evidence[f]]

MergeGroup(group, items) ==
    LET primary == Primary(items)
        tools == {r.tool : r \in Range(items)}
    IN  [key |-> group[1], title |-> primary.title, words |-> primary.words,
         mentions |-> primary.mentions,
         severity |-> Severest(Range(items)),
         url |-> LeastUrl({Canonical(r.url) : r \in Range(items)}),
         tools |-> tools, sources |-> Cardinality(DOMAIN items),
         confidence |-> IF Cardinality(tools) >= 2 THEN "medium" ELSE "low",
         evidence |-> MergedEvidence(items)]

MembersOf(group, raws) == Restrict(raws, {i \in DOMAIN raws : GroupKey(raws[i]) = group})

Correlate(raws) ==
    {MergeGroup(g, MembersOf(g, raws)) : g \in {GroupKey(r) : r \in Range(raws)}}

\* The identity of the row a finding is stored in, within its project
Fingerprint(finding) ==
    LET token == SecretToken(finding.key, finding.evidence)
    IN  << finding.key, IF token # None THEN token ELSE Canonical(finding.url) >>

-----------------------------------------------------------------------------
\* Verification: what each kind of finding can come to, as << confidence, status >>
Unchecked(finding) == << finding.confidence, "unverified" >>

HeaderVerdict(finding, response) ==
    IF ~response.ok THEN Unchecked(finding)
    ELSE IF finding.key[2] \in response.headers THEN << "low", "inconclusive" >>
    ELSE << IF Cardinality(finding.tools) >= 2 THEN "high" ELSE "medium", "verified" >>

RedirectVerdicts(finding) ==
    {<< "low", "unverified" >>, << "low", "inconclusive" >>, << "medium", "verified" >>,
     Unchecked(finding)}

TlsVerdicts(finding) ==
    IF finding.url[1] # "https"
    THEN {IF finding.key = << "", "no-https" >> THEN << "high", "verified" >>
          ELSE << "low", "unverified" >>}
    ELSE {IF finding.key = << "cert-", "invalid" >> THEN << "low", "inconclusive" >>
          ELSE << "medium", "verified" >>,
          << "high", "verified" >>, << "low", "unverified" >>, Unchecked(finding)}

ExposedVerdicts(finding) ==
    {<< "high", "verified" >>, << "low", "inconclusive" >>, Unchecked(finding)}

Verdicts(finding) ==
    IF finding.key \in {<< "", "no-http-redirect" >>, << "", "weak-http-redirect" >>}
    THEN RedirectVerdicts(finding)
    ELSE IF finding.key[1] = "cert-" \/ finding.key = << "", "no-https" >>
    THEN TlsVerdicts(finding)
    ELSE IF finding.key[1] = "exposed-" THEN ExposedVerdicts(finding)
    ELSE IF Cardinality(finding.tools) >= 2 THEN {<< "medium", "correlated" >>}
    ELSE {Unchecked(finding)}

-----------------------------------------------------------------------------
\* Risk: hundredths for the factors, tenths for CVSS and for the score
SeverityBase == [critical |-> 95, high |-> 80, medium |-> 55, low |-> 30, info |-> 10]
ConfidenceFactor == [high |-> 100, medium |-> 78, low |-> 55]
ExposureFactor == [https |-> 100, http |-> 85]

Reliability(tool) ==
    CASE tool \in {"passive_http", "tls_check"} -> 95
      [] tool = "asm_dns" -> 92
      [] tool = "asm_passive" -> 90
      [] tool = "zap" -> 88
      [] tool = "nuclei" -> 82
      [] tool = "deep_scan" -> 75
      [] tool = "code_scan" -> 72
      [] OTHER -> 70

\* 0 where there is none
CvssDefault(key) ==
    CASE key = Header("strict-transport-security") -> 53 [] key = Header("x-frame-options") -> 43
      [] key = Header("x-content-type-options") -> 31
      [] key = Header("content-security-policy") -> 50
      [] key = Header("referrer-policy") -> 37 [] key = << "cert-", "invalid" >> -> 75
      [] key = << "cert-", "expiring-soon" >> -> 50 [] key = << "", "no-https" >> -> 70
      [] key = << "exposed-", "env-file" >> -> 90 [] key = << "exposed-", "git-head" >> -> 98
      [] OTHER -> 0

Penalty(status) == CASE status = "inconclusive" -> 15 [] status = "unverified" -> 8 [] OTHER -> 0

\* Worked out in millionths of a point and rounded to tenths
Point == 1000000

TotalReliability(tools) ==
    LET at(level) == level * Cardinality({t \in tools : Reliability(t) = level})
    IN  at(95) + at(92) + at(90) + at(88) + at(82) + at(75) + at(72) + at(70)

Weighted(finding) ==
    (SeverityBase[finding.severity] * ConfidenceFactor[finding.verified]
     * ExposureFactor[finding.url[1]] * TotalReliability(finding.tools))
    \div Cardinality(finding.tools)

AgreementBonus(tools) ==
    LET extra == 4 * (Cardinality(tools) - 1)
    IN  (IF extra > 12 THEN 12 ELSE extra) * Point

\* A finding with a CVSS score takes three tenths of its score from that
Mixed(key, plain) ==
    IF CvssDefault(key) # 0 THEN (plain \div 10) * 7 + CvssDefault(key) * 75000 ELSE plain

Clamped(score) ==
    IF score < Point THEN Point ELSE IF score > 100 * Point THEN 100 * Point ELSE score

RiskScore(finding) ==
    LET mixed == Mixed(finding.key, Weighted(finding) + AgreementBonus(finding.tools))
        score == Clamped(mixed - Penalty(finding.status) * Point)
    IN  (score + Point \div 20) \div (Point \div 10)

\* A finding with more fields
With(finding, more) ==
    [f \in DOMAIN finding \cup DOMAIN more |-> IF f \in DOMAIN finding THEN finding[f] ELSE more[f]]

Judged(finding, verdict) == With(finding, [verified |-> verdict[1], status |-> verdict[2]])

Scored(finding) == With(finding, [risk |-> RiskScore(finding)])
=============================================================================
