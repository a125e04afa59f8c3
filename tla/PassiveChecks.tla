--------------------------- MODULE PassiveChecks ---------------------------
(***************************************************************************)
(* The raw findings of two passive scanners as functions of what a target  *)
(* answers: passive_http asks for the certificate, the plain HTTP address  *)
(* and the page; sensitive_data reads the page and its scripts.            *)
(*                                                                         *)
(* What may fail is an answer like any other.  The check of a redirect to  *)
(* another host is of production and staging, and not here: scans of a     *)
(* benchmark run in neither.                                               *)
(***************************************************************************)
EXTENDS FindingAnalysis

Finding(tool, rule, severity, url, evidence) ==
    [tool |-> tool, rule |-> rule, title |-> rule[2], words |-> {}, mentions |-> {},
     severity |-> severity, url |-> url, confidence |-> "medium", evidence |-> evidence]

-----------------------------------------------------------------------------
\* An answer to GET: the headers it sends, of the Server header whether it names
\* a product; its cookies by the flags they have; or how the request failed
Page(headers, product, cookies, status) ==
    [ok |-> TRUE, headers |-> headers, product |-> product, cookies |-> cookies,
     status |-> status]
NoPage(tls) == [ok |-> FALSE, tls |-> tls]

HeaderSeverity ==
    [h \in {"strict-transport-security", "x-content-type-options", "x-frame-options",
            "content-security-policy", "referrer-policy"} |->
        IF h \in {"x-content-type-options", "referrer-policy"} THEN "low" ELSE "medium"]

MissingHeaders(url, page) ==
    {Finding("passive_http", Header(h), HeaderSeverity[h], url, [missing_header |-> h]) :
        h \in DOMAIN HeaderSeverity \ page.headers}

CookieFlags(url) ==
    {"HttpOnly", "SameSite"} \cup (IF url[1] = "https" THEN {"Secure"} ELSE {})

\* One finding for every cookie that lacks a flag
InsecureCookies(url, page) ==
    {Finding("passive_http", << "", "insecure-cookie-flags" >>, "medium", url,
             [missing_flags |-> CookieFlags(url) \ flags]) :
        flags \in {f \in page.cookies : ~(CookieFlags(url) \subseteq f)}}

Disclosure(rule, url, field) == Finding("passive_http", << "", rule >>, "info", url, [f \in {field} |-> "s"])

Disclosures(url, page) ==
    (IF page.product THEN {Disclosure("server-disclosure", url, "server")} ELSE {})
    \cup (IF "x-powered-by" \in page.headers
          THEN {Disclosure("x-powered-by-disclosure", url, "x_powered_by")} ELSE {})

ServerError(url, page) ==
    IF page.status = "5xx"
    THEN {Finding("passive_http", << "", "http-5xx" >>, "medium", url, [status_code |-> "5xx"])}
    ELSE {}

InvalidCertificate(url) ==
    Finding("tls_check", << "cert-", "invalid" >>, "critical", url,
            [evidence_type |-> "http_error"])

\* "none": no connection, or an error that is no verification error
CertificateFindings(url, certificate) ==
    IF url[1] = "http" THEN {Finding("tls_check", << "", "no-https" >>, "high", url, << >>)}
    ELSE CASE certificate = "invalid" -> {InvalidCertificate(url)}
           [] certificate \in {"expiring", "expires_this_week"} ->
                {Finding("tls_check", << "cert-", "expiring-soon" >>,
                         IF certificate = "expiring" THEN "medium" ELSE "high", url,
                         [days_left |-> certificate])}
           [] certificate \in {"good", "none"} -> {}

\* "https" and "none": redirected as it should be, or no answer
RedirectFindings(url, redirect) ==
    CASE url[1] # "https" \/ redirect \in {"https", "none"} -> {}
      [] url[1] = "https" /\ redirect = "page" ->
           {Finding("passive_http", << "", "no-http-redirect" >>, "medium", url,
                    [status_code |-> redirect])}
      [] url[1] = "https" /\ redirect = "http" ->
           {Finding("passive_http", << "", "weak-http-redirect" >>, "medium", url,
                    [location |-> redirect])}

\* A page that cannot be had; an invalid certificate is reported once
FailureFindings(url, page) ==
    IF page.tls THEN {InvalidCertificate(url)}
    ELSE {Finding("passive_http", << "", "http-unreachable" >>, "high", url,
                  [evidence_type |-> "http_error"])}

PageFindings(url, page) ==
    IF page.ok THEN MissingHeaders(url, page) \cup InsecureCookies(url, page)
                    \cup Disclosures(url, page) \cup ServerError(url, page)
    ELSE FailureFindings(url, page)

\* run_passive_http_scan of a target's certificate, redirect and page
PassiveFindings(url, target) ==
    CertificateFindings(url, target.certificate) \cup RedirectFindings(url, target.redirect)
    \cup PageFindings(url, target.page)

-----------------------------------------------------------------------------
SecretSeverity ==
    [name \in {"hardcoded-password", "db-connection-string", "turkish-iban", "generic-iban",
               "credit-card-number", "bank-account-hint", "api-secret-assignment"} |->
        IF name \in {"db-connection-string", "turkish-iban", "credit-card-number"} THEN "critical"
        ELSE "high"]

\* The first match of a pattern in a body counts if it is what it looks like:
\* a card number by its check digit, an IBAN if the pattern before has not had it
Counts(name, match) ==
    /\ name = "credit-card-number" => match.luhn
    /\ name = "generic-iban" => ~match.turkish

\* scan_sensitive_data: bodies are what the target and its scripts return, as
\* functions from the patterns that match to their first match.  A request that
\* fails, is refused or returns no text adds nothing
SensitiveFindings(bodies) ==
    UNION {{Finding("sensitive_data", << "sensitive-", name >>, SecretSeverity[name], url,
                    [pattern |-> name, masked_sample |-> bodies[url][name].masked]) :
               name \in {n \in DOMAIN bodies[url] : Counts(n, bodies[url][n])}} :
              url \in DOMAIN bodies}
=============================================================================
