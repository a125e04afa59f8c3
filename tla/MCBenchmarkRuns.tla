-------------------------- MODULE MCBenchmarkRuns --------------------------
(* Instances of BenchmarkRuns: a root page 0 and a page 1 over https, the   *)
(* root spelled in two ways; an APK with findings of every kind.            *)
EXTENDS BenchmarkRuns

Root == << "https", 0, 0 >>
RootAgain == << "https", 0, 1 >>
Script == << "https", 1, 0 >>
CSP == "content-security-policy"
XFO == "x-frame-options"

Alert(plugin, name, words, mentions, risk, url) ==
    [plugin |-> plugin, url |-> url, method |-> "GET", param |-> "", attack |-> "",
     kind |-> "passive", name |-> name, words |-> words, mentions |-> mentions, risk |-> risk,
     confidence |-> "medium"]

MCTarget == Root

MCPages == {CheckedHeaders \ {CSP}, CheckedHeaders \ {XFO}}

Look(certificate, redirect, page) ==
    [certificate |-> certificate, redirect |-> redirect, page |-> page]

MCLooks ==
    {Look("good", "page", Page(CheckedHeaders \ {CSP}, FALSE, {}, "2xx")),
     Look("good", "https", Page(CheckedHeaders \ {CSP, XFO}, FALSE, {}, "2xx")),
     Look("expiring", "https", Page(CheckedHeaders, FALSE, {}, "5xx")),
     Look("good", "none", Page(CheckedHeaders, TRUE, {{"Secure"}}, "2xx")),
     Look("invalid", "none", NoPage(TRUE))}

MCBodies ==
    LET password == "hardcoded-password" :> [masked |-> "p***d", luhn |-> FALSE, turkish |-> FALSE]
        card == "credit-card-number" :> [masked |-> "4***1", luhn |-> FALSE, turkish |-> FALSE]
    IN  {Root :> password @@ Script :> card, Root :> password @@ Script :> password}

MCAlertLists ==
    LET csp(url) == Alert("10038", "csp-not-set", {"csp header not set"}, {Header(CSP)}, "medium", url)
    IN  {<< >>, << csp(Root), csp(RootAgain), csp(Script) >>,
         << Alert("10109", "modern", {"modern web application"}, {<< "", "banner" >>}, "info", Root) >>}

MCAllowlists == {None, << {"10038"} >>}

Item(key, support, required, severity) ==
    [key |-> key, category |-> None, alternatives |-> {}, location |-> None,
     support |-> support, required |-> required, severity |-> severity]

MCApk ==
    [manifest |-> [text |-> TRUE, set |-> {"debuggable"},
                   permissions |-> {"read_sms", "internet"}],
     entries |->
        "strings.xml" :> [scanned |-> TRUE, network |-> {},
                          secrets |-> {"generic-api-key", "private-key-block"}] @@
        "network_security_config.xml" :> [scanned |-> TRUE, network |-> {"cleartext"}, secrets |-> {}] @@
        "classes.dex" :> [scanned |-> FALSE, network |-> {}, secrets |-> {"aws-access-key"}]]

AndroidItems ==
    {Item(<< "mobile-", "debuggable" >>, "supported", TRUE, "high"),
     Item(<< "mobile-permission-", "read_sms" >>, "supported", TRUE, "medium"),
     Item(<< "mobile-", "cleartext-network-config" >>, "supported", FALSE, "medium"),
     Item(<< "mobile-secret-", "generic-api-key" >>, "supported", FALSE, "medium"),
     Item(<< "mobile-secret-", "private-key-block" >>, "supported", TRUE, "critical")}

WebItems ==
    {Item(Header(CSP), "supported", TRUE, "medium"),
     [Item(<< "", "banner" >>, "supported", TRUE, "critical") EXCEPT
        !.alternatives = {<< "", "server-disclosure" >>}],
     Item(<< "", "hardcoded-password" >>, "partially_supported", TRUE, "high"),
     Item(<< "", "xss-stored" >>, "manual_only", TRUE, "high")}

MCGroundTruth == [web |-> WebItems, android |-> AndroidItems]

MCSubsetKeys == {Header(CSP)}
=============================================================================
