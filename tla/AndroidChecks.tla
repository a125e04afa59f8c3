--------------------------- MODULE AndroidChecks ---------------------------
(***************************************************************************)
(* The findings of the static analysis of an APK, and the rows they are    *)
(* stored in, as functions of what the archive holds.                      *)
(*                                                                         *)
(* An archive has a manifest and entries, a function from their names.  A  *)
(* manifest left in its text form shows the attributes that are set to     *)
(* true; of a compiled one only the strings are found, so no attribute     *)
(* stands beside its value, but a permission is a string of its own.       *)
(***************************************************************************)
EXTENDS FindingAnalysis

Manifest == "AndroidManifest.xml"

MobileFinding(key, severity, component, confidence) ==
    [key |-> key, severity |-> severity, component |-> component, confidence |-> confidence]

ManifestRules ==
    [debuggable |-> << << "mobile-", "debuggable" >>, "high" >>,
     allowBackup |-> << << "mobile-", "allow-backup" >>, "medium" >>,
     usesCleartextTraffic |-> << << "mobile-", "cleartext-traffic" >>, "medium" >>,
     exported |-> << << "mobile-", "exported-component" >>, "medium" >>]

ManifestFindings(manifest) ==
    {MobileFinding(ManifestRules[a][1], ManifestRules[a][2], Manifest, "high") :
        a \in {b \in manifest.set : manifest.text}}

DangerousPermissions ==
    {"read_sms", "receive_sms", "send_sms", "read_contacts", "write_contacts", "read_call_log",
     "write_call_log", "record_audio", "camera", "access_fine_location",
     "access_coarse_location", "read_external_storage", "write_external_storage",
     "read_phone_state", "call_phone", "process_outgoing_calls", "body_sensors", "get_accounts"}

PermissionFindings(manifest) ==
    {MobileFinding(<< "mobile-permission-", p >>, "low", p, "high") :
        p \in manifest.permissions \cap DangerousPermissions}

\* In the order they are tried; an entry is reported for the first that matches
SecretPatterns == << << "aws-access-key", "high" >>, << "generic-api-key", "medium" >>,
                     << "private-key-block", "critical" >> >>

SecretHits(entry) == {i \in DOMAIN SecretPatterns : SecretPatterns[i][1] \in entry.secrets}

\* Entries of other kinds, too large or damaged ones are passed over
SecretFindings(entries) ==
    {LET secret == SecretPatterns[Min(SecretHits(entries[n]))]
     IN  MobileFinding(<< "mobile-secret-", secret[1] >>, secret[2], n, "medium") :
        n \in {m \in DOMAIN entries : entries[m].scanned /\ SecretHits(entries[m]) # {}}}

NetworkRule(entries, key, flag) ==
    {MobileFinding(<< "mobile-", key >>, "medium", n, "high") :
        n \in {m \in DOMAIN entries : flag \in entries[m].network}}

AndroidFindings(apk) ==
    ManifestFindings(apk.manifest) \cup PermissionFindings(apk.manifest)
    \cup SecretFindings(apk.entries)
    \cup NetworkRule(apk.entries, "cleartext-network-config", "cleartext")
    \cup NetworkRule(apk.entries, "user-trust-anchors", "user_anchors")

\* A finding is stored by its key and the component it is in; no title spells a key
AndroidRow(finding) ==
    LET identity == << finding.key, finding.component >>
    IN  [id |-> identity, fingerprint |-> identity, key |-> finding.key, rule |-> finding.key,
         tool |-> "mobile_static", tools |-> {"mobile_static"}, title |-> finding.key[2],
         mentions |-> {}, words |-> {}, severity |-> finding.severity,
         url |-> << "mobile", 0, 0 >>, confidence |-> finding.confidence, evidence |-> << >>]

AndroidRows(apk) == {AndroidRow(f) : f \in AndroidFindings(apk)}
=============================================================================
