\* A web suite with two scanners and ZAP, with and without --subset, or the Android
\* suite; with and without --write-baseline
CONSTANTS
    Target <- MCTarget
    Looks <- MCLooks
    Bodies <- MCBodies
    AlertLists <- MCAlertLists
    Allowlists <- MCAllowlists
    Pages <- MCPages
    Apk <- MCApk
    GroundTruth <- MCGroundTruth
    SubsetKeys <- MCSubsetKeys
    GateMode = "enforce"
    FailOnDuration = FALSE
SPECIFICATION SuiteSpec
INVARIANTS AnalysisFaithful ResultFaithful VerdictEarned
