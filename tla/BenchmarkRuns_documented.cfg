\* The counts against the wording of docs/benchmark-metrics.md
CONSTANTS
    Target <- MCTarget
    Looks <- MCLooks
    Bodies <- MCBodies
    AlertLists <- MCAlertLists
    Allowlists <- MCAllowlists
    Pages <- MCPages
    Apk <- MCApk
    GroundTruth <- MCGroundTruth
    SubsetKeys <- MCSubsetKeys
    GateMode = "enforce"
    FailOnDuration = FALSE
SPECIFICATION SuiteSpec
INVARIANT InformationalAsDocumented
