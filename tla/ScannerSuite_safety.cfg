\* Four scanners of the "deep" profile, up to two findings each
CONSTANTS
    passive = passive
    zap = zap
    nuclei = nuclei
    sensitive = sensitive
    Scanners <- MCScanners
    Processes <- MCProcesses
    ZapScanners <- MCZapScanners
    MaxFindings = 2
SPECIFICATION FairSpec
INVARIANTS FindingsAccounted NobodyLeftBehind OwnEndReported
PROPERTY HardTimeout
CHECK_DEADLOCK FALSE
