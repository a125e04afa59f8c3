\* Two or three scans find the same things, reviewers decide
CONSTANTS
    f1 = f1
    f2 = f2
    m1 = m1
    k1 = k1
    k2 = k2
    s1 = s1
    s2 = s2
    s3 = s3
    r1 = r1
    u1 = u1
    u2 = u2
    NoScan = NoScan
    Fingerprints = {f1, f2}
    MobileFingerprints = {}
    Key <- Keys
    Scans <- ThreeScans
    MobileRuns = {}
    Reviewers = {u1, u2}
    Statuses = {"false_positive"}
    Severities = {"low", "high"}
    MaxEdits = 2
SPECIFICATION FairSpec
CONSTRAINT Cases
INVARIANTS HistorySound DeltaMatchesScan StatusExplained TextBelongs
PROPERTY PersistEnds
CHECK_DEADLOCK FALSE
