\* Two sessions race for both limits while scans run, raise and are cancelled
SPECIFICATION Spec
CONSTANTS
    s1 = s1
    s2 = s2
    s3 = s3
    s4 = s4
    a1 = a1
    a2 = a2
    c1 = c1
    w1 = w1
    r1 = r1
    r2 = r2
    NoScan = NoScan
    Scans <- FourScans
    AdminScans = {}
    Sessions <- TwoSessions
    Cancellers = {c1}
    Sweepers = {}
    Runners = {r1}
    ConcurrencyLimit = 1
    DailyQuota = 1
    MaxDeliveries = 1
    UseBroker = FALSE
SYMMETRY SymQuota
INVARIANTS QuotaOvershootBounded ConcurrencyOvershootBounded LateFailureHarmless
