\* One scan delivered twice, once or never to two runners, against a canceller and
\* a sweeper: it settles all the same
SPECIFICATION FairSpec
CONSTANTS
    s1 = s1
    s2 = s2
    s3 = s3
    s4 = s4
    a1 = a1
    a2 = a2
    c1 = c1
    w1 = w1
    r1 = r1
    r2 = r2
    NoScan = NoScan
    Scans = {s1}
    AdminScans = {}
    Sessions = {a1}
    Cancellers = {c1}
    Sweepers = {w1}
    Runners <- TwoRunners
    ConcurrencyLimit = 1
    DailyQuota = 2
    MaxDeliveries = 2
    UseBroker = TRUE
INVARIANTS SingleRunner NoRework AuthorizedSinceClaim
PROPERTIES ExecutedAtMostOnce Settles
