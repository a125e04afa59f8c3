\* Two ticks overlap over two schedules under a limit of two active scans
CONSTANTS
    h1 = h1
    h2 = h2
    s1 = s1
    s2 = s2
    s3 = s3
    t1 = t1
    t2 = t2
    NoScan = NoScan
    NoSchedule = NoSchedule
    Schedules <- Schedules2
    Scans <- Scans3
    Ticks <- Ticks2
    ConcurrencyLimit = 2
SPECIFICATION Spec
SYMMETRY Symmetry
INVARIANT TicksBounded
PROPERTY AdvancedWithItsScan
