\* Two uploads of the same APK, tasks delivered once, everything may crash
CONSTANTS
    d1 = d1
    a1 = a1
    a2 = a2
    a3 = a3
    u1 = u1
    u2 = u2
    r1 = r1
    r2 = r2
    NoApp = NoApp
    NoDigest = NoDigest
    Digests <- Digests1
    Apps <- Apps3
    Uploads <- Uploads2
    Runners <- Runners2
    MaxDeliveries = 1
SPECIFICATION FairSpec
INVARIANTS ArtifactOutlivesNeed 
PROPERTY AnalysisEnds
