\* An owner, a second user and a platform admin, two requests at a time
SPECIFICATION Spec
CONSTANTS
    founder = founder
    second = second
    support = support
    runner = runner
    User = {founder, second, support, runner}
    PlatformAdmin = {support}
    Runner = runner
    Org = {o1, o2}
    Home = o1
    o1 = o1
    o2 = o2
    Project = {p1, p2}
    p1 = p1
    p2 = p2
    Grant = {g1, g2}
    g1 = g1
    g2 = g2
    MaxRows = 3
    MaxRequests = 3
    Name = {"work", "lab"}
    QuickName = "work"
    LabName = "lab"
    GivenRole = {"viewer", "admin", "owner"}
    Slot = {a, b}
    a = a
    b = b
    Founder = founder
INVARIANTS OneOwner AccessSound
PROPERTY TenantsApart
