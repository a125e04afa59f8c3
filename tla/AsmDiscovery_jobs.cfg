\* A job delivered twice, over a root with a subdomain and an address
CONSTANTS
    j1 = j1
    e1 = e1
    e2 = e2
    root = root
    www = www
    ip = ip
    NoJob = NoJob
    NoOne = NoOne
    Jobs = {j1}
    Executions = {e1, e2}
    w1 = w1
    Sweepers = {w1}
    Root = root
    Hosts = {www}
    Ips = {ip}
SPECIFICATION FairSpec
INVARIANTS InventorySound RowHonest
PROPERTIES LateStartHarmless Settles
CHECK_DEADLOCK FALSE
