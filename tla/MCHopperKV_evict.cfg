\* Mock DynamoDB, admit_write = true, and Redis eviction under maxmemory.
CONSTANTS
    Keys <- MCKeys1
    Vals <- MCVals
    Clients <- MCClients
    k1 = k1  k2 = k2  v1 = v1  v2 = v2  c1 = c1  c2 = c2  c3 = c3
    V0 = V0  Absent = Absent  NoItem = NoItem  NoTask = NoTask
    ZeroSize = ZeroSize  Untracked = Untracked  Nil = Nil
    AdmitWrite = TRUE
    Mock = TRUE
    Evictions = TRUE
    Transient = FALSE
    Warmup = FALSE
    Barrier = FALSE
SPECIFICATION Spec
INVARIANTS CacheCoherent
