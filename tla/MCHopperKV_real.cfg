\* Real DynamoDB (any order, failures), eviction, warmup writes, admit_write = true.
CONSTANTS
    Keys <- MCKeys1
    Vals <- MCVals1
    Clients <- MCClients
    k1 = k1  k2 = k2  v1 = v1  v2 = v2  c1 = c1  c2 = c2  c3 = c3
    V0 = V0  Absent = Absent  NoItem = NoItem  NoTask = NoTask
    ZeroSize = ZeroSize  Untracked = Untracked  Nil = Nil
    AdmitWrite = TRUE
    Mock = FALSE
    Evictions = TRUE
    Transient = TRUE
    Warmup = TRUE
    Barrier = FALSE
SPECIFICATION Spec
INVARIANTS TypeOK SingleLiveFetch NoDanglingInflight
PROPERTIES NoStaleFill EveryRequestAnswered
