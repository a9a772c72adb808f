\* Object sizes past the table's last row (4092) and the loop's next bound
\* (8188); ghost.range arguments below, at and off the 2^5 grid.
\* MEMORY STATS around the calib_fixed guard (overhead + 1 MiB against the
\* total) and around min_total_allocated (20 MiB), with overheads a total
\* of 20 MiB barely covers, keys that do and do not trip the abnormal
\* fallback.
\* Three recorded requests with items either side of 1 KiB and 4 KiB, where
\* WCU and RCU step.
\* The rate limiter with three ticks a frame,
\* rates 0..2 RCU a tick (0 is accepted by RESRC.SET), items of up to 3 RCU,
\* two clients.  The checkpoint with three sampled keys, ranges of 1..3
\* keys (2 by default) and failing writes.
\* Sane curves of up to three anchors at ticks 0..4 (duplicates allowed, as
\* check_sanity allows them), miss ratios in quarters, sizes 0..6.
CONSTANTS
    MRScale = 100
    TickVals = {0, 1, 2, 4}
    MRVals = {0, 25, 50, 100}
    MaxAnchors = 3
    MaxSize = 6
    MaxObjSize = 9000
    RangeArgs = {0, 31, 32, 100, 160, 1000, 1024}
    TotalVals = {1000000, 1948576, 1948577, 20000000, 21000000}
    StartupVals = {900000, 20500000}
    ClientVals = {0, 50000}
    FunctionVals = {0, 200}
    KeyVals = {0, 1, 50}
    AvgVals = {0, 100}
    KeySizes = {1, 100}
    ValSizes = {0, 1000, 4000}
    MaxRecords = 3
    FrameLen = 3
    Rates = {0, 1, 2}
    InitRate = 1
    MaxCost = 3
    NumClients = 2
    Slack = 0
    Keys = {k1, k2, k3}
    Caps = {1, 2, 3}
    DefaultCap = 2
    NoFile = NoFile
    WriteFaults = TRUE
SPECIFICATION Spec
INVARIANTS MatchesReference RoundSizeMatchesClasses
    CalibrationSound DemandBracketsConsumption
    RateTypeOK PrepayBound CheckpointTypeOK
PROPERTIES QueueServed RateApplied RecoveryKeepsHottest
