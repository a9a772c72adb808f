\* The operator probes of MCOperators.cfg, checking HOPPER.CONFIG.SET
\* ghost.range over arguments below, at and off the 2^5 grid: a tick under
\* 32 rounds to 0 and the alignment divides by it; max below min wraps.
CONSTANTS
    MRScale = 100
    TickVals = {0, 1, 2, 4}
    MRVals = {0, 25, 50, 100}
    MaxAnchors = 3
    MaxSize = 6
    MaxObjSize = 9000
    RangeArgs = {0, 31, 32, 100, 160, 1000, 1024}
    TotalVals = {1000000, 1948576, 1948577, 20000000, 21000000}
    StartupVals = {900000, 20500000}
    ClientVals = {0, 50000}
    FunctionVals = {0, 200}
    KeyVals = {0, 1, 50}
    AvgVals = {0, 100}
    KeySizes = {1, 100}
    ValSizes = {0, 1000, 4000}
    MaxRecords = 3
    FrameLen = 3
    Rates = {0, 1, 2}
    InitRate = 1
    MaxCost = 3
    NumClients = 2
    Slack = 0
    Keys = {k1, k2, k3}
    Caps = {1, 2, 3}
    DefaultCap = 2
    NoFile = NoFile
    WriteFaults = TRUE
SPECIFICATION Spec
INVARIANTS GhostRangeInstalled
