\* Harvest with two tenants: a compensated tenant gives up cache down to
\* min_cache_size, whatever its reserved floor.
CONSTANTS
    MRScale = 100
    NumTenants = 2
    CacheDelta = 10
    MinCacheSize = 10
    MaxTradeRound = 10000
    CompenAbort = 10000
    UInt64Wrap = 1000000
    ImproveDenom = 10000
    Demand <- MCDemand
    Alpha <- MCAlpha
    BaseStateless <- MCBase
    CurveChoices <- MCCurves4
    CacheChoices = {20, 40, 60}
    Policies <- MCPoliciesHarvest
SPECIFICATION Spec
CHECK_DEADLOCK FALSE
INVARIANTS ReservedFloor
