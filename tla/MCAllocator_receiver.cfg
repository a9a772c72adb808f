\* Memshare with three tenants: the receiver max_element picks under the
\* asymmetric less_mr_inc comparator need not be the tenant gaining most.
CONSTANTS
    MRScale = 100
    NumTenants = 3
    CacheDelta = 10
    MinCacheSize = 10
    MaxTradeRound = 10000
    CompenAbort = 10000
    UInt64Wrap = 1000000
    ImproveDenom = 10000
    Demand <- MCDemand
    Alpha <- MCAlpha
    BaseStateless <- MCBase
    CurveChoices <- MCCurves4
    CacheChoices = {20, 40}
    Policies <- MCPoliciesMemshare
SPECIFICATION Spec
CHECK_DEADLOCK FALSE
PROPERTIES MemshareStopsAtOptimum
