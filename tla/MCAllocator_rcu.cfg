\* Two tenants as in test_alloc.cpp, any of four curves and four base cache
\* sizes each (0, which add_tenant accepts and where update_mr_delta wraps,
\* and 20..60), every policy, and harvest also with alloc_total_net_bw on
\* (net_bw_alpha 0.5, which only matters then).  max_trade_round lowered
\* from 10000 to 3 so that the round cap is reached.
CONSTANTS
    MRScale = 100
    NumTenants = 2
    CacheDelta = 10
    MinCacheSize = 10
    MaxTradeRound = 3
    CompenAbort = 10000
    UInt64Wrap = 1000000
    ImproveDenom = 10000
    Demand <- MCDemand
    Alpha <- MCAlphaHalf
    BaseStateless <- MCBase
    CurveChoices <- MCCurves4
    CacheChoices = {0, 20, 40, 60}
    Policies <- MCPoliciesAllNetBw
SPECIFICATION Spec
CHECK_DEADLOCK FALSE
INVARIANTS TypeOK MatchesTradeBasicTest StatelessConserved AvailNonNegative
    SymmetricFixedPoint MemshareReservedFloor
PROPERTIES AllocTerminates ImplementsContract
