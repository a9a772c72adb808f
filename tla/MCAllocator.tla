---------------------------- MODULE MCAllocator ----------------------------
(***************************************************************************)
(* Inputs for Allocator, taken from tests/test_alloc.cpp: cache_delta and  *)
(* min_cache_size 10, ticks at 2..10 cache deltas, the demand and base     *)
(* vectors of test_trade_basic.  Stateless amounts are in units of 1/100 *)
(* and miss ratios in percent.                                             *)
(***************************************************************************)
EXTENDS Allocator, TLC

Ticks == <<20, 40, 60, 80, 100>>

\* miss_ratios_1 and miss_ratios_2 of test_trade_basic, and a flat curve.
CurveA == Curve(Ticks, <<90, 85, 80, 70, 50>>)
CurveB == Curve(Ticks, <<80, 60, 30, 20, 15>>)
CurveFlat == Curve(Ticks, <<50, 50, 50, 50, 50>>)
\* A curve whose drop is concentrated in one step (a cliff).
CurveCliff == Curve(Ticks, <<95, 90, 20, 15, 10>>)

MCDemand == [t \in Tenants |-> Vec(80, 20, 400)]
MCBase   == [t \in Tenants |-> Vec(200, 200, 1600)]
MCAlpha  == [t \in Tenants |-> 0]
MCAlphaHalf == [t \in Tenants |-> 50]

\* The constructor flags of test_alloc.cpp, alloc_total_net_bw off as there.
PolicyHarvest == [harvest |-> TRUE, conserving |-> TRUE, memshare |-> FALSE, total_net_bw |-> FALSE]
PolicyScale   == [harvest |-> TRUE, conserving |-> FALSE, memshare |-> FALSE, total_net_bw |-> FALSE]
PolicyMemshare == [harvest |-> FALSE, conserving |-> TRUE, memshare |-> TRUE, total_net_bw |-> FALSE]
PolicyDRF     == [harvest |-> FALSE, conserving |-> TRUE, memshare |-> FALSE, total_net_bw |-> FALSE]

\* A policy with set_alloc_total_net_bw(true): harvest also trades net_bw.
WithNetBw(p) == [p EXCEPT !.total_net_bw = TRUE]

MCPoliciesAll == {PolicyHarvest, PolicyScale, PolicyMemshare, PolicyDRF}
MCPoliciesHarvest == {PolicyHarvest}
MCPoliciesMemshare == {PolicyMemshare}
MCPoliciesAllNetBw == MCPoliciesAll \cup {WithNetBw(PolicyHarvest), WithNetBw(PolicyScale)}

Tolerance == 1

MCCurves2 == {CurveA, CurveB}
MCCurves4 == {CurveA, CurveB, CurveFlat, CurveCliff}

\* test_trade_basic's expectation, to 0.01: tenant 1 ends with 2 deltas of
\* cache and (2.75, 1.69, 13.56), tenant 2 with 6 and (1.25, 2.31, 18.44).
Near(v, e) == v - e <= Tolerance /\ e - v <= Tolerance
TradeBasicExpected ==
    /\ cache = <<20, 60>>
    /\ Near(res[1].db_rcu, 275) /\ Near(res[1].db_wcu, 169)
    /\ Near(res[1].net_bw, 1356)
    /\ Near(res[2].db_rcu, 125) /\ Near(res[2].db_wcu, 231)
    /\ Near(res[2].net_bw, 1844)

\* The allocator reproduces test_trade_basic: with its curves, demands and
\* policy, do_alloc ends where the unit test expects.
MatchesTradeBasicTest ==
    (/\ phase = "done" /\ mrc = <<CurveA, CurveB>> /\ reserved = <<20, 20>>
     /\ policy = PolicyHarvest) => TradeBasicExpected

=============================================================================
