----------------------------- MODULE Allocator -----------------------------
(***************************************************************************)
(* HARE's Allocator::do_alloc (alloc/engine/alloc.h) over tenants          *)
(* 1..NumTenants (tenant.h): optional memshare cache moves, collect_idle,  *)
(* the harvest trade loop, and conserving or scaling redistribution.      *)
(*                                                                         *)
(* Cache sizes are integers as in the code.  Stateless resources (db_rcu, *)
(* db_wcu, net_bw) are fixed point integers; every double division of the *)
(* code is a floor division here, and every ratio the code compares       *)
(* (min-ratio vector division, the improvement estimate) is an exact      *)
(* rational [n, d], with d = 0 standing for +infinity.                    *)
(***************************************************************************)
EXTENDS MissRatioCurve, Naturals, Integers, Sequences, Functions, FiniteSets

CONSTANTS NumTenants,       \* tenants.size()
          CacheDelta,       \* params::alloc::cache_delta
          MinCacheSize,     \* params::alloc::min_cache_size
          MaxTradeRound,    \* params::alloc::max_trade_round
          CompenAbort,      \* params::numeric::compen_abort_offer (FLT_MAX)
          ImproveDenom,     \* 1 / params::alloc::min_improve_ratio_delta
          Demand,           \* demand_cacheless per tenant
          Alpha,            \* net_bw_alpha per tenant, MRScale = 1.0
          BaseStateless,    \* base_resrc.stateless per tenant
          CurveChoices,     \* miss ratio curves a tenant may be given
          CacheChoices,     \* base cache sizes a tenant may be given
          Policies,         \* constructor flags [harvest, conserving, memshare]
                            \* and params::policy::alloc_total_net_bw
          UInt64Wrap        \* 2^64: only its comparison with the ticks matters

Tenants == 1..NumTenants
Dims    == {"db_rcu", "db_wcu", "net_bw"}

ASSUME /\ NumTenants \in Nat \ {0} /\ CacheDelta \in Nat \ {0}
       /\ MaxTradeRound \in Nat
       /\ \A t \in Tenants : \A x \in Dims : Demand[t][x] > 0 /\ BaseStateless[t][x] > 0

VARIABLES policy, mrc, reserved, total, cache, res, avail, phase,
          trade_round, prev_ratio, is_rcu_bottleneck, is_net_bottleneck,
          rcu_compen_list, net_compen_list,
          relinq,           \* per tenant: [db_rcu |-> rcu_delta_relinq, net_bw |-> net_delta_relinq]
          compen,           \* per tenant: [db_rcu |-> rcu_delta_compen, net_bw |-> net_delta_compen]
          mr_inc,           \* per tenant: mr_inc_if_more_cache
          mr_dec            \* per tenant: mr_dec_if_less_cache

offers == <<relinq, compen, mr_inc, mr_dec>>
vars == <<policy, mrc, reserved, total, cache, res, avail, phase, trade_round,
          prev_ratio, is_rcu_bottleneck, is_net_bottleneck, rcu_compen_list,
          net_compen_list, relinq, compen, mr_inc, mr_dec>>

-----------------------------------------------------------------------------
(* Vectors and exact ratios.                                               *)
Vec(r, w, n) == [db_rcu |-> r, db_wcu |-> w, net_bw |-> n]
Zero == Vec(0, 0, 0)
VAdd(a, b) == [x \in Dims |-> a[x] + b[x]]
VSub(a, b) == [x \in Dims |-> a[x] - b[x]]
Aggregate(f) == [x \in Dims |-> SumFunction([t \in Tenants |-> f[t][x]])]

R(n, d) == [n |-> n, d |-> d]
RLess(a, b) == a.n * b.d < b.n * a.d
REq(a, b)   == a.n * b.d = b.n * a.d
RMin(a, b)  == IF RLess(b, a) THEN b ELSE a

\* StatelessResrcVec::operator/(other): the min of the three ratios.
VDiv(a, b) == RMin(RMin(R(a.db_rcu, b.db_rcu), R(a.db_wcu, b.db_wcu)),
                   R(a.net_bw, b.net_bw))

\* is_almost_empty: every component below its epsilon, zero in fixed point.
is_almost_empty(v) == \A x \in Dims : v[x] = 0

MR(t, size) == get_miss_ratio(mrc[t], size)
S == MRScale

\* uint64 subtraction in update_mr_delta: wraps below zero.
USub(a, b) == IF a >= b THEN a - b ELSE UInt64Wrap + a - b

-----------------------------------------------------------------------------
(* Tenant (tenant.h).                                                      *)

\* update_mr_delta on a tenant t of cache size c: the Tenant fields
\* mr_inc_if_more_cache and mr_dec_if_less_cache.
mr_inc_of(t, c) == MR(t, c) - MR(t, c + CacheDelta)
mr_dec_of(t, c) == MR(t, USub(c, CacheDelta)) - MR(t, c)
update_mr_delta(c) ==
    /\ mr_inc' = [t \in Tenants |-> mr_inc_of(t, c[t])]
    /\ mr_dec' = [t \in Tenants |-> mr_dec_of(t, c[t])]

\* (mutant: the floor ignores the size of the donation)
can_donate_no_delta(t) == cache[t] >= reserved[t]

can_donate(t) == cache[t] >= reserved[t] + CacheDelta

\* The network-bandwidth change for a miss ratio change dmr at miss ratio
\* curr of a tenant holding net_bw nb: nb * dmr * alpha / (curr * alpha + 1 - alpha).
NetDelta(t, nb, dmr, curr) ==
    (nb * dmr * Alpha[t]) \div (curr * Alpha[t] + S * (S - Alpha[t]))

\* pred_rcu_net_delta_if_more_cache for cache c and stateless r: the
\* [db_rcu, net_bw] the tenant would give up for CacheDelta more cache; 0
\* (relinq_abort_offer) aborts the deal.  The infinity checks are dead: the
\* lookup never returns infinity.
relinq_of(t, c, r) ==
    LET curr == MR(t, c)
        dmr  == curr - MR(t, c + CacheDelta)
    IN  IF curr = 0 \/ dmr <= 0
        THEN [db_rcu |-> 0, net_bw |-> 0]
        ELSE [db_rcu |-> (r.db_rcu * dmr) \div curr,
              net_bw |-> IF policy.total_net_bw THEN NetDelta(t, r.net_bw, dmr, curr) ELSE 0]

\* (mutant: the min_cache_size abort is dropped)
compen_of_no_min(t, c, r) ==
    LET curr == MR(t, c)
        pred == MR(t, c - CacheDelta)
    IN  IF pred - curr <= 0 \/ pred <= 0 \/ curr <= 0
        THEN [db_rcu |-> 0, net_bw |-> 0]
        ELSE [db_rcu |-> (r.db_rcu * (pred - curr)) \div curr,
              net_bw |-> IF policy.total_net_bw
                         THEN NetDelta(t, r.net_bw, pred - curr, curr) ELSE 0]

\* pred_rcu_net_delta_if_less_cache: what the tenant asks for giving up
\* CacheDelta cache; CompenAbort aborts, 0 is the immediate offer.
compen_of(t, c, r) ==
    LET curr  == MR(t, c)
        pred  == MR(t, c - CacheDelta)
        abort == [db_rcu |-> CompenAbort,
                  net_bw |-> IF policy.total_net_bw THEN CompenAbort ELSE 0]
    IN  CASE c < MinCacheSize + CacheDelta   -> abort
          [] pred > S                        -> abort
          [] pred - curr <= 0 \/ pred <= 0   -> [db_rcu |-> 0, net_bw |-> 0]
          [] curr <= 0                       -> abort
          [] OTHER -> [db_rcu |-> (r.db_rcu * (pred - curr)) \div curr,
                       net_bw |-> IF policy.total_net_bw
                                  THEN NetDelta(t, r.net_bw, pred - curr, curr) ELSE 0]

\* update_rcu_net_delta on the tenants in T, given their new cache sizes c
\* and stateless allocations r; the others keep their fields.
update_rcu_net_delta(T, c, r) ==
    /\ relinq' = [t \in Tenants |-> IF t \in T THEN relinq_of(t, c[t], r[t]) ELSE relinq[t]]
    /\ compen' = [t \in Tenants |-> IF t \in T THEN compen_of(t, c[t], r[t]) ELSE compen[t]]

\* (mutant: the db_rcu demand is not scaled by the miss ratio)
used_cacheless(t) ==
    LET dem == Vec(Demand[t].db_rcu * S, Demand[t].db_wcu * S, Demand[t].net_bw * S)
        tp == VDiv(res[t], dem)
    IN  [x \in Dims |-> (dem[x] * tp.n) \div tp.d]

\* collect_idle: the demand at the current miss ratio (all components over
\* the common denominator S), the throughput tp = res / demand the
\* allocation sustains (its min-ratio, the common S cancelling), and the
\* part of the allocation demand * tp that throughput uses.
used(t) ==
    LET mr == MR(t, cache[t])
        dem == Vec(Demand[t].db_rcu * mr, Demand[t].db_wcu * S,
                   IF policy.total_net_bw
                   THEN (Demand[t].net_bw * (mr * S + (S - Alpha[t]) * (S - mr))) \div S
                   ELSE Demand[t].net_bw * S)
        tp == VDiv(res[t], dem)
    IN  [x \in Dims |-> (dem[x] * tp.n) \div tp.d]

\* (mutant: the compensated tenant is credited what the other relinquished)
relocate_resrc_swapped(tr, tc, rel, com) ==
    [t \in Tenants |->
        CASE t = tc -> [res[t] EXCEPT !.db_rcu = @ + rel.db_rcu,
                                      !.net_bw = @ + rel.net_bw]
          [] t = tr -> [res[t] EXCEPT !.db_rcu = @ - rel.db_rcu,
                                      !.net_bw = @ - rel.net_bw]
          [] OTHER  -> res[t]]

\* relocate_resrc: the stateless part (relocate_cache is in HarvestRound).
\* With alloc_total_net_bw off both net deltas are 0 (asserted in the code).
relocate_resrc(tr, tc, rel, com) ==
    [t \in Tenants |->
        CASE t = tc -> [res[t] EXCEPT !.db_rcu = @ + com.db_rcu,
                                      !.net_bw = @ + com.net_bw]
          [] t = tr -> [res[t] EXCEPT !.db_rcu = @ - rel.db_rcu,
                                      !.net_bw = @ - rel.net_bw]
          [] OTHER  -> res[t]]

-----------------------------------------------------------------------------
(* Allocator (alloc.h).                                                    *)

\* std::max_element / std::min_element over a list of tenants: the first
\* element no other one beats; better[a, b] says a beats b under the
\* comparator.
RECURSIVE FirstBest(_, _, _)
FirstBest(lst, better, i) ==
    IF i = 1 THEN lst[1]
    ELSE LET b == FirstBest(lst, better, i - 1)
         IN  IF better[lst[i], b] THEN lst[i] ELSE b

\* max_element(cache_more_list, less_mr_inc): less_mr_inc(lhs, rhs) compares
\* lhs's mr_inc_if_more_cache with rhs's mr_dec_if_less_cache.
less_mr_inc(lhs, rhs) == mr_inc[lhs] < mr_dec[rhs]
Receiver == FirstBest([i \in Tenants |-> i],
                      [p \in Tenants \X Tenants |-> less_mr_inc(p[2], p[1])], NumTenants)

\* The first tenant of the sorted cache_less_list, other than the receiver,
\* that can donate.  std::sort is not stable, so among donors with equal
\* mr_dec_if_less_cache any may come first.
Donors(r) == {d \in Tenants \ {r} : can_donate(d)}
FirstDonor(r) == {d \in Donors(r) : \A e \in Donors(r) : mr_dec[d] <= mr_dec[e]}

\* (mutant: the memshare loop does not break when it cannot trade)
MemshareStop_no_break == UNCHANGED vars

\* The loop's break: go on with collect_idle.
MemshareStop == /\ phase' = "collect"
                /\ UNCHANGED <<policy, mrc, reserved, total, cache, res, avail,
                               trade_round, prev_ratio, is_rcu_bottleneck,
                               is_net_bottleneck, rcu_compen_list, net_compen_list,
                               offers>>

\* One round of do_memshare: move CacheDelta from the donor to the receiver
\* when the receiver gains more than the donor loses, otherwise break.  The
\* mr deltas were updated for every tenant at the top of the round; after a
\* move the next round's update is taken with it.
MemshareStep ==
    /\ phase = "memshare"
    /\ LET r == Receiver IN
       \/ /\ FirstDonor(r) = {}
          /\ MemshareStop
       \/ \E d \in FirstDonor(r) :
            \/ /\ mr_inc[r] > mr_dec[d]
               /\ LET c == [cache EXCEPT ![r] = @ + CacheDelta, ![d] = @ - CacheDelta]
                  IN  /\ cache' = c
                      /\ update_mr_delta(c)
               /\ UNCHANGED <<policy, mrc, reserved, total, res, avail, phase,
                              trade_round, prev_ratio, is_rcu_bottleneck,
                              is_net_bottleneck, rcu_compen_list, net_compen_list,
                              relinq, compen>>
            \/ /\ mr_inc[r] <= mr_dec[d]
               /\ MemshareStop

\* estimate_bottleneck: the improvement ratio avail / (total - avail) and
\* which of db_rcu and net_bw attains it (exact equality, as in the code).
Estimate(a) ==
    LET sum == VSub(total, a)
        ratio == VDiv(a, sum)
    IN  [ratio |-> ratio,
         rcu   |-> REq(ratio, R(a.db_rcu, sum.db_rcu)),
         net   |-> REq(ratio, R(a.net_bw, sum.net_bw))]

\* After the idle pool is known: harvest, or skip straight to the end when
\* nothing is available.
AfterPool(a) == IF policy.harvest THEN "harvest"
                ELSE IF is_almost_empty(a) THEN "done" ELSE "redistribute"

\* The collect_idle loop of do_alloc, then the opening of do_harvest: the
\* first estimate and update_rcu_net_delta on every tenant.
Collect ==
    /\ phase = "collect"
    /\ \E u \in {[t \in Tenants |-> used(t)]} :
       \E pool \in {Aggregate([t \in Tenants |-> VSub(res[t], u[t])])} :
       \E e \in {Estimate(pool)} :
           /\ res' = u
           /\ avail' = pool
           /\ phase' = AfterPool(pool)
           /\ prev_ratio' = e.ratio
           /\ is_rcu_bottleneck' = e.rcu
           /\ is_net_bottleneck' = e.net
           /\ IF policy.harvest THEN update_rcu_net_delta(Tenants, cache, u)
                               ELSE UNCHANGED <<relinq, compen>>
    /\ UNCHANGED <<policy, mrc, reserved, total, cache, trade_round,
                   rcu_compen_list, net_compen_list, mr_inc, mr_dec>>

\* Where do_harvest's loop exits to.
HarvestExit(a) == IF is_almost_empty(a) THEN "done" ELSE "redistribute"

\* (mutant: the convergence check is dropped and every deal is made)
improves_always(cur, prev) == TRUE

\* The check that "is necessary to ensure convergence": the estimated
\* improvement must grow by at least min_improve_ratio_delta.  An infinite
\* current ratio (d = 0) never breaks the loop (inf - x and inf - inf, a
\* NaN, are not below the delta); an infinite previous one always does.
improves(cur, prev) ==
    CASE cur.d = 0  -> TRUE
      [] prev.d = 0 -> FALSE
      [] OTHER      -> cur.n * prev.d - prev.n * cur.d
                           >= (cur.d * prev.d + ImproveDenom - 1) \div ImproveDenom

\* Swap the tenant at position i of a list with the first one (iter_swap).
SwapFirst(lst, i) == [lst EXCEPT ![1] = lst[i], ![i] = lst[1]]
IndexOf(lst, t) == CHOOSE i \in 1..Len(lst) : lst[i] = t

\* One round of the do_harvest loop on the bottleneck resource dim: the
\* tenant relinquishing most, the one asking least compensation (the second
\* best after an iter_swap if they coincide), the estimate with the deal,
\* and then the deal, with update_rcu_net_delta on both parties, or the exit.
\* Each intermediate value is bound once (\E x \in {v}), as the code
\* computes it once.
HarvestRound(dim, clist, clist_var) ==
    \E tr \in {FirstBest([i \in Tenants |-> i],
                         [p \in Tenants \X Tenants |-> relinq[p[2]][dim] < relinq[p[1]][dim]],
                         NumTenants)} :
    \E tc1 \in {FirstBest(clist, [p \in Tenants \X Tenants |-> compen[p[1]][dim] < compen[p[2]][dim]],
                          NumTenants)} :
    \E lst \in {IF tc1 = tr THEN SwapFirst(clist, IndexOf(clist, tc1)) ELSE clist} :
    \E tc \in {IF tc1 = tr
               THEN FirstBest([i \in 1..NumTenants - 1 |-> lst[i + 1]],
                              [p \in Tenants \X Tenants |-> compen[p[1]][dim] < compen[p[2]][dim]],
                              NumTenants - 1)
               ELSE tc1} :
    \E deal \in {[avail EXCEPT !.db_rcu = @ + relinq[tr].db_rcu - compen[tc].db_rcu,
                               !.net_bw = @ + relinq[tr].net_bw - compen[tc].net_bw]} :
    \E e \in {Estimate(deal)} :
        /\ clist_var' = lst
        /\ is_rcu_bottleneck' = e.rcu
        /\ is_net_bottleneck' = e.net
        /\ \/ /\ ~improves(e.ratio, prev_ratio)
              /\ phase' = HarvestExit(avail)
              /\ UNCHANGED <<cache, res, avail, trade_round, prev_ratio, relinq, compen>>
           \/ /\ improves(e.ratio, prev_ratio)
              /\ prev_ratio' = e.ratio
              /\ avail' = deal
              /\ \E c \in {[cache EXCEPT ![tc] = @ - CacheDelta, ![tr] = @ + CacheDelta]} :
                 \E r \in {relocate_resrc(tr, tc, relinq[tr], compen[tc])} :
                     /\ cache' = c
                     /\ res' = r
                     /\ update_rcu_net_delta({tr, tc}, c, r)
              /\ trade_round' = trade_round + 1
              /\ UNCHANGED phase

\* do_harvest's while loop: the round bound, the choice of the trading
\* resource, or the exit when neither db_rcu nor net_bw is the bottleneck.
HarvestStep ==
    /\ phase = "harvest"
    /\ UNCHANGED <<policy, mrc, reserved, total, mr_inc, mr_dec>>
    /\ \/ /\ trade_round >= MaxTradeRound
          /\ phase' = HarvestExit(avail)
          /\ UNCHANGED <<cache, res, avail, trade_round, prev_ratio,
                         is_rcu_bottleneck, is_net_bottleneck,
                         rcu_compen_list, net_compen_list, relinq, compen>>
       \/ /\ trade_round < MaxTradeRound /\ is_rcu_bottleneck
          /\ HarvestRound("db_rcu", rcu_compen_list, rcu_compen_list)
          /\ UNCHANGED net_compen_list
       \/ /\ trade_round < MaxTradeRound /\ ~is_rcu_bottleneck
          /\ policy.total_net_bw /\ is_net_bottleneck
          /\ HarvestRound("net_bw", net_compen_list, net_compen_list)
          /\ UNCHANGED rcu_compen_list
       \/ /\ trade_round < MaxTradeRound /\ ~is_rcu_bottleneck
          /\ ~(policy.total_net_bw /\ is_net_bottleneck)
          /\ phase' = HarvestExit(avail)
          /\ UNCHANGED <<cache, res, avail, trade_round, prev_ratio,
                         is_rcu_bottleneck, is_net_bottleneck,
                         rcu_compen_list, net_compen_list, relinq, compen>>

\* Tenant::scale_stateless_resrc_by_owned: each resource grows by the
\* tenant's share of what all tenants hold, or by an even share of it when
\* nobody holds that resource.
scale_stateless_resrc_by_owned(r, av, sum, n) ==
    [x \in Dims |-> r[x] + IF sum[x] # 0 THEN (av[x] * r[x]) \div sum[x]
                                         ELSE av[x] \div n]

\* Tenant::scale_stateless_resrc by the ratio f (f.n / f.d).
scale_stateless_resrc(r, f) == [x \in Dims |-> (r[x] * f.n) \div f.d]

\* do_redistribute: conserving hands avail out in proportion to what each
\* tenant holds (evenly for a resource nobody holds); otherwise every
\* allocation is scaled by 1 + improve_ratio and avail recomputed.
Redistribute ==
    /\ phase = "redistribute"
    /\ LET sum == VSub(total, avail)
           imp == VDiv(avail, sum)
       IN  IF policy.conserving
           THEN /\ res' = [t \in Tenants |->
                      scale_stateless_resrc_by_owned(res[t], avail, sum, NumTenants)]
                /\ avail' = Zero
           ELSE LET scaled == [t \in Tenants |->
                      scale_stateless_resrc(res[t], [n |-> imp.d + imp.n, d |-> imp.d])]
                IN  /\ res' = scaled
                    /\ avail' = VSub(total, Aggregate(scaled))
    /\ phase' = "done"
    /\ UNCHANGED <<policy, mrc, reserved, total, cache, trade_round, prev_ratio,
                   is_rcu_bottleneck, is_net_bottleneck, rcu_compen_list,
                   net_compen_list, offers>>

NoOffer == [t \in Tenants |-> [db_rcu |-> 0, net_bw |-> 0]]

\* The tenants as add_tenant builds them (offers and mr deltas start at 0),
\* and do_alloc's first steps: nothing to do for one tenant, memshare first
\* if enabled, whose first round begins with update_mr_delta.
Init ==
    /\ policy \in Policies
    /\ mrc \in [Tenants -> CurveChoices]
    /\ cache \in [Tenants -> CacheChoices]
    /\ reserved = [t \in Tenants |-> cache[t] \div 2]   \* reserved_ratio = 0.5
    /\ res = BaseStateless
    /\ total = Aggregate(BaseStateless)
    /\ avail = Zero
    /\ phase = IF NumTenants <= 1 THEN "done"
               ELSE IF policy.memshare THEN "memshare" ELSE "collect"
    /\ trade_round = 0
    /\ prev_ratio = R(0, 1)
    /\ is_rcu_bottleneck = FALSE /\ is_net_bottleneck = FALSE
    /\ rcu_compen_list = [i \in Tenants |-> i]
    /\ net_compen_list = [i \in Tenants |-> i]
    /\ relinq = NoOffer /\ compen = NoOffer
    /\ mr_inc = [t \in Tenants |-> IF phase = "memshare" THEN mr_inc_of(t, cache[t]) ELSE 0]
    /\ mr_dec = [t \in Tenants |-> IF phase = "memshare" THEN mr_dec_of(t, cache[t]) ELSE 0]

Next == MemshareStep \/ Collect \/ HarvestStep \/ Redistribute

\* do_alloc runs to completion on the caller's thread.
Spec == Init /\ [][Next]_vars
        /\ WF_vars(MemshareStep) /\ WF_vars(Collect)
        /\ WF_vars(HarvestStep) /\ WF_vars(Redistribute)

-----------------------------------------------------------------------------
(* Properties.                                                             *)

Ratio == [n : Int, d : Nat]

TypeOK ==
    /\ phase \in {"memshare", "collect", "harvest", "redistribute", "done"}
    /\ cache \in [Tenants -> Nat]
    /\ res \in [Tenants -> [Dims -> Int]] /\ avail \in [Dims -> Int]
    /\ trade_round \in 0..MaxTradeRound
    /\ prev_ratio \in Ratio
    /\ is_rcu_bottleneck \in BOOLEAN /\ is_net_bottleneck \in BOOLEAN
    /\ rcu_compen_list \in [Tenants -> Tenants]
    /\ net_compen_list \in [Tenants -> Tenants]
    /\ relinq \in [Tenants -> [db_rcu : Int, net_bw : Int]]
    /\ compen \in [Tenants -> [db_rcu : Int, net_bw : Int]]
    /\ mr_inc \in [Tenants -> Int] /\ mr_dec \in [Tenants -> Int]

\* What the floors of conserving redistribution may lose: under one unit
\* per tenant and resource.  The double arithmetic of the code loses
\* rounding error only; do_redistribute asserts aggregate == total - avail.
Lost == VSub(total, VAdd(Aggregate(res), avail))

\* Stateless resources are only moved, never created or lost: collect_idle
\* splits each allocation into used and idle, every harvest deal moves
\* exactly what it adds to the pool, and redistribution hands the pool out
\* (spec: allocator conservation).  Tenants' holdings plus the pool equal
\* the total from add_tenant, up to the floors of the final split.
StatelessConserved ==
    \A x \in Dims :
        IF phase = "done" /\ policy.conserving
        THEN 0 <= Lost[x] /\ Lost[x] < NumTenants
        ELSE Lost[x] = 0

\* The pool never goes negative: an aborted offer asks FLT_MAX of
\* compensation, and only the improvement check of do_harvest keeps such a
\* deal from being made; scaling redistribution never hands out more than
\* the pool since improve_ratio is the minimum over resources.
AvailNonNegative == \A x \in Dims : avail[x] >= 0

\* Every tenant keeps its reserved cache (half its base cache) after every
\* allocator step (spec: reserved floor).  Memshare checks can_donate;
\* harvest checks only min_cache_size in pred_rcu_net_delta_if_less_cache.
ReservedFloor == \A t \in Tenants : cache[t] >= reserved[t]

\* Without harvest (memshare or plain DRF), every tenant keeps its reserved
\* cache after every allocator step: can_donate is the only guard on
\* memshare's donations.
MemshareReservedFloor == ~policy.harvest => ReservedFloor

\* do_alloc returns: memshare's loop has no round bound and ends only when
\* no donor is left or no move profits; harvest ends at max_trade_round or
\* when a deal does not improve the estimate enough.
AllocTerminates == <>(phase = "done")

\* do_alloc implements its contract (AllocContract): until it returns the
\* tenants hold their base allocation, and the step that returns moves
\* them to a result the contract allows.  The base cache is twice the
\* reserved cache (reserved_ratio 0.5, for even base sizes).
BaseCache == [t \in Tenants |-> 2 * reserved[t]]

Contract == INSTANCE AllocContract
    WITH Tenants <- Tenants, Dims <- Dims, CacheDelta <- CacheDelta,
         MinCacheSize <- MinCacheSize, BaseStateless <- BaseStateless,
         Policies <- Policies, CacheChoices <- CacheChoices,
         policy <- policy,
         base   <- BaseCache,
         cache  <- IF phase = "done" THEN cache ELSE BaseCache,
         res    <- IF phase = "done" THEN res ELSE BaseStateless,
         done   <- phase = "done"

ImplementsContract == Contract!Spec

\* Memshare stops only when no profitable move is left (spec: terminate when
\* mr_inc <= mr_dec for the best receiver and the best qualifying donor):
\* no tenant would gain more from CacheDelta than a donor able to give it
\* would lose.
ProfitableMove ==
    \E r, d \in Tenants :
        r # d /\ can_donate(d) /\ mr_inc[r] > mr_dec[d]

\* Under conserving redistribution (test_symmetric's default policy),
\* tenants identical in demand, allocation and curve are left as they are
\* (spec: symmetry; do_alloc is then a fixed point): no trade or
\* memshare move is profitable between equals, whichever of them the
\* tie-breaks of max_element, min_element and iter_swap pick, and
\* redistribution returns each its share, up to the floors of the split.
Symmetric ==
    \A t, u \in Tenants : /\ mrc[t] = mrc[u] /\ reserved[t] = reserved[u]
                         /\ Demand[t] = Demand[u] /\ Alpha[t] = Alpha[u]
                         /\ BaseStateless[t] = BaseStateless[u]

\* The base cache sits at a strictly convex point of the curve, as in the
\* spec's symmetric scenario (2 delta on {0.9, 0.8, 0.7} at 1, 2, 4 delta):
\* CacheDelta more gains less than CacheDelta less loses.
ConvexAtBase(t) ==
    LET c == 2 * reserved[t]
    IN  MR(t, USub(c, CacheDelta)) - MR(t, c) > MR(t, c) - MR(t, c + CacheDelta)

SymmetricFixedPoint ==
    (/\ phase = "done" /\ policy.conserving /\ ~policy.memshare
     /\ Symmetric /\ \A t \in Tenants : ConvexAtBase(t)) =>
        \A t \in Tenants :
            /\ cache[t] = 2 * reserved[t]
            /\ \A x \in Dims : BaseStateless[t][x] - res[t][x] \in 0..1

MemshareStopsAtOptimum ==
    [][phase = "memshare" /\ phase' = "collect" => ~ProfitableMove]_vars

=============================================================================
