--------------------------- MODULE AllocContract ---------------------------
(***************************************************************************)
(* What Allocator::do_alloc promises, as one atomic step from the tenants' *)
(* base allocation to its result (spec sections 5 and 8):                  *)
(*  - cache only moves between tenants, cache_delta at a time;             *)
(*  - plain DRF leaves the cache alone; memshare keeps every tenant at or  *)
(*    above its reserved cache; a harvest donor keeps min_cache_size;      *)
(*  - conserving redistribution hands out exactly the total stateless     *)
(*    resources (up to rounding), scaling never more than the total;       *)
(*  - with one tenant there is nothing to do.                              *)
(* The rounding allowance is what Allocator's floor divisions lose: under *)
(* one unit per tenant and resource.                                       *)
(***************************************************************************)
EXTENDS Naturals, Integers, FiniteSets, Functions

CONSTANTS Tenants,        \* the tenants added with add_tenant
          Dims,           \* the stateless resources
          CacheDelta,     \* params::alloc::cache_delta
          MinCacheSize,   \* params::alloc::min_cache_size
          BaseStateless,  \* base_resrc.stateless per tenant
          Policies,       \* the constructor flags an allocator may have
          CacheChoices    \* base cache sizes a tenant may have

VARIABLES policy,   \* the allocator's flags
          base,     \* base_resrc.cache_size per tenant
          cache,    \* each tenant's cache size as do_alloc leaves it
          res,      \* each tenant's stateless resources as do_alloc leaves them
          done      \* do_alloc has returned

vars == <<policy, base, cache, res, done>>

\* The sum over tenants of one stateless resource.
Total(r, x) == SumFunction([t \in Tenants |-> r[t][x]])

CacheContract(c) ==
    /\ SumFunction(c) = SumFunction(base)
    /\ \A t \in Tenants : (c[t] - base[t]) % CacheDelta = 0
    /\ (~policy.harvest /\ ~policy.memshare) => c = base
    /\ policy.memshare => \A t \in Tenants : c[t] >= base[t] \div 2
    /\ policy.harvest => \A t \in Tenants : c[t] < base[t] => c[t] >= MinCacheSize

StatelessContract(r) ==
    /\ \A t \in Tenants : \A x \in Dims : r[t][x] >= 0
    /\ \A x \in Dims :
         LET lost == Total(BaseStateless, x) - Total(r, x)
         IN  IF policy.conserving THEN 0 <= lost /\ lost < Cardinality(Tenants)
                                  ELSE 0 <= lost

Init ==
    /\ policy \in Policies
    /\ base \in [Tenants -> CacheChoices]
    /\ cache = base
    /\ res = BaseStateless
    /\ done = (Cardinality(Tenants) <= 1)

\* do_alloc: the whole allocation in one step.
Alloc ==
    /\ ~done
    /\ done' = TRUE
    /\ CacheContract(cache')
    /\ StatelessContract(res')
    /\ UNCHANGED <<policy, base>>

\* A contract on results only: that do_alloc returns at all is Allocator's
\* AllocTerminates.
Spec == Init /\ [][Alloc]_vars

=============================================================================
