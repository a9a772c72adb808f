# TLA+ models of HopperKV

HopperKV is a Redis module that turns Redis into a cache in front of DynamoDB,
plus HARE, the allocator that divides cache memory, DynamoDB read/write
capacity and network bandwidth among tenants. This directory holds TLA+ models
of both halves, the TLC configurations that check them, and `PROJECT.json`,
which records for every definition the source lines it translates, every run,
the mutants that show each property can fail, the findings and the hazards.

## The system

### Redis module (`src/hopperkv/redis_module`)

Redis runs every command handler on one main thread. A handler runs to
completion without interleaving with other handlers.

* **GET** (`get.cpp`). A hit replies at once. A miss blocks the client. If
  another GET of the key is in flight (`inflight.cpp`, the inflight
  registry), the client is added to that task's dependents. Otherwise it
  becomes the owner of a new `TaskGet`, registers it with `begin_inflight`
  and pushes it onto the storage thread's get queue.
* **GET completion** (`storage_callback`). It calls `end_inflight`, which
  erases the registration only if it still names this task and returns
  whether the result may be cached. On success it fills the cache if
  permitted and replies. It wakes every dependent with the value, or with
  nothing on error. Dependents reply in `inflight_callback`.
* **SET** (`set.cpp`). It writes the cache if the key is cached or
  `cache.admit_write` is on, and only in that case calls
  `invalidate_inflight`. It then blocks the client and pushes a `TaskSet`.
  The reply callback deletes the cached key when the DynamoDB write failed.
  **SETC** and **LOAD** write the cache only; they are warm-up commands.
* **Storage thread** (`storage.cpp`). It pops from two spin-locked FIFO
  queues (`task.h`), gets first, each gated by a rate limiter (`rate.h`).
  * **Mock DynamoDB:** tasks go into one FIFO `mock_dynamo_queue` served in
    order.
  * **Real DynamoDB** (`dynamo/dynamo.cpp`): `GetItemAsync`/`PutItemAsync`
    complete on SDK threads in any order and may fail. The completion
    handler sets the status and calls `RedisModule_UnblockClient`. Redis then
    runs the reply callbacks on the main thread, in unblock order.
* **Other parts.** The ghost cache (`ghost.cpp`) estimates the miss ratio
  curve. HOPPER.GHOST.SAVE writes it to `dump.ghc`, and `ghost::init`
  reloads that file at module load and after a ghost.range change. `config.cpp`, `resrc.cpp`, `stats.cpp` and `barrier.cpp` provide
  configuration, resource limits, statistics and a test barrier.

### HARE allocator (`src/hopperkv/alloc/engine`)

`Allocator::do_alloc` runs these steps in order:

1. Optional memshare cache moves.
2. `collect_idle` on every tenant.
3. The harvest trade loop: cache for DynamoDB RCU or network bandwidth, up
   to `max_trade_round`.
4. Conserving or scaling redistribution of what is available.

Tenants (`tenant.h`) turn miss ratio deltas from their curve (`mrc.h`) into
trade offers.

## Modules

| Module | Models | Source |
|---|---|---|
| `HopperKV` | GET/SET/SETC/LOAD handlers, the inflight registry, the task queues, the storage thread, mocked and real DynamoDB, unblock and reply callbacks, Redis eviction and the test barrier | get.cpp, set.cpp, inflight.cpp, task.h, storage.cpp, dynamo.cpp, barrier.cpp |
| `MCHopperKV` | model values and small sets for HopperKV | – |
| `MissRatioCurve` | the miss ratio lookup and `check_sanity`, as operators | mrc.h |
| `GhostCache` | `round_tick`, `mem_estimate::round_size`/`estimate`, the memory calibration of `reply_ghost_stats`, and the ghost.range branch of HOPPER.CONFIG.SET, as operators | ghost.cpp, config.cpp, config.h |
| `Stats` | `record_get_done`/`record_set_done` and the RCU/WCU/byte estimators they charge with, as operators | stats.cpp, utils.h |
| `GhostCheckpoint` | the ghost cache's checkpoint `dump.ghc`: HOPPER.GHOST.SAVE/LOAD, `ghost::init` at module load and after ghost.range, with crashes (also inside a save) and failed writes | ghost.cpp, config.cpp, module.cpp |
| `MCOperators` | checks the MissRatioCurve, GhostCache and Stats operators over bounded inputs against reference definitions, and runs `RateLimiter` and `GhostCheckpoint` as probes of their own | – |
| `Allocator` | `Allocator::do_alloc` with its tenants: memshare, `collect_idle`, harvest, redistribution | alloc.h, tenant.h, resrc.h (alloc/engine) |
| `AllocContract` | what `do_alloc` promises, as one abstract step from the base allocation to the result; `Allocator` refines it | alloc.h (spec sections 5 and 8) |
| `MCAllocator` | the curves, demands and policies of `tests/test_alloc.cpp` | – |
| `RateLimiter` | the storage thread's RCU `RateLimiter`: frame rollover, `check_wait_time`, the loop's prepay, completion post-pay, `RESRC.SET`'s `set_rcu_limit` | rate.h, storage.cpp, resrc.cpp |

### HopperKV: state and actions

| Variable | Code |
|---|---|
| `cache[k]` | the Redis keyspace: a value or `Absent` |
| `mock` | `config::dynamo::mock` |
| `db[b][k]` | the item of key `k` in backend `b` (`NoItem` if missing): `"real"` is DynamoDB, `"mock"` is `mock_image` |
| `inflight[k]` | `inflight_map`: the client owning the registered `TaskGet`, or `NoTask` |
| `task[c]` | the client's blocked command. `cb` says which callback will reply: `storage_callback` for an owner, `inflight_callback` for a dependent, or the SET `reply_callback`. The record also holds the key, the value, the status and the dependents |
| `getQ`, `setQ` | `task_get_queue`, `task_set_queue` |
| `mockQ` | `mock_dynamo_queue` |
| `dbQ` | requests submitted to DynamoDB and not yet served |
| `responded` | completed requests whose SDK callback has not yet called `UnblockClient` |
| `unblockQ` | Redis's queue of unblocked clients; reply callbacks run from its head |
| `ghost` | the last size recorded in the ghost cache per key |
| `waiters` | `barrier::waiting_clients` |
| `setSince` | history only: whether a SET of the key began after this GET fetch began (used by `NoStaleFill`) |

Each command handler is one action, covering all of its effects:
`Get(c,k)`, `Set(c,k,v)`, `SetC`, `Load` (any non-empty subset of keys,
for the lines before a malformed one). The storage thread's pops are
`WorkerGet` and `WorkerSet`.

The storage thread submits a task by the flag as it reads it (`Submit`):
into `mockQ` while `mock` is set, to DynamoDB otherwise.
`MockServe` is `process_mock_dynamo`, which the loop calls only while
`mock` is set: it serves the head of `mockQ` against `db["mock"]` and
unblocks the client at once. `DbServe(c)` serves any submitted DynamoDB
request, in any order. `Outcome(c, b)` gives a result:
- a GET of a missing item is ERR;
- with `Transient`, any real request may also fail.

The constant `Mock` fixes `config::dynamo::mock` for a run; switching it
with HOPPER.CONFIG.SET is not modelled (see Not modelled).

`Callback(c)` is the SDK completion calling `UnblockClient`.
`StorageCallback`, `InflightCallback` and `SetReplyCallback` are the reply
callbacks. `Evict(k)` is Redis eviction under `maxmemory`.

Values are model values; formatting, stats, ghost sizes and the network
model are left out because no property tells them apart.

### MissRatioCurve

Miss ratios are fixed point with `MRScale` = 1.0. Interpolation is integer
division, i.e. the floor of the exact value; the C++ uses doubles.
`lower_bound` is `SelectInSeq` from SequencesExt.
`disable_interpolation_near_inf` is a constexpr `false`, so its branch is
dead and not modelled. `conservative_estimation_if_out_of_range` is a
constexpr `true`.

### GhostCache

The sampled ghost LRU is the external `gcache` library, so only the
arithmetic around it is modelled.
- `round_size` is the code's quick table followed by the general loop,
  `round_size_loop` (RECURSIVE, one call per power).
- `ghost_range` returns the installed `tick`/`min_tick`/`max_tick`, or one
  of two outcomes the code does not reject:
  - `"crash"`: the tick rounds to 0, and `/ new_tick` divides by zero
    (SIGFPE);
  - `"wrap"`: max is below min, and the unsigned difference wraps.
  TLC's integers cannot hold the wrapped values, so "wrap" stands for them.
- `Calibrate(ms)` is the fit of HOPPER.STATS's memory model
  `total = bytes_startup + bytes_per_key * keys_count` to MEMORY STATS
  (`ghost.cpp:84-109`): the measured overhead, plus 1 MiB unless that
  reaches the total (`FixedStartup`), then `bytes_per_key` as an exact
  rational, and the abnormal fallback for instances under 20 MiB that
  moves `bytes_startup` too. `USubBytes` is the uint64 subtraction; a
  wrapped result is `UInt64Wrap`, which exceeds every product compared with
  it. `calib_small_cache` is constexpr false, so its branches are dead. The
  tick values themselves (curve size times amplification) are products
  beyond TLC's 32-bit integers and are not modelled.
- `MCOperators` gives each initial state one probe: a curve at a size, an
  object size, a triple of ghost.range arguments, a MemStats, a run of
  `Record` steps from `ZeroStats`, the rate limiter, or the checkpoint.
  `RateLimiter` and `GhostCheckpoint` enter as `INSTANCE`s over
  variables of the same names; each moves only in its own probe and sits at
  its initial state in the others, so the probes add up.

### Stats

`record_get_done(s, k, v, is_miss)` and `record_set_done(s, k, v)` add a
completed request to `resrc_stats`: the actual RCU, WCU and bytes, and the
two hypothetical demands the allocator is given, as if every GET missed and
as if every GET hit. A GET is a miss when DynamoDB answered it
(`storage_callback`), a hit when the cache did or when it was a dependent of
an inflight read. `avg_kv_size` is left out; the calibration takes it as an
input. The probes add up
  instead of multiplying.

### GhostCheckpoint: state and actions

`gcache`'s sampled LRU is outside the repository. It is modelled from
spec.md 4.4 (`Access`): a sequence of sampled key hashes, least recently
used first, holding at most `cap`. kv sizes travel with their keys and are
left out. The file is a sequence of units, `"magic"`, `"hash"` and one
record per key. A process crash loses bytes still in the `ofstream`
buffer, so a file can end at any byte. A cut inside a unit reads the same
as that unit missing:
- a short magic fails `strcmp` (-2);
- a short hash fails the hash check (-2);
- a short record ends `while (f.read(...))`.

| Variable | Code |
|---|---|
| `status` | whether the Redis process runs (`"up"`) or not (`"down"`) |
| `cap` | the capacity the `config::ghost` range gives the ghost |
| `ghost` | the sampled LRU |
| `file` | `dump.ghc`, or `NoFile` |
| `dumped`, `op` | history: the ghost as the last save saw it; the last step |

Actions:
- `AccessKey` is `access_key`.
- `GhostSave` is HOPPER.GHOST.SAVE. Write errors are not checked, so with
  `WriteFaults` any prefix of the dump is left and the reply is still OK.
- `GhostLoad` is HOPPER.GHOST.LOAD, replaying records into the live ghost.
- `GhostInit(c)` is `ghost::init`: `destroy`, a new empty ghost, `load()`,
  and a throw on -2, which no caller catches. Two actions use it:
  - `ConfigGhostRange` (ghost.range);
  - `Restart` (`RedisModule_OnLoad` with the default range).
- `Crash` is the process dying, which loses the ghost.
- `CrashInSave` is the process dying inside save, after the truncating open.

### Allocator: state and actions

`do_alloc` runs on one thread. It does not interleave with anything, so each
loop round of the code is one action, and the phase variable plays the part
of the program counter: `memshare`, `collect`, `harvest`, `redistribute`,
`done`.

| Variable | Code |
|---|---|
| `policy`, `mrc`, `reserved`, `total` | the constructor flags and `params::policy::alloc_total_net_bw`; each tenant's curve and `reserved_cache_size`; `total_resrc.stateless` |
| `cache[t]`, `res[t]` | `resrc.cache_size`, `resrc.stateless` |
| `avail` | `resrc_avail` |
| `relinq[t]`, `compen[t]` | the Tenant fields `rcu/net_delta_relinq`, `rcu/net_delta_compen` |
| `mr_inc[t]`, `mr_dec[t]` | `mr_inc_if_more_cache`, `mr_dec_if_less_cache` |
| `trade_round`, `prev_ratio`, `is_rcu_bottleneck`, `is_net_bottleneck` | do_harvest's locals |
| `rcu_compen_list`, `net_compen_list` | do_harvest's compen lists, which `iter_swap` permutes |

The actions are:
- `MemshareStep`: one round of `do_memshare`. It picks the receiver
  (`max_element` with `less_mr_inc`) and the first donor of the sorted
  list, then moves cache or breaks. The mr deltas are recomputed after each
  move, as the next round's first statement does.
- `Collect`: the `collect_idle` loop, then the opening of `do_harvest`: the
  first estimate and `update_rcu_net_delta` on every tenant.
- `HarvestStep`: one round of the harvest loop. It covers the round cap,
  the choice of resource or the exit, the relinquishing and compensated
  tenants (with the `iter_swap` case), the improvement check, then
  `relocate_resrc` and the offers of both parties recomputed.
- `Redistribute`: `do_redistribute`, conserving (`scale_stateless_resrc_by_owned` per tenant) or scaling (`scale_stateless_resrc`).

Fixed point:
- Stateless amounts are integers in units of 0.01 and miss ratios are in
  percent.
- Every double division is a floor division.
- The ratios the code compares (min-ratio vector division, the improvement
  estimate) are exact rationals `[n, d]`, with `d = 0` standing for
  infinity.
- `compen_abort_offer` (FLT_MAX) is `CompenAbort`, larger than any pool.
- The uint64 wrap of `cache_size - cache_delta` is modulo `UInt64Wrap`,
  which only needs to lie beyond the last tick.
- TLC's integers are 32-bit, which bounds these scales.

`std::sort` is not stable, so any donor with the least `mr_dec` may come
first. `max_element`/`min_element` keep the first best (`FirstBest`).
Intermediate values of an action are bound once with `\E x \in {v}`. This
keeps TLC's evaluation of `ENABLED` under fairness from re-evaluating them.

The barrier shares the command thread and the unblock queue with the data
commands. `BarrierWait(c)` blocks the client (`cb = "barrier"`) and appends
it to `waiters`. `BarrierSignal`, sent by a driver client that is not
blocked, appends every waiter to `unblockQ` in vector order and clears
`waiters`. `BarrierReplyCallback` is `wait_callback`. COUNT changes no
state. The constant `Barrier` enables the barrier; only mock_coherence sets
it, to keep the real-DynamoDB runs small.

### AllocContract and the refinement

`AllocContract` states what a call of `do_alloc` promises, without its
rounds: one `Alloc` step (none with a single tenant) that moves cache only
between tenants and in multiples of `cache_delta`, leaves it alone under
plain DRF, keeps every memshare tenant at its reserved cache and every
harvest donor at `min_cache_size`, and hands out the total stateless
resources to within one unit per tenant (conserving) or at most the total
(scaling). `Allocator` defines `Contract == INSTANCE AllocContract WITH ...`:
until `phase = "done"` the tenants are seen at their base allocation, and the
step to `done` is the contract's `Alloc`. `base` is `2 * reserved`, the
inverse of `reserved_ratio = 0.5`; `MCAllocator`'s base caches are even so
this is exact. The contract is safety only; that `do_alloc` returns is
`AllocTerminates`.

### RateLimiter: state and actions

Time is discrete. `FrameLen` ticks make one `TIME_FRAME_LEN_SEC` (0.37 s)
frame, and rates are RCU per tick.

| Variable | Code |
|---|---|
| `elapsed` | `now - time_frame_begin` |
| `progress` | `time_frame_progress` (a relaxed atomic) |
| `rate`, `proposed` | `rate`, `proposed_rate` |
| `queue` | the number of `TaskGet`s in `task_get_queue` |
| `inflight` | `GetItemAsync` calls not yet completed |
| `framePops`, `overrun` | history: reads submitted this frame; the largest excess of charged RCU over `rate * FrameLen` per frame, over windows of frames ending now (a maximum-suffix sum, capped just past `Slack`) |

Actions:
- `PushTaskGet` is `get_async`. A client blocked on a GET sends nothing
  else, so `queue + inflight <= NumClients`.
- `Tick` advances the clock. The loop polls every 1 ms, far below a frame,
  so `elapsed` stays under two frames.
- `StorageLoop` is one iteration of `storage_thread_main` on the RCU side:
  `update_time_frame` (fmod, `store(0)`, apply `proposed_rate`), then
  `check_wait_time <= 0` (`permits`: false at rate 0, where the quotient is
  NaN or inf), then pop, submit and `consume(1)`.
- `Complete` is the SDK callback: on success it `fetch_add`s
  `rcu_cost() - 1`, and a failure keeps only the prepay.
- `SetRcuLimit` is RESRC.SET's `db_rcu >= 0` branch.

Each of `store(0)`, `load` and `fetch_add` is atomic, so a completion lands
either before or after a whole `StorageLoop` step. The one ordering the
model merges is a completion landing between the rollover's `store(0)` and
the `load` of the same call. That order only makes the read more
conservative. The WCU limiter charges the full cost at submission, and the
network limiter is the same class on the main thread; neither is a
separate module.

## Runs

| Run | cfg | Expect | Shows |
|---|---|---|---|
| mock_coherence | MCHopperKV_mock.cfg | pass | With mock DynamoDB, admit_write on and no eviction, a key with no pending command caches the stored value or nothing (`CacheCoherent`). Clients may also block in HOPPER.BARRIER.WAIT. Every blocked data request is answered (`EveryRequestAnswered`). |
| real_dedup | MCHopperKV_real.cfg | pass | With real DynamoDB (any completion order, failures), eviction, SETC and LOAD, the registry names exactly the live fetch that no SET has overtaken (`SingleLiveFetch`), never a finished one (`NoDanglingInflight`). An invalidated fetch never fills the cache (`NoStaleFill`), and every client is answered. |
| ghost_range_crash | MCOperators_range.cfg | violation | `GhostRangeInstalled` fails at once: HOPPER.CONFIG.SET ghost.range with a tick below 32 divides by zero, and with max below min installs a wrapped range (finding 7). |
| noadmit_stale_fill | MCHopperKV_noadmit.cfg | violation | `NoStaleFill` fails when admit_write is off (finding 1). |
| evict_incoherent | MCHopperKV_evict.cfg | violation | `CacheCoherent` fails once eviction is possible (finding 2). |
| dynamo_reorder | MCHopperKV_dynamo.cfg | violation | `CacheCoherent` fails with real DynamoDB, because two PutItem calls on a key reorder (finding 3). |
| operators | MCOperators.cfg | pass | On every sane curve the lookup matches the reference curve (`MatchesReference`). `round_size` is the smallest size class of spec.md 4.4's table for every size up to 9000 (`RoundSizeMatchesClasses`). HOPPER.STATS's calibration keeps `bytes_startup` between the measured overhead and `total.allocated`, so the unsigned difference never wraps (`CalibrationSound`). After any three recorded requests the actual RCU and bandwidth lie between the all-hit and all-miss demands, as the allocator's demand model (`D.rcu * mr`, `D.net * (mr + (1 - alpha)(1 - mr))`) needs (`DemandBracketsConsumption`). In the rate limiter probe (rates 0..2, items of up to 3 RCU, late completions), a frame submits at most `rate * elapsed + 1` reads (`PrepayBound`). While the rate stays positive no queue length persists (`QueueServed`). A proposed rate, 0 included, always comes into force (`RateApplied`). In the checkpoint probe, with crashes, failed writes, loads into the live ghost and range changes, the ghost never exceeds its range nor holds a key twice (`CheckpointTypeOK`). A `ghost::init` from a whole `dump.ghc` restores the saved ghost's hottest keys, in order (`RecoveryKeepsHottest`). |
| checkpoint_restart | GhostCheckpoint.cfg | violation | `RestartRecovers` fails: after a crash inside HOPPER.GHOST.SAVE, every restart aborts in `ghost::init` (finding 8). |
| alloc_rcu | MCAllocator_rcu.cfg | pass | Two tenants, four curves, base caches 0/20/40/60 (0 reaches `update_mr_delta`'s uint64 wrap), every policy, and harvest with `alloc_total_net_bw` on (alpha 0.5). The round cap is lowered to 3 so that it is reached. `do_alloc` returns (`AllocTerminates`). Stateless resources are conserved up to the final floors (`StatelessConserved`). The pool never goes negative (`AvailNonNegative`). `test_trade_basic`'s expected allocation is reproduced to 0.01 (`MatchesTradeBasicTest`). Under the default policy (harvest, conserving, no memshare), identical tenants whose base cache sits at a strictly convex point of their curve keep their cache and, up to the floors of the split, their resources (`SymmetricFixedPoint`, `test_symmetric`). Without harvest (memshare or DRF) no tenant ends below its reserved cache (`MemshareReservedFloor`). Every behaviour implements `AllocContract` (`ImplementsContract`). |
| harvest_reserved_floor | MCAllocator_floor.cfg | violation | `ReservedFloor` fails under harvest (finding 4). |
| memshare_receiver | MCAllocator_receiver.cfg | violation | `MemshareStopsAtOptimum` fails: memshare stops while a profitable move exists (finding 5). |
| rate_throughput | MCRateLimiter_throughput.cfg | violation | `ThroughputBound` fails: the charged RCU outgrows `rate * T` by more than three frames' allowance (finding 6). |

Bounds:
- HopperKV: one key, three clients, one or two values. Three clients are
  enough for the interesting cases: an owner plus a dependent plus a SET, or
  two SETs plus a GET. The real run uses a single written value to stay
  under five minutes, and the written value still differs from the initial
  `V0`.
- Ghost operators: object sizes 0..9000 cross every row of the quick table
  and the loop's first two general rows (up to 8188 and past it).
  ghost.range arguments are {0, 31, 32, 100, 160, 1000, 1024}: ticks that
  round to 0, values on and off the grid, and max below min.
- Calibration: totals on both sides of overhead + 1 MiB (1948576 and
  1948577 against 900000), below 1 MiB of overhead, just under 20 MiB and
  above it; an overhead of 20.5 MB that a 21 MB total barely covers;
  0, 1 or 50 keys; average kv sizes 0 and 100, so the abnormal fallback
  fires and does not.
- Stats: three recorded requests of key sizes 1 and 100 and value sizes 0,
  1000 and 4000, so items fall either side of 1 KiB (WCU) and 4 KiB (RCU).
- MRC: every sane curve of up to three anchors on ticks {0,1,2,4}, with miss
  ratios in {0, .25, .5, 1}, queried at sizes 0..6. This covers repeated
  ticks, a tick at 0, sizes below the first anchor and sizes past the last
  one.

- Allocator: two tenants for the harvest runs, because `test_trade_basic`
  has two and each trade involves two parties. Memshare runs with two
  tenants in alloc_rcu and with three in memshare_receiver, because the
  comparator's fault needs a third tenant. The four curves
  include the test's two, a flat one (no gain, immediate offers) and a
  cliff. Base caches include 20, where compensation hits `min_cache_size`,
  and, in alloc_rcu, 0, which `add_tenant` accepts and where
  `update_mr_delta` wraps. `max_trade_round` is 10000 as in
  the code, except in alloc_rcu, where it is 3. Three rounds are enough for
  `test_trade_basic`'s two trades, and the cap is still reached in other
  initial states.
- GhostCheckpoint: three sampled keys and ranges of 1, 2 and 3 keys (2
  by default). A dump of three keys reloaded into a range of two shows
  which end is kept. Restarts begin with no file or a whole one-key dump.
  The violation run leaves out write faults, so its only torn file is the
  one a crash inside a save leaves.
- RateLimiter (in the operators run): three ticks a frame, so a frame has a start, a middle and an
  end, and rollover can happen late (`elapsed` up to 5). Rates {0, 1, 2}
  cover the NaN case, and items cost up to 3 RCU, more than one tick's
  allowance. Two clients give two reads in flight at once.

### Findings

1. **admit_write off** (`set.cpp:69`). A SET of an uncached key neither
   writes the cache nor calls `invalidate_inflight`. A GET fetch that began
   before the SET then caches the old value after the SET is acknowledged.
   The spec says a SET invalidates any inflight GET of its key.
2. **Eviction plus separate queues** (`storage.cpp:207`). A key evicted while
   its SET is still queued is missed by a later GET. That GET is popped
   before the SET and caches the old value. Nothing removes it later, which
   contradicts the eventual consistency promised in `set.cpp:31`.
3. **Real DynamoDB reorders writes** (`storage.cpp:124`). Two SETs of one
   key are concurrent PutItemAsync calls. The first can be applied last, so
   DynamoDB keeps the older value while the cache keeps the newer one.

4. **Harvest ignores the reserved floor** (`tenant.h:274`).
   `pred_rcu_net_delta_if_less_cache` only refuses to go below
   `min_cache_size`, and `do_harvest` never calls `can_donate`. With base
   caches 20 and 40 (floors 10 and 20), three trades leave the second
   tenant with 10. The spec says `cache_size >= reserved_cache_size` after
   every allocator step.
5. **Memshare's receiver** (`alloc.h:330`). `less_mr_inc` compares one
   tenant's `mr_inc_if_more_cache` with another's `mr_dec_if_less_cache`.
   With mr_inc (0, 10, 0) and mr_dec (0, 10, 25), `max_element` returns
   tenant 3 (gain 0), so the move from tenant 1 (loss 0) is refused and
   memshare breaks. Tenant 2 would have gained 10. The spec asks for the
   receiver with the largest `mr_inc` (spec.md:105, and the open question
   at line 274).
6. **Rate limiter drops debt** (`rate.h:48`). At each rollover
   `update_time_frame` stores 0 into `time_frame_progress`, discarding RCU
   charged beyond `rate * F`. That excess is the post-paid `rcu_cost() - 1`
   of reads submitted on the 1-RCU prepay. With rate 1 RCU a tick, 3-tick
   frames and two clients reading 3-RCU items, each frame charges 7 RCU
   against an allowance of 3. After three frames the overrun passes the
   three-frame slack. spec.md:257 promises `rate * T * (1 + O(F/T))`, and
   spec.md:198 says the accounting self-corrects at rollover. It corrects by
   forgetting, so the overshoot grows with T.

7. **ghost.range kills Redis on a small tick** (`config.cpp:158`). The
   branch replies an error only for arguments that are not unsigned
   numbers. A tick below 32 rounds to 0, and the alignment
   `(new_max_tick - new_min_tick) / new_tick * new_tick` divides by it: the
   configuration command ends the Redis process. A max below the min wraps
   the unsigned difference and installs a range that ends below its start.
   spec.md describes the command as installing values rounded to
   multiples of 2^5 with `max_tick - min_tick` a multiple of `tick`.
8. **A torn checkpoint stops Redis for good** (`ghost.cpp:41`). `save()`
   opens `dump.ghc` with truncation and does not check its writes. Its
   comment says the corruption can be tolerated. But `ghost::init` throws
   when `load()` returns -2, and a file cut before the end of its 8-byte
   header returns -2. A crash inside HOPPER.GHOST.SAVE, even one that leaves
   an empty file, therefore makes every later `RedisModule_OnLoad` abort
   until someone deletes the file. Without any crash, a full disk during a
   save that still replied OK makes the next ghost.range abort too.

## Fairness

- The storage thread loops forever, and the rate limiters eventually permit,
  so `WorkerGet` and `WorkerSet` are weakly fair.
- The storage loop calls `process_mock_dynamo` on every pass while the
  mock is on: `MockServe` is weakly fair. HOPPER.CONFIG.SET is an operator
  command and gets no fairness.
- DynamoDB eventually answers each request: `DbServe(c)` is weakly fair per
  request. The SDK callback runs: `Callback(c)` is weakly fair.
- Redis runs unblocked clients' reply callbacks: their disjunction is weakly
  fair.
- Clients, eviction and HOPPER.BARRIER.SIGNAL get no fairness; they may
  stop at any time. A barrier waiter is therefore not promised an answer.
- Allocator: `do_alloc` is a sequential function that keeps running until
  it returns, so each of its steps is weakly fair. It stops at `done`, so
  its cfgs do not check deadlock.

- RateLimiter: the clock ticks, the storage thread loops forever, and
  DynamoDB answers, so `Tick`, `StorageLoop` and `Complete` are weakly fair.
  Clients and RESRC.SET are not fair. `QueueServed` and `RateApplied`
  assume that RESRC.SET eventually stops changing the rate. In the
  operators run these fairness conditions apply to the rate limiter's
  probe only.
- GhostCheckpoint: a dead Redis is restarted (by a supervisor or an
  operator), so `Restart` is weakly fair. Nothing else is: clients, the
  admin commands and crashes may stop at any time.

`EveryRequestAnswered` therefore assumes that DynamoDB always answers. A rate
of 0 breaks the assumption that the rate limiter eventually permits; that
case is checked in RateLimiter: `QueueServed` needs a rate that stays
positive.

## Not modelled yet, and the plan

`SymmetricFixedPoint` needs two preconditions. First, no memshare: memshare
is not the default policy and `test_symmetric` does not use it. Second, a
strictly convex point, as in the spec's scenario. Where a curve is locally
linear, the gain and the loss of a move between identical tenants are
equal, and only rounding decides whether they trade. That holds for the
model's integer interpolation and for the code's double arithmetic alike.

Order for the next sittings:

1. **RateLimiter composition:** put `RateLimiter`'s gate in place of
   HopperKV's always-permitting worker guard.
2. **HopperKV additions:**
   - eventually consistent reads (`ConsistentRead(false)`);
   - an in-order real-DynamoDB mode, to separate the SET-failure hazard
     from write reordering.
3. **An abstract cache specification** (a linearisable register per key
   seen through a cache) with HopperKV refining it under the mock
   configuration.
4. **Client disconnection:** `barrier.cpp` keeps blocked clients in a
   vector that only SIGNAL clears, so COUNT also counts clients that
   disconnected while waiting (spec.md:235 says current waiters). Checking
   that needs Redis's disconnect handling in the model.
5. **Allocator additions:**
   - the `RESRC` commands that apply an allocation to a running tenant.

Ghost checkpoint: HOPPER.CONFIG.SET ghost.range throws away the live
ghost and reloads `dump.ghc`, so every access since the last save is
forgotten. The model does this in `ConfigGhostRange`. Nothing in the spec
or the comments says the live ghost should survive, so no property states
it and it is listed as a hazard. A load from a file of another platform
(wrong hash) is left out: the model's files are all written by this build.

Ghost statistics: the first tier's average kv size divides the per-key
bytes (`ghost.cpp:116`), so a first tier without sampled keys gives NaN
ticks. The loop at `ghost.cpp:119-122` keeps the last tier while every
tier holds at least `keys_count` keys and stops at the first one that holds
fewer, so over ascending tiers it calibrates at the smallest tier as soon
as the cache outgrows it. Both depend on the curve the external `gcache`
returns and are listed as hazards.

Switching the backend: HOPPER.CONFIG.SET dynamo.mock is documented as
"only safe to set if there is no inflight requests" (`config.cpp:23`).
Under that precondition no request waits in a storage queue, the mock
queue or on DynamoDB, and a switch only picks the backend of later
requests, which is what the constant `Mock` selects per run. A switch that
breaks the precondition strands requests in `mock_dynamo_queue`, but that
is a misuse the code warns against, so it is not checked. Modelling the
switch with that guard inside the real-DynamoDB run multiplies its state
space past what a run can check in a few minutes.

Left out for good:
- the MEMORY STATS parsing and the STATS reply (formatting);
- module registration;
- the pybind binding;
- mock value synthesis and image file parsing (data formatting);
- the DynamoDB SDK set-up.
