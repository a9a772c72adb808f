----------------------------- MODULE GhostCache -----------------------------
(***************************************************************************)
(* The arithmetic around the ghost cache (redis_module/ghost.cpp and the   *)
(* ghost.range branch of HOPPER.CONFIG.SET in config.cpp): the sampled     *)
(* tick rounding, the jemalloc size-class rounding of the memory estimate  *)
(* and the alignment of a new ghost range.  The sampled LRU itself is the  *)
(* external gcache library and is not modelled.                            *)
(***************************************************************************)
EXTENDS Naturals

\* ghost_sample_shift: one key in 2^5 is sampled.
ghost_sample_shift == 5

\* round_tick: (tick >> ghost_sample_shift) << ghost_sample_shift.
round_tick(tick) == (tick \div 2^ghost_sample_shift) * 2^ghost_sample_shift

\* The general rounding loop of round_size, from divisor 2^power upwards:
\* the first class range whose upper bound divisor * 8 - 4 reaches s.
RECURSIVE round_size_loop(_, _)
round_size_loop(s, power) ==
    LET divisor == 2^power
    IN  IF s <= divisor * 8 - 4
        THEN ((s + 3) \div divisor) * divisor + (divisor - 4)
        ELSE round_size_loop(s, power + 1)

\* (mutant: the 16-byte table row is off by one class: <= 128 for <= 124)
round_size_off_by_one(s) ==
    CASE s <= 4    -> 4
      [] s <= 60   -> ((s + 3) \div 8) * 8 + 4
      [] s <= 128  -> ((s + 3) \div 16) * 16 + 12
      [] s <= 252  -> ((s + 3) \div 32) * 32 + 28
      [] s <= 508  -> ((s + 3) \div 64) * 64 + 60
      [] s <= 1020 -> ((s + 3) \div 128) * 128 + 124
      [] s <= 2044 -> ((s + 3) \div 256) * 256 + 252
      [] s <= 4092 -> ((s + 3) \div 512) * 512 + 508
      [] OTHER     -> round_size_loop(s, 3)

\* mem_estimate::round_size: the quick lookup table, then the loop.
round_size(s) ==
    CASE s <= 4    -> 4
      [] s <= 60   -> ((s + 3) \div 8) * 8 + 4
      [] s <= 124  -> ((s + 3) \div 16) * 16 + 12
      [] s <= 252  -> ((s + 3) \div 32) * 32 + 28
      [] s <= 508  -> ((s + 3) \div 64) * 64 + 60
      [] s <= 1020 -> ((s + 3) \div 128) * 128 + 124
      [] s <= 2044 -> ((s + 3) \div 256) * 256 + 252
      [] s <= 4092 -> ((s + 3) \div 512) * 512 + 508
      [] OTHER     -> round_size_loop(s, 3)

\* mem_estimate::estimate: the Redis memory cost of a key-value pair.
estimate(key_size, val_size) == 55 + round_size(key_size) + round_size(val_size)

\* HOPPER.CONFIG.SET ghost.range <tick> <min_tick> <max_tick>: every value
\* rounded to the sampling granularity, then max_tick aligned down so that
\* max_tick - min_tick is a multiple of tick.  A tick below 2^5 rounds to
\* 0 and the alignment divides by zero (SIGFPE: Redis dies); max below min
\* wraps the unsigned difference and installs a range ending below its
\* start or near 2^32.
ghost_range(t, mn, mx) ==
    LET tick == round_tick(t)
        lo   == round_tick(mn)
        hi   == round_tick(mx)
    IN  CASE tick = 0 -> [status |-> "crash"]
          [] hi < lo  -> [status |-> "wrap"]
          [] OTHER    -> [status |-> "ok", tick |-> tick, min_tick |-> lo,
                          max_tick |-> lo + ((hi - lo) \div tick) * tick]

(***************************************************************************)
(* The memory calibration of HOPPER.STATS (reply_ghost_stats): the ghost   *)
(* curve's kv sizes become Redis memory through the linear model of        *)
(* config.h, total_memory = bytes_startup + bytes_per_key * keys_count,    *)
(* fitted to MEMORY STATS.  ms holds the MemStats fields; avg_kv_size is  *)
(* taken whole.  calib_fixed and calib_abnormal are on; calib_small_cache  *)
(* is off, so its branches are dead.  bytes_per_key is the exact rational  *)
(* [n, d] = n / d.                                                         *)
(***************************************************************************)
MiB == 1024 * 1024
min_total_allocated  == 20 * MiB
max_per_key_overhead == 300
mem_fixed_overhead   == MiB

\* total_allocated - bytes_startup in uint64: a negative difference wraps
\* to 2^64 less it, which UInt64Wrap stands for (it exceeds every product
\* the difference is compared with here).
UInt64Wrap == 2^24
USubBytes(a, b) == IF b <= a THEN a - b ELSE a - b + UInt64Wrap

\* the measured overhead: startup.allocated + clients.normal + functions.caches
MeasuredOverhead(ms) == ms.startup + ms.clients + ms.functions

\* (mutant: the "avoid underflow" guard of the calib_fixed branch is left out)
FixedStartup_unguarded(ms) == MeasuredOverhead(ms) + mem_fixed_overhead
\* the calib_fixed branch: add the fixed overhead unless it reaches the total
FixedStartup(ms) ==
    IF MeasuredOverhead(ms) + mem_fixed_overhead < ms.total
    THEN MeasuredOverhead(ms) + mem_fixed_overhead
    ELSE MeasuredOverhead(ms)

\* reply_ghost_stats replies null curves when Redis holds no key
ReportsCurve(ms) == ms.keys # 0

\* bytes_startup and bytes_per_key as reply_ghost_stats fits them (keys > 0):
\* bytes_per_key = (total - startup) / keys_count, and when a small instance
\* shows more than avg_kv_size + 300 bytes a key, that bound instead, with
\* bytes_startup moved so the line still meets total_allocated.
Calibrate(ms) ==
    LET st  == FixedStartup(ms)
        cap == ms.avg + max_per_key_overhead
    IN  IF ms.total < min_total_allocated /\ USubBytes(ms.total, st) > cap * ms.keys
        THEN [startup |-> ms.total - cap * ms.keys, bpk |-> <<cap, 1>>]
        ELSE [startup |-> st, bpk |-> <<USubBytes(ms.total, st), ms.keys>>]

=============================================================================
