---------------------------- MODULE MCOperators ----------------------------
(***************************************************************************)
(* Checks the pure operators on the path from the ghost cache to the      *)
(* allocator's miss ratio lookups, and two small state machines beside    *)
(* them.  The behaviours are lookups of MissRatioCurve over every sane    *)
(* curve of up to MaxAnchors anchors drawn from small tick and miss ratio *)
(* sets, at every cache size up to MaxSize (above the last tick included); *)
(* the ghost cache's rounding and calibration operators over bounded      *)
(* inputs; resrc_stats over a few recorded requests; the RCU rate limiter  *)
(* (RateLimiter); and the ghost checkpoint (GhostCheckpoint).  Each       *)
(* initial state is one probe, and only its own part moves, so the parts  *)
(* add up rather than multiply.                                            *)
(***************************************************************************)
EXTENDS MissRatioCurve, GhostCache, Stats, Naturals, Sequences, TLC

CONSTANTS TickVals, MRVals, MaxAnchors, MaxSize,
          MaxObjSize,   \* object sizes 0..MaxObjSize given to round_size
          RangeArgs,    \* values tried for each ghost.range argument
          TotalVals, StartupVals, ClientVals, FunctionVals, KeyVals, AvgVals
                        \* MEMORY STATS fields and avg_kv_size tried
CONSTANTS KeySizes, ValSizes,  \* item sizes of completed requests
          MaxRecords           \* requests recorded in one probe
CONSTANTS FrameLen, Rates, InitRate, MaxCost, NumClients, Slack
                               \* RateLimiter's
CONSTANTS Keys, Caps, DefaultCap, NoFile, WriteFaults
                               \* GhostCheckpoint's

Sizes == 0..MaxSize

\* Every sane curve (check_sanity passes) with 1..MaxAnchors anchors.
SaneCurves ==
    {c \in {Curve(ts, ms) : ts \in BoundedSeq(TickVals, MaxAnchors),
                            ms \in BoundedSeq(MRVals, MaxAnchors)} :
        check_sanity(c)}

\* MemStats as Redis reports them: the startup, client and function
\* overheads are parts of total.allocated.
MemStatsSet ==
    {ms \in [total: TotalVals, startup: StartupVals, clients: ClientVals,
             functions: FunctionVals, keys: KeyVals, avg: AvgVals] :
        MeasuredOverhead(ms) <= ms.total}

VARIABLES probe,   \* which part this behaviour exercises
          curve,   \* the curve looked up
          size,    \* the cache size it is queried at
          obj,     \* an object size given to round_size
          args,    \* the arguments of a HOPPER.CONFIG.SET ghost.range
          mstat,   \* the MemStats given to reply_ghost_stats
          st       \* resrc_stats
VARIABLES elapsed, progress, rate, proposed, queue, inflight, framePops, overrun
                   \* RateLimiter's
VARIABLES status, cap, ghost, file, dumped, op
                   \* GhostCheckpoint's

rlVars == <<elapsed, progress, rate, proposed, queue, inflight, framePops, overrun>>
gcVars == <<status, cap, ghost, file, dumped, op>>
opVars == <<curve, size, obj, args, mstat, st>>
vars == <<probe, opVars, rlVars, gcVars>>

RL == INSTANCE RateLimiter
GC == INSTANCE GhostCheckpoint

\* A fixed sane curve.
AnyCurve == CHOOSE c \in SaneCurves : TRUE

AnyMemStats == CHOOSE ms \in MemStatsSet : TRUE

\* The operator probes: one operator at one input, the others held at a
\* fixed input.
Fixed == [probe |-> "lookup", curve |-> AnyCurve, size |-> 0, obj |-> 0,
          args |-> <<32, 0, 0>>, mstat |-> AnyMemStats, st |-> ZeroStats]

Probes ==
    {[Fixed EXCEPT !.curve = c, !.size = z] : c \in SaneCurves, z \in Sizes}
    \cup {[Fixed EXCEPT !.obj = o] : o \in 0..MaxObjSize}
    \cup {[Fixed EXCEPT !.args = a] : a \in RangeArgs \X RangeArgs \X RangeArgs}
    \cup {[Fixed EXCEPT !.mstat = m] : m \in MemStatsSet}
    \cup {[Fixed EXCEPT !.probe = x] : x \in {"record", "rate", "checkpoint"}}

\* The rate limiter and the checkpoint start from their initial states in
\* every probe and move only in their own.
Init == /\ \E p \in Probes :
               /\ probe = p.probe /\ curve = p.curve /\ size = p.size
               /\ obj = p.obj /\ args = p.args /\ mstat = p.mstat /\ st = p.st
        /\ RL!Init
        /\ IF probe = "checkpoint" THEN GC!Init
           ELSE /\ status = "up" /\ cap = DefaultCap /\ ghost = <<>>
                /\ file = NoFile /\ dumped = <<>> /\ op = "init"

\* A lookup at another cache size on the same curve (the operator probes
\* never stop).
Query == /\ probe \in {"lookup", "record"}
         /\ size' \in Sizes
         /\ UNCHANGED <<probe, curve, obj, args, mstat, st, rlVars, gcVars>>

\* A GET (hit, miss or inflight dependent) or SET completes and is recorded.
Record == /\ probe = "record" /\ st.req_cnt < MaxRecords
          /\ \E k \in KeySizes, v \in ValSizes :
                \/ \E miss \in BOOLEAN : st' = record_get_done(st, k, v, miss)
                \/ st' = record_set_done(st, k, v)
          /\ UNCHANGED <<probe, curve, size, obj, args, mstat, rlVars, gcVars>>

\* A step of the rate limiter, of the storage thread driving it, or of
\* RESRC.SET.
RateStep(A) == probe = "rate" /\ A /\ UNCHANGED <<probe, opVars, gcVars>>

\* A step of the ghost checkpoint model.
CheckpointStep == probe = "checkpoint" /\ GC!Next /\ UNCHANGED <<probe, opVars, rlVars>>

Next == Query \/ Record \/ RateStep(RL!Next) \/ CheckpointStep

\* RateLimiter's fairness: time passes, the storage thread loops and
\* DynamoDB answers.
Spec == /\ Init /\ [][Next]_vars
        /\ WF_vars(RateStep(RL!Tick)) /\ WF_vars(RateStep(RL!StorageLoop))
        /\ WF_vars(RateStep(RL!Complete))

-----------------------------------------------------------------------------
(* Reference: the curve through (0, 1.0) and the anchors.  At an anchor   *)
(* it takes that anchor's miss ratio (the first listed, if a tick is      *)
(* repeated), after the last anchor the last miss ratio, and in between   *)
(* the straight line over the segment that contains the size.             *)
Pts(c)  == <<0>> \o c.ticks
Vals(c) == <<MRScale>> \o c.mrs

RefInRange(c, x, v) ==
    LET at == {i \in 1..Len(c.ticks) : c.ticks[i] = x}
        seg == {j \in 1..Len(c.ticks) : Pts(c)[j] < x /\ x < Pts(c)[j+1]}
    IN  CASE at # {} -> \E i \in at : v = c.mrs[i] /\ \A h \in at : i <= h
          [] seg # {} -> \E j \in seg :
                 LET w  == Pts(c)[j+1] - Pts(c)[j]
                     ex == Vals(c)[j] * (Pts(c)[j+1] - x)
                           + Vals(c)[j+1] * (x - Pts(c)[j])
                 IN  v * w <= ex /\ ex < (v + 1) * w
          [] x = 0 -> v = MRScale
          [] OTHER -> v = c.mrs[Len(c.mrs)]

\* The lookup the allocator makes (get_miss_ratio) agrees with the reference
\* piecewise-linear curve at the queried size: lower_bound picks the right
\* segment and interpolate weighs each anchor by the distance to the other.
MatchesReference == RefInRange(curve, size, get_miss_ratio(curve, size))

-----------------------------------------------------------------------------
(* Reference (spec.md, 4.4): jemalloc size classes, 8 apart from 4 up to  *)
(* 60, then four classes per doubling 2^k apart up to 8 * 2^k - 4.        *)
SizeClasses ==
    {4 + 8 * i : i \in 0..7}
    \cup UNION {{4 * 2^k - 4 + 2^k * i : i \in 1..4} : k \in 4..12}

RoundRef(s) == CHOOSE c \in SizeClasses :
                   c >= s /\ \A d \in SizeClasses : d >= s => c <= d

\* round_size (and so the memory estimate of every key the ghost cache
\* tracks) is the smallest jemalloc size class holding the object: the
\* quick lookup table and the general loop agree with the class table at
\* every row boundary.
RoundSizeMatchesClasses == round_size(obj) = RoundRef(obj)

\* spec.md (ghost.range): each value is rounded down to a multiple of 2^5
\* and max_tick aligned so that max_tick - min_tick is a multiple of tick.
\* Every triple HOPPER.CONFIG.SET ghost.range parses as unsigned integers is
\* installed as such a range (the command has error replies only for
\* unparsable numbers): Redis keeps running and the range does not end
\* below its start.
GhostRangeInstalled ==
    LET r == ghost_range(args[1], args[2], args[3])
    IN  /\ r.status = "ok"
        /\ r.min_tick <= r.max_tick
        /\ (r.max_tick - r.min_tick) % r.tick = 0

\* The allocator reads the stats through its demand model (spec 4.2):
\* actual RCU = D.rcu * mr and actual bandwidth between the all-hit demand
\* D.net * (1 - alpha) and D.net, with D the if_miss demand.  The counters
\* fit it: the actual consumption lies between the all-hit and all-miss
\* demands, so mr and alpha come out in [0, 1], whatever mix of hits,
\* misses, dependents and SETs was recorded.
DemandBracketsConsumption ==
    /\ st.db_rcu_consump <= st.db_rcu_consump_if_miss
    /\ st.net_bw_consump_if_hit <= st.net_bw_consump
    /\ st.net_bw_consump <= st.net_bw_consump_if_miss

\* HOPPER.STATS's calibration never puts the fixed part of memory below
\* what MEMORY STATS measures as overhead nor above total.allocated: the
\* "avoid underflow" guards and the abnormal fallback keep bytes_startup in
\* [overhead, total], so total_allocated - bytes_startup does not wrap.
CalibrationSound ==
    ReportsCurve(mstat) =>
        LET c == Calibrate(mstat)
        IN  MeasuredOverhead(mstat) <= c.startup /\ c.startup <= mstat.total

-----------------------------------------------------------------------------
(* RateLimiter's properties (rate.h, storage.cpp, resrc.cpp).             *)

\* The rate limiter's state stays in its bounds: no more reads queued or
\* inflight than clients, a popped TaskGet always came from the queue.
RateTypeOK == RL!TypeOK

\* The 1 RCU prepay keeps the storage thread from flooding DynamoDB before
\* any completion posts its cost: within a frame, at most rate * elapsed
\* + 1 TaskGets are submitted, however late the completions charge.
PrepayBound == RL!PrepayBound

\* Once RESRC.SET stops changing a positive rate, every TaskGet waiting in
\* task_get_queue is eventually popped by the storage loop.
QueueServed == RL!QueueServed

\* A rate proposed by RESRC.SET and left alone is eventually in force at a
\* frame rollover; a rate of 0 does not stop the rollover.
RateApplied == RL!RateApplied

(* GhostCheckpoint's properties (ghost.cpp save, load and init).          *)

\* The checkpoint model's state stays in its bounds: the ghost never holds
\* more than the configured range nor a key twice, after any mix of
\* accesses, loads into a live ghost and re-initialisations.
CheckpointTypeOK == GC!TypeOK

\* A ghost::init (module load after a crash, or a new ghost.range) from a
\* whole dump.ghc restores the ghost as HOPPER.GHOST.SAVE saw it: its most
\* recently used keys, as many as the range holds, in the same order.
RecoveryKeepsHottest == GC!RecoveryKeepsHottest

=============================================================================
