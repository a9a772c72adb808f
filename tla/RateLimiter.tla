---------------------------- MODULE RateLimiter ----------------------------
(***************************************************************************)
(* The RCU rate limiter of the storage thread (redis_module/rate.h with    *)
(* ConcurrentProgress) and the parts of storage.cpp that drive it: the     *)
(* storage loop's check_wait_time and 1 RCU prepay per popped TaskGet, the *)
(* completion threads' post-pay of the remaining rcu_cost() - 1, and       *)
(* RESRC.SET proposing a new rate (resrc.cpp).                             *)
(*                                                                         *)
(* Time is discrete: FrameLen ticks make one TIME_FRAME_LEN_SEC frame and  *)
(* rates are RCU per tick.  `elapsed` is now - time_frame_begin; the       *)
(* storage loop polls far more often than once a frame, so elapsed stays   *)
(* below two frames.                                                       *)
(***************************************************************************)
EXTENDS Naturals

CONSTANTS FrameLen,     \* TIME_FRAME_LEN_SEC in ticks
          Rates,        \* rates RESRC.SET may propose (RCU per tick)
          InitRate,     \* the constructor's rate
          MaxCost,      \* largest rcu_cost() of an item
          NumClients,   \* clients; each blocks on at most one GET
          Slack         \* the O(F) allowance of the throughput bound

ASSUME /\ FrameLen \in Nat \ {0} /\ Rates \subseteq Nat /\ InitRate \in Rates
       /\ MaxCost \in Nat \ {0} /\ NumClients \in Nat /\ Slack \in Nat

VARIABLES elapsed,      \* now - time_frame_begin
          progress,     \* time_frame_progress
          rate,         \* rate
          proposed,     \* proposed_rate
          queue,        \* TaskGets in task_get_queue
          inflight,     \* GetItem calls issued and not yet completed
          framePops,    \* history: TaskGets popped in the current frame
          overrun       \* history: the largest excess of charges over rate
                        \* * time, over the windows of frames ending now

vars == <<elapsed, progress, rate, proposed, queue, inflight, framePops, overrun>>

-----------------------------------------------------------------------------
\* check_wait_time() <= 0.  progress / rate - elapsed is 0 / 0 (NaN) when
\* rate and progress are both 0 and +inf when only rate is, and neither
\* compares <= 0: a rate of 0 permits nothing.
permits(r, p, e) == r > 0 /\ p <= r * e

\* The frame's charges beyond its allowance rate * FrameLen, added to the
\* worst window ending at the previous frame (capped past Slack).
NextOverrun(p, r) ==
    LET o == overrun + p - r * FrameLen
    IN  IF o < 0 THEN 0 ELSE IF o > Slack + 1 THEN Slack + 1 ELSE o

\* (mutant: the rollover keeps the old frame's progress)
update_time_frame_no_reset ==
    IF elapsed >= FrameLen
    THEN [e |-> elapsed % FrameLen, p |-> progress, r |-> proposed,
          pops |-> 0, o |-> NextOverrun(progress, rate)]
    ELSE [e |-> elapsed, p |-> progress, r |-> rate, pops |-> framePops, o |-> overrun]

\* (mutant: the pending rate proposal is never picked up)
update_time_frame_keep_rate ==
    IF elapsed >= FrameLen
    THEN [e |-> elapsed % FrameLen, p |-> 0, r |-> rate,
          pops |-> 0, o |-> NextOverrun(progress, rate)]
    ELSE [e |-> elapsed, p |-> progress, r |-> rate, pops |-> framePops, o |-> overrun]

\* update_time_frame: past the frame, keep the remainder (fmod), zero the
\* progress and apply the proposed rate.
update_time_frame ==
    IF elapsed >= FrameLen
    THEN [e |-> elapsed % FrameLen, p |-> 0, r |-> proposed,
          pops |-> 0, o |-> NextOverrun(progress, rate)]
    ELSE [e |-> elapsed, p |-> progress, r |-> rate, pops |-> framePops, o |-> overrun]

\* (mutant: the popped pointer is not checked against nullptr)
can_pop_unchecked(f) == permits(f.r, f.p, f.e)

\* rcu_wait_time <= 0 and task_get_queue.pop() returned a task.
can_pop(f) == permits(f.r, f.p, f.e) /\ queue > 0

\* (mutant: no RCU is prepaid when a TaskGet is submitted)
prepay_none == 0

\* rcu_rate_limiter.consume(1) after process_task_get.
prepay == 1

-----------------------------------------------------------------------------
\* RedisModule_HopperGet on a miss: push_task_get.  A client blocked on a
\* GET sends nothing else.
PushTaskGet ==
    /\ queue + inflight < NumClients
    /\ queue' = queue + 1
    /\ UNCHANGED <<elapsed, progress, rate, proposed, inflight, framePops, overrun>>

\* The clock.
Tick ==
    /\ elapsed < 2 * FrameLen - 1
    /\ elapsed' = elapsed + 1
    /\ UNCHANGED <<progress, rate, proposed, queue, inflight, framePops, overrun>>

\* One iteration of storage_thread_main for the RCU side: check_wait_time
\* (with its rollover), then pop a TaskGet if permitted, submit it and
\* prepay.  The WCU side is the same limiter with the whole cost charged
\* at submission.
StorageLoop ==
    \E f \in {update_time_frame} :
        /\ elapsed' = f.e
        /\ rate' = f.r
        /\ overrun' = f.o
        /\ IF can_pop(f)
           THEN /\ queue' = queue - 1
                /\ inflight' = inflight + 1
                /\ progress' = f.p + prepay
                /\ framePops' = f.pops + 1
           ELSE /\ progress' = f.p
                /\ framePops' = f.pops
                /\ UNCHANGED <<queue, inflight>>
        /\ UNCHANGED proposed

\* A GetItemAsync completion on an SDK thread (or process_mock_dynamo):
\* on success, fetch_add the rest of the item's rcu_cost(); a failure
\* keeps only the prepaid RCU.
Complete ==
    /\ inflight > 0
    /\ inflight' = inflight - 1
    /\ \/ \E cost \in 1..MaxCost : progress' = progress + cost - 1
       \/ UNCHANGED progress
    /\ UNCHANGED <<elapsed, rate, proposed, queue, framePops, overrun>>

\* RESRC.SET with db_rcu >= 0: set_rcu_limit stores proposed_rate.
SetRcuLimit(r) ==
    /\ proposed' = r
    /\ UNCHANGED <<elapsed, progress, rate, queue, inflight, framePops, overrun>>

Init ==
    /\ elapsed = 0 /\ progress = 0
    /\ rate = InitRate /\ proposed = InitRate
    /\ queue = 0 /\ inflight = 0
    /\ framePops = 0 /\ overrun = 0

Next == PushTaskGet \/ Tick \/ StorageLoop \/ Complete \/ \E r \in Rates : SetRcuLimit(r)

\* Time passes, the storage thread loops forever and DynamoDB answers;
\* clients and RESRC.SET may stop.
Spec == Init /\ [][Next]_vars
        /\ WF_vars(Tick) /\ WF_vars(StorageLoop) /\ WF_vars(Complete)

-----------------------------------------------------------------------------
TypeOK ==
    /\ elapsed \in 0..(2 * FrameLen - 1)
    /\ progress \in Nat /\ rate \in Rates /\ proposed \in Rates
    /\ queue \in Nat /\ inflight \in Nat /\ queue + inflight <= NumClients
    /\ framePops \in Nat /\ overrun \in 0..(Slack + 1)

\* The 1 RCU prepay keeps the storage thread from flooding DynamoDB before
\* any completion posts its cost: within a frame, at most rate * elapsed
\* + 1 TaskGets are submitted, however late the completions charge.
PrepayBound == framePops <= rate * elapsed + 1

\* Once RESRC.SET stops changing a positive rate, every TaskGet waiting in
\* the queue is eventually popped: the queue never stays at one length.
QueueServed ==
    (<>[](proposed > 0)) => \A k \in 1..NumClients : (queue = k) ~> (queue # k)

\* A rate proposed by RESRC.SET and left alone is eventually in force; a
\* rate of 0 (0/0 in check_wait_time) does not stop the rollover that
\* applies the next one.
RateApplied == \A r \in Rates : (<>[](proposed = r)) => <>[](rate = r)

\* spec: over a horizon T >> F the consumption never exceeds
\* rate * T * (1 + O(F/T)): over every window of whole frames, the RCU
\* charged exceeds the rate's allowance by at most Slack.
ThroughputBound == overrun <= Slack

=============================================================================
