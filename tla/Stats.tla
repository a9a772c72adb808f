------------------------------- MODULE Stats -------------------------------
(***************************************************************************)
(* The per-tenant resource accounting of HOPPER.STATS (stats.cpp) and the  *)
(* resource estimators it charges with (utils.h, namespace resrc).  Each   *)
(* completed GET or SET adds its cost to the actual consumption and to the *)
(* two hypothetical demands the allocator is given: as if every GET missed *)
(* ("if_miss", the tenant's cacheless demand D) and as if every GET hit    *)
(* ("if_hit").  Counters are uint64 and stay far from the wrap here.       *)
(* avg_kv_size, a double running average, is left out: only the memory    *)
(* calibration reads it, and GhostCache takes it as an input.              *)
(***************************************************************************)
EXTENDS Naturals

\* config::policy::alloc_total_net_bw (constexpr true)
alloc_total_net_bw == TRUE

\* utils::resrc: item-size based RCU/WCU and byte counts
kv_to_rcu(key_size, val_size) == (key_size + val_size) \div 4096 + 1
kv_to_wcu(key_size, val_size) == (key_size + val_size) \div 1024 + 1
kv_to_net_get_client(key_size, val_size)  == key_size + val_size
kv_to_net_set_client(key_size, val_size)  == key_size + val_size
kv_to_net_get_storage(key_size, val_size) == key_size + val_size
kv_to_net_set_storage(key_size, val_size) == key_size + val_size

\* resrc_stats as the module starts
ZeroStats == [req_cnt |-> 0, hit_cnt |-> 0, miss_cnt |-> 0,
              db_rcu_consump_if_miss |-> 0, net_bw_consump_if_miss |-> 0,
              net_bw_consump_if_hit |-> 0, db_rcu_consump |-> 0,
              db_wcu_consump |-> 0, net_bw_consump |-> 0]

\* (mutant: a hit is charged the DynamoDB transfer in the all-hit demand too,
\* as record_set_done does for a SET)
record_get_done_storage_on_hit(s, key_size, val_size, is_miss) ==
    LET rcu == kv_to_rcu(key_size, val_size)
        cli == kv_to_net_get_client(key_size, val_size)
        sto == IF alloc_total_net_bw THEN kv_to_net_get_storage(key_size, val_size) ELSE 0
    IN  [s EXCEPT !.req_cnt = @ + 1,
                  !.miss_cnt = IF is_miss THEN @ + 1 ELSE @,
                  !.hit_cnt = IF is_miss THEN @ ELSE @ + 1,
                  !.db_rcu_consump_if_miss = @ + rcu,
                  !.db_rcu_consump = IF is_miss THEN @ + rcu ELSE @,
                  !.net_bw_consump_if_miss = @ + cli + sto,
                  !.net_bw_consump_if_hit = @ + cli + sto,
                  !.net_bw_consump = @ + cli + (IF is_miss THEN sto ELSE 0)]

\* stats::record_get_done: a GET answered from DynamoDB (is_miss), from the
\* cache, or as a dependent of an inflight read (counted as a hit)
record_get_done(s, key_size, val_size, is_miss) ==
    LET rcu == kv_to_rcu(key_size, val_size)
        cli == kv_to_net_get_client(key_size, val_size)
        sto == IF alloc_total_net_bw THEN kv_to_net_get_storage(key_size, val_size) ELSE 0
    IN  [s EXCEPT !.req_cnt = @ + 1,
                  !.miss_cnt = IF is_miss THEN @ + 1 ELSE @,
                  !.hit_cnt = IF is_miss THEN @ ELSE @ + 1,
                  !.db_rcu_consump_if_miss = @ + rcu,
                  !.db_rcu_consump = IF is_miss THEN @ + rcu ELSE @,
                  !.net_bw_consump_if_miss = @ + cli + sto,
                  !.net_bw_consump_if_hit = @ + cli,
                  !.net_bw_consump = @ + cli + (IF is_miss THEN sto ELSE 0)]

\* stats::record_set_done: a SET always writes through to DynamoDB
record_set_done(s, key_size, val_size) ==
    LET cli == kv_to_net_set_client(key_size, val_size)
        sto == IF alloc_total_net_bw THEN kv_to_net_set_storage(key_size, val_size) ELSE 0
    IN  [s EXCEPT !.req_cnt = @ + 1,
                  !.db_wcu_consump = @ + kv_to_wcu(key_size, val_size),
                  !.net_bw_consump_if_miss = @ + cli + sto,
                  !.net_bw_consump_if_hit = @ + cli + sto,
                  !.net_bw_consump = @ + cli + sto]

=============================================================================
