------------------------------ MODULE HopperKV ------------------------------
(***************************************************************************)
(* The per-tenant cache data plane of HopperKV (src/hopperkv/redis_module) *)
(*                                                                         *)
(*  - the Redis command thread runs HOPPER.GET / SET / SETC / LOAD and the *)
(*    reply callbacks of blocked clients, one at a time;                   *)
(*  - the inflight registry (inflight.cpp) maps a key to the GET task that *)
(*    is fetching it, so that concurrent misses are deduplicated;          *)
(*  - the storage thread (storage.cpp) pops GET and SET tasks from two     *)
(*    spin-locked FIFO queues and submits them to DynamoDB;                *)
(*  - DynamoDB or, while config::dynamo::mock is set, the mock image       *)
(*    answers each request; the callback sets the task status and unblocks *)
(*    the client, whose reply callback runs back on the command thread;    *)
(*  - Redis may evict any key between two commands (maxmemory).            *)
(*                                                                         *)
(* A task is owned by the blocked client that created it (t->client), and  *)
(* a client has at most one command outstanding, so tasks are indexed by   *)
(* client.  Values are model values; the ghost cache records, per key, the *)
(* value whose size it was last told (or ZeroSize for a miss).             *)
(***************************************************************************)
EXTENDS Naturals, Sequences, SequencesExt, FiniteSets

CONSTANTS
    Keys,         \* keys clients use
    Vals,         \* values clients SET
    V0,           \* value every existing DynamoDB item starts with
    Clients,      \* Redis clients; each blocks on at most one command
    Absent,       \* a key that is not in the Redis keyspace
    NoItem,       \* a key that has no item in DynamoDB / the mock image
    NoTask,       \* inflight_map has no entry for the key
    ZeroSize,     \* ghost cache holds the size recorded for a miss (val 0)
    Untracked,    \* ghost cache never saw the key
    Nil,          \* the nullptr payload of a failed dependent
    AdmitWrite,   \* config::cache::admit_write
    Mock,         \* config::dynamo::mock at start (image mode)
    Evictions,    \* Redis may evict keys (maxmemory is finite)
    Transient,    \* DynamoDB calls may fail (network / throttling errors)
    Warmup,       \* SETC and LOAD are issued
    Barrier       \* HOPPER.BARRIER.WAIT / SIGNAL are issued

ASSUME /\ V0 \notin Vals
       /\ {Absent, NoItem, NoTask, ZeroSize, Untracked, Nil} \cap (Vals \cup {V0}) = {}
       /\ AdmitWrite \in BOOLEAN /\ Mock \in BOOLEAN
       /\ Evictions \in BOOLEAN /\ Transient \in BOOLEAN /\ Warmup \in BOOLEAN
       /\ Barrier \in BOOLEAN

AllVals == Vals \cup {V0}
AnyKey  == CHOOSE k \in Keys : TRUE
\* the two backends: mock_image and the DynamoDB table
Backends == {"mock", "real"}

VARIABLES
    cache,      \* Redis keyspace: key -> value or Absent
    mock,       \* config::dynamo::mock
    db,         \* backend -> key -> value or NoItem (mock_image, DynamoDB)
    ghost,      \* ghost cache: key -> value whose kv size it holds
    inflight,   \* inflight::inflight_map: key -> owning client or NoTask
    task,       \* per client: what it is blocked on (see Task below)
    getQ,       \* storage::task_get_queue
    setQ,       \* storage::task_set_queue
    mockQ,      \* storage::mock_dynamo_queue
    dbQ,        \* requests submitted to DynamoDB and not yet answered
    responded,  \* requests DynamoDB answered whose callback has not run
    unblockQ,   \* RedisModule_UnblockClient'ed clients, FIFO to the main thread
    setSince,   \* history: a SET of the task's key ran since the GET began
    waiters     \* barrier::waiting_clients

vars == <<cache, mock, db, ghost, inflight, task, getQ, setQ, mockQ, dbQ,
          responded, unblockQ, setSince, waiters>>

\* the backend requests submitted now go to
Backend == IF mock THEN "mock" ELSE "real"

(***************************************************************************)
(* A client's blocked state.  cb is the reply callback it was blocked with: *)
(* "storage" (get::storage_callback, owns a TaskGet), "inflight"          *)
(* (get::inflight_callback, a dependent), "set" (set::reply_callback, owns *)
(* a TaskSet), "barrier" (barrier::wait_callback) or "none".  val is the TaskSet value or the TaskGet result. *)
(***************************************************************************)
Task == [cb: {"none", "storage", "inflight", "set", "barrier"}, key: Keys,
         val: AllVals \cup {NoItem}, status: {"NONE", "OK", "ERR"},
         deps: Seq(Clients)]
IdleTask == [cb |-> "none", key |-> AnyKey, val |-> V0, status |-> "NONE",
         deps |-> <<>>]
Unblock == [client: Clients, dep: BOOLEAN, val: AllVals \cup {Nil}]

(***************************************************************************)
(* The inflight registry (inflight.cpp).  enable_inflight_dedup is a       *)
(* constexpr true, so the early returns for the disabled case are dead.    *)
(***************************************************************************)
\* (mutant: dedup that never finds the inflight request)
check_inflight_never(k) == FALSE
check_inflight(k) == inflight[k] # NoTask

begin_inflight(k, t) == [inflight EXCEPT ![k] = t]

\* end_inflight: erase only if the stored task is t; TRUE iff erased
end_inflight_permits(k, t) == inflight[k] = t
\* (mutant: forget inflight_map.erase)
end_inflight_no_erase(k, t) == inflight
end_inflight(k, t) ==
    IF end_inflight_permits(k, t) THEN [inflight EXCEPT ![k] = NoTask]
                                  ELSE inflight

invalidate_inflight(k) == [inflight EXCEPT ![k] = NoTask]

\* the history variable: every outstanding TaskGet on k saw a SET of k
MarkSet(k) == [c \in Clients |->
                  setSince[c] \/ (task[c].cb = "storage" /\ task[c].key = k)]

Idle(c) == task[c].cb = "none"

(***************************************************************************)
(* HOPPER.GET on the command thread.                                       *)
(***************************************************************************)
Get(c, k) ==
    /\ Idle(c)
    /\ IF cache[k] # Absent
       THEN \* hit: reply from the cache, touch the ghost cache with v_len
            /\ ghost' = [ghost EXCEPT ![k] = cache[k]]
            /\ UNCHANGED <<inflight, task, getQ, setSince, waiters>>
       ELSE \* miss: touch the ghost cache with val_size 0, then dedup
            /\ ghost' = [ghost EXCEPT ![k] = ZeroSize]
            /\ IF check_inflight(k)
               THEN /\ task' = [task EXCEPT
                          ![c] = [IdleTask EXCEPT !.cb = "inflight", !.key = k],
                          ![inflight[k]].deps = Append(@, c)]
                    /\ UNCHANGED <<inflight, getQ, setSince, waiters>>
               ELSE /\ task' = [task EXCEPT
                          ![c] = [IdleTask EXCEPT !.cb = "storage", !.key = k]]
                    /\ inflight' = begin_inflight(k, c)
                    /\ getQ' = Append(getQ, c)
                    /\ setSince' = [setSince EXCEPT ![c] = FALSE]
    /\ UNCHANGED <<cache, mock, db, setQ, mockQ, dbQ, responded, unblockQ, waiters>>

(***************************************************************************)
(* HOPPER.SET: update the cache (if present, or if admit_write) and        *)
(* invalidate the inflight GET, then enqueue the write-through task.      *)
(***************************************************************************)
\* (mutant: the SET path that forgets invalidate_inflight)
Set_no_invalidate(c, k, v) ==
    /\ Idle(c)
    /\ IF cache[k] # Absent \/ AdmitWrite
       THEN /\ cache' = [cache EXCEPT ![k] = v]
       ELSE UNCHANGED cache
    /\ task' = [task EXCEPT ![c] = [IdleTask EXCEPT !.cb = "set", !.key = k,
                                                !.val = v]]
    /\ ghost' = [ghost EXCEPT ![k] = v]
    /\ setQ' = Append(setQ, c)
    /\ setSince' = MarkSet(k)
    /\ UNCHANGED <<mock, db, inflight, getQ, mockQ, dbQ, responded, unblockQ, waiters>>

Set(c, k, v) ==
    /\ Idle(c)
    /\ IF cache[k] # Absent \/ AdmitWrite
       THEN /\ cache' = [cache EXCEPT ![k] = v]
            /\ inflight' = invalidate_inflight(k)
       ELSE UNCHANGED <<cache, inflight, waiters>>
    /\ task' = [task EXCEPT ![c] = [IdleTask EXCEPT !.cb = "set", !.key = k,
                                                !.val = v]]
    /\ ghost' = [ghost EXCEPT ![k] = v]
    /\ setQ' = Append(setQ, c)
    /\ setSince' = MarkSet(k)
    /\ UNCHANGED <<mock, db, getQ, mockQ, dbQ, responded, unblockQ, waiters>>

(***************************************************************************)
(* HOPPER.SETC: cache-only write for warmup; replies at once.             *)
(***************************************************************************)
SetC(c, k, v) ==
    /\ Warmup /\ Idle(c)
    /\ cache' = [cache EXCEPT ![k] = v]
    /\ ghost' = [ghost EXCEPT ![k] = v]
    /\ UNCHANGED <<mock, db, inflight, task, getQ, setQ, mockQ, dbQ, responded, unblockQ,
                   setSince, waiters>>

(***************************************************************************)
(* HOPPER.LOAD: SETC over every line of a CSV file.  A malformed line      *)
(* returns an error after the lines before it were applied, so any subset  *)
(* of keys may be written.                                                 *)
(***************************************************************************)
Load(c) ==
    /\ Warmup /\ Idle(c)
    /\ \E S \in SUBSET Keys, f \in [Keys -> AllVals] :
          /\ S # {}
          /\ cache' = [k \in Keys |-> IF k \in S THEN f[k] ELSE cache[k]]
          /\ ghost' = [k \in Keys |-> IF k \in S THEN f[k] ELSE ghost[k]]
    /\ UNCHANGED <<mock, db, inflight, task, getQ, setQ, mockQ, dbQ, responded, unblockQ,
                   setSince, waiters>>

\* Redis evicts a key under maxmemory; not part of this repository's code
Evict(k) ==
    /\ Evictions /\ cache[k] # Absent
    /\ cache' = [cache EXCEPT ![k] = Absent]
    /\ UNCHANGED <<mock, db, ghost, inflight, task, getQ, setQ, mockQ, dbQ, responded,
                   unblockQ, setSince, waiters>>

(***************************************************************************)
(* The storage thread (storage_thread_main).  A pop happens only when the  *)
(* rate limiter permits; throttling only delays it, which the interleaving *)
(* already covers.  In mock mode the request joins mock_dynamo_queue.      *)
(***************************************************************************)
\* storage::process_task_get / process_task_set: the popped task joins
\* mock_dynamo_queue while config::dynamo::mock is set, else it is sent to
\* DynamoDB (GetItemAsync / PutItemAsync).
Submit(c) ==
    IF mock THEN /\ mockQ' = Append(mockQ, c) /\ UNCHANGED dbQ
            ELSE /\ dbQ' = Append(dbQ, c) /\ UNCHANGED mockQ

WorkerGet ==
    /\ getQ # <<>>
    /\ Submit(Head(getQ))
    /\ getQ' = Tail(getQ)
    /\ UNCHANGED <<cache, mock, db, ghost, inflight, task, setQ, responded,
                   unblockQ, setSince, waiters>>

WorkerSet ==
    /\ setQ # <<>>
    /\ Submit(Head(setQ))
    /\ setQ' = Tail(setQ)
    /\ UNCHANGED <<cache, mock, db, ghost, inflight, task, getQ, responded,
                   unblockQ, setSince, waiters>>

(***************************************************************************)
(* A backend serves a request.  A GET of a missing item fails ("Item not   *)
(* found" / "key not found in image"); a served SET installs the item.     *)
(* Only DynamoDB calls fail transiently.                                   *)
(***************************************************************************)
Outcome(c, b) ==
    LET t == task[c]
        failed == IF Transient /\ b = "real" THEN {[t EXCEPT !.status = "ERR"]} ELSE {}
    IN  IF t.cb = "storage"
        THEN {[t EXCEPT !.status = IF db[b][t.key] = NoItem THEN "ERR" ELSE "OK",
                        !.val = db[b][t.key]]} \cup failed
        ELSE {[t EXCEPT !.status = "OK"]} \cup failed

\* A served request's effect on the backend b.
Apply(b, r) == IF r.cb = "set" /\ r.status = "OK"
               THEN [db EXCEPT ![b][r.key] = r.val] ELSE db

\* process_mock_dynamo, run by the storage loop only while
\* config::dynamo::mock is set: the head of mock_dynamo_queue is answered
\* from mock_image and its client unblocked in the same step.
MockServe ==
    /\ mock /\ mockQ # <<>>
    /\ \E r \in Outcome(Head(mockQ), "mock") :
          /\ task' = [task EXCEPT ![Head(mockQ)] = r]
          /\ db' = Apply("mock", r)
    /\ mockQ' = Tail(mockQ)
    /\ unblockQ' = Append(unblockQ, [client |-> Head(mockQ), dep |-> FALSE, val |-> V0])
    /\ UNCHANGED <<cache, mock, ghost, inflight, getQ, setQ, dbQ, responded, setSince, waiters>>

\* DynamoDB serves concurrent requests in any order; the SDK callback that
\* unblocks the client runs later.
DbServe(c) ==
    /\ c \in ToSet(dbQ)
    /\ \E r \in Outcome(c, "real") :
          /\ task' = [task EXCEPT ![c] = r]
          /\ db' = Apply("real", r)
    /\ dbQ' = Remove(dbQ, c)
    /\ responded' = responded \cup {c}
    /\ UNCHANGED <<cache, mock, ghost, inflight, getQ, setQ, mockQ, unblockQ, setSince, waiters>>

\* the SDK's callback thread: RedisModule_UnblockClient(t->client, t)
Callback(c) ==
    /\ c \in responded
    /\ responded' = responded \ {c}
    /\ unblockQ' = Append(unblockQ, [client |-> c, dep |-> FALSE, val |-> V0])
    /\ UNCHANGED <<cache, mock, db, ghost, inflight, task, getQ, setQ, mockQ, dbQ,
                   setSince, waiters>>

(***************************************************************************)
(* Reply callbacks, run on the command thread in unblock order.           *)
(***************************************************************************)
\* storage_callback's cache update: only a successful, still-registered GET
\* writes the value (and its size into the ghost cache)
\* (mutant: fill that ignores end_inflight's verdict)
fill_cache_ignoring_registry(t, permit) ==
    IF t.status = "OK"
    THEN /\ cache' = [cache EXCEPT ![t.key] = t.val]
         /\ ghost' = [ghost EXCEPT ![t.key] = t.val]
    ELSE UNCHANGED <<cache, ghost, waiters>>
\* (mutant: fill without checking the task status)
fill_cache_with_errors(t, permit) ==
    IF permit THEN /\ cache' = [cache EXCEPT ![t.key] = t.val]
                   /\ ghost' = [ghost EXCEPT ![t.key] = t.val]
              ELSE UNCHANGED <<cache, ghost, waiters>>
fill_cache(t, permit) ==
    IF t.status = "OK" /\ permit
    THEN /\ cache' = [cache EXCEPT ![t.key] = t.val]
         /\ ghost' = [ghost EXCEPT ![t.key] = t.val]
    ELSE UNCHANGED <<cache, ghost, waiters>>

\* storage_callback unblocks every dependent: nullptr on error, else a copy
\* (mutant: the error path returns before waking the dependents)
wake_deps_only_ok(t) ==
    IF t.status = "ERR" THEN <<>>
    ELSE [i \in 1..Len(t.deps) |-> [client |-> t.deps[i], dep |-> TRUE,
                                    val |-> t.val]]
wake_deps(t) ==
    [i \in 1..Len(t.deps) |->
        [client |-> t.deps[i], dep |-> TRUE,
         val |-> IF t.status = "ERR" THEN Nil ELSE t.val]]

\* get::storage_callback: end_inflight first, then the error / fill paths
StorageCallback ==
    LET c == Head(unblockQ).client
        t == task[c]
    IN
    /\ unblockQ # <<>> /\ ~Head(unblockQ).dep /\ t.cb = "storage"
    /\ inflight' = end_inflight(t.key, c)
    /\ fill_cache(t, end_inflight_permits(t.key, c))
    /\ unblockQ' = Tail(unblockQ) \o wake_deps(t)
    /\ task' = [task EXCEPT ![c] = IdleTask]
    /\ UNCHANGED <<mock, db, getQ, setQ, mockQ, dbQ, responded, setSince, waiters>>

\* get::inflight_callback: reply the copied value or the error; no cache update
InflightCallback ==
    LET u == Head(unblockQ) IN
    /\ unblockQ # <<>> /\ u.dep
    /\ unblockQ' = Tail(unblockQ)
    /\ task' = [task EXCEPT ![u.client] = IdleTask]
    /\ UNCHANGED <<cache, mock, db, ghost, inflight, getQ, setQ, mockQ, dbQ, responded,
                   setSince, waiters>>

\* set::reply_callback: on failure delete the cached key
SetReplyCallback ==
    LET u == Head(unblockQ)
        t == task[u.client]
    IN
    /\ unblockQ # <<>> /\ ~u.dep /\ t.cb = "set"
    /\ cache' = IF t.status = "ERR" THEN [cache EXCEPT ![t.key] = Absent]
                                    ELSE cache
    /\ unblockQ' = Tail(unblockQ)
    /\ task' = [task EXCEPT ![u.client] = IdleTask]
    /\ UNCHANGED <<mock, db, ghost, inflight, getQ, setQ, mockQ, dbQ, responded, setSince, waiters>>

(***************************************************************************)
(* The test barrier (barrier.cpp).  WAIT blocks the client and appends its *)
(* handle to waiting_clients; SIGNAL unblocks every handle, then clears    *)
(* the vector, and replies at once; wait_callback replies OK on the        *)
(* command thread.  SIGNAL comes from a driver client that is not blocked. *)
(* COUNT only replies waiting_clients.size() and changes nothing.          *)
(***************************************************************************)
BarrierWait(c) ==
    /\ Barrier /\ Idle(c)
    /\ task' = [task EXCEPT ![c] = [IdleTask EXCEPT !.cb = "barrier"]]
    /\ waiters' = Append(waiters, c)
    /\ UNCHANGED <<cache, mock, db, ghost, inflight, getQ, setQ, mockQ, dbQ,
                   responded, unblockQ, setSince>>

\* RedisModule_UnblockClient on each handle, in vector order
UnblockAll(w) == [i \in 1..Len(w) |-> [client |-> w[i], dep |-> FALSE, val |-> V0]]

BarrierSignal ==
    /\ Barrier
    /\ unblockQ' = unblockQ \o UnblockAll(waiters)
    /\ waiters' = <<>>
    /\ UNCHANGED <<cache, mock, db, ghost, inflight, task, getQ, setQ, mockQ,
                   dbQ, responded, setSince>>

\* barrier::wait_callback
BarrierReplyCallback ==
    LET u == Head(unblockQ) IN
    /\ unblockQ # <<>> /\ ~u.dep /\ task[u.client].cb = "barrier"
    /\ unblockQ' = Tail(unblockQ)
    /\ task' = [task EXCEPT ![u.client] = IdleTask]
    /\ UNCHANGED <<cache, mock, db, ghost, inflight, getQ, setQ, mockQ, dbQ,
                   responded, setSince, waiters>>

(***************************************************************************)
(* Specification                                                           *)
(***************************************************************************)
\* Which keys have an item: in both backends alike (an image taken from the
\* table).
InitStores == {[b \in Backends |-> d] : d \in [Keys -> {V0, NoItem}]}

Init ==
    /\ cache = [k \in Keys |-> Absent]
    /\ mock = Mock
    /\ db \in InitStores
    /\ ghost = [k \in Keys |-> Untracked]
    /\ inflight = [k \in Keys |-> NoTask]
    /\ task = [c \in Clients |-> IdleTask]
    /\ getQ = <<>> /\ setQ = <<>> /\ mockQ = <<>> /\ dbQ = <<>>
    /\ responded = {}
    /\ unblockQ = <<>>
    /\ setSince = [c \in Clients |-> FALSE]
    /\ waiters = <<>>

CommandThread ==
    \/ \E c \in Clients, k \in Keys :
          \/ Get(c, k)
          \/ \E v \in Vals : Set(c, k, v) \/ SetC(c, k, v)
    \/ \E c \in Clients : Load(c) \/ BarrierWait(c)
    \/ BarrierSignal
    \/ StorageCallback \/ InflightCallback \/ SetReplyCallback
    \/ BarrierReplyCallback

Next ==
    \/ CommandThread
    \/ \E k \in Keys : Evict(k)
    \/ WorkerGet \/ WorkerSet \/ MockServe
    \/ \E c \in Clients : DbServe(c) \/ Callback(c)

\* The storage thread loops while running and the rate limiters refill every
\* frame (rate > 0); DynamoDB and the SDK eventually answer; Redis handles
\* unblocked clients on every event-loop iteration.  Clients, eviction
\* and HOPPER.BARRIER.SIGNAL get no fairness.
Fairness ==
    /\ WF_vars(WorkerGet) /\ WF_vars(WorkerSet) /\ WF_vars(MockServe)
    /\ \A c \in Clients : WF_vars(DbServe(c)) /\ WF_vars(Callback(c))
    /\ WF_vars(StorageCallback \/ InflightCallback \/ SetReplyCallback
               \/ BarrierReplyCallback)

Spec == Init /\ [][Next]_vars /\ Fairness

(***************************************************************************)
(* Properties                                                              *)
(***************************************************************************)
TypeOK ==
    /\ cache \in [Keys -> AllVals \cup {Absent}]
    /\ mock \in BOOLEAN
    /\ db \in [Backends -> [Keys -> AllVals \cup {NoItem}]]
    /\ ghost \in [Keys -> AllVals \cup {ZeroSize, Untracked}]
    /\ inflight \in [Keys -> Clients \cup {NoTask}]
    /\ task \in [Clients -> Task]
    /\ getQ \in Seq(Clients) /\ setQ \in Seq(Clients)
    /\ mockQ \in Seq(Clients) /\ dbQ \in Seq(Clients)
    /\ responded \subseteq Clients
    /\ unblockQ \in Seq(Unblock)
    /\ setSince \in [Clients -> BOOLEAN]
    /\ waiters \in Seq(Clients)

\* no client is blocked on a command for k: every GET, SET and dependent of
\* k has been answered
Quiescent(k) == \A c \in Clients : task[c].cb \in {"none", "barrier"} \/ task[c].key # k

\* Eventual consistency claimed by set::reply_callback ("at least guarantees
\* eventual consistency"): once every command on a key has been answered,
\* the cached value, if any, is the one the backend in use holds.
CacheCoherent ==
    \A k \in Keys : Quiescent(k) => cache[k] \in {Absent, db[Backend][k]}

\* The GET completion callback writes its fetched value into the cache only
\* if no HOPPER.SET of that key ran on the command thread since the GET
\* began (the invalidate_inflight / end_inflight contract of inflight.h).
NoStaleFill ==
    [][\A c \in Clients :
          LET k == task[c].key IN
          (/\ task[c].cb = "storage" /\ task'[c].cb = "none"
           /\ cache'[k] # cache[k] /\ cache'[k] = task[c].val)
          => ~setSince[c]]_vars

\* Inflight dedup: a GET miss that no SET has overtaken is the one the
\* registry points at, so concurrent misses of a key share a single
\* upstream read (at most one live fetch per key).
SingleLiveFetch ==
    \A c \in Clients :
        (task[c].cb = "storage" /\ ~setSince[c]) => inflight[task[c].key] = c

\* The registry never holds a task that was already freed (delete t in
\* free_storage_callback_data): add_dependent would write freed memory.
NoDanglingInflight ==
    \A k \in Keys : inflight[k] # NoTask =>
        /\ task[inflight[k]].cb = "storage"
        /\ task[inflight[k]].key = k

\* Every blocked client is eventually unblocked and answered: the GET owner,
\* each of its dependents (also when the GET fails or was invalidated), and
\* every SET, also while barrier waiters share the unblock queue.  A barrier
\* waiter waits for a SIGNAL, which nothing forces.
EveryRequestAnswered ==
    \A c \in Clients : task[c].cb \notin {"none", "barrier"} ~> task[c].cb = "none"
=============================================================================
