--------------------------- MODULE GhostCheckpoint ---------------------------
(***************************************************************************)
(* The ghost cache's checkpoint file dump.ghc (redis_module/ghost.cpp) and *)
(* the places that read it: ghost::init at module load (module.cpp) and   *)
(* after HOPPER.CONFIG.SET ghost.range (config.cpp), and HOPPER.GHOST.LOAD. *)
(* The Redis process may crash at any time, also in the middle of          *)
(* HOPPER.GHOST.SAVE; a restart loads the module again.                    *)
(*                                                                         *)
(* The sampled LRU is the gcache library, outside this repository; it is  *)
(* modelled from spec.md 4.4 as a sequence of sampled key hashes, least    *)
(* recently used first, holding at most `cap` of them.  kv sizes travel    *)
(* with their keys unchanged and are left out.  The file is a sequence of *)
(* units: the 4-byte magic "hare", the 4-byte hash of "hare", then one     *)
(* 8-byte record per key.  A byte-level cut inside a unit reads as that    *)
(* unit missing: a short magic or hash fails validation (-2) and a short   *)
(* record ends the while (f.read(...)) loop.                               *)
(***************************************************************************)
EXTENDS Naturals, Sequences, SequencesExt

CONSTANTS Keys,        \* sampled key hashes
          Caps,        \* ghost capacities a ghost.range may configure
          DefaultCap,  \* the capacity of the default ghost.range
          NoFile,      \* dump.ghc does not exist
          WriteFaults  \* f.write may fail (disk full); save ignores it

ASSUME DefaultCap \in Caps /\ WriteFaults \in BOOLEAN

VARIABLES status,  \* "up", or "down" (the Redis process is not running)
          cap,     \* the ghost cache's capacity (config::ghost range)
          ghost,   \* the sampled LRU, least recently used first
          file,    \* dump.ghc on disk
          dumped,  \* history: the ghost as the last HOPPER.GHOST.SAVE saw it
          op       \* history: the last step taken

vars == <<status, cap, ghost, file, dumped, op>>

Units == {"magic", "hash"} \cup Keys

-----------------------------------------------------------------------------
(* gcache (spec-modelled): access moves a key to the most recently used   *)
(* end, inserting it if absent and evicting the least recently used key   *)
(* past the capacity.                                                      *)
Access(g, k, c) ==
    LET h == Append(Remove(g, k), k)
    IN  IF Len(h) > c THEN Tail(h) ELSE h

\* (mutant: for_each_lru is walked from the most recently used end)
Dump_mru_first(g) == <<"magic", "hash">> \o Reverse(g)

\* save(): the header, then one record per entry in LRU order.
Dump(g) == <<"magic", "hash">> \o g

\* What an interrupted or short write leaves on disk: the std::ofstream
\* truncated the file on open, and only a prefix of the bytes got there.
Torn(g) == Prefixes(Dump(g)) \ {Dump(g)}

\* load()'s validation: -1 without a file, -2 when the magic or the hash
\* cannot be read back, else 0.
LoadRc(f) ==
    CASE f = NoFile                            -> -1
      [] Len(f) < 1 \/ f[1] # "magic"          -> -2
      [] Len(f) < 2 \/ f[2] # "hash"           -> -2
      [] OTHER                                 -> 0

\* The records, replayed in file order with AccessMode::NOOP.
Replay(g, f, c) ==
    IF LoadRc(f) = 0
    THEN FoldLeft(LAMBDA h, k : Access(h, k, c), g, SubSeq(f, 3, Len(f)))
    ELSE g

-----------------------------------------------------------------------------
\* Module load: dump.ghc is absent or left whole by an earlier run.
Init ==
    /\ status = "up"
    /\ cap = DefaultCap
    /\ \/ file = NoFile /\ dumped = <<>>
       \/ \E k \in Keys : dumped = <<k>> /\ file = Dump(dumped)
    /\ ghost = Replay(<<>>, file, DefaultCap)
    /\ op = "init"

\* access_key from GET, SET or SETC (the mode only matters to the counters).
AccessKey(k) ==
    /\ status = "up"
    /\ ghost' = Access(ghost, k, cap)
    /\ op' = "access"
    /\ UNCHANGED <<status, cap, file, dumped>>

\* HOPPER.GHOST.SAVE: write failures are not checked, so a short file is
\* answered "OK" like a whole one.
GhostSave ==
    /\ status = "up"
    /\ file' \in IF WriteFaults THEN Prefixes(Dump(ghost)) ELSE {Dump(ghost)}
    /\ dumped' = ghost
    /\ op' = "save"
    /\ UNCHANGED <<status, cap, ghost>>

\* HOPPER.GHOST.LOAD: replays the file into the live ghost; -1 and -2 are
\* error replies and leave it alone.
GhostLoad ==
    /\ status = "up"
    /\ ghost' = Replay(ghost, file, cap)
    /\ op' = "load"
    /\ UNCHANGED <<status, cap, file, dumped>>

\* (mutant: init() does not destroy() the old ghost before loading)
GhostInit_keep_ghost(c) ==
    /\ cap' = c
    /\ IF LoadRc(file) = -2
       THEN /\ status' = "down" /\ ghost' = <<>>
       ELSE /\ status' = "up" /\ ghost' = Replay(ghost, file, c)
    /\ op' = "init"
    /\ UNCHANGED <<file, dumped>>

\* ghost::init with capacity c: a new empty ghost, then load(); rc -2
\* throws std::runtime_error, which no caller catches: Redis terminates.
GhostInit(c) ==
    /\ cap' = c
    /\ IF LoadRc(file) = -2
       THEN /\ status' = "down" /\ ghost' = <<>>
       ELSE /\ status' = "up" /\ ghost' = Replay(<<>>, file, c)
    /\ op' = "init"
    /\ UNCHANGED <<file, dumped>>

\* HOPPER.CONFIG.SET ghost.range: re-initialises the ghost at a new range.
ConfigGhostRange(c) == status = "up" /\ GhostInit(c)

\* RedisModule_OnLoad after a restart: the configuration is back at its
\* defaults, and ghost::init runs.
Restart == status = "down" /\ GhostInit(DefaultCap)

\* The process dies; the ghost cache lived in its memory.
Crash ==
    /\ status = "up"
    /\ status' = "down" /\ ghost' = <<>>
    /\ op' = "crash"
    /\ UNCHANGED <<cap, file, dumped>>

\* The process dies inside HOPPER.GHOST.SAVE, after the file was opened.
CrashInSave ==
    /\ status = "up"
    /\ file' \in Torn(ghost)
    /\ dumped' = ghost
    /\ status' = "down" /\ ghost' = <<>>
    /\ op' = "crash"
    /\ UNCHANGED cap

Next ==
    \/ \E k \in Keys : AccessKey(k)
    \/ GhostSave \/ GhostLoad
    \/ \E c \in Caps : ConfigGhostRange(c)
    \/ Restart \/ Crash \/ CrashInSave

\* Redis is restarted after it dies (a supervisor, or the operator).
Spec == Init /\ [][Next]_vars /\ WF_vars(Restart)

-----------------------------------------------------------------------------
TypeOK ==
    /\ status \in {"up", "down"}
    /\ cap \in Caps
    /\ ghost \in BoundedSeq(Keys, cap) /\ IsInjective(ghost)
    /\ file \in {NoFile} \cup BoundedSeq(Units, 2 + Cardinality(Keys))
    /\ dumped \in BoundedSeq(Keys, Cardinality(Keys))
    /\ op \in {"init", "access", "save", "load", "crash"}

\* The hottest c keys of g, in their order.
Hottest(g, c) == IF Len(g) <= c THEN g ELSE SubSeq(g, Len(g) - c + 1, Len(g))

\* A ghost::init (module load after a crash, or a new ghost.range) from a
\* whole dump.ghc restores the saved LRU: the c most recently used keys of
\* the ghost as it was saved, in the same recency order.  A smaller range
\* keeps the hottest keys, which is what for_each_lru writing least recent
\* first and load replaying in file order achieve together.
RecoveryKeepsHottest ==
    [][op' = "init" /\ file = Dump(dumped) => ghost' = Hottest(dumped, cap')]_vars

\* The comment in save() accepts a corrupted dump.ghc ("we can tolerate the
\* corruption"): once it has died, Redis comes back up.
RestartRecovers == status = "down" ~> status = "up"

=============================================================================
