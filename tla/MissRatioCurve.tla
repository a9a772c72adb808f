--------------------------- MODULE MissRatioCurve ---------------------------
(***************************************************************************)
(* The miss ratio curve of the HARE allocator (alloc/engine/mrc.h): anchor *)
(* cache sizes `ticks` with their miss ratios `mrs`, looked up with linear *)
(* interpolation, mr(0) = 1 below the first anchor, and the conservative   *)
(* out-of-range estimate above the last one.                               *)
(*                                                                         *)
(* Miss ratios are fixed point: MRScale stands for 1.0.  The C++ code      *)
(* divides in double; here the interpolated value is the floor of the     *)
(* exact rational one, which keeps every comparison the allocator makes   *)
(* between two curve values within one unit of the real one.              *)
(***************************************************************************)
EXTENDS Naturals, Sequences, SequencesExt

CONSTANT MRScale            \* the fixed-point value of a miss ratio of 1.0

ASSUME MRScale \in Nat \ {0}

\* A curve: the two vectors passed to the MissRatioCurve constructor.
Curve(Ticks, MRs) == [ticks |-> Ticks, mrs |-> MRs]

\* (mutant: each anchor weighted by its own distance instead of the other's)
interpolate_swapped(l_val, r_val, l_dist, r_dist) ==
    (l_val * l_dist + r_val * r_dist) \div (l_dist + r_dist)

\* interpolate(l_val, r_val, l_dist, r_dist): the value at distance l_dist
\* from the left anchor and r_dist from the right one.  The constexpr
\* disable_interpolation_near_inf is false, so its early return is dead code.
interpolate(l_val, r_val, l_dist, r_dist) ==
    (l_val * r_dist + r_val * l_dist) \div (l_dist + r_dist)

\* std::lower_bound over the ticks: the first anchor not below the size.
lower_bound(ticks, size) == SelectInSeq(ticks, LAMBDA t : t >= size)

\* get_miss_ratio_const with conservative_estimation_if_out_of_range = true.
get_miss_ratio_const(c, size) ==
    LET n == Len(c.ticks)
        i == lower_bound(c.ticks, size)
    IN  CASE size > c.ticks[n]  -> c.mrs[n]
          [] size < c.ticks[1]  -> interpolate(MRScale, c.mrs[1], size,
                                               c.ticks[1] - size)
          [] size = c.ticks[i]  -> c.mrs[i]
          [] OTHER              -> interpolate(c.mrs[i-1], c.mrs[i],
                                               size - c.ticks[i-1],
                                               c.ticks[i] - size)

\* get_miss_ratio memoises get_miss_ratio_const per size in miss_ratio_map;
\* the memo never changes a result, so the lookup is the same function.
get_miss_ratio(c, size) == get_miss_ratio_const(c, size)

\* check_sanity: non-empty, equal lengths, ticks within [front, back] and
\* non-decreasing, miss ratios within [0, 1] and non-increasing.
RECURSIVE SaneFrom(_, _, _, _)
SaneFrom(c, i, min_tick, max_mr) ==
    i > Len(c.ticks)
    \/ /\ c.ticks[i] >= min_tick /\ c.ticks[i] <= c.ticks[Len(c.ticks)]
       /\ c.mrs[i] >= 0 /\ c.mrs[i] <= max_mr
       /\ SaneFrom(c, i + 1, c.ticks[i], c.mrs[i])

check_sanity(c) ==
    /\ c.ticks # <<>>
    /\ Len(c.ticks) = Len(c.mrs)
    /\ SaneFrom(c, 1, c.ticks[1], MRScale)

=============================================================================
