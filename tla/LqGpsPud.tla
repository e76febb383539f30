------------------------------ MODULE LqGpsPud ------------------------------
(***************************************************************************)
(* The position cache of the "etx_gps_pud" link-quality plugin             *)
(* (src/src/lq_plugin_gps_pud.c).                                          *)
(*                                                                         *)
(* node_position_tree maps a neighbour's main address to the last GPS      *)
(* record accepted for it, together with the distance fields that          *)
(* lq_update_distances derives from it and the multiplier that             *)
(* lq_calc_dist_multiplier caches.  local_record is this node's own GPS    *)
(* record.  Records arrive from the PUD plugin in any order, duplicated or *)
(* not at all: every report is an input chosen from a small set.           *)
(*                                                                         *)
(* Abstractions.  A GPS fix (lat, lon, elv) is one element of Pos and      *)
(* distance_lineofsight is the constant operator Distance; the fields      *)
(* speed, track and hdop are never read by this code and are left out.     *)
(* The multiplier alpha*expf(delta_d/delta_t*beta) is represented by the   *)
(* pair (delta_d, delta_t) it is computed from; a division by a zero       *)
(* delta_t yields the non-finite float NonFinite.  The uint32_t time       *)
(* fields keep their width (TimeBits) and wrap modulo 2^TimeBits.          *)
(***************************************************************************)
EXTENDS Integers, FiniteSets, TLC

CONSTANTS
    Addr,           \* IP addresses that can appear in a PUD report
    Self,           \* olsr_cnf->main_addr
    MidMain,        \* the MID table: address -> its main address
    Pos,            \* GPS fixes
    Origin,         \* the fix {lat 0, lon 0, elv 0} of the static initialiser
    Distance(_, _), \* distance_lineofsight, as a whole number of metres
    TimeBits,       \* width of the uint32_t time fields
    MinReportTime,  \* smallest timestamp a report carries
    MaxReportTime   \* largest timestamp a report carries

ASSUME /\ Self \in Addr
       /\ MidMain \in [Addr -> Addr]
       /\ Origin \in Pos
       /\ TimeBits \in Nat \ {0}
       /\ 0 <= MinReportTime /\ MinReportTime <= MaxReportTime
       /\ MaxReportTime < 2^TimeBits

VARIABLES
    node_position_tree, \* main address -> lq_node_position
    local_record,       \* our own lq_gps_record
    newest_reported     \* history: main address -> first delivered record
                        \* among those with the greatest timestamp

vars == <<node_position_tree, local_record, newest_reported>>

-----------------------------------------------------------------------------
(* uint32_t arithmetic at width TimeBits. *)
U32 == 2^TimeBits
Times == 0 .. U32 - 1
U32Add(a, b) == (a + b) % U32
U32Sub(a, b) == (a - b) % U32

GpsRecord == [time : Times, pos : Pos]
Reports == [time : MinReportTime .. MaxReportTime, pos : Pos]

(* The value of lq_multiplier: the memset 0.0, alpha*expf(dd/dt*beta) for a *)
(* finite quotient, or the inf/NaN that a zero delta_t produces.           *)
ZeroMultiplier == [kind |-> "zero"]
NonFinite == [kind |-> "nonfinite"]
MultiplierOf(dd, dt) ==
    IF dt = 0 THEN NonFinite ELSE [kind |-> "exp", dd |-> dd, dt |-> dt]

(* mid_lookup_main_addr, falling back to the address itself when the MID  *)
(* table does not know it.                                                 *)
MainAddr(a) == MidMain[a]
MainAddrs == {MainAddr(a) : a \in Addr}

(* A freshly allocated, zeroed lq_node_position holding record r. *)
NewPosition(r) ==
    [gps_record |-> r, last_update_time |-> 0, distance |-> 0, delta_d |-> 0,
     delta_t |-> 0, last_computed_time |-> 0, lq_multiplier |-> ZeroMultiplier]

(* Mutant: the update forgets to advance last_update_time. *)
lq_update_distances_keeps_time(pos, local) ==
    LET newest == IF pos.gps_record.time > local.time
                  THEN pos.gps_record.time ELSE local.time
        d      == Distance(local.pos, pos.gps_record.pos)
    IN  IF U32Add(pos.last_update_time, 1) > newest
        THEN pos
        ELSE [pos EXCEPT !.delta_t = U32Sub(newest, pos.last_update_time),
                         !.distance = d,
                         !.delta_d = d - pos.distance]

(* lq_update_distances: recompute the distance to the node when the newer *)
(* of its record and ours is at least one time unit past the last update. *)
lq_update_distances(pos, local) ==
    LET newest == IF pos.gps_record.time > local.time
                  THEN pos.gps_record.time ELSE local.time
        d      == Distance(local.pos, pos.gps_record.pos)
    IN  IF U32Add(pos.last_update_time, 1) > newest
        THEN pos
        ELSE [pos EXCEPT !.delta_t = U32Sub(newest, pos.last_update_time),
                         !.last_update_time = newest,
                         !.distance = d,
                         !.delta_d = d - pos.distance]

-----------------------------------------------------------------------------
(* lq_initialize_gps_pud: avl_init leaves the tree empty (the comparator *)
(* of the IP version only orders it; the distance log it opens is output). *)
lq_initialize_gps_pud ==
    node_position_tree = [k \in {} |-> NewPosition([time |-> 0, pos |-> Origin])]

Init ==
    /\ lq_initialize_gps_pud
    /\ local_record = [time |-> 0, pos |-> Origin]
    /\ newest_reported = [k \in {} |-> local_record]

(* Mutant: the entry is keyed by the reported address, not its main one. *)
CreatePosition_raw_addr(a, r) ==
    /\ a \notin DOMAIN node_position_tree
    /\ MainAddr(a) # Self
    /\ node_position_tree' =
           node_position_tree @@ (a :> lq_update_distances(NewPosition(r), local_record))

(* Mutant: a record with the stored timestamp is accepted ("+ 1" lost). *)
RefreshPosition_same_time(a, r) ==
    LET k == MainAddr(a) IN
    /\ k \in DOMAIN node_position_tree
    /\ ~(r.time < node_position_tree[k].gps_record.time)
    /\ node_position_tree' =
           [node_position_tree EXCEPT ![k] =
               lq_update_distances([@ EXCEPT !.gps_record = r], local_record)]

(* lq_update_gps_record_pud(addr, r): a report for an unknown node creates *)
(* its entry unless it is ourselves; a known node's entry takes only a     *)
(* strictly newer record.  Either way the distances are then updated.      *)
CreatePosition(a, r) ==
    LET k == MainAddr(a) IN
    /\ k \notin DOMAIN node_position_tree
    /\ k # Self
    /\ node_position_tree' =
           node_position_tree @@ (k :> lq_update_distances(NewPosition(r), local_record))

RefreshPosition(a, r) ==
    LET k == MainAddr(a) IN
    /\ k \in DOMAIN node_position_tree
    /\ ~(r.time < U32Add(node_position_tree[k].gps_record.time, 1))
    /\ node_position_tree' =
           [node_position_tree EXCEPT ![k] =
               lq_update_distances([@ EXCEPT !.gps_record = r], local_record)]

DiscardPosition(a, r) ==
    LET k == MainAddr(a) IN
    /\ \/ k \notin DOMAIN node_position_tree /\ k = Self
       \/ /\ k \in DOMAIN node_position_tree
          /\ r.time < U32Add(node_position_tree[k].gps_record.time, 1)
    /\ UNCHANGED node_position_tree

lq_update_gps_record_pud(a, r) ==
    /\ \/ CreatePosition(a, r)
       \/ RefreshPosition(a, r)
       \/ DiscardPosition(a, r)
    /\ newest_reported' =
           IF MainAddr(a) \notin DOMAIN newest_reported
              \/ r.time > newest_reported[MainAddr(a)].time
           THEN (MainAddr(a) :> r) @@ newest_reported
           ELSE newest_reported
    /\ UNCHANGED local_record

(* Mutant: the own record is stored without walking the tree. *)
lq_update_local_record_pud_no_walk(r) ==
    /\ ~(r.time < U32Add(local_record.time, 1))
    /\ local_record' = r
    /\ UNCHANGED <<node_position_tree, newest_reported>>

(* Mutant: an own record with the stored timestamp is taken. *)
lq_update_local_record_pud_same_time(r) ==
    /\ ~(r.time < local_record.time)
    /\ local_record' = r
    /\ node_position_tree' =
           [k \in DOMAIN node_position_tree |-> lq_update_distances(node_position_tree[k], r)]
    /\ UNCHANGED newest_reported

(* lq_update_local_record_pud(r): take a strictly newer own record, then  *)
(* update the distance of every node in the tree.                         *)
lq_update_local_record_pud(r) ==
    /\ ~(r.time < U32Add(local_record.time, 1))
    /\ local_record' = r
    /\ node_position_tree' =
           [k \in DOMAIN node_position_tree |-> lq_update_distances(node_position_tree[k], r)]
    /\ UNCHANGED newest_reported

(* lq_calc_dist_multiplier(pos) for an entry: recompute the cached        *)
(* multiplier when the distances were updated since it was last computed; *)
(* the multiplier returned is the lq_multiplier of the result.            *)
CalcDistMultiplier(pos) ==
    IF pos.last_update_time # pos.last_computed_time
    THEN [pos EXCEPT !.lq_multiplier = MultiplierOf(pos.delta_d, pos.delta_t),
                     !.last_computed_time = pos.last_update_time]
    ELSE pos

(* lq_calc_dist_multiplier reached from lq_calc_cost_gps_pud for a link   *)
(* or TC edge whose address has an entry, when it changes the entry.      *)
lq_calc_dist_multiplier(k) ==
    /\ node_position_tree[k].last_update_time # node_position_tree[k].last_computed_time
    /\ node_position_tree' =
           [node_position_tree EXCEPT ![k] = CalcDistMultiplier(@)]
    /\ UNCHANGED <<local_record, newest_reported>>

Next ==
    \/ \E a \in Addr, r \in Reports : lq_update_gps_record_pud(a, r)
    \/ \E r \in Reports : lq_update_local_record_pud(r)
    \/ \E k \in DOMAIN node_position_tree : lq_calc_dist_multiplier(k)

Spec == Init /\ [][Next]_vars

-----------------------------------------------------------------------------
NodePosition ==
    [gps_record : GpsRecord, last_update_time : Times, distance : Int,
     delta_d : Int, delta_t : Times, last_computed_time : Times,
     lq_multiplier : {ZeroMultiplier, NonFinite}
                     \cup [kind : {"exp"}, dd : Int, dt : Times \ {0}]]

TypeOK ==
    /\ DOMAIN node_position_tree \subseteq MainAddrs
    /\ \A k \in DOMAIN node_position_tree : node_position_tree[k] \in NodePosition
    /\ local_record \in GpsRecord
    /\ DOMAIN newest_reported \subseteq MainAddrs
    /\ \A k \in DOMAIN newest_reported : newest_reported[k] \in GpsRecord

(* Whatever order, duplication or loss the reports suffered, the tree     *)
(* holds an entry exactly for every other node reported so far, keyed by  *)
(* its MID main address, and that entry carries the newest record         *)
(* delivered for it; of several records with that timestamp, the first   *)
(* one delivered (lq_update_gps_record_pud, lines 176-203).               *)
CacheHoldsLatestReport ==
    /\ DOMAIN node_position_tree = DOMAIN newest_reported \ {Self}
    /\ \A k \in DOMAIN node_position_tree :
          node_position_tree[k].gps_record = newest_reported[k]

(* A node's distance differs from the distance between the current        *)
(* positions only while neither record is a time unit newer than the last *)
(* distance update: a new own record refreshes every entry (lines 213-219)*)
(* and a new remote record refreshes its own entry (lines 146-156).       *)
DistanceStaleOnlyWithinTimeUnit ==
    \A k \in DOMAIN node_position_tree :
       LET pos == node_position_tree[k] IN
       pos.distance # Distance(local_record.pos, pos.gps_record.pos)
          => /\ pos.last_update_time >= pos.gps_record.time
             /\ pos.last_update_time >= local_record.time

(* Whenever the multiplier cache says it is current (last_computed_time  *)
(* equals last_update_time), delta_t is non-zero and the cached          *)
(* multiplier is the finite value of the entry's present delta_d and      *)
(* delta_t (lines 268-277, 152-156).                                      *)
MultiplierMatchesDistances ==
    \A k \in DOMAIN node_position_tree :
       LET pos == node_position_tree[k] IN
       pos.last_computed_time = pos.last_update_time
          => /\ pos.delta_t # 0
             /\ pos.lq_multiplier = MultiplierOf(pos.delta_d, pos.delta_t)

(* The cache as the abstract store of spec section 4.3: the record of     *)
(* every entry, and the own record.                                       *)
Abstract == INSTANCE PositionStore WITH
    Key <- MainAddrs,
    Record <- GpsRecord,
    InitialOwn <- [time |-> 0, pos |-> Origin],
    store <- [k \in DOMAIN node_position_tree |-> node_position_tree[k].gps_record],
    own <- local_record

(* lq_update_gps_record_pud and lq_update_local_record_pud implement the  *)
(* store: each call either is a step of it (an entry created or replaced  *)
(* by a strictly newer record, the own record replaced by a strictly      *)
(* newer one, lines 176-219) or leaves the records alone, and no step of  *)
(* lq_calc_dist_multiplier touches them.  This fails for the "+ 1" of     *)
(* lines 198 and 213 once a timestamp reaches the wrap value.             *)
RefinesPositionStore == Abstract!Spec
=============================================================================
