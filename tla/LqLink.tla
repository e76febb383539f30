-------------------------------- MODULE LqLink --------------------------------
(***************************************************************************)
(* The "etx_gps_pud" handler (src/src/lq_plugin_gps_pud.c) on node Me's    *)
(* link to its neighbour Peer: the link-quality record, aged by            *)
(* lq_packet_loss_worker_gps_pud with quickstart, the HELLO pair exchanged *)
(* through lq_serialize_hello_lq_pair_gps_pud,                             *)
(* lq_deserialize_hello_lq_pair_gps_pud and                                *)
(* lq_memorize_foreign_hello_gps_pud, and lq_clear_gps_pud, composed with  *)
(* Me's position cache (module LqGpsPud).  The two meet in                 *)
(* lq_calc_cost_gps_pud, which the worker calls: it looks up the cache     *)
(* entry of the address the record memorized from the peer's HELLO pair   *)
(* and lets lq_calc_dist_multiplier refresh that entry's cached multiplier.*)
(* The peer runs the same aging, so the lq its pair carries is any value a *)
(* record reaches in at most MaxOutcomes outcomes after a clear (PeerLqs). *)
(* The TC view (lq_copy_link2tc_gps_pud, a plain copy of the record) is   *)
(* left out.                                                               *)
(*                                                                         *)
(* Abstractions.  lq and nlq are exact rationals [n, d] in lowest terms    *)
(* (float rounding is not modelled); the aging constants of the olsrd core*)
(* (olsr_cnf->lq_aging, LQ_QUICKSTART_AGING, LQ_QUICKSTART_STEPS) are      *)
(* CONSTANTS.  A cost whose multiplier is alpha*expf(dd/dt*beta) is the    *)
(* value Scaled (LqCost checks its conversion); outcomes, last_alpha,      *)
(* used_mult and expected_mult are histories.                              *)
(***************************************************************************)
EXTENDS Integers, ExactRational

CONSTANTS
    Me, Peer,               \* the main addresses of the two ends of the link
    ZeroAddr,               \* the all-zero address of a cleared record
    LQ_QUICKSTART_STEPS,
    LQ_QUICKSTART_AGING,    \* [n, d]
    LqAging,                \* olsr_cnf->lq_aging, [n, d]
    LossLinkMultipliers,    \* link->loss_link_multiplier values (65536 = 1.0)
    MinimalUsefulLq,        \* MINIMAL_USEFUL_LQ, [n, d]
    LINK_COST_BROKEN,
    MaxOutcomes,            \* packet outcomes per link between two clears
    Addr, MidMain, Pos, Origin, Distance(_, _), TimeBits, MinReportTime,
    MaxReportTime,          \* of Me's position cache, see LqGpsPud
    IpVersion               \* olsr_cnf->ip_version, 4 or 6

LQ_PLUGIN_LC_MULTIPLIER == 1024

VARIABLES
    rec,        \* struct lq_gps_pud [lq, nlq, quickstart, addr] of Me's link
    linkcost,   \* link->linkcost
    outcomes,   \* history: packet outcomes since the last clear
    last_alpha, \* history: alpha of the last packet outcome
    node_position_tree, local_record, newest_reported,  \* Me's cache
    used_mult,      \* history: the multiplier the last cost computation used
    expected_mult   \* history: at that moment, the multiplier of the peer's
                    \* present distances, or 1.0 without an entry

link == <<rec, linkcost, outcomes, last_alpha>>
cache == <<node_position_tree, local_record, newest_reported>>
vars == <<link, cache, used_mult, expected_mult>>

Cache == INSTANCE LqGpsPud WITH Self <- Me

-----------------------------------------------------------------------------
(* lq_clear_gps_pud: memset of the whole record, quickstart and addr     *)
(* included.                                                               *)
ClearedRecord == [lq |-> RZero, nlq |-> RZero, quickstart |-> 0, addr |-> ZeroAddr]

(* The multiplier floats: 1.0f of lq_calc_dist_multiplier(NULL), the      *)
(* cache's values, and none when the cost is the sentinel.                *)
One == [kind |-> "one"]
NoMult == [kind |-> "none"]
Scaled == -1

(* lq_calc_cost_gps_pud (lines 280-300) of record r with multiplier m:    *)
(* the sentinel below MINIMAL_USEFUL_LQ; with 1.0 the truncated           *)
(* 1/(lq*nlq)*1024, clamped and 0 mapped to 1; a product with the memset  *)
(* 0.0 is 0, and inf or NaN converts to 0 on x86-64, both mapped to 1.     *)
CostOf(r, m) ==
    IF RLess(r.lq, MinimalUsefulLq) \/ RLess(r.nlq, MinimalUsefulLq)
    THEN LINK_COST_BROKEN
    ELSE LET c == (r.lq.d * r.nlq.d * LQ_PLUGIN_LC_MULTIPLIER) \div (r.lq.n * r.nlq.n)
         IN  CASE m \in {Cache!ZeroMultiplier, Cache!NonFinite} -> 1
               [] m # One               -> Scaled
               [] c > LINK_COST_BROKEN  -> LINK_COST_BROKEN
               [] c = 0                 -> 1
               [] OTHER                 -> c

(* The multiplier an eagerly computed cache would give for node k. *)
PresentMultiplier(k) ==
    IF k \in DOMAIN node_position_tree
    THEN Cache!MultiplierOf(node_position_tree[k].delta_d, node_position_tree[k].delta_t)
    ELSE One

(* The lookup of lq_calc_cost_gps_pud for record r: none below            *)
(* MINIMAL_USEFUL_LQ (line 286 returns first); else avl_find of r.addr,    *)
(* and for an entry lq_calc_dist_multiplier, which may refresh its cached  *)
(* multiplier.  Gives the multiplier used and the tree after the call.    *)
CostLookup(r) ==
    CASE RLess(r.lq, MinimalUsefulLq) \/ RLess(r.nlq, MinimalUsefulLq)
            -> [mult |-> NoMult, tree |-> node_position_tree]
      [] r.addr \in DOMAIN node_position_tree
            -> LET pos == Cache!CalcDistMultiplier(node_position_tree[r.addr])
               IN  [mult |-> pos.lq_multiplier,
                    tree |-> [node_position_tree EXCEPT ![r.addr] = pos]]
      [] OTHER
            -> [mult |-> One, tree |-> node_position_tree]

-----------------------------------------------------------------------------
(* Mutant: the quickstart test lets one more outcome through. *)
Alpha_off_by_one(r) ==
    IF r.quickstart <= LQ_QUICKSTART_STEPS THEN LQ_QUICKSTART_AGING ELSE LqAging

(* The alpha of lq_packet_loss_worker_gps_pud: quickstart's for the first *)
(* LQ_QUICKSTART_STEPS outcomes of the record.                             *)
Alpha(r) ==
    IF r.quickstart < LQ_QUICKSTART_STEPS THEN LQ_QUICKSTART_AGING ELSE LqAging

(* Mutant: the quickstart counter is incremented past its bound. *)
Aged_quickstart_uncapped(r, lost, llm) ==
    LET alpha == Alpha(r)
        decayed == RMul(r.lq, OneMinus(alpha))
    IN  [r EXCEPT !.lq = IF lost THEN decayed
                         ELSE RAdd(decayed, RMul(alpha, Rat(llm, 65536))),
                  !.quickstart = @ + 1]

(* Mutant: a received packet is added without the decay. *)
Aged_no_decay(r, lost, llm) ==
    LET alpha == Alpha(r)
    IN  [r EXCEPT !.lq = IF lost THEN RMul(r.lq, OneMinus(alpha))
                         ELSE RAdd(r.lq, RMul(alpha, Rat(llm, 65536))),
                  !.quickstart = IF r.quickstart < LQ_QUICKSTART_STEPS THEN @ + 1 ELSE @]

(* The exponential moving average: lq *= 1 - alpha, plus                 *)
(* alpha * loss_link_multiplier / 65536 when the packet arrived.           *)
Aged(r, lost, llm) ==
    LET alpha == Alpha(r)
        decayed == RMul(r.lq, OneMinus(alpha))
    IN  [r EXCEPT !.lq = IF lost THEN decayed
                         ELSE RAdd(decayed, RMul(alpha, Rat(llm, 65536))),
                  !.quickstart = IF r.quickstart < LQ_QUICKSTART_STEPS THEN @ + 1 ELSE @]

(* The records reachable in at most k outcomes after a clear, and the lq  *)
(* values the peer's pair can carry.                                       *)
RECURSIVE AgedRecords(_)
AgedRecords(k) ==
    IF k = 0 THEN {ClearedRecord}
    ELSE LET prev == AgedRecords(k - 1)
         IN  prev \cup {Aged(r, lost, llm) : r \in prev, lost \in BOOLEAN,
                                              llm \in LossLinkMultipliers}
PeerLqs == {r.lq : r \in AgedRecords(MaxOutcomes)}

(* The wire codec, over the configured IP version. *)
Wire == INSTANCE WireCodec WITH IpVersions <- {IpVersion}, CodecLqs <- PeerLqs,
                                CodecAddrs <- Addr, CodecFloats <- {},
                                CodecPositions <- {}

-----------------------------------------------------------------------------
(* The core creates the link cleared, with the broken cost. *)
Init ==
    /\ rec = ClearedRecord
    /\ linkcost = LINK_COST_BROKEN
    /\ outcomes = 0
    /\ last_alpha = RZero
    /\ Cache!Init
    /\ used_mult = NoMult
    /\ expected_mult = NoMult

(* lq_packet_loss_worker_gps_pud(link, lq, lost) (lines 403-420): age the *)
(* record, then store lq_calc_cost_gps_pud of it.                         *)
lq_packet_loss_worker_gps_pud(lost, llm) ==
    LET r == Aged(rec, lost, llm)
        c == CostLookup(r)
    IN  /\ outcomes < MaxOutcomes
        /\ rec' = r
        /\ linkcost' = CostOf(r, c.mult)
        /\ node_position_tree' = c.tree
        /\ outcomes' = outcomes + 1
        /\ last_alpha' = Alpha(rec)
        /\ used_mult' = c.mult
        /\ expected_mult' = IF c.mult = NoMult THEN NoMult ELSE PresentMultiplier(Peer)
        /\ UNCHANGED <<local_record, newest_reported>>

(* Mutant: the pair's address is not copied. *)
lq_memorize_foreign_hello_gps_pud_no_addr(local, listed, foreignLq, foreignAddr) ==
    [local EXCEPT !.nlq = IF listed THEN foreignLq ELSE RZero]

(* lq_memorize_foreign_hello_gps_pud: with the peer's entry for us, our  *)
(* nlq becomes the peer's (deserialized) lq and addr the address the pair *)
(* carries; without one nlq is 0 and addr is kept.                        *)
lq_memorize_foreign_hello_gps_pud(local, listed, foreignLq, foreignAddr) ==
    [local EXCEPT !.nlq = IF listed THEN foreignLq ELSE RZero,
                  !.addr = IF listed THEN foreignAddr ELSE @]

(* A HELLO of the peer, whose record holds lq q.  When it lists Me, the   *)
(* pair the peer serialized (q and its nlq as bytes, then the peer's main *)
(* address) is deserialized and memorized; when it does not, memorize     *)
(* gets NULL.  Memorize never reads the pair's nlq; ours stands for it.   *)
HelloReceived(listed, q) ==
    LET pair == Wire!lq_serialize_hello_lq_pair_gps_pud(IpVersion, [lq |-> q, nlq |-> rec.lq], Peer)
        got == Wire!lq_deserialize_hello_lq_pair_gps_pud(IpVersion, pair.bytes, 1).rec
    IN
    /\ rec' = lq_memorize_foreign_hello_gps_pud(rec, listed, got.lq, got.addr)
    /\ UNCHANGED <<linkcost, outcomes, last_alpha, cache, used_mult, expected_mult>>

(* lq_clear_gps_pud on the link record, when the core resets the link. *)
lq_clear_gps_pud ==
    /\ rec' = ClearedRecord
    /\ outcomes' = 0
    /\ UNCHANGED <<linkcost, last_alpha, cache, used_mult, expected_mult>>

(* PUD reports, own records, and the core's cost computations of other    *)
(* links and TC edges change only the cache.                              *)
CacheStep ==
    /\ \/ \E a \in Addr, r \in Cache!Reports : Cache!lq_update_gps_record_pud(a, r)
       \/ \E r \in Cache!Reports : Cache!lq_update_local_record_pud(r)
       \/ \E k \in DOMAIN node_position_tree : Cache!lq_calc_dist_multiplier(k)
    /\ UNCHANGED <<link, used_mult, expected_mult>>

Next ==
    \/ \E lost \in BOOLEAN, llm \in LossLinkMultipliers :
          lq_packet_loss_worker_gps_pud(lost, llm)
    \/ \E listed \in BOOLEAN, q \in PeerLqs : HelloReceived(listed, q)
    \/ lq_clear_gps_pud
    \/ CacheStep

Spec == Init /\ [][Next]_vars

-----------------------------------------------------------------------------
TypeOK ==
    /\ rec.quickstart \in 0 .. LQ_QUICKSTART_STEPS
    /\ rec.addr \in {ZeroAddr, Peer}
    /\ linkcost = Scaled \/ linkcost \in 1 .. LINK_COST_BROKEN
    /\ outcomes \in 0 .. MaxOutcomes
    /\ Cache!TypeOK

(* The aging constant switches from LQ_QUICKSTART_AGING to lq_aging after  *)
(* exactly LQ_QUICKSTART_STEPS packet outcomes of a link, counted afresh   *)
(* after every lq_clear_gps_pud (spec section 5: "a newly created link     *)
(* reaches the steady-state aging constant exactly after K calls"; code    *)
(* lines 409-412 and the memset of line 446).                              *)
QuickstartExact ==
    outcomes >= 1 =>
        (last_alpha = LQ_QUICKSTART_AGING <=> outcomes <= LQ_QUICKSTART_STEPS)

(* lq and nlq stay within [0, 1] whatever the outcomes, so the            *)
(* (unsigned char)(lq * 255) of the serializers (lines 308-309) is          *)
(* defined: the moving average of lines 414-417 never leaves the unit     *)
(* interval for loss_link_multiplier <= 65536.                              *)
LqInUnitInterval ==
    rec.lq.n <= rec.lq.d /\ rec.nlq.n <= rec.nlq.d

(* Every cost the worker stores that is not the sentinel was computed     *)
(* with the multiplier of the peer's present distances, or with 1.0 while  *)
(* the cache has no entry for the peer: the address memorized from the    *)
(* peer's HELLO pair (line 431) names the peer's entry whenever nlq is    *)
(* useful, also after a clear zeroes it (line 446), and the multiplier    *)
(* cached by last_computed_time (lines 272-276) is never stale when read. *)
CostUsesPeerMultiplier ==
    used_mult = expected_mult
=============================================================================
