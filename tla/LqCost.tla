------------------------------- MODULE LqCost -------------------------------
(***************************************************************************)
(* The link cost of both GPS link-quality plugins: lq_calc_cost_gps_lite   *)
(* (src/src/lq_plugin_gps_lite.c) and lq_calc_cost_gps_pud                 *)
(* (src/src/lq_plugin_gps_pud.c).  Both compute                            *)
(*     (olsr_linkcost) (1 / (lq * nlq) * multiplier * 1024)               *)
(* after the MINIMAL_USEFUL_LQ check, then clamp to LINK_COST_BROKEN and   *)
(* map 0 to 1.  lq and nlq are always a received or aged value; here they *)
(* are the bytes b of the wire format, lq = b / 255.                      *)
(*                                                                         *)
(* The state is the input of the last cost computation and its result, so *)
(* that an action property can compare two consecutive computations.      *)
(*                                                                         *)
(* Abstractions.  Arithmetic is exact over the rationals (float rounding   *)
(* is not modelled).  A float value is a record: a finite rational n/d,   *)
(* an infinity of the sign of n, or NaN.  The conversion to the uint32_t   *)
(* olsr_linkcost truncates toward zero when the value is in range; out of *)
(* range (or infinite or NaN) it is undefined behaviour, and CastOutcomes  *)
(* gives what an x86-64 build produces.  Multipliers are non-negative.    *)
(***************************************************************************)
EXTENDS Integers

CONSTANTS
    MinimalUsefulLq,   \* MINIMAL_USEFUL_LQ of the olsrd core, as [n, d]
    LINK_COST_BROKEN,  \* the olsrd core's saturated cost
    LqByteValues,      \* lq / nlq bytes the computation is checked on
    Multipliers        \* multiplier floats the computation is checked on

LQ_PLUGIN_LC_MULTIPLIER == 1024

VARIABLES
    lq, nlq,            \* bytes of the link's lq and nlq
    multiplier,         \* the float the cost is multiplied by
    cost                \* the olsr_linkcost returned

vars == <<lq, nlq, multiplier, cost>>

-----------------------------------------------------------------------------
Fin(n, d) == [kind |-> "fin", n |-> n, d |-> d]
PosInf == [kind |-> "inf", n |-> 1, d |-> 1]
NaN == [kind |-> "nan", n |-> 0, d |-> 1]
NoEntry == [kind |-> "none", n |-> 0, d |-> 1]   \* avl_find returned NULL

(* (olsr_linkcost) (1.0f / ((l/255) * (n/255)) * m * 1024) for a finite  *)
(* m >= 0 and l, n > 0: the product, truncated.  Computed as               *)
(* q * m.n + (r * m.n) \div b with K = q * b + r, so that no intermediate *)
(* exceeds the result.                                                     *)
TruncatedProduct(l, n, m) ==
    LET K == 255 * 255 * LQ_PLUGIN_LC_MULTIPLIER
        b == l * n * m.d
    IN  (K \div b) * m.n + ((K % b) * m.n) \div b

(* The results the conversion to olsr_linkcost can have.  A finite value  *)
(* of the model's inputs is below 2^31, so in range; an infinite or NaN    *)
(* one is undefined, and the x86-64 cvttss2si gives 2^63, whose low 32     *)
(* bits are 0.                                                             *)
CastOutcomes(l, n, m) ==
    IF m.kind = "fin" THEN {TruncatedProduct(l, n, m)} ELSE {0}

(* lq < (float) MINIMAL_USEFUL_LQ for the byte b, lq = b / 255. *)
BelowMinimal(b) == b * MinimalUsefulLq.d < 255 * MinimalUsefulLq.n

(* The clamp and the zero check after the conversion. *)
Saturate(c) == IF c > LINK_COST_BROKEN THEN LINK_COST_BROKEN
               ELSE IF c = 0 THEN 1 ELSE c

(* Mutant: only lq is checked against MINIMAL_USEFUL_LQ. *)
CostOutcomes_lq_only(l, n, m) ==
    IF BelowMinimal(l) THEN {LINK_COST_BROKEN}
    ELSE {Saturate(c) : c \in IF n = 0 THEN {0} ELSE CastOutcomes(l, n, m)}

(* Mutant: the conversion result is returned without the clamp. *)
CostOutcomes_no_clamp(l, n, m) ==
    IF BelowMinimal(l) \/ BelowMinimal(n) THEN {LINK_COST_BROKEN}
    ELSE {IF c = 0 THEN 1 ELSE c : c \in CastOutcomes(l, n, m)}

(* The body shared by lq_calc_cost_gps_lite and lq_calc_cost_gps_pud. *)
CostOutcomes(l, n, m) ==
    IF BelowMinimal(l) \/ BelowMinimal(n) THEN {LINK_COST_BROKEN}
    ELSE {Saturate(c) : c \in CastOutcomes(l, n, m)}

-----------------------------------------------------------------------------
(* No cost has been computed yet: the link was just cleared. *)
Init ==
    /\ lq = 0 /\ nlq = 0
    /\ multiplier = Fin(1, 1)
    /\ cost = LINK_COST_BROKEN

(* lq_calc_cost_gps_lite: the multiplier is the record's own mlq. *)
lq_calc_cost_gps_lite(l, n, mlq) ==
    /\ lq' = l /\ nlq' = n /\ multiplier' = mlq
    /\ cost' \in CostOutcomes(l, n, mlq)

(* Mutant: a missing entry is not given the default 1.0. *)
lq_calc_cost_gps_pud_no_null_check(l, n, entry) ==
    /\ lq' = l /\ nlq' = n /\ multiplier' = entry
    /\ cost' \in CostOutcomes(l, n, entry)

(* lq_calc_cost_gps_pud: the multiplier is lq_calc_dist_multiplier of the *)
(* cache entry found for the link's address, or 1.0 when there is none.   *)
lq_calc_cost_gps_pud(l, n, entry) ==
    LET m == IF entry = NoEntry THEN Fin(1, 1) ELSE entry IN
    /\ lq' = l /\ nlq' = n /\ multiplier' = m
    /\ cost' \in CostOutcomes(l, n, m)

Next ==
    \/ \E l, n \in LqByteValues, m \in Multipliers : lq_calc_cost_gps_lite(l, n, m)
    \/ \E l, n \in LqByteValues, e \in Multipliers \cup {NoEntry} :
          lq_calc_cost_gps_pud(l, n, e)

Spec == Init /\ [][Next]_vars

-----------------------------------------------------------------------------
Float == [kind : {"fin"}, n : Nat, d : Nat \ {0}] \cup {PosInf, NaN}

TypeOK ==
    /\ lq \in 0 .. 255 /\ nlq \in 0 .. 255
    /\ multiplier \in Float
    /\ cost \in Nat

(* combine_cost of the spec (section 4.1), in exact arithmetic: the        *)
(* broken sentinel below the threshold, else the truncated product,       *)
(* clamped to the sentinel (an infinite or NaN product saturates, section *)
(* 7 (d)), and 1 for a zero result.                                        *)
SpecCost(l, n, m) ==
    IF BelowMinimal(l) \/ BelowMinimal(n) \/ m.kind # "fin" THEN LINK_COST_BROKEN
    ELSE LET c == TruncatedProduct(l, n, m)
         IN  IF c > LINK_COST_BROKEN THEN LINK_COST_BROKEN
             ELSE IF c = 0 THEN 1 ELSE c

(* Every cost the plugins return is the spec's combine_cost of the same   *)
(* lq, nlq and multiplier: never 0, never above LINK_COST_BROKEN, and the *)
(* sentinel for every link below MINIMAL_USEFUL_LQ                         *)
(* (lq_calc_cost_gps_lite lines 255-273, lq_calc_cost_gps_pud 281-300).   *)
CostMatchesSpec == cost = SpecCost(lq, nlq, multiplier)

(* m1 <= m2 for two multiplier floats that are not NaN. *)
FloatLeq(m1, m2) ==
    \/ m2 = PosInf
    \/ m1.kind = "fin" /\ m2.kind = "fin" /\ m1.n * m2.d <= m2.n * m1.d

(* A computation on a link whose lq and nlq are no lower and whose        *)
(* multiplier is no higher than in the previous computation never yields  *)
(* a higher cost: the cost is monotone in 1/lq, 1/nlq and the multiplier  *)
(* (spec section 8), also across the MINIMAL_USEFUL_LQ threshold.         *)
CostMonotone ==
    [][ /\ lq' >= lq /\ nlq' >= nlq
        /\ FloatLeq(multiplier', multiplier)
        => cost' <= cost ]_vars
=============================================================================
