------------------------------ MODULE LqGpsLite -----------------------------
(***************************************************************************)
(* The GPS state of the "etx_gps_lite" link-quality plugin                 *)
(* (src/src/lq_plugin_gps_lite.c): the own position my_position, fed by   *)
(* the GPS receiver; the slot buffered_position, filled by the global      *)
(* deserializer of every received HELLO; and per link the neighbour's      *)
(* position, the distance to it and the smoothed relative speed that      *)
(* lq_set_dist_multiplier turns into the multiplier mlq.                  *)
(*                                                                         *)
(* Time is olsrd's now_times, a uint32_t millisecond clock kept at width  *)
(* ClockBits; ticks counts the scheduler ticks (it does not wrap) and is  *)
(* bounded by MaxTicks.  The olsrd core handles one HELLO at a time: it    *)
(* deserializes the global record into buffered_position, then the LQ      *)
(* pair addressed to us (absent when the neighbour does not list us), and *)
(* calls lq_memorize_foreign_hello_gps_lite; ReceiveHelloListed and     *)
(* ReceiveHelloUnlisted are that sequence.  Each neighbour's own position,*)
(* which it serializes, is the environment variable neighbour_position.   *)
(*                                                                         *)
(* lq_packet_loss_worker_gps_lite ages the link's lq (with quickstart)    *)
(* and stores lq_calc_cost_gps_lite of the record in link->linkcost.      *)
(*                                                                         *)
(* Abstractions.  A fix is an element of Pos and the haversine distance   *)
(* the operator Distance (whole metres).  The speed and mlq floats are     *)
(* kept as their class: exactly 0.0 / 1.0, some other finite value, or    *)
(* NaN.  The received lq is the byte it was decoded from; the link's own *)
(* lq is an exact rational.  A cost computed with a finite mlq other than *)
(* 1.0 is Scaled, the value -1, which no real olsr_linkcost takes.       *)
(***************************************************************************)
EXTENDS Integers, TLC, ExactRational

CONSTANTS
    Neighbour,      \* neighbours with a link to us
    Pos,            \* GPS fixes
    InitialPos,     \* the fix lq_initialize_gps_lite sets (46.00002, 6.0001, 400)
    ZeroPos,        \* the fix of a zero-initialised gps_position
    Distance(_, _), \* distance_lineofsight, whole metres
    ClockBits,      \* width of now_times and the uint32_t time fields
    StartTime,      \* now_times when the plugin is initialised
    TickMs,         \* milliseconds now_times advances between two events
    MaxTicks,       \* number of clock ticks explored
    LqBytes,        \* lq bytes a neighbour may send us
    LQ_QUICKSTART_STEPS,
    LQ_QUICKSTART_AGING,    \* [n, d]
    LqAging,                \* olsr_cnf->lq_aging, [n, d]
    LossLinkMultipliers,    \* link->loss_link_multiplier values (65536 = 1.0)
    MinimalUsefulLq,        \* MINIMAL_USEFUL_LQ, [n, d]
    LINK_COST_BROKEN,
    MaxOutcomes             \* packet outcomes per link between two clears

ASSUME /\ {InitialPos, ZeroPos} \subseteq Pos
       /\ ClockBits \in Nat \ {0}
       /\ StartTime \in 0 .. 2^ClockBits - 1
       /\ TickMs \in Nat \ {0}
       /\ MaxTicks \in Nat
       /\ LqBytes \subseteq 0 .. 255

VARIABLES
    now_times,          \* olsrd's millisecond clock
    ticks,              \* ticks since initialisation (model only)
    my_position,        \* [position, last_gps_update]
    buffered_position,  \* the shared slot of lq_deserialize_global_gps_lite
    link,               \* neighbour -> struct lq_link_gps_lite (GPS part and nlq)
    neighbour_position, \* neighbour -> the position it serializes (environment)
    last_fix,           \* history: the latest fix the GPS feed delivered
    fix_accepted_at,    \* history: tick of the last fix my_position took
    last_hello,         \* history: neighbour -> latest HELLO that listed us
    hello_accepted_at,  \* history: neighbour -> tick its link last took a position
                        \* (observed as a change of its last_gps_update)
    linkcost,           \* neighbour -> link->linkcost
    outcomes,           \* history: neighbour -> packet outcomes since the last clear
    last_alpha          \* history: neighbour -> alpha of the last packet outcome

aging == <<linkcost, outcomes, last_alpha>>
vars == <<now_times, ticks, my_position, buffered_position, link,
          neighbour_position, last_fix, fix_accepted_at, last_hello,
          hello_accepted_at, aging>>

-----------------------------------------------------------------------------
U32 == 2^ClockBits
Clock == 0 .. U32 - 1
U32Sub(a, b) == (a - b) % U32

(* Values of the floats speed and mlq. *)
Zero == "zero"          \* speed 0.0
One == "one"            \* mlq 1.0
Finite == "finite"      \* any other finite value
NaN == "nan"

(* Mutant: the clear stops at the memset and leaves mlq 0.0. *)
ClearedLink_memset_only ==
    [lq |-> RZero, nlq |-> 0, mlq |-> Zero, quickstart |-> 0, nposition |-> ZeroPos, last_gps_update |-> 0,
     last_multiplier_calc |-> 0, distance |-> 0, speed |-> Zero]

(* lq_clear_link_gps_lite: everything zero (quickstart too), then        *)
(* mlq = 1.0.                                                              *)
ClearedLink ==
    [lq |-> RZero, nlq |-> 0, mlq |-> One, quickstart |-> 0, nposition |-> ZeroPos, last_gps_update |-> 0,
     last_multiplier_calc |-> 0, distance |-> 0, speed |-> Zero]

(* Lines 236-245: the instantaneous speed delta_d * 1000 / delta_t, set to *)
(* 0 outside +-25 m/s, blended into speed with gamma.  A zero delta_t      *)
(* gives +-inf, which the clamp turns into 0, or NaN (0/0), which no       *)
(* comparison catches and which poisons the smoothed speed.                *)
InstantaneousSpeed(dd, dt) ==
    CASE dt = 0 /\ dd = 0              -> NaN
      [] dt = 0                        -> Zero
      [] dd = 0                        -> Zero
      [] dd * 1000 > 25 * dt           -> Zero
      [] dd * 1000 < -25 * dt          -> Zero
      [] OTHER                         -> Finite

SmoothedSpeed(speed, inst) ==
    CASE NaN \in {speed, inst}         -> NaN
      [] speed = Zero /\ inst = Zero   -> Zero
      [] OTHER                         -> Finite

(* expf(speed * beta) *)
MultiplierOfSpeed(speed) ==
    CASE speed = NaN  -> NaN
      [] speed = Zero -> One
      [] OTHER        -> Finite

(* Mutant: the elapsed time is measured from the own fix only. *)
lq_set_dist_multiplier_own_time(lq, my) ==
    LET last_update == my.last_gps_update
        distance    == Distance(my.position, lq.nposition)
        speed       == SmoothedSpeed(lq.speed,
                          InstantaneousSpeed(distance - lq.distance,
                                             U32Sub(last_update, lq.last_multiplier_calc)))
    IN  [lq EXCEPT !.distance = distance,
                   !.speed = speed,
                   !.mlq = MultiplierOfSpeed(speed),
                   !.last_multiplier_calc = last_update]

(* lq_set_dist_multiplier(lq), with my_position as own position. *)
lq_set_dist_multiplier(lq, my) ==
    LET last_update == IF my.last_gps_update > lq.last_gps_update
                       THEN my.last_gps_update ELSE lq.last_gps_update
        distance    == Distance(my.position, lq.nposition)
        speed       == SmoothedSpeed(lq.speed,
                          InstantaneousSpeed(distance - lq.distance,
                                             U32Sub(last_update, lq.last_multiplier_calc)))
    IN  [lq EXCEPT !.distance = distance,
                   !.speed = speed,
                   !.mlq = MultiplierOfSpeed(speed),
                   !.last_multiplier_calc = last_update]

(* lq_calc_cost_gps_lite(link): the sentinel when lq or nlq is below    *)
(* MINIMAL_USEFUL_LQ; else 1/(lq*nlq) * mlq * 1024 converted to            *)
(* olsr_linkcost, clamped and 0 mapped to 1.  With mlq 1.0 that is the      *)
(* truncated quotient; with NaN the conversion is undefined and an x86-64 *)
(* build gives 0, hence 1; with any other finite mlq it is Scaled.         *)
Scaled == -1
LiteCost(l) ==
    LET nlq == Rat(l.nlq, 255)
        c   == (l.lq.d * nlq.d * 1024) \div (l.lq.n * nlq.n)
    IN  CASE RLess(l.lq, MinimalUsefulLq) \/ RLess(nlq, MinimalUsefulLq)
                                  -> LINK_COST_BROKEN
          [] l.mlq = NaN          -> 1
          [] l.mlq = Finite       -> Scaled
          [] c > LINK_COST_BROKEN -> LINK_COST_BROKEN
          [] c = 0                -> 1
          [] OTHER                -> c

(* Mutant: the quickstart counter is not advanced. *)
AgedLite_no_count(l, lost, llm) ==
    LET alpha == IF l.quickstart < LQ_QUICKSTART_STEPS THEN LQ_QUICKSTART_AGING ELSE LqAging
        decayed == RMul(l.lq, OneMinus(alpha))
    IN  [l EXCEPT !.lq = IF lost THEN decayed ELSE RAdd(decayed, RMul(alpha, Rat(llm, 65536)))]

(* Lines 321-344: alpha is LQ_QUICKSTART_AGING for the first             *)
(* LQ_QUICKSTART_STEPS outcomes, then lq *= 1 - alpha, plus               *)
(* alpha * loss_link_multiplier / 65536 for a received packet.            *)
AgedLite(l, lost, llm) ==
    LET alpha == IF l.quickstart < LQ_QUICKSTART_STEPS THEN LQ_QUICKSTART_AGING ELSE LqAging
        decayed == RMul(l.lq, OneMinus(alpha))
    IN  [l EXCEPT !.lq = IF lost THEN decayed ELSE RAdd(decayed, RMul(alpha, Rat(llm, 65536))),
                  !.quickstart = IF l.quickstart < LQ_QUICKSTART_STEPS THEN @ + 1 ELSE @]

-----------------------------------------------------------------------------
(* lq_initialize_gps_lite; links start cleared by the core. *)
Init ==
    /\ now_times = StartTime
    /\ ticks = 0
    /\ my_position = [position |-> InitialPos, last_gps_update |-> StartTime]
    /\ buffered_position = ZeroPos
    /\ link = [n \in Neighbour |-> ClearedLink]
    /\ neighbour_position \in [Neighbour -> Pos]
    /\ last_fix = [position |-> InitialPos, tick |-> 0]
    /\ fix_accepted_at = 0
    /\ last_hello = [n \in Neighbour |-> [position |-> ZeroPos, tick |-> 0]]
    /\ hello_accepted_at = [n \in Neighbour |-> 0]
    /\ linkcost = [n \in Neighbour |-> LINK_COST_BROKEN]
    /\ outcomes = [n \in Neighbour |-> 0]
    /\ last_alpha = [n \in Neighbour |-> RZero]

(* The scheduler advances now_times by TickMs milliseconds. *)
Tick ==
    /\ ticks < MaxTicks
    /\ ticks' = ticks + 1
    /\ now_times' = (now_times + TickMs) % U32
    /\ UNCHANGED <<aging, my_position, buffered_position, link, neighbour_position,
                   last_fix, fix_accepted_at, last_hello, hello_accepted_at>>

(* lq_gps_lite_update_position, called by packet_received_from_gps with a *)
(* parsed fix: taken only when now_times is past the last update.         *)
lq_gps_lite_update_position(p) ==
    /\ \/ /\ now_times > my_position.last_gps_update
          /\ my_position' = [position |-> p, last_gps_update |-> now_times]
          /\ fix_accepted_at' = ticks
       \/ /\ ~(now_times > my_position.last_gps_update)
          /\ UNCHANGED <<my_position, fix_accepted_at>>
    /\ last_fix' = [position |-> p, tick |-> ticks]
    /\ UNCHANGED <<aging, now_times, ticks, buffered_position, link, neighbour_position,
                   last_hello, hello_accepted_at>>

(* A neighbour's own position changes. *)
NeighbourMoves(n, p) ==
    /\ neighbour_position' = [neighbour_position EXCEPT ![n] = p]
    /\ UNCHANGED <<aging, now_times, ticks, my_position, buffered_position, link,
                   last_fix, fix_accepted_at, last_hello, hello_accepted_at>>

(* Mutant: the rate limit compares against the own fix's time. *)
MemorizeListed_own_time(l, b, buffered) ==
    LET withNlq == [l EXCEPT !.nlq = b] IN
    IF now_times > my_position.last_gps_update
    THEN lq_set_dist_multiplier([withNlq EXCEPT !.nposition = buffered,
                                                !.last_gps_update = now_times],
                                my_position)
    ELSE withNlq

(* lq_memorize_foreign_hello_gps_lite(local, foreign) for a foreign pair  *)
(* carrying lq byte b (lines 351-364).                                   *)
MemorizeListed(l, b, buffered) ==
    LET withNlq == [l EXCEPT !.nlq = b] IN
    IF now_times > l.last_gps_update
    THEN lq_set_dist_multiplier([withNlq EXCEPT !.nposition = buffered,
                                                !.last_gps_update = now_times],
                                my_position)
    ELSE withNlq

(* A HELLO from n that lists us with lq byte b: the global record goes   *)
(* to buffered_position, then memorize takes the foreign pair.            *)
ReceiveHelloListed(n, b) ==
    /\ buffered_position' = neighbour_position[n]
    /\ link' = [link EXCEPT ![n] = MemorizeListed(@, b, neighbour_position[n])]
    /\ last_hello' = [last_hello EXCEPT ![n] = [position |-> neighbour_position[n],
                                                tick |-> ticks]]
    /\ hello_accepted_at' =
           IF link'[n].last_gps_update # link[n].last_gps_update
           THEN [hello_accepted_at EXCEPT ![n] = ticks] ELSE hello_accepted_at
    /\ UNCHANGED <<aging, now_times, ticks, my_position, neighbour_position, last_fix,
                   fix_accepted_at>>

(* A HELLO from n that does not list us: memorize gets NULL, nlq = 0. *)
ReceiveHelloUnlisted(n) ==
    /\ buffered_position' = neighbour_position[n]
    /\ link' = [link EXCEPT ![n].nlq = 0]
    /\ UNCHANGED <<aging, now_times, ticks, my_position, neighbour_position, last_fix,
                   fix_accepted_at, last_hello, hello_accepted_at>>

(* lq_clear_link_gps_lite: the core recreates the link entry. *)
lq_clear_link_gps_lite(n) ==
    /\ link' = [link EXCEPT ![n] = ClearedLink]
    /\ last_hello' = [last_hello EXCEPT ![n] = [position |-> ZeroPos, tick |-> ticks]]
    /\ hello_accepted_at' = [hello_accepted_at EXCEPT ![n] = ticks]
    /\ outcomes' = [outcomes EXCEPT ![n] = 0]
    /\ UNCHANGED <<now_times, ticks, my_position, buffered_position,
                   neighbour_position, last_fix, fix_accepted_at, linkcost,
                   last_alpha>>

(* lq_packet_loss_worker_gps_lite(link, lq, lost) at the end of a HELLO   *)
(* interval: age lq, then store the cost of the record in link->linkcost  *)
(* (olsr_relevant_linkcost_change only signals the core).                  *)
lq_packet_loss_worker_gps_lite(n, lost, llm) ==
    LET l == AgedLite(link[n], lost, llm) IN
    /\ outcomes[n] < MaxOutcomes
    /\ link' = [link EXCEPT ![n] = l]
    /\ linkcost' = [linkcost EXCEPT ![n] = LiteCost(l)]
    /\ outcomes' = [outcomes EXCEPT ![n] = @ + 1]
    /\ last_alpha' = [last_alpha EXCEPT ![n] =
                         IF link[n].quickstart < LQ_QUICKSTART_STEPS
                         THEN LQ_QUICKSTART_AGING ELSE LqAging]
    /\ UNCHANGED <<now_times, ticks, my_position, buffered_position,
                   neighbour_position, last_fix, fix_accepted_at, last_hello,
                   hello_accepted_at>>

Next ==
    \/ Tick
    \/ \E p \in Pos : lq_gps_lite_update_position(p)
    \/ \E n \in Neighbour, p \in Pos : NeighbourMoves(n, p)
    \/ \E n \in Neighbour, b \in LqBytes : ReceiveHelloListed(n, b)
    \/ \E n \in Neighbour : ReceiveHelloUnlisted(n)
    \/ \E n \in Neighbour : lq_clear_link_gps_lite(n)
    \/ \E n \in Neighbour, lost \in BOOLEAN, llm \in LossLinkMultipliers :
          lq_packet_loss_worker_gps_lite(n, lost, llm)

Spec == Init /\ [][Next]_vars

-----------------------------------------------------------------------------
LinkState ==
    [lq : [n : Nat, d : Nat \ {0}], nlq : 0 .. 255, mlq : {One, Finite, NaN},
     quickstart : 0 .. LQ_QUICKSTART_STEPS, nposition : Pos,
     last_gps_update : Clock, last_multiplier_calc : Clock, distance : Int,
     speed : {Zero, Finite, NaN}]

TypeOK ==
    /\ now_times \in Clock
    /\ ticks \in 0 .. MaxTicks
    /\ my_position \in [position : Pos, last_gps_update : Clock]
    /\ buffered_position \in Pos
    /\ link \in [Neighbour -> LinkState]
    /\ neighbour_position \in [Neighbour -> Pos]
    /\ \A n \in Neighbour : linkcost[n] = Scaled \/ linkcost[n] \in 1 .. LINK_COST_BROKEN
    /\ outcomes \in [Neighbour -> 0 .. MaxOutcomes]

(* No position report is lost except to the one-per-millisecond rate     *)
(* limit: my_position holds the GPS feed's latest fix unless a fix was    *)
(* already taken in that same tick (lines 141-151), and each link holds   *)
(* the position of its neighbour's latest HELLO unless that link already  *)
(* took one in the same tick (lines 357-364).                             *)
PositionsTrackLatestReports ==
    /\ my_position.position = last_fix.position \/ last_fix.tick = fix_accepted_at
    /\ \A n \in Neighbour :
          link[n].nposition = last_hello[n].position
          \/ last_hello[n].tick = hello_accepted_at[n]

(* The smoothed speed of a link, and with it mlq and the link cost, never *)
(* becomes NaN: lq_set_dist_multiplier never divides 0 by a zero elapsed  *)
(* time (lines 206-207, 238-239).                                         *)
SpeedNeverNaN ==
    \A n \in Neighbour : link[n].speed # NaN

(* The aging constant switches from LQ_QUICKSTART_AGING to lq_aging after *)
(* exactly LQ_QUICKSTART_STEPS outcomes of a link, counted afresh after   *)
(* lq_clear_link_gps_lite (lines 321-326 and the memset of line 392),     *)
(* however HELLOs, position fixes and clock ticks interleave.             *)
LiteQuickstartExact ==
    \A n \in Neighbour :
        outcomes[n] >= 1 =>
            (last_alpha[n] = LQ_QUICKSTART_AGING <=> outcomes[n] <= LQ_QUICKSTART_STEPS)
=============================================================================
