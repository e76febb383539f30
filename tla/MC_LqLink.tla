------------------------------ MODULE MC_LqLink ------------------------------
(* Me's link to nb; fixes on a line.  Quickstart of one outcome at alpha *)
(* 1/4, then lq_aging 4/5, link multiplier 1.0.                           *)
EXTENDS LqLink, TLC

CONSTANTS me, nb, zero

MC_Addr == {me, nb}
MC_MidMain == (me :> me) @@ (nb :> nb)
MC_Distance(p, q) == IF p >= q THEN p - q ELSE q - p
MC_QuickstartAging == [n |-> 1, d |-> 4]
MC_LqAging == [n |-> 4, d |-> 5]
MC_MinimalUsefulLq == [n |-> 1, d |-> 10]
==============================================================================
