---------------------------- MODULE MC_LqGpsLite ----------------------------
(* Model-checking instance of LqGpsLite: one neighbour, fixes on a line  *)
(* (0 is the zeroed position, 2 the initialiser's default), a 3-bit clock.*)
EXTENDS LqGpsLite

CONSTANTS nA

MC_Neighbour == {nA}
MC_Pos == {0, 1, 2}
MC_Distance(p, q) == IF p >= q THEN p - q ELSE q - p
(* Quickstart of one outcome at alpha 1/4, then lq_aging 1/2. *)
MC_QuickstartAging == [n |-> 1, d |-> 4]
MC_LqAging == [n |-> 1, d |-> 2]
MC_MinimalUsefulLq == [n |-> 1, d |-> 10]
=============================================================================
