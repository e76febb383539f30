---------------------------- MODULE MC_LqGpsPud ----------------------------
(* Model-checking instance of LqGpsPud: two other nodes, one of them with *)
(* an alias interface in the MID table, and ourselves with an alias.      *)
(* Fixes lie on a line, so distance_lineofsight becomes |p - q|.          *)
EXTENDS LqGpsPud

CONSTANTS n1, n1b, n2, me, meb

MC_Addr == {n1, n1b, n2, me, meb}
MC_MidMain == (n1 :> n1) @@ (n1b :> n1) @@ (n2 :> n2) @@ (me :> me) @@ (meb :> me)
MC_Pos == {0, 1}
MC_Distance(p, q) == IF p >= q THEN p - q ELSE q - p
=============================================================================
