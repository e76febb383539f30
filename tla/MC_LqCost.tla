------------------------------ MODULE MC_LqCost ------------------------------
(* Model-checking instance of LqCost: bytes on both sides of the          *)
(* MINIMAL_USEFUL_LQ threshold (25/255 < 0.1 < 26/255), and multipliers   *)
(* from the memset 0.0 to one that pushes the product past the sentinel;  *)
(* and the wire codec of both plugins over both IP versions.              *)
EXTENDS LqCost, WireTransfer

MC_MinimalUsefulLq == [n |-> 1, d |-> 10]
MC_LqByteValues == {0, 25, 26, 128, 255}
MC_Multipliers == {Fin(0, 1), Fin(1, 2), Fin(1, 1), Fin(2, 1), Fin(100, 1)}
\* The multipliers a zero delta_t (pud) or a NaN speed (lite) produce.
MC_NonFiniteMultipliers == MC_Multipliers \cup {PosInf, NaN}
\* Codec inputs: 1/4 truncates to the byte 63; 1 is the byte 255.
MC_CodecLqs == {Rat(1, 4), Rat(1, 1)}
\* The cost computation and the wire transfer, interleaved.
MCInit == Init /\ TransferInit
MCNext == \/ Next /\ UNCHANGED transfer_vars
          \/ TransferNext /\ UNCHANGED vars
MCSpec == MCInit /\ [][MCNext]_<<vars, transfer_vars>>
=============================================================================
