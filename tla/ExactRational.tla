---------------------------- MODULE ExactRational ----------------------------
(***************************************************************************)
(* Exact non-negative rationals [n, d] in lowest terms, standing for the   *)
(* float lq, nlq and aging constants of the link-quality handlers (float   *)
(* rounding is not modelled).                                             *)
(***************************************************************************)
EXTENDS Integers

RECURSIVE GCD(_, _)
GCD(x, y) == IF y = 0 THEN x ELSE GCD(y, x % y)

Rat(n, d) == LET g == GCD(n, d) IN [n |-> n \div g, d |-> d \div g]
RZero == Rat(0, 1)
RAdd(x, y) == Rat(x.n * y.d + y.n * x.d, x.d * y.d)
RMul(x, y) == Rat(x.n * y.n, x.d * y.d)
OneMinus(x) == Rat(x.d - x.n, x.d)
RLess(x, y) == x.n * y.d < y.n * x.d
=============================================================================
