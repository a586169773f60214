----------------------------- MODULE MCDiscKeys -----------------------------
(* Two generations, the default prefix and another one, a disc in two parts, *)
(* the password of the disc and a wrong one.                                 *)
EXTENDS DiscKeys

CONSTANTS g1, g2, default, other, p1, p2, w1, w2
=============================================================================
