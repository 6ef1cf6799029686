--------------------------- MODULE MCRunDirectory ---------------------------
(* Instances of RunDirectory for TLC: two cases, so that a sample can miss   *)
(* one and the dataset can lose or gain one.                                 *)
EXTENDS RunDirectory

CONSTANTS a, b, v

TwoCases == {a, b}
OneVariant == {v}
=============================================================================
