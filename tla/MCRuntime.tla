------------------------------ MODULE MCRuntime -----------------------------
EXTENDS Runtime

AllLinks == [sp : BOOLEAN, gp : BOOLEAN]

(* On both sides of one, two and three strides.                            *)
Lengths == {0, 1, 8, 31, 32, 33, 63, 64, 65, 97}
=============================================================================
