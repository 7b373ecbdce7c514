------------------------------ MODULE MCChangeLoop ------------------------------
(* Small instances of ChangeLoop.                                             *)
EXTENDS ChangeLoop, TLC

CONSTANTS d1, d2, t1, t2, k1, k2, c1, c2

Small == {[iterations |-> 2, usd |-> NoCap], [iterations |-> 3, usd |-> 1]}
Wide == {[iterations |-> 5, usd |-> NoCap]}
=================================================================================
