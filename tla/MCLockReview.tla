------------------------------ MODULE MCLockReview ------------------------------
(* Small instances of LockReview.                                             *)
EXTENDS LockReview, TLC

CONSTANTS c1, c2, t1, t2, v1, v2

Symmetric == Permutations({v1, v2}) \cup Permutations({c1, c2})
=================================================================================
