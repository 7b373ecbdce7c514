---------------------------- MODULE MCCommandLock ----------------------------
(* Small instances of CommandLock. *)
EXTENDS CommandLock, TLC

CONSTANTS p1, p2, p3

Two == {p1, p2}
Three == {p1, p2, p3}
Nobody == {}
OnlyP1 == {p1}

==============================================================================
