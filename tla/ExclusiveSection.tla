--------------------------- MODULE ExclusiveSection ---------------------------
(***************************************************************************)
(* What PRD-003 section 7.6 promises of `.specforge/lock`, without saying   *)
(* how it is kept: one mutating command at a time is inside the section.    *)
(* A command that dies inside leaves the section taken, nobody re-enters it *)
(* on its own ("the CLI does not auto-recover"), and only a recovery made   *)
(* while nobody is inside frees it.                                         *)
(***************************************************************************)
CONSTANT Procs          \* the processes that run a mutating command

VARIABLES inside,       \* the processes that own the section
          taken         \* whether the section is taken, by a live owner or not

vars == <<inside, taken>>

Init == inside = {} /\ taken = FALSE

Enter(p) ==
  /\ ~taken
  /\ taken' = TRUE
  /\ inside' = inside \cup {p}

Leave(p) ==
  /\ p \in inside
  /\ taken' = FALSE
  /\ inside' = inside \ {p}

Abandon(p) ==
  /\ p \in inside
  /\ inside' = inside \ {p}
  /\ UNCHANGED taken

Recover ==
  /\ taken
  /\ inside = {}
  /\ taken' = FALSE
  /\ UNCHANGED inside

Next ==
  \/ \E p \in Procs : Enter(p) \/ Leave(p) \/ Abandon(p)
  \/ Recover

Spec == Init /\ [][Next]_vars

(***************************************************************************)
(* At most one command owns the section, and an owned section is taken.     *)
(***************************************************************************)
OneInside ==
  /\ \A p, q \in inside : p = q
  /\ inside # {} => taken
===============================================================================
