----------------------------- MODULE MigrationPlan -----------------------------
(***************************************************************************)
(* planMigrations (src/tools/cli/src/migrations-registry.ts) and the two    *)
(* comparisons of version strings around it.  A version is the numbers of   *)
(* its x.y.z and those its suffix adds: "0.7.0-rc.1" splits at its dots,    *)
(* and parseInt reads what digits each part begins with, so that it is      *)
(* [core |-> <<0, 7, 0>>, suffix |-> "rc", extra |-> <<1>>].                *)
(***************************************************************************)
EXTENDS Integers, Sequences

LOCAL Number(ns, i) == IF i <= Len(ns) THEN ns[i] ELSE 0

\* -1, 0 or 1 at the first number that differs; a missing one is 0.
Compare(a, b) ==
  LET differ == {i \in 1 .. (Len(a) + Len(b)) : Number(a, i) # Number(b, i)}
      i == CHOOSE i \in differ : \A j \in differ : i <= j
  IN  IF differ = {} THEN 0 ELSE IF Number(a, i) < Number(b, i) THEN -1 ELSE 1

\* The planner's, which takes the numbers of a suffix for more of the version.
cmpSemver(v, w) == Compare(v.core \o v.extra, w.core \o w.extra)

\* The commands', which strip the suffix.
compareSemver(v, w) == Compare(v.core, w.core)

NoPlan == [direction |-> "none", steps |-> <<>>]
Looping == [direction |-> "loops", steps |-> <<>>]

\* From each version the first migration that begins (downwards: ends) at exactly
\* that string, until the target is reached; none, or one that leads past it, and
\* there is no plan.  Sorting the registry does not change which is the first of
\* equal strings.
Advance(so, to, sign, registry) ==
  LET leads == {i \in DOMAIN registry :
                  (IF sign < 0 THEN registry[i].from ELSE registry[i].to) = so.at}
      m == registry[CHOOSE i \in leads : \A j \in leads : i <= j]
      next == IF sign < 0 THEN m.to ELSE m.from
  IN  IF so.stuck \/ cmpSemver(so.at, to) # sign THEN so
      ELSE IF leads = {} THEN [so EXCEPT !.stuck = TRUE]
      ELSE [at |-> next, steps |-> Append(so.steps, m), stuck |-> cmpSemver(next, to) = -sign]

\* Where n turns of the loop lead.
Walk(from, to, registry) ==
  LET walk[n \in 0 .. Len(registry) + 1] ==
        IF n = 0 THEN [at |-> from, steps |-> <<>>, stuck |-> FALSE]
        ELSE Advance(walk[n - 1], to, cmpSemver(from, to), registry)
  IN  walk

\* The loop has no bound of its own: a registry that leads in a circle is never left,
\* which more steps than migrations show.
planMigrations(from, to, registry) ==
  LET sign == cmpSemver(from, to)
      end == Walk(from, to, registry)[Len(registry) + 1]
  IN  IF sign = 0 THEN [direction |-> "up", steps |-> <<>>]
      ELSE IF end.stuck THEN NoPlan
      ELSE IF cmpSemver(end.at, to) = sign THEN Looping
      ELSE [direction |-> IF sign < 0 THEN "up" ELSE "down", steps |-> end.steps]
=================================================================================
