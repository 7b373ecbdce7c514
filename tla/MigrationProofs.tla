---------------------------- MODULE MigrationProofs ----------------------------
(***************************************************************************)
(* Theorems about planMigrations and about what migrate does with its plan. *)
(***************************************************************************)
EXTENDS LifecycleProofs, FiniteSetTheorems, WellFoundedInduction

(* Induction over the naturals, in a form without operator parameters.      *)

\* A set of naturals has a least element.
LEMMA Least ==
  ASSUME NEW S \in SUBSET Nat, S # {}
  PROVE  \E n \in S : \A m \in S : n <= m
<1> DEFINE R == OpToRel(<, Nat)
<1>1. IsWellFoundedOn(R, Nat)
  BY NatLessThanWellFounded
<1>2. \A m, n \in Nat : m < n => <<m, n>> \in R
  BY DEF OpToRel
<1> HIDE DEF R
<1>3. PICK n \in S : \A m \in S : <<m, n>> \notin R
  BY <1>1, WFMin
<1>4. n \in Nat /\ \A m \in S : m \in Nat /\ ~(m < n)
  BY <1>2, <1>3
<1> QED
  BY <1>4

\* One that is bounded has a greatest.
LEMMA Greatest ==
  ASSUME NEW S \in SUBSET Nat, S # {}, NEW b \in Nat, \A n \in S : n <= b
  PROVE  \E n \in S : \A m \in S : m <= n
<1> DEFINE D == {d \in Nat : d <= b /\ b - d \in S}
<1>1. D # {}
  <2>1. PICK n \in S : TRUE
    OBVIOUS
  <2>2. b - n \in Nat /\ b - n <= b /\ b - (b - n) = n
    BY <2>1
  <2> QED
    BY <2>2
<1>2. PICK d \in D : \A e \in D : d <= e
  <2> HIDE DEF D
  <2>1. D \in SUBSET Nat
    BY DEF D
  <2> QED
    BY <1>1, <2>1, Least
<1>3. ASSUME NEW m \in S
      PROVE  m <= b - d
  <2>1. b - m \in Nat /\ b - m <= b /\ b - (b - m) = m
    BY <1>3
  <2>2. b - m \in D
    BY <2>1
  <2> QED
    BY <1>2, <2>1, <2>2
<1> QED
  BY <1>2, <1>3

\* What holds of 0 and of the successor of each it holds of, holds of all.
LEMMA Induct ==
  ASSUME NEW S \in SUBSET Nat, 0 \in S, \A n \in S : n + 1 \in S
  PROVE  S = Nat
<1> SUFFICES ASSUME Nat \ S # {}
             PROVE  FALSE
  OBVIOUS
<1>1. PICK n \in Nat \ S : \A m \in Nat \ S : n <= m
  BY Least
<1>2. n # 0 /\ n - 1 \in Nat /\ n - 1 \in S
  BY <1>1
<1> QED
  BY <1>1, <1>2

\* The first K values of a function applied over and over.
Orbits(S, s0, next, K) ==
  {w \in [0 .. K -> S] : w[0] = s0 /\ \A n \in 1 .. K : w[n] = next[w[n - 1]]}

\* A function can be applied any number of times.
LEMMA Iteration ==
  ASSUME NEW S, NEW s0 \in S, NEW next \in [S -> S], NEW K \in Nat
  PROVE  Orbits(S, s0, next, K) # {}
<1> DEFINE Good == {N \in Nat : Orbits(S, s0, next, N) # {}}
<1>1. 0 \in Good
  <2>1. [i \in 0 .. 0 |-> s0] \in Orbits(S, s0, next, 0)
    BY DEF Orbits
  <2> QED
    BY <2>1
<1>2. ASSUME NEW N \in Good
      PROVE  N + 1 \in Good
  <2>1. PICK w \in Orbits(S, s0, next, N) : TRUE
    OBVIOUS
  <2> DEFINE v == [i \in 0 .. N + 1 |-> IF i = N + 1 THEN next[w[N]] ELSE w[i]]
  <2>2. v \in [0 .. N + 1 -> S]
    BY <2>1 DEF Orbits
  <2>3. v[0] = s0 /\ \A n \in 1 .. N + 1 : v[n] = next[v[n - 1]]
    BY <2>1 DEF Orbits
  <2>4. v \in Orbits(S, s0, next, N + 1)
    BY <2>2, <2>3 DEF Orbits
  <2> QED
    BY <2>4
<1>3. Good = Nat
  <2> HIDE DEF Good
  <2>1. Good \in SUBSET Nat
    BY DEF Good
  <2> QED
    BY <1>1, <1>2, <2>1, Induct
<1> QED
  BY <1>3

-------------------------------------------------------------------------------
(* Comparing versions *)

\* Versions 0.n.0 compare as their numbers do, for the planner and the commands.
LEMMA Compares ==
  ASSUME NEW a \in Int, NEW b \in Int
  PROVE  LET c == IF a < b THEN -1 ELSE IF a = b THEN 0 ELSE 1
         IN  cmpSemver(Semver(a), Semver(b)) = c /\ compareSemver(Semver(a), Semver(b)) = c
<1> DEFINE v == <<0, a, 0>>
           w == <<0, b, 0>>
           differ == {i \in 1 .. (Len(v) + Len(w)) :
                        (IF i <= Len(v) THEN v[i] ELSE 0) # (IF i <= Len(w) THEN w[i] ELSE 0)}
<1>1. Len(v) = 3 /\ Len(w) = 3
  OBVIOUS
<1>2. differ = IF a = b THEN {} ELSE {2}
  <2>1. ASSUME NEW i \in 1 .. 6
        PROVE  (IF i <= 3 THEN v[i] ELSE 0) # (IF i <= 3 THEN w[i] ELSE 0) <=> a # b /\ i = 2
    <3>1. i \in {1, 2, 3} \/ i > 3
      OBVIOUS
    <3> QED
      BY <3>1
  <2> QED
    BY <1>1, <2>1
<1>3. a # b => (CHOOSE i \in differ : \A j \in differ : i <= j) = 2
  BY <1>2
<1>4. Compare(v, w) = IF a < b THEN -1 ELSE IF a = b THEN 0 ELSE 1
  BY <1>1, <1>2, <1>3 DEF Compare
<1>5. v \o <<>> = v /\ w \o <<>> = w
  OBVIOUS
<1> QED
  BY <1>4, <1>5 DEF cmpSemver, compareSemver, Semver

-------------------------------------------------------------------------------
(* The registry and the planner's walk along it *)

\* The migration that leads to version m.
Script(m) == [from |-> Semver(m - 1), to |-> Semver(m), id |-> m]

\* A registry has a script for each of a version's migrations, and no other.
LEMMA RegistryScripts ==
  ASSUME NEW v \in Nat
  PROVE  /\ Len(Registry(v)) = Cardinality(Has(v)) /\ Cardinality(Has(v)) \in Nat
         /\ DOMAIN Registry(v) = 1 .. Len(Registry(v))
         /\ IsFiniteSet(Has(v)) /\ Has(v) \subseteq Nat \ {0}
         /\ \E f \in [1 .. Cardinality(Has(v)) -> Has(v)] :
              Registry(v) = [i \in 1 .. Cardinality(Has(v)) |-> Script(f[i])]
<1>1. IsFiniteSet(Has(v)) /\ Has(v) \subseteq Nat \ {0} /\ Cardinality(Has(v)) \in Nat
  <2>1. Has(v) \in SUBSET Nat /\ \A m \in Has(v) : m <= v
    BY VersionsAssumption DEF Has
  <2> QED
    BY <2>1, FS_BoundedSetOfNaturals, FS_CardinalityType, VersionsAssumption DEF Has
<1> DEFINE n == Cardinality(Has(v))
           f == SetToSeq(Has(v))
<1>2. f \in [1 .. n -> Has(v)]
  <2>1. \E g \in Bijection(1 .. n, Has(v)) : TRUE
    BY <1>1, FS_CardinalityType DEF ExistsBijection
  <2> QED
    BY <2>1 DEF SetToSeq, Bijection, Injection
<1>3. Registry(v) = [i \in 1 .. n |-> Script(f[i])]
  BY DEF Registry, Script
<1>4. Len(Registry(v)) = n /\ DOMAIN Registry(v) = 1 .. n
  BY <1>1, <1>3
<1> QED
  BY <1>1, <1>2, <1>3, <1>4

\* Where the walk from a towards b is after k migrations, and its i-th migration.
Reached(a, b, k) == IF a < b THEN a + k ELSE a - k
Taken(a, b, i) == IF a < b THEN a + i ELSE a - i + 1
Sign(a, b) == IF a < b THEN -1 ELSE IF a = b THEN 0 ELSE 1

\* What a walk may be at.
Walks(v) == [at : {Semver(k) : k \in Int}, steps : Seq({Script(m) : m \in Has(v)}), stuck : BOOLEAN]

\* Different numbers are different versions.
LEMMA SemverInjective == \A a, b \in Int : Semver(a) = Semver(b) => a = b
<1> SUFFICES ASSUME NEW a \in Int, NEW b \in Int, Semver(a) = Semver(b)
             PROVE  a = b
  OBVIOUS
<1>1. Semver(a).core[2] = a /\ Semver(b).core[2] = b
  BY DEF Semver
<1> QED
  BY <1>1

\* From so, at version k, the planner's loop goes to `to`: it is over, stuck, or one
\* migration further.
OneTurn(v, b, sign, so, k, to) ==
  LET m == IF sign < 0 THEN k + 1 ELSE k
  IN  \/ (so.stuck \/ Sign(k, b) # sign) /\ to = so
      \/ to \in Walks(v) /\ to.stuck
      \/ /\ ~so.stuck /\ Sign(k, b) = sign /\ m \in Has(v)
         /\ to = [at |-> Semver(IF sign < 0 THEN k + 1 ELSE k - 1),
                  steps |-> Append(so.steps, Script(m)), stuck |-> FALSE]

\* ... and nowhere else.
LEMMA AdvanceOne ==
  ASSUME NEW v \in Nat, NEW b \in Nat, NEW sign \in {-1, 1},
         NEW so \in Walks(v), NEW k \in Int, so.at = Semver(k)
  PROVE  OneTurn(v, b, sign, so, k, Advance(so, Semver(b), sign, Registry(v)))
<1> DEFINE R == Registry(v)
           n == Cardinality(Has(v))
           m == IF sign < 0 THEN k + 1 ELSE k
           leads == {i \in DOMAIN R : (IF sign < 0 THEN R[i].from ELSE R[i].to) = so.at}
           first == CHOOSE i \in leads : \A j \in leads : i <= j
           next == IF sign < 0 THEN R[first].to ELSE R[first].from
           to == Advance(so, Semver(b), sign, R)
<1>1. PICK f \in [1 .. n -> Has(v)] : R = [i \in 1 .. n |-> Script(f[i])]
  BY RegistryScripts
<1>2. /\ n \in Nat /\ DOMAIN R = 1 .. n /\ Has(v) \subseteq Nat
  BY RegistryScripts
<1>3. cmpSemver(so.at, Semver(b)) = Sign(k, b)
  BY Compares DEF Sign
<1>4. to = IF so.stuck \/ Sign(k, b) # sign THEN so
           ELSE IF leads = {} THEN [so EXCEPT !.stuck = TRUE]
           ELSE [at |-> next, steps |-> Append(so.steps, R[first]),
                 stuck |-> cmpSemver(next, Semver(b)) = -sign]
  BY <1>3 DEF Advance
<1>5. CASE so.stuck \/ Sign(k, b) # sign
  BY <1>4, <1>5 DEF OneTurn
<1>6. CASE ~(so.stuck \/ Sign(k, b) # sign) /\ leads = {}
  BY <1>4, <1>6 DEF Walks, OneTurn
<1>7. CASE ~(so.stuck \/ Sign(k, b) # sign) /\ leads # {}
  <2>1. first \in leads
    <3>1. leads \in SUBSET Nat
      BY <1>2
    <3> HIDE DEF leads
    <3>2. \E i \in leads : \A j \in leads : i <= j
      BY <1>7, <3>1, Least
    <3> QED
      BY <3>2
  <2>2. first \in 1 .. n /\ R[first] = Script(f[first]) /\ f[first] \in Has(v) /\ f[first] \in Int
    <3>1. first \in 1 .. n
      <4>1. leads \subseteq 1 .. n
        BY <1>2
      <4> HIDE DEF leads, first
      <4> QED
        BY <2>1, <4>1
    <3> HIDE DEF first, leads, R, n
    <3>2. R[first] = Script(f[first]) /\ f[first] \in Has(v)
      BY <1>1, <3>1
    <3> QED
      BY <1>2, <3>1, <3>2
  <2>3. f[first] = m
    <3> HIDE DEF first, leads, R
    <3>1. CASE sign < 0
      <4>1. Semver(f[first] - 1) = Semver(k)
        BY <2>1, <2>2, <3>1 DEF Script, leads
      <4> QED
        BY <2>2, <3>1, <4>1, SemverInjective
    <3>2. CASE ~(sign < 0)
      <4>1. Semver(f[first]) = Semver(k)
        BY <2>1, <2>2, <3>2 DEF Script, leads
      <4> QED
        BY <2>2, <3>2, <4>1, SemverInjective
    <3> QED
      BY <3>1, <3>2
  <2>4. next = Semver(IF sign < 0 THEN k + 1 ELSE k - 1)
    BY <2>2, <2>3 DEF Script
  <2>5. cmpSemver(next, Semver(b)) # -sign
    <3>1. cmpSemver(next, Semver(b)) = Sign(IF sign < 0 THEN k + 1 ELSE k - 1, b)
      BY <2>4, Compares DEF Sign
    <3> QED
      BY <1>7, <3>1 DEF Sign
  <2> QED
    BY <1>4, <1>7, <2>2, <2>3, <2>4, <2>5 DEF OneTurn
<1> QED
  BY <1>5, <1>6, <1>7

\* ... and in either case a walk again.
LEMMA AdvanceType ==
  ASSUME NEW v \in Nat, NEW b \in Nat, NEW sign \in {-1, 1}, NEW so \in Walks(v)
  PROVE  Advance(so, Semver(b), sign, Registry(v)) \in Walks(v)
<1>1. PICK k \in Int : so.at = Semver(k)
  BY DEF Walks
<1> DEFINE to == Advance(so, Semver(b), sign, Registry(v))
           m == IF sign < 0 THEN k + 1 ELSE k
<1>2. CASE /\ m \in Has(v)
           /\ to = [at |-> Semver(IF sign < 0 THEN k + 1 ELSE k - 1),
                    steps |-> Append(so.steps, Script(m)), stuck |-> FALSE]
  <2>1. Append(so.steps, Script(m)) \in Seq({Script(i) : i \in Has(v)})
    BY <1>2 DEF Walks
  <2> QED
    BY <1>2, <2>1 DEF Walks
<1> QED
  BY <1>1, <1>2, AdvanceOne DEF OneTurn

\* The walk is what the planner's loop makes it: its recursive definition has a value.
LEMMA WalkSteps ==
  ASSUME NEW v \in Nat, NEW a \in Nat, NEW b \in Nat, a # b
  PROVE  LET w == Walk(Semver(a), Semver(b), Registry(v))
             n == Cardinality(Has(v)) + 1
         IN  /\ w[0] = [at |-> Semver(a), steps |-> <<>>, stuck |-> FALSE]
             /\ \A i \in 1 .. n :
                  w[i] = Advance(w[i - 1], Semver(b), Sign(a, b), Registry(v))
<1> DEFINE R == Registry(v)
           n == Cardinality(Has(v)) + 1
           start == [at |-> Semver(a), steps |-> <<>>, stuck |-> FALSE]
           Turn(so) == Advance(so, Semver(b), Sign(a, b), R)
           IsWalk(w) == w = [i \in 0 .. n |-> IF i = 0 THEN start ELSE Turn(w[i - 1])]
<1>1. n \in Nat /\ Len(R) + 1 = n
  <2>1. Len(R) = Cardinality(Has(v)) /\ Cardinality(Has(v)) \in Nat
    BY RegistryScripts
  <2> HIDE DEF R
  <2> QED
    BY <2>1
<1>2. start \in Walks(v)
  BY DEF Walks
<1>3. \E w : IsWalk(w)
  <2> DEFINE next == [so \in Walks(v) |-> Turn(so)]
  <2>1. next \in [Walks(v) -> Walks(v)]
    BY AdvanceType DEF Sign
  <2>2. PICK w \in [0 .. n -> Walks(v)] : w[0] = start /\ \A i \in 1 .. n : w[i] = next[w[i - 1]]
    <3> HIDE DEF next, start, n, R
    <3>1. Orbits(Walks(v), start, next, n) # {}
      BY <1>1, <1>2, <2>1, Iteration
    <3> QED
      BY <3>1 DEF Orbits
  <2>3. \A i \in 1 .. n : w[i] = Turn(w[i - 1])
    <3> HIDE DEF start, n, Turn
    <3>1. \A i \in 1 .. n : w[i - 1] \in Walks(v)
      BY <1>1, <2>2
    <3> QED
      BY <2>2, <3>1
  <2>4. \A i \in 0 .. n : w[i] = IF i = 0 THEN start ELSE Turn(w[i - 1])
    BY <1>1, <2>2, <2>3
  <2> HIDE DEF Turn, start, n, next
  <2>5. w = [i \in 0 .. n |-> w[i]]
    BY <2>2
  <2>6. w = [i \in 0 .. n |-> IF i = 0 THEN start ELSE Turn(w[i - 1])]
    BY <2>4, <2>5
  <2> QED
    BY <2>6
<1> DEFINE w == Walk(Semver(a), Semver(b), R)
<1>4. w = CHOOSE u : IsWalk(u)
  BY <1>1, Compares DEF Walk, Sign
<1>5. IsWalk(w)
  <2> HIDE DEF IsWalk, w
  <2> QED
    BY <1>3, <1>4
<1> HIDE DEF w, start, Turn, n
<1>6. w[0] = start /\ \A i \in 1 .. n : w[i] = Turn(w[i - 1])
  BY <1>1, <1>5
<1> QED
  BY <1>6 DEF w, start, Turn, n

\* After n turns the walk from a towards b has taken n migrations, or has come to b,
\* or is stuck.
OnTheWay(v, a, b, n, so) ==
  /\ so \in Walks(v)
  /\ \/ so.stuck
     \/ \E k \in 0 .. n :
          /\ so.at = Semver(Reached(a, b, k)) /\ Reached(a, b, k) \in Nat
          /\ so.steps = [i \in 1 .. k |-> Script(Taken(a, b, i))]
          /\ \A i \in 1 .. k : Taken(a, b, i) \in Has(v)
          /\ IF a < b THEN Reached(a, b, k) <= b ELSE Reached(a, b, k) >= b
          /\ k = n \/ Reached(a, b, k) = b

\* It stays so, turn by turn.
LEMMA OnTheWayStep ==
  ASSUME NEW v \in Nat, NEW a \in Nat, NEW b \in Nat, a # b, NEW n \in Nat,
         NEW so, OnTheWay(v, a, b, n, so)
  PROVE  OnTheWay(v, a, b, n + 1, Advance(so, Semver(b), Sign(a, b), Registry(v)))
<1> DEFINE sign == Sign(a, b)
           to == Advance(so, Semver(b), sign, Registry(v))
<1> SUFFICES OnTheWay(v, a, b, n + 1, to)
  OBVIOUS
<1>1. sign \in {-1, 1} /\ (sign < 0 <=> a < b)
  BY DEF Sign
<1> HIDE DEF sign, to
<1>2. to \in Walks(v)
  BY <1>1, AdvanceType DEF OnTheWay, to
<1>3. CASE so.stuck
  <2>1. PICK k \in Int : so.at = Semver(k)
    BY DEF OnTheWay, Walks
  <2>2. to = so \/ to.stuck
    BY <1>1, <1>3, <2>1, AdvanceOne DEF OnTheWay, OneTurn, to
  <2> QED
    BY <1>2, <1>3, <2>2 DEF OnTheWay
<1>4. CASE ~so.stuck
  <2>1. PICK k \in 0 .. n :
          /\ so.at = Semver(Reached(a, b, k)) /\ Reached(a, b, k) \in Nat
          /\ so.steps = [i \in 1 .. k |-> Script(Taken(a, b, i))]
          /\ \A i \in 1 .. k : Taken(a, b, i) \in Has(v)
          /\ IF a < b THEN Reached(a, b, k) <= b ELSE Reached(a, b, k) >= b
          /\ k = n \/ Reached(a, b, k) = b
    BY <1>4 DEF OnTheWay
  <2> DEFINE r == Reached(a, b, k)
             m == IF sign < 0 THEN r + 1 ELSE r
  <2>2. OneTurn(v, b, sign, so, r, to)
    <3> HIDE DEF r
    <3>1. r \in Int /\ so.at = Semver(r) /\ so \in Walks(v)
      BY <2>1 DEF r, OnTheWay
    <3> QED
      BY <1>1, <3>1, AdvanceOne DEF to
  <2>3. CASE Sign(r, b) # sign /\ to = so
    <3>1. r = b
      BY <2>1, <2>3 DEF Sign, sign
    <3>2. k \in 0 .. n + 1
      OBVIOUS
    <3> QED
      BY <1>2, <2>1, <2>3, <3>1, <3>2 DEF OnTheWay
  <2>4. CASE to.stuck
    BY <1>2, <2>4 DEF OnTheWay
  <2>5. CASE /\ Sign(r, b) = sign /\ m \in Has(v)
             /\ to = [at |-> Semver(IF sign < 0 THEN r + 1 ELSE r - 1),
                      steps |-> Append(so.steps, Script(m)), stuck |-> FALSE]
    <3>1. r # b /\ k = n
      BY <2>1, <2>5 DEF Sign, sign
    <3>2. Reached(a, b, k + 1) = (IF sign < 0 THEN r + 1 ELSE r - 1)
      BY <1>1, <2>1 DEF Reached
    <3>3. Taken(a, b, k + 1) = m
      BY <1>1, <2>1 DEF Reached, Taken
    <3>4. /\ Reached(a, b, k + 1) \in Nat
          /\ IF a < b THEN Reached(a, b, k + 1) <= b ELSE Reached(a, b, k + 1) >= b
      BY <1>1, <2>1, <3>1, <3>2
    <3>5. to.steps = [i \in 1 .. k + 1 |-> Script(Taken(a, b, i))]
      <4> DEFINE t == [i \in 1 .. k |-> Script(Taken(a, b, i))]
      <4>1. to.steps = Append(t, Script(Taken(a, b, k + 1)))
        BY <2>1, <2>5, <3>3
      <4>2. Append(t, Script(Taken(a, b, k + 1))) = [i \in 1 .. k + 1 |-> Script(Taken(a, b, i))]
        BY <2>1
      <4> QED
        BY <4>1, <4>2
    <3>6. \A i \in 1 .. k + 1 : Taken(a, b, i) \in Has(v)
      BY <2>1, <2>5, <3>3
    <3>7. to.at = Semver(Reached(a, b, k + 1))
      BY <2>5, <3>2
    <3> QED
      <4>1. k + 1 \in 0 .. n + 1 /\ k + 1 = n + 1
        BY <3>1
      <4> QED
        BY <1>2, <3>4, <3>5, <3>6, <3>7, <4>1 DEF OnTheWay
  <2> QED
    BY <1>4, <2>2, <2>3, <2>4, <2>5 DEF OneTurn
<1> QED
  BY <1>3, <1>4

\* No walk outlasts the registry: it takes each migration once.
LEMMA TakenOnce ==
  ASSUME NEW v \in Nat, NEW a \in Nat, NEW b \in Nat, NEW k \in Nat,
         \A i \in 1 .. k : Taken(a, b, i) \in Has(v)
  PROVE  k <= Cardinality(Has(v))
<1> DEFINE S == IF a < b THEN a + 1 .. a + k ELSE a - k + 1 .. a
<1>1. S \subseteq Has(v)
  <2> SUFFICES ASSUME NEW m \in S
               PROVE  m \in Has(v)
    OBVIOUS
  <2> DEFINE i == IF a < b THEN m - a ELSE a - m + 1
  <2>1. i \in 1 .. k /\ Taken(a, b, i) = m
    BY DEF Taken
  <2> QED
    BY <2>1
<1>2. IsFiniteSet(S) /\ Cardinality(S) = k
  BY FS_Interval
<1>3. IsFiniteSet(Has(v)) /\ Cardinality(Has(v)) \in Nat
  BY RegistryScripts
<1> HIDE DEF S
<1> QED
  BY <1>1, <1>2, <1>3, FS_Subset

\* The versions a plan from a to b leads through.
Between(a, b) == IF a <= b THEN a + 1 .. b ELSE b + 1 .. a

Plan(v, a, b) == planMigrations(Semver(a), Semver(b), Registry(v))
StepsOf(plan) == {plan.steps[i].id : i \in DOMAIN plan.steps}

\* planMigrations ends, and either finds no plan or every migration between the two
\* versions and no other, all of them in the registry.
THEOREM Plans ==
  ASSUME NEW v \in Nat, NEW a \in Nat, NEW b \in Nat, Plan(v, a, b) # NoPlan
  PROVE  /\ Plan(v, a, b).direction = IF a <= b THEN "up" ELSE "down"
         /\ StepsOf(Plan(v, a, b)) = Between(a, b)
         /\ Between(a, b) \subseteq Has(v)
<1> DEFINE R == Registry(v)
           w == Walk(Semver(a), Semver(b), R)
           N == Cardinality(Has(v)) + 1
           sign == Sign(a, b)
           plan == planMigrations(Semver(a), Semver(b), R)
<1>1. N \in Nat /\ Len(R) + 1 = N
  <2>1. Len(R) = Cardinality(Has(v)) /\ Cardinality(Has(v)) \in Nat
    BY RegistryScripts
  <2> HIDE DEF R
  <2> QED
    BY <2>1
<1>2. plan = IF sign = 0 THEN [direction |-> "up", steps |-> <<>>]
             ELSE IF w[N].stuck THEN NoPlan
             ELSE IF cmpSemver(w[N].at, Semver(b)) = sign THEN Looping
             ELSE [direction |-> IF sign < 0 THEN "up" ELSE "down", steps |-> w[N].steps]
  BY <1>1, Compares DEF planMigrations, Sign
<1>3. CASE a = b
  <2>1. plan = [direction |-> "up", steps |-> <<>>]
    BY <1>2, <1>3 DEF Sign
  <2> QED
    BY <1>3, <2>1 DEF Plan, StepsOf, Between
<1>4. CASE a # b
  <2>1. OnTheWay(v, a, b, N, w[N])
    <3> DEFINE S == {n \in Nat : n <= N => OnTheWay(v, a, b, n, w[n])}
    <3> HIDE DEF w, N
    <3>0. /\ w[0] = [at |-> Semver(a), steps |-> <<>>, stuck |-> FALSE]
          /\ \A i \in 1 .. N : w[i] = Advance(w[i - 1], Semver(b), Sign(a, b), R)
      BY <1>4, WalkSteps DEF w, N
    <3>1. 0 \in S
      <4>1. w[0] \in Walks(v)
        BY <3>0 DEF Walks
      <4>2. Reached(a, b, 0) = a /\ [i \in 1 .. 0 |-> Script(Taken(a, b, i))] = <<>>
        BY DEF Reached
      <4> QED
        BY <1>4, <3>0, <4>1, <4>2 DEF OnTheWay
    <3>2. ASSUME NEW n \in S, n + 1 <= N
          PROVE  OnTheWay(v, a, b, n + 1, w[n + 1])
      <4>1. OnTheWay(v, a, b, n, w[n]) /\ n + 1 \in 1 .. N /\ (n + 1) - 1 = n
        BY <1>1, <3>2
      <4>2. w[n + 1] = Advance(w[n], Semver(b), Sign(a, b), R)
        BY <3>0, <4>1
      <4> QED
        BY <1>4, <4>1, <4>2, OnTheWayStep
    <3>3. S = Nat
      <4>1. \A n \in S : n + 1 \in S
        BY <3>2
      <4>2. S \in SUBSET Nat
        OBVIOUS
      <4> HIDE DEF S
      <4> QED
        BY <3>1, <4>1, <4>2, Induct
    <3>4. N \in S
      BY <1>1, <3>3
    <3> QED
      BY <1>1, <3>4
  <2>2. sign \in {-1, 1} /\ (sign < 0 <=> a < b)
    BY <1>4 DEF Sign
  <2> HIDE DEF w, N, sign, plan
  <2>3. ~w[N].stuck
    BY <1>2, <2>2 DEF Plan, plan
  <2>4. PICK k \in 0 .. N :
          /\ w[N].at = Semver(Reached(a, b, k)) /\ Reached(a, b, k) \in Nat
          /\ w[N].steps = [i \in 1 .. k |-> Script(Taken(a, b, i))]
          /\ \A i \in 1 .. k : Taken(a, b, i) \in Has(v)
          /\ k = N \/ Reached(a, b, k) = b
    BY <2>1, <2>3 DEF OnTheWay
  <2>5. k \in Nat /\ k # N
    <3>1. k \in Nat
      BY <1>1
    <3>2. Cardinality(Has(v)) \in Nat
      BY RegistryScripts
    <3>3. k <= Cardinality(Has(v))
      BY <2>4, <3>1, TakenOnce
    <3> QED
      BY <3>1, <3>2, <3>3 DEF N
  <2>6. cmpSemver(w[N].at, Semver(b)) = 0
    BY <2>4, <2>5, Compares
  <2>7. plan = [direction |-> IF sign < 0 THEN "up" ELSE "down", steps |-> w[N].steps]
    BY <1>2, <2>2, <2>3, <2>6
  <2>8. StepsOf(plan) = {Taken(a, b, i) : i \in 1 .. k}
    BY <2>4, <2>7 DEF StepsOf, Script
  <2>9. {Taken(a, b, i) : i \in 1 .. k} = Between(a, b)
    <3>1. k = IF a < b THEN b - a ELSE a - b
      BY <2>4, <2>5 DEF Reached
    <3>2. ASSUME NEW i \in 1 .. k
          PROVE  Taken(a, b, i) \in Between(a, b)
      BY <1>4, <3>1 DEF Taken, Between
    <3>3. ASSUME NEW m \in Between(a, b)
          PROVE  m \in {Taken(a, b, i) : i \in 1 .. k}
      <4> DEFINE i == IF a < b THEN m - a ELSE a - m + 1
      <4>1. i \in 1 .. k /\ Taken(a, b, i) = m
        BY <1>4, <3>1 DEF Taken, Between
      <4> QED
        BY <4>1
    <3> QED
      BY <3>2, <3>3
  <2>10. Between(a, b) \subseteq Has(v)
    BY <2>4, <2>9
  <2> QED
    BY <1>4, <2>2, <2>7, <2>8, <2>9, <2>10 DEF Plan, plan
<1> QED
  BY <1>3, <1>4

\* migrate takes the next of its steps in the order of their versions.
LEMMA NextSteps ==
  ASSUME NEW p \in Procs, NEW b \in Nat, run[p].todo # {}, run[p].todo \subseteq Nat,
         \A m \in run[p].todo : m <= b
  PROVE  /\ NextStep(p) \in run[p].todo
         /\ \A n \in run[p].todo :
              IF Direction(p) = "up" THEN NextStep(p) <= n ELSE n <= NextStep(p)
<1>1. \E m \in run[p].todo : \A n \in run[p].todo : m <= n
  BY Least
<1>2. \E m \in run[p].todo : \A n \in run[p].todo : n <= m
  BY Greatest
<1> QED
  BY <1>1, <1>2 DEF NextStep

\* A command of CLI version v that has a plan has versions and its migrations.
LEMMA PlannedSteps ==
  ASSUME NEW v \in Versions, NEW a \in Versions, NEW b \in Versions, Plan(v, a, b) # NoPlan
  PROVE  /\ v \in Nat /\ a \in Nat /\ b \in Nat
         /\ Plan(v, a, b).direction = IF a <= b THEN "up" ELSE "down"
         /\ StepsOf(Plan(v, a, b)) = Between(a, b)
         /\ Between(a, b) \subseteq Migrations
BY Plans, VersionsAssumption DEF Has

-------------------------------------------------------------------------------
(* Types *)

\* What a run's steps rely on beyond its types.
Due(p) ==
  /\ run[p].pc \in {"doctor", "integrity", "verifying"} => run[p].code \in {0, 1, 2}
  /\ run[p].pc \in {"presence", "integrity", "verifying"} => run[p].todo \subseteq Paths(p)
  /\ Is(p, "update") => At(p, "update") \/ run[p].seen \in ManifestType
  /\ Is(p, "migrate") => At(p, "migrate") \/ run[p].seen \in ManifestType
  /\ Is(p, "migrate") => \E b \in Nat : \A m \in run[p].todo : m <= b

\* A run has its fields and no others, each of its type.
IsRecord(r) == r = [f \in RunFields |-> r[f]]

FieldsTyped(r, kind) ==
  /\ r.pc \in Steps
  /\ r.cmd \in Command \cup {NoCommand}
  /\ r.seen \in ManifestType \cup {NoManifest}
  /\ r.todo \subseteq IF kind = "migrate" THEN Migrations ELSE Files \cup {"docs", "manifest", "lock"}
  /\ r.stale \subseteq Files
  /\ r.drift \subseteq Files
  /\ r.cur \in Files \cup {"manifest", Missing}
  /\ r.open \in BOOLEAN
  /\ r.entries \in [Files -> Bytes \cup {Missing, Partial}]
  /\ r.code \in {0, 1, 2, 3, 4, 5, 10, 137}

LEMMA ByFields == \A r, kind : r \in RunType(kind) <=> IsRecord(r) /\ FieldsTyped(r, kind)
<1> SUFFICES ASSUME NEW r, NEW kind
             PROVE  r \in RunType(kind) <=> IsRecord(r) /\ FieldsTyped(r, kind)
  OBVIOUS
<1>1. r \in RunType(kind) => IsRecord(r)
  BY DEF IsRecord, RunFields, RunType
<1>2. r \in RunType(kind) => FieldsTyped(r, kind)
  BY DEF FieldsTyped, RunType
<1>3. IsRecord(r) /\ FieldsTyped(r, kind) => r \in RunType(kind)
  BY DEF FieldsTyped, RunType, IsRecord, RunFields
<1> QED
  BY <1>1, <1>2, <1>3

\* A step of p changes these fields of its run alone.
KeepsBut(p, fields) ==
  IsRecord(run'[p]) /\ \A f \in RunFields \ fields : run'[p][f] = run[p][f]

RunTyped(p) ==
  /\ IsRecord(run[p])
  /\ FieldsTyped(run[p], run[p].cmd.kind)
  /\ Due(p)

SharedTyped ==
  /\ lock \in Procs \cup {NoProc}
  /\ made \in BOOLEAN
  /\ manifest \in ManifestType \cup {NoManifest}
  /\ torn \in BOOLEAN
  /\ disk \in [Files -> Bytes \cup {Missing, Partial}]
  /\ docs \in {"none", "placeholder", "authored"}
  /\ schema \subseteq Migrations
  /\ runs \in 0..MaxRuns
  /\ edits \in 0..MaxEdits
  /\ ran \subseteq Migrations \X {"up", "down"}

TypeInv ==
  /\ Places
  /\ SharedTyped
  /\ run = [p \in Procs |-> run[p]]
  /\ \A p \in Procs : RunTyped(p)

\* The bytes a bundle has for a path it lists.
LEMMA BundledBytes ==
  ASSUME NEW p \in Procs, InPlace(p), run[p].cmd.kind \in {"init", "update", "doctor"}
  PROVE  /\ Paths(p) \subseteq Files /\ run[p].cmd \in Commands /\ run[p].cmd \in Command
         /\ run[p].cmd.v \in Versions
         /\ \A f \in Paths(p) : Bundled(p)[f] \in Bytes
<1>1. run[p].cmd \in Commands /\ run[p].cmd \in Command
  BY CommandsAssumption DEF InPlace, NoCommand, Is
<1>2. run[p].cmd.v \in Versions
  BY <1>1 DEF Command
<1>3. DOMAIN Bundle[run[p].cmd.v] \subseteq Files
  BY <1>2, FilesAssumption
<1> QED
  BY <1>1, <1>2, <1>3 DEF Paths, Bundled, Bytes

\* A run that has ended, or only moved, has its types.
LEMMA IdleTyped ==
  ASSUME NEW p \in Procs, NEW code \in {0, 1, 2, 3, 4, 5, 10, 137}, run'[p] = Idle(code)
  PROVE  RunTyped(p)'
<1>1. IsRecord(Idle(code))
  BY ZenonT(60) DEF IsRecord, RunFields, Idle
<1>2. FieldsTyped(Idle(code), "none")
  BY DEF FieldsTyped, Steps, Idle, NoEntries
<1>3. /\ run'[p].pc = "idle" /\ run'[p].cmd = NoCommand /\ NoCommand.kind = "none"
  BY DEF Idle, NoCommand
<1> QED
  BY <1>1, <1>2, <1>3 DEF RunTyped, Due, Is, At, Paths, Bundled

LEMMA MovedTyped ==
  ASSUME NEW p \in Procs, RunTyped(p), NEW pc,
         pc \in {"gate", "preview", "locking", "verifying", "placeholders", "placing",
                 "manifest", "rebuilding"},
         run'[p] = [run[p] EXCEPT !.pc = pc],
         Is(p, "update") => ~At(p, "update"), Is(p, "migrate") => ~At(p, "migrate"),
         pc = "verifying" => At(p, "integrity")
  PROVE  RunTyped(p)'
<1>1. pc \in Steps
  BY DEF Steps
<1>2. IsRecord(run'[p]) /\ FieldsTyped(run'[p], run'[p].cmd.kind)
  BY <1>1 DEF RunTyped, IsRecord, RunFields, FieldsTyped
<1>3. /\ run'[p].pc = pc /\ run'[p].seen = run[p].seen /\ run'[p].todo = run[p].todo
      /\ run'[p].code = run[p].code /\ run'[p].cmd = run[p].cmd
  BY DEF RunTyped, IsRecord, RunFields
<1> QED
  BY <1>2, <1>3 DEF RunTyped, Due, Is, At, Paths, Bundled

\* The bytes on disk and in the manifest stay what they may be.
LEMMA SharedStep ==
  ASSUME TypeInv, NEW p \in Procs, ProcessStep(p)
  PROVE  SharedTyped'
<1> USE DEF SharedTyped
<1>0. SharedTyped /\ InPlace(p) /\ RunTyped(p)
  BY DEF TypeInv, Places
<1>1. UNCHANGED <<shared, runs, edits>> => SharedTyped'
  BY <1>0 DEF shared
<1>2. CASE \E c \in Commands : Begin(p, c)
  BY <1>0, <1>2, BoundsAssumption DEF Begin, shared
<1>3. CASE InitSteps(p)
  <2>1. CASE InitProbe(p) \/ EraseGate(p) \/ InitPreview(p)
    BY <1>1, <2>1 DEF InitProbe, EraseGate, InitPreview, Ends, Local, shared
  <2>2. CASE ListTargets(p) \/ EraseRefused(p) \/ EraseDone(p) \/ CheckDocs(p)
    BY <1>1, <2>2 DEF ListTargets, EraseRefused, EraseDone, CheckDocs, Local
  <2>3. CASE EraseTarget(p)
    BY <1>0, <2>3 DEF EraseTarget
  <2>4. CASE PlaceDocs(p)
    BY <1>0, <2>4 DEF PlaceDocs, Has
  <2> QED
    BY <1>3, <2>1, <2>2, <2>3, <2>4 DEF InitSteps
<1>4. CASE UpdateSteps(p) \/ DoctorSteps(p)
  BY <1>1, <1>4 DEF UpdateSteps, UpdateRead, CompareFile, UpdateDecide, Rebuild, DoctorSteps,
     DoctorRules, PresenceCheck, IntegrityRead, IntegrityFile, DoctorExit, VersionShow, Ends,
     Local, shared
<1>5. CASE CopySteps(p)
  <2>1. CASE CopyUnlink(p) \/ CopyCreate(p)
    BY <1>0, <2>1 DEF CopyUnlink, CopyCreate
  <2>2. CASE CopyFill(p)
    <3>1. run[p].cur \in Paths(p) /\ run[p].cmd.kind \in {"init", "update", "doctor"}
      BY <1>0, <2>2 DEF CopyFill, InPlace, At, Copying
    <3>2. Bundled(p)[run[p].cur] \in Bytes
      BY <1>0, <3>1, BundledBytes
    <3> QED
      BY <1>0, <2>2, <3>2 DEF CopyFill
  <2>3. CASE HashCopied(p) \/ CopyDone(p)
    BY <1>1, <2>3 DEF HashCopied, CopyDone, Local
  <2> QED
    BY <1>5, <2>1, <2>2, <2>3 DEF CopySteps
<1>6. CASE MigrateSteps(p)
  <2>1. CASE MigrateRead(p)
    BY <1>1, <2>1 DEF MigrateRead, MigratePlan, Ends, shared
  <2>2. CASE SkipStep(p) \/ StepsDone(p)
    BY <1>1, <2>2 DEF SkipStep, StepsDone, Local
  <2>3. CASE ApplyStep(p) \/ StepFails(p)
    <3>1. Is(p, "migrate") /\ run[p].todo # {}
      BY <1>0, <2>3 DEF ApplyStep, StepFails, InPlace, At
    <3>2. run[p].todo \subseteq Migrations
      BY <1>0, <3>1 DEF RunTyped, FieldsTyped, Is
    <3>3. PICK b \in Nat : \A m \in run[p].todo : m <= b
      BY <1>0, <3>1 DEF RunTyped, Due
    <3>4. NextStep(p) \in Migrations
      BY <3>1, <3>2, <3>3, NextSteps, VersionsAssumption
    <3>5. Direction(p) \in {"up", "down"}
      BY DEF Direction
    <3> QED
      BY <1>0, <2>3, <3>4, <3>5 DEF ApplyStep, StepFails, Effect
  <2> QED
    BY <1>6, <2>1, <2>2, <2>3 DEF MigrateSteps
<1>7. CASE LockSteps(p)
  BY <1>0, <1>7 DEF LockSteps, AcquireLock, LockHeld, Release, Ends, shared
<1>8. CASE ManifestSteps(p)
  <2>1. CASE TruncateManifest(p)
    BY <1>0, <2>1 DEF TruncateManifest
  <2>2. CASE WriteManifest(p)
    <3>1. NewManifest(p) \in ManifestType
      <4>1. CASE Is(p, "migrate")
        BY <1>0, <2>2, <4>1 DEF RunTyped, Due, NewManifest, WriteManifest, At
      <4>2. CASE ~Is(p, "migrate")
        <5>1. run[p].cmd \in Command /\ run[p].cmd.v \in Versions
          BY <1>0, <2>2, CommandsAssumption DEF WriteManifest, InPlace, At, Command
        <5>2. run[p].entries \in [Files -> Bytes \cup {Missing, Partial}]
          BY <1>0 DEF RunTyped, FieldsTyped
        <5>3. Is(p, "update") => run[p].seen \in ManifestType
          BY <1>0, <2>2 DEF RunTyped, Due, WriteManifest, At
        <5>4. Is(p, "update") => run[p].seen.applied \subseteq Migrations \X {"up", "down"}
          BY <5>3 DEF ManifestType
        <5> QED
          BY <4>2, <5>1, <5>2, <5>4 DEF NewManifest, ManifestType
      <4> QED
        BY <4>1, <4>2
    <3> QED
      BY <1>0, <2>2, <3>1 DEF WriteManifest
  <2>3. CASE WriteFails(p)
    BY <1>0, <2>3 DEF WriteFails, OnRecord
  <2> QED
    BY <1>8, <2>1, <2>2, <2>3 DEF ManifestSteps
<1>9. CASE Kill(p)
  BY <1>0, <1>9 DEF Kill, OnRecord
<1> QED
  BY <1>2, <1>3, <1>4, <1>5, <1>6, <1>7, <1>8, <1>9 DEF ProcessStep

\* ... and so does the run that takes the step.
LEMMA OwnTyped ==
  ASSUME TypeInv, NEW p \in Procs, ProcessStep(p)
  PROVE  RunTyped(p)'
<1>0. SharedTyped /\ Shape /\ InPlace(p) /\ RunTyped(p)
  BY DEF TypeInv, Places
<1>1. manifest = NoManifest \/ manifest \in ManifestType
  BY <1>0 DEF SharedTyped
<1>2. run[p].cmd.kind \in {"init", "update", "doctor"} =>
        /\ Paths(p) \subseteq Files
        /\ \A f \in Paths(p) : Bundled(p)[f] \in Bytes
  BY <1>0, BundledBytes
<1>3. ASSUME NEW code \in {0, 1, 2, 3, 4, 5, 10, 137}, Ends(p, code)
      PROVE  RunTyped(p)'
  BY <1>0, <1>3, IdleTyped DEF Ends, Shape
<1>4. ASSUME NEW pc, Goto(p, pc)
      PROVE  run'[p] = [run[p] EXCEPT !.pc = pc]
  BY <1>0, <1>4 DEF Goto, Shape
<1>5. ASSUME NEW c \in Commands, Begin(p, c)
      PROVE  RunTyped(p)'
  <2>1. c \in Command
    BY CommandsAssumption
  <2>2. run'[p] = [Idle(0) EXCEPT !.pc = c.kind, !.cmd = c]
    BY <1>0, <1>5 DEF Begin, Shape
  <2>3. c.kind \in {"init", "update", "migrate", "doctor", "version"}
    BY <2>1 DEF Command
  <2> QED
    <3>1. /\ run'[p].cmd = c /\ run'[p].pc = c.kind /\ run'[p].seen = NoManifest
          /\ run'[p].todo = {} /\ run'[p].stale = {} /\ run'[p].drift = {}
          /\ run'[p].cur = Missing /\ run'[p].open = FALSE
          /\ run'[p].entries = NoEntries /\ run'[p].code = 0
      BY <2>2 DEF Idle
    <3>2. IsRecord(run'[p])
      BY <2>2 DEF IsRecord, RunFields, Idle
    <3>3. FieldsTyped(run'[p], c.kind)
      BY <2>1, <2>3, <3>1 DEF FieldsTyped, Steps, NoEntries
    <3>4. Due(p)'
      BY <2>3, <3>1 DEF Due, Is, At, Paths, Bundled
    <3> QED
      BY <3>1, <3>2, <3>3, <3>4 DEF RunTyped
<1>6. CASE InitSteps(p)
  <2>1. CASE InitProbe(p) \/ EraseGate(p) \/ InitPreview(p)
    <3>1. Is(p, "init")
      BY <1>0, <2>1 DEF InitProbe, EraseGate, InitPreview, InPlace, At
    <3>2. CASE \E pc \in {"gate", "preview", "locking"} : Goto(p, pc)
      BY <1>0, <1>4, <3>1, <3>2, MovedTyped DEF Is
    <3> QED
      BY <1>3, <2>1, <3>2 DEF InitProbe, EraseGate, InitPreview
  <2>2. CASE ListTargets(p)
    <3>1. PICK targets \in SUBSET (Files \cup {"docs", "manifest", "lock"}) :
            run' = [run EXCEPT ![p].pc = "erasing", ![p].todo = targets]
      BY <2>2 DEF ListTargets
    <3>2. Is(p, "init")
      BY <1>0, <2>2 DEF ListTargets, InPlace, At
    <3>3. run'[p] = [run[p] EXCEPT !.pc = "erasing", !.todo = targets]
      BY <1>0, <3>1 DEF Shape
    <3>4. KeepsBut(p, {"pc", "todo"}) /\ run'[p].pc = "erasing" /\ run'[p].todo = targets
      BY <1>0, <3>3 DEF KeepsBut, RunTyped, IsRecord, RunFields
    <3>5. FieldsTyped(run'[p], "init")
      BY <1>0, <3>2, <3>4 DEF KeepsBut, RunFields, RunTyped, FieldsTyped, Steps, Is
    <3> QED
      BY <3>2, <3>4, <3>5 DEF KeepsBut, RunFields, RunTyped, Due, Is, At, Paths, Bundled
  <2>3. CASE EraseTarget(p)
    <3>1. PICK t \in run[p].todo : run' = Detached([run EXCEPT ![p].todo = @ \ {t}], t)
      BY <2>3 DEF EraseTarget
    <3>2. Is(p, "init") /\ At(p, "erasing")
      BY <1>0, <2>3 DEF EraseTarget, InPlace, At
    <3>3. \/ run'[p] = [run[p] EXCEPT !.todo = run[p].todo \ {t}]
          \/ run'[p] = [run[p] EXCEPT !.todo = run[p].todo \ {t}, !.open = FALSE]
      BY <1>0, <3>1 DEF Detached, Shape
    <3>4. /\ KeepsBut(p, {"todo", "open"}) /\ run'[p].todo = run[p].todo \ {t}
          /\ run'[p].open \in {run[p].open, FALSE}
      BY <1>0, <3>3 DEF KeepsBut, RunTyped, IsRecord, RunFields
    <3>5. FieldsTyped(run'[p], "init")
      BY <1>0, <3>2, <3>4, ZenonT(60) DEF KeepsBut, RunFields, RunTyped, FieldsTyped, Is
    <3> QED
      BY <3>2, <3>4, <3>5 DEF KeepsBut, RunFields, RunTyped, Due, Is, At, Paths, Bundled
  <2>4. CASE EraseRefused(p) \/ EraseDone(p)
    BY <1>0, <1>1, <1>2, <2>4
    DEF EraseRefused, EraseDone, InPlace, At, Is, Shape, RunTyped, IsRecord, RunFields, FieldsTyped, Steps, Due
  <2>5. CASE CheckDocs(p) \/ PlaceDocs(p)
    <3>1. Is(p, "init")
      BY <1>0, <2>5 DEF CheckDocs, PlaceDocs, InPlace, At
    <3>2. \E pc \in {"placing", "manifest"} : Goto(p, pc)
      BY <2>5 DEF CheckDocs, PlaceDocs
    <3> QED
      BY <1>0, <1>4, <3>1, <3>2, MovedTyped DEF Is
  <2> QED
    BY <1>6, <2>1, <2>2, <2>3, <2>4, <2>5 DEF InitSteps
<1>7. CASE UpdateSteps(p)
  <2>1. Is(p, "update")
    BY <1>0, <1>7 DEF UpdateSteps, UpdateRead, CompareFile, UpdateDecide, Rebuild, InPlace, At
  <2>2. CASE UpdateRead(p)
    <3>1. CASE /\ manifest # NoManifest
               /\ run' = [run EXCEPT ![p].pc = "comparing", ![p].seen = manifest,
                                     ![p].todo = Paths(p)]
      <4>1. /\ KeepsBut(p, {"pc", "seen", "todo"}) /\ run'[p].pc = "comparing"
            /\ run'[p].seen = manifest /\ run'[p].todo = Paths(p)
        BY <1>0, <3>1 DEF Shape, KeepsBut, RunTyped, IsRecord, RunFields
      <4>2. FieldsTyped(run'[p], "update")
        <5>1. Paths(p) \subseteq Files /\ manifest \in ManifestType
          BY <1>1, <1>2, <2>1, <3>1 DEF Is
        <5> QED
          BY <1>0, <2>1, <4>1, <5>1 DEF KeepsBut, RunFields, RunTyped, FieldsTyped, Steps, Is
      <4> QED
        BY <1>1, <2>1, <3>1, <4>1, <4>2 DEF KeepsBut, RunFields, RunTyped, Due, Is, At
    <3> QED
      BY <1>3, <2>2, <3>1 DEF UpdateRead, ManifestExists
  <2>3. CASE CompareFile(p)
    <3>1. PICK f \in run[p].todo :
            \E more, less \in {{}, {f}} :
              run'[p] = [run[p] EXCEPT !.todo = run[p].todo \ {f}, !.drift = run[p].drift \cup more,
                                       !.stale = run[p].stale \cup less]
      <4>1. PICK f \in run[p].todo : \E state :
              run' = [run EXCEPT
                ![p].todo = @ \ {f},
                ![p].drift = IF state = "changed-by-user" THEN @ \cup {f} ELSE @,
                ![p].stale = IF state \in {"missing-locally", "unchanged-by-user-needs-update"}
                               THEN @ \cup {f} ELSE @]
        BY <2>3 DEF CompareFile
      <4>2. PICK state :
              run' = [run EXCEPT
                ![p].todo = @ \ {f},
                ![p].drift = IF state = "changed-by-user" THEN @ \cup {f} ELSE @,
                ![p].stale = IF state \in {"missing-locally", "unchanged-by-user-needs-update"}
                               THEN @ \cup {f} ELSE @]
        BY <4>1
      <4> DEFINE more == IF state = "changed-by-user" THEN {f} ELSE {}
                 less == IF state \in {"missing-locally", "unchanged-by-user-needs-update"}
                           THEN {f} ELSE {}
      <4>3. run'[p] = [run[p] EXCEPT !.todo = run[p].todo \ {f},
                         !.drift = run[p].drift \cup more, !.stale = run[p].stale \cup less]
        BY <1>0, <1>1, <4>2 DEF Shape, RunTyped, IsRecord, RunFields
      <4> QED
        BY <4>3
    <3>2. At(p, "comparing") /\ f \in Files
      BY <1>0, <1>2, <2>1, <2>3, <3>1 DEF CompareFile, InPlace, At, Is, Copying
    <3>3. PICK more, less \in {{}, {f}} :
            run'[p] = [run[p] EXCEPT !.todo = run[p].todo \ {f}, !.drift = run[p].drift \cup more,
                                     !.stale = run[p].stale \cup less]
      BY <3>1
    <3>4. /\ KeepsBut(p, {"todo", "drift", "stale"}) /\ run'[p].todo = run[p].todo \ {f}
          /\ run'[p].drift = run[p].drift \cup more /\ run'[p].stale = run[p].stale \cup less
      BY <1>0, <3>3 DEF KeepsBut, RunTyped, IsRecord, RunFields
    <3>5. FieldsTyped(run'[p], "update")
      BY <1>0, <2>1, <3>2, <3>4 DEF KeepsBut, RunFields, RunTyped, FieldsTyped, Is
    <3> QED
      BY <1>0, <2>1, <3>2, <3>4, <3>5 DEF KeepsBut, RunFields, RunTyped, Due, Is, At, Paths, Bundled
  <2>4. CASE UpdateDecide(p)
    <3>1. CASE Goto(p, "locking")
      BY <1>0, <1>4, <2>1, <2>4, <3>1, MovedTyped DEF Is, At, UpdateDecide
    <3> QED
      BY <1>3, <2>4, <3>1 DEF UpdateDecide
  <2>5. CASE Rebuild(p)
    <3>1. PICK kept \in SUBSET Files :
            run'[p] = [run[p] EXCEPT !.pc = "manifest",
                         !.entries = [f \in Files |-> IF f \in kept THEN disk[f] ELSE Missing]]
      <4>1. PICK unread \in SUBSET Paths(p) :
              run' = [run EXCEPT ![p].pc = "manifest",
                        ![p].entries = [f \in Files |-> IF f \in Paths(p) \ unread THEN disk[f]
                                                        ELSE Missing]]
        BY <2>5 DEF Rebuild
      <4> QED
        BY <1>0, <1>2, <2>1, <4>1 DEF Shape, Is
    <3>2. [f \in Files |-> IF f \in kept THEN disk[f] ELSE Missing]
            \in [Files -> Bytes \cup {Missing, Partial}]
      BY <1>0 DEF SharedTyped
    <3>3. ~At(p, "update")
      BY <2>5 DEF Rebuild, At
    <3>4. /\ KeepsBut(p, {"pc", "entries"}) /\ run'[p].pc = "manifest"
          /\ run'[p].entries = [f \in Files |-> IF f \in kept THEN disk[f] ELSE Missing]
      BY <1>0, <3>1 DEF KeepsBut, RunTyped, IsRecord, RunFields
    <3>5. FieldsTyped(run'[p], "update")
      BY <1>0, <2>1, <3>2, <3>4 DEF KeepsBut, RunFields, RunTyped, FieldsTyped, Steps, Is
    <3> QED
      BY <1>0, <2>1, <3>3, <3>4, <3>5 DEF KeepsBut, RunFields, RunTyped, Due, Is, At, Paths, Bundled
  <2> QED
    BY <1>7, <2>2, <2>3, <2>4, <2>5 DEF UpdateSteps
<1>8. CASE CopySteps(p)
  <2>0. run[p].cmd.kind \in {"init", "update"} /\ run[p].pc \in Copying
    BY <1>0, <1>8 DEF CopySteps, CopyUnlink, CopyCreate, CopyFill, HashCopied, CopyDone,
                      InPlace, At, Copying
  <2>1. CASE CopyUnlink(p)
    <3>1. PICK f \in run[p].todo : run' = [Detached(run, f) EXCEPT ![p].pc = "creating", ![p].cur = f]
      BY <2>1 DEF CopyUnlink
    <3>2. \/ run'[p] = [run[p] EXCEPT !.pc = "creating", !.cur = f]
          \/ run'[p] = [run[p] EXCEPT !.open = FALSE, !.pc = "creating", !.cur = f]
      BY <1>0, <3>1 DEF Detached, Shape
    <3>3. f \in Files
      BY <1>0, <1>2, <2>0, <3>1 DEF InPlace
    <3>4. /\ KeepsBut(p, {"pc", "cur", "open"}) /\ run'[p].pc = "creating"
          /\ run'[p].cur = f /\ run'[p].open \in {run[p].open, FALSE}
      BY <1>0, <3>2 DEF KeepsBut, RunTyped, IsRecord, RunFields
    <3>5. FieldsTyped(run'[p], run[p].cmd.kind)
      BY <1>0, <3>3, <3>4, ZenonT(60) DEF KeepsBut, RunFields, RunTyped, FieldsTyped, Steps
    <3> QED
      BY <1>0, <2>0, <3>4, <3>5 DEF KeepsBut, RunFields, RunTyped, Due, Is, At, Paths, Bundled, Copying
  <2>2. CASE CopyCreate(p) \/ CopyFill(p)
    <3>1. CASE CopyCreate(p)
      <4>1. CASE run' = [run EXCEPT ![p].pc = "filling", ![p].open = TRUE]
        <5>1. KeepsBut(p, {"pc", "open"}) /\ run'[p].pc = "filling" /\ run'[p].open \in BOOLEAN
          BY <1>0, <4>1 DEF Shape, KeepsBut, RunTyped, IsRecord, RunFields
        <5>2. FieldsTyped(run'[p], run[p].cmd.kind)
          BY <1>0, <5>1 DEF KeepsBut, RunFields, RunTyped, FieldsTyped, Steps
        <5> QED
          BY <1>0, <2>0, <5>1, <5>2 DEF KeepsBut, RunFields, RunTyped, Due, Is, At, Paths, Bundled, Copying
      <4>2. CASE run' = [run EXCEPT ![p].pc = "releasing", ![p].code = 10]
        <5>1. KeepsBut(p, {"pc", "code"}) /\ run'[p].pc = "releasing" /\ run'[p].code = 10
          BY <1>0, <4>2 DEF Shape, KeepsBut, RunTyped, IsRecord, RunFields
        <5>2. FieldsTyped(run'[p], run[p].cmd.kind)
          BY <1>0, <5>1 DEF KeepsBut, RunFields, RunTyped, FieldsTyped, Steps
        <5> QED
          BY <1>0, <2>0, <5>1, <5>2 DEF KeepsBut, RunFields, RunTyped, Due, Is, At, Paths, Bundled, Copying
      <4> QED
        BY <3>1, <4>1, <4>2 DEF CopyCreate
    <3>2. CASE CopyFill(p)
      <4>1. /\ KeepsBut(p, {"pc", "todo", "open"}) /\ run'[p].pc \in {"hashing", "copying"}
            /\ run'[p].todo = run[p].todo \ {run[p].cur} /\ run'[p].open = FALSE
        BY <1>0, <3>2 DEF CopyFill, Shape, KeepsBut, RunTyped, IsRecord, RunFields
      <4>2. FieldsTyped(run'[p], run[p].cmd.kind)
        BY <1>0, <4>1, ZenonT(60) DEF KeepsBut, RunFields, RunTyped, FieldsTyped, Steps
      <4> QED
        BY <1>0, <2>0, <4>1, <4>2 DEF KeepsBut, RunFields, RunTyped, Due, Is, At, Paths, Bundled, Copying
    <3> QED
      BY <2>2, <3>1, <3>2
  <2>3. CASE HashCopied(p)
    <3>1. CASE run' = [run EXCEPT ![p].pc = "releasing", ![p].code = 10]
      BY <1>0, <2>0, <3>1, ZenonT(60)
      DEF Shape, RunTyped, IsRecord, RunFields, FieldsTyped, Steps, Due, Is, At, Paths, Bundled, Copying
    <3>2. CASE run' = [run EXCEPT ![p].pc = "copying", ![p].entries[run[p].cur] = disk[run[p].cur]]
      <4>1. run[p].cur \in Files => disk[run[p].cur] \in Bytes \cup {Missing, Partial}
        BY <1>0 DEF SharedTyped
      <4>2. /\ KeepsBut(p, {"pc", "entries"}) /\ run'[p].pc = "copying"
            /\ run'[p].entries = [run[p].entries EXCEPT ![run[p].cur] = disk[run[p].cur]]
        BY <1>0, <3>2 DEF Shape, KeepsBut, RunTyped, IsRecord, RunFields
      <4>3. run'[p].entries \in [Files -> Bytes \cup {Missing, Partial}]
        <5>1. run[p].entries \in [Files -> Bytes \cup {Missing, Partial}]
          BY <1>0 DEF RunTyped, FieldsTyped
        <5> QED
          BY <4>1, <4>2, <5>1
      <4>4. FieldsTyped(run'[p], run[p].cmd.kind)
        BY <1>0, <4>2, <4>3 DEF KeepsBut, RunFields, RunTyped, FieldsTyped, Steps
      <4> QED
        BY <1>0, <2>0, <4>2, <4>4 DEF KeepsBut, RunFields, RunTyped, Due, Is, At, Paths, Bundled, Copying
    <3> QED
      BY <2>3, <3>1, <3>2 DEF HashCopied
  <2>4. CASE CopyDone(p)
    <3>1. \E pc \in {"placeholders", "rebuilding"} : Goto(p, pc)
      BY <2>4 DEF CopyDone
    <3> QED
      BY <1>0, <1>4, <2>0, <3>1, MovedTyped DEF Is, At, Copying
  <2> QED
    BY <1>8, <2>1, <2>2, <2>3, <2>4 DEF CopySteps
<1>9. CASE MigrateSteps(p)
  <2>0. Is(p, "migrate")
    BY <1>0, <1>9 DEF MigrateSteps, MigrateRead, SkipStep, ApplyStep, StepFails, StepsDone, InPlace, At
  <2>1. CASE MigrateRead(p)
    <3>1. CASE \E code \in {0, 2, 4, 10} : Ends(p, code)
      BY <1>3, <3>1
    <3>2. CASE ~\E code \in {0, 2, 4, 10} : Ends(p, code)
      <4>1. /\ manifest # NoManifest
            /\ Plan(run[p].cmd.v, manifest.version, run[p].cmd.to) # NoPlan
            /\ run' = [run EXCEPT ![p].pc = "locking", ![p].seen = manifest,
                 ![p].todo = StepsOf(Plan(run[p].cmd.v, manifest.version, run[p].cmd.to))]
        BY <2>1, <3>2 DEF MigrateRead, MigratePlan, ManifestExists, Plan, StepsOf
      <4>2. /\ run[p].cmd.v \in Versions /\ run[p].cmd.to \in Versions
            /\ manifest.version \in Versions
        BY <1>0, <1>1, <2>0, <4>1, CommandsAssumption
        DEF InPlace, Is, NoCommand, Command, ManifestType
      <4> DEFINE steps == StepsOf(Plan(run[p].cmd.v, manifest.version, run[p].cmd.to))
      <4>3. steps \subseteq Migrations
        BY <4>1, <4>2, PlannedSteps
      <4>4. \E b \in Nat : \A m \in steps : m <= b
        <5>1. steps = Between(manifest.version, run[p].cmd.to)
          BY <4>1, <4>2, PlannedSteps
        <5>2. manifest.version \in Nat /\ run[p].cmd.to \in Nat
          BY <4>2, VersionsAssumption
        <5>3. CASE manifest.version <= run[p].cmd.to
          BY <5>1, <5>2, <5>3, SMTT(60) DEF Between
        <5>4. CASE ~(manifest.version <= run[p].cmd.to)
          BY <5>1, <5>2, <5>4 DEF Between
        <5> QED
          BY <5>3, <5>4
      <4> HIDE DEF steps
      <4>5. run' = [run EXCEPT ![p].pc = "locking", ![p].seen = manifest, ![p].todo = steps]
        BY <4>1 DEF steps
      <4>6. /\ KeepsBut(p, {"pc", "seen", "todo"}) /\ run'[p].pc = "locking"
            /\ run'[p].seen = manifest /\ run'[p].todo = steps
        BY <1>0, <4>5 DEF Shape, KeepsBut, RunTyped, IsRecord, RunFields
      <4>7. FieldsTyped(run'[p], "migrate")
        BY <1>0, <1>1, <4>1, <4>3, <4>6, ZenonT(60) DEF KeepsBut, RunFields, RunTyped, FieldsTyped, Steps
      <4> QED
        BY <1>1, <2>0, <4>1, <4>4, <4>6, <4>7 DEF KeepsBut, RunFields, RunTyped, Due, Is, At, Paths, Bundled
    <3> QED
      BY <3>1, <3>2
  <2>2. run[p].pc = "running" => run[p].seen \in ManifestType
    BY <1>0, <2>0 DEF RunTyped, Due, At
  <2>3. CASE SkipStep(p) \/ StepFails(p)
    BY <1>0, <2>0, <2>2, <2>3
    DEF SkipStep, StepFails, Shape, RunTyped, IsRecord, RunFields, FieldsTyped, Steps, Due, Is, At, Paths, Bundled
  <2>4. CASE ApplyStep(p) \/ StepsDone(p)
    <3>0. run[p].pc = "running" /\ run[p].seen \in ManifestType
      BY <2>2, <2>4 DEF ApplyStep, StepsDone, At
    <3>1. /\ KeepsBut(p, {"pc", "seen", "todo"}) /\ run'[p].pc \in {"running", "manifest"}
          /\ run'[p].seen \in ManifestType /\ run'[p].todo \subseteq run[p].todo
      <4>1. CASE StepsDone(p)
        <5>1. run[p].cmd.to \in Versions
          BY <1>0, <2>0, CommandsAssumption DEF InPlace, Is, NoCommand, Command
        <5>2. [run[p].seen EXCEPT !.version = run[p].cmd.to] \in ManifestType
          BY <3>0, <5>1 DEF ManifestType
        <5>3. /\ KeepsBut(p, {"pc", "seen"}) /\ run'[p].pc = "manifest"
              /\ run'[p].seen = [run[p].seen EXCEPT !.version = run[p].cmd.to]
          BY <1>0, <4>1 DEF StepsDone, Shape, KeepsBut, RunTyped, IsRecord, RunFields
        <5> QED
          BY <5>2, <5>3 DEF KeepsBut, RunFields
      <4>2. CASE ApplyStep(p)
        <5> DEFINE step == <<NextStep(p), Direction(p)>>
        <5>1. NextStep(p) \in Migrations
          <6>1. run[p].todo \subseteq Migrations /\ run[p].todo # {}
            BY <1>0, <2>0, <4>2 DEF RunTyped, FieldsTyped, Is, ApplyStep
          <6>2. PICK b \in Nat : \A m \in run[p].todo : m <= b
            BY <1>0, <2>0 DEF RunTyped, Due
          <6> QED
            BY <6>1, <6>2, NextSteps, VersionsAssumption
        <5>2. [run[p].seen EXCEPT !.applied = run[p].seen.applied \cup {step}] \in ManifestType
          BY <3>0, <5>1 DEF Direction, ManifestType
        <5>3. /\ KeepsBut(p, {"seen", "todo"}) /\ run'[p].todo = run[p].todo \ {NextStep(p)}
              /\ run'[p].seen = [run[p].seen EXCEPT !.applied = run[p].seen.applied \cup {step}]
          BY <1>0, <4>2 DEF ApplyStep, Shape, KeepsBut, RunTyped, IsRecord, RunFields
        <5> QED
          BY <3>0, <5>2, <5>3 DEF KeepsBut, RunFields
      <4> QED
        BY <2>4, <4>1, <4>2
    <3>2. FieldsTyped(run'[p], "migrate")
      BY <1>0, <2>0, <3>1 DEF KeepsBut, RunFields, RunTyped, FieldsTyped, Steps, Is
    <3> QED
      BY <1>0, <2>0, <3>1, <3>2 DEF KeepsBut, RunFields, RunTyped, Due, Is, At
  <2> QED
    BY <1>9, <2>1, <2>3, <2>4 DEF MigrateSteps
<1>10. CASE DoctorSteps(p)
  <2>1. CASE DoctorRules(p)
    <3>1. Is(p, "doctor") /\ run[p].code \in {0, 1, 2}
      BY <1>0, <2>1 DEF DoctorRules, InPlace, RunTyped, Due, At
    <3>2. CASE Ends(p, 2)
      BY <1>3, <3>2
    <3>3. CASE ~Ends(p, 2)
      <4>1. PICK todo \in SUBSET Paths(p), pc \in {"presence", "integrity"} :
              run' = [run EXCEPT ![p].pc = pc, ![p].todo = todo]
        BY <2>1, <3>3 DEF DoctorRules
      <4>2. KeepsBut(p, {"pc", "todo"}) /\ run'[p].pc = pc /\ run'[p].todo = todo
        BY <1>0, <4>1 DEF Shape, KeepsBut, RunTyped, IsRecord, RunFields
      <4>3. FieldsTyped(run'[p], "doctor")
        BY <1>0, <1>2, <3>1, <4>2 DEF KeepsBut, RunFields, RunTyped, FieldsTyped, Steps, Is
      <4> QED
        BY <3>1, <4>2, <4>3 DEF KeepsBut, RunFields, RunTyped, Due, Is, At, Paths, Bundled
    <3> QED
      BY <3>2, <3>3
  <2>2. CASE PresenceCheck(p)
    <3>1. PICK code \in {0, 1, 2} : run' = [run EXCEPT ![p].pc = "integrity", ![p].code = code]
      <4> DEFINE found == IF ~SourceRepo /\ (manifest = NoManifest \/ torn) THEN 1 ELSE 0
      <4>1. PICK others \in {0, 1} :
              run' = [run EXCEPT ![p].pc = "integrity", ![p].code = others + found]
        BY <2>2 DEF PresenceCheck
      <4>2. found \in {0, 1}
        OBVIOUS
      <4>3. others + found \in {0, 1, 2}
        <5> HIDE DEF found
        <5> QED
          BY <4>2
      <4> QED
        BY <4>1, <4>3
    <3>2. KeepsBut(p, {"pc", "code"}) /\ run'[p].pc = "integrity" /\ run'[p].code = code
      BY <1>0, <3>1 DEF Shape, KeepsBut, RunTyped, IsRecord, RunFields
    <3>3. FieldsTyped(run'[p], run[p].cmd.kind)
      BY <1>0, <3>2 DEF KeepsBut, RunFields, RunTyped, FieldsTyped, Steps
    <3>4. Is(p, "doctor") /\ run[p].todo \subseteq Paths(p)
      BY <1>0, <2>2 DEF PresenceCheck, InPlace, RunTyped, Due, At
    <3> QED
      BY <3>2, <3>3, <3>4 DEF KeepsBut, RunFields, RunTyped, Due, Is, At, Paths, Bundled
  <2>3. CASE IntegrityRead(p) \/ DoctorExit(p)
    <3>1. run[p].code \in {0, 1, 2} /\ Is(p, "doctor")
      BY <1>0, <2>3 DEF IntegrityRead, DoctorExit, RunTyped, Due, InPlace, At
    <3>2. CASE \E code \in {run[p].code, run[p].code + 1, run[p].code + 0} : Ends(p, code)
      BY <1>3, <3>1, <3>2
    <3>3. CASE At(p, "integrity") /\ Goto(p, "verifying")
      BY <1>0, <1>4, <3>1, <3>3, MovedTyped DEF Is
    <3> QED
      BY <2>3, <3>2, <3>3 DEF IntegrityRead, DoctorExit
  <2>4. CASE IntegrityFile(p)
    <3>1. PICK f \in run[p].todo : \E drift \in {run[p].drift, run[p].drift \cup {f}} :
            run' = [run EXCEPT ![p].todo = @ \ {f}, ![p].drift = drift]
      BY <1>0, <2>4 DEF IntegrityFile, Shape, RunTyped, IsRecord, RunFields
    <3>2. PICK drift \in {run[p].drift, run[p].drift \cup {f}} :
            run' = [run EXCEPT ![p].todo = @ \ {f}, ![p].drift = drift]
      BY <3>1
    <3>3. KeepsBut(p, {"todo", "drift"}) /\ run'[p].todo = run[p].todo \ {f} /\ run'[p].drift = drift
      BY <1>0, <3>2 DEF Shape, KeepsBut, RunTyped, IsRecord, RunFields
    <3>4. Is(p, "doctor") /\ At(p, "verifying") /\ f \in Files
      BY <1>0, <1>2, <2>4 DEF IntegrityFile, InPlace, RunTyped, Due, At, Is
    <3>5. FieldsTyped(run'[p], "doctor")
      BY <1>0, <3>3, <3>4 DEF KeepsBut, RunFields, RunTyped, FieldsTyped, Is
    <3> QED
      BY <1>0, <3>3, <3>4, <3>5 DEF KeepsBut, RunFields, RunTyped, Due, Is, At, Paths, Bundled
  <2>5. CASE VersionShow(p)
    BY <1>3, <2>5 DEF VersionShow
  <2> QED
    BY <1>10, <2>1, <2>2, <2>3, <2>4, <2>5 DEF DoctorSteps
<1>11. CASE LockSteps(p)
  <2>1. CASE AcquireLock(p)
    <3>1. run[p].cmd.kind \in {"init", "update", "migrate"}
      BY <1>0, <2>1 DEF AcquireLock, InPlace, At
    <3>2. PICK todo \in SUBSET Files, pc \in {"running", "listing", "copying"} :
            run' = [run EXCEPT ![p].pc = pc, ![p].todo = IF Is(p, "migrate") THEN run[p].todo ELSE todo]
      <4> DEFINE todo == IF Is(p, "init") THEN Paths(p)
                         ELSE run[p].stale \cup
                                (IF run[p].cmd.strategy = "theirs" THEN run[p].drift ELSE {})
                 pc == CASE Is(p, "migrate") -> "running"
                         [] Is(p, "init") /\ run[p].cmd.erase -> "listing"
                         [] OTHER -> "copying"
      <4>1. run' = [run EXCEPT ![p].pc = pc, ![p].todo = IF Is(p, "migrate") THEN run[p].todo ELSE todo]
        BY <1>0, <2>1, <3>1 DEF AcquireLock, Is
      <4>2. ~Is(p, "migrate") => todo \in SUBSET Files
        BY <1>0, <1>2, <3>1 DEF RunTyped, FieldsTyped, Is
      <4>3. pc \in {"running", "listing", "copying"}
        OBVIOUS
      <4> HIDE DEF pc, todo
      <4>4. CASE Is(p, "migrate")
        BY <4>1, <4>3, <4>4
      <4> QED
        BY <4>1, <4>2, <4>3, <4>4
    <3>3. /\ KeepsBut(p, {"pc", "todo"}) /\ run'[p].pc = pc
          /\ run'[p].todo = IF Is(p, "migrate") THEN run[p].todo ELSE todo
      BY <1>0, <3>2 DEF Shape, KeepsBut, RunTyped, IsRecord, RunFields
    <3>4. FieldsTyped(run'[p], run[p].cmd.kind)
      BY <1>0, <3>3 DEF KeepsBut, RunFields, RunTyped, FieldsTyped, Steps, Is
    <3> QED
      BY <1>0, <2>1, <3>1, <3>3, <3>4
      DEF AcquireLock, KeepsBut, RunFields, RunTyped, Due, Is, At, Paths, Bundled
  <2>2. CASE LockHeld(p)
    BY <1>3, <2>2 DEF LockHeld
  <2>3. CASE Release(p)
    <3>1. run'[p] = Idle(run[p].code) /\ run[p].code \in {0, 1, 2, 3, 4, 5, 10, 137}
      BY <1>0, <2>3 DEF Release, Shape, RunTyped, FieldsTyped
    <3> QED
      BY <3>1, IdleTyped
  <2> QED
    BY <1>11, <2>1, <2>2, <2>3 DEF LockSteps
<1>12. CASE ManifestSteps(p)
  <2>0. run[p].pc \notin {"update", "migrate"}
    BY <1>12 DEF ManifestSteps, TruncateManifest, WriteManifest, WriteFails, At
  <2>1. CASE TruncateManifest(p)
    <3>1. /\ KeepsBut(p, {"pc", "cur", "open"}) /\ run'[p].pc = "writing"
          /\ run'[p].cur = "manifest" /\ run'[p].open \in BOOLEAN
      BY <1>0, <2>1 DEF TruncateManifest, Shape, KeepsBut, RunTyped, IsRecord, RunFields
    <3>2. FieldsTyped(run'[p], run[p].cmd.kind)
      BY <1>0, <3>1 DEF KeepsBut, RunFields, RunTyped, FieldsTyped, Steps
    <3> QED
      BY <1>0, <2>0, <3>1, <3>2 DEF KeepsBut, RunFields, RunTyped, Due, Is, At, Paths, Bundled
  <2>2. CASE WriteManifest(p) \/ WriteFails(p)
    <3>1. /\ KeepsBut(p, {"pc", "open", "code"}) /\ run'[p].pc = "releasing"
          /\ run'[p].open \in BOOLEAN /\ (run'[p].code = run[p].code \/ run'[p].code = 10)
      <4>1. CASE WriteManifest(p)
        BY <1>0, <4>1 DEF WriteManifest, Shape, KeepsBut, RunTyped, IsRecord, RunFields
      <4>2. CASE WriteFails(p)
        BY <1>0, <4>2 DEF WriteFails, Shape, KeepsBut, RunTyped, IsRecord, RunFields
      <4> QED
        BY <2>2, <4>1, <4>2
    <3>2. run'[p].code \in {0, 1, 2, 3, 4, 5, 10, 137}
      BY <1>0, <3>1 DEF RunTyped, FieldsTyped
    <3>3. FieldsTyped(run'[p], run[p].cmd.kind)
      BY <1>0, <3>1, <3>2 DEF KeepsBut, RunFields, RunTyped, FieldsTyped, Steps
    <3> QED
      BY <1>0, <2>0, <3>1, <3>3 DEF KeepsBut, RunFields, RunTyped, Due, Is, At, Paths, Bundled
  <2> QED
    BY <1>12, <2>1, <2>2 DEF ManifestSteps
<1>13. CASE Kill(p)
  BY <1>0, <1>13, IdleTyped DEF Kill, Shape
<1> QED
  BY <1>5, <1>6, <1>7, <1>8, <1>9, <1>10, <1>11, <1>12, <1>13 DEF ProcessStep

\* A run that at most loses the file it has open has its types.
LEMMA OpenTyped ==
  ASSUME NEW q \in Procs, RunTyped(q),
         run'[q] = run[q] \/ run'[q] = [run[q] EXCEPT !.open = FALSE]
  PROVE  RunTyped(q)'
<1>1. CASE run'[q] = run[q]
  BY <1>1 DEF RunTyped, Due, Is, At, Paths, Bundled
<1>2. CASE run'[q] = [run[q] EXCEPT !.open = FALSE]
  <2>1. KeepsBut(q, {"open"}) /\ run'[q].open \in BOOLEAN
    BY <1>2 DEF KeepsBut, RunTyped, IsRecord, RunFields
  <2>2. FieldsTyped(run'[q], run[q].cmd.kind)
    BY <2>1 DEF KeepsBut, RunFields, RunTyped, FieldsTyped
  <2> QED
    BY <2>1, <2>2 DEF KeepsBut, RunFields, RunTyped, Due, Is, At, Paths, Bundled
<1> QED
  BY <1>1, <1>2

\* run stays a function of the processes.
LEMMA StaysFunction ==
  ASSUME run = [q \in Procs |-> run[q]], NEW p \in Procs, ProcessStep(p)
  PROVE  run' = [q \in Procs |-> run'[q]]
<1>1. ASSUME NEW code, Ends(p, code)
      PROVE  run' = [q \in Procs |-> run'[q]]
  BY <1>1 DEF Ends
<1>2. ASSUME NEW pc, Goto(p, pc)
      PROVE  run' = [q \in Procs |-> run'[q]]
  BY <1>2 DEF Goto
<1>3. CASE \E c \in Commands : Begin(p, c)
  BY <1>3 DEF Begin
<1>4. CASE InitSteps(p)
  BY <1>1, <1>2, <1>4 DEF InitSteps, InitProbe, EraseGate, InitPreview, ListTargets, EraseTarget,
     EraseRefused, EraseDone, CheckDocs, PlaceDocs, Detached
<1>5. CASE UpdateSteps(p) \/ DoctorSteps(p)
  BY <1>1, <1>2, <1>5 DEF UpdateSteps, UpdateRead, CompareFile, UpdateDecide, Rebuild,
     DoctorSteps, DoctorRules, PresenceCheck, IntegrityRead, IntegrityFile, DoctorExit, VersionShow
<1>6. CASE CopySteps(p)
  BY <1>2, <1>6 DEF CopySteps, CopyUnlink, CopyCreate, CopyFill, HashCopied, CopyDone, Detached
<1>7. CASE MigrateSteps(p)
  BY <1>1, <1>7 DEF MigrateSteps, MigrateRead, MigratePlan, SkipStep, ApplyStep, StepFails, StepsDone
<1>8. CASE LockSteps(p) \/ ManifestSteps(p) \/ Kill(p)
  BY <1>1, <1>8 DEF LockSteps, AcquireLock, LockHeld, Release, ManifestSteps, TruncateManifest,
     WriteManifest, WriteFails, Kill
<1> QED
  BY <1>3, <1>4, <1>5, <1>6, <1>7, <1>8 DEF ProcessStep

\* All types are kept, whatever anyone does.
LEMMA TypeStep ==
  ASSUME TypeInv, [Next]_vars
  PROVE  TypeInv'
<1>0. Places'
  BY PlacesStep DEF TypeInv, SharedTyped
<1>1. ASSUME NEW p \in Procs, ProcessStep(p)
      PROVE  TypeInv'
  <2>1. Undisturbed(p)
    BY <1>1, StepOfOne DEF TypeInv, Places
  <2>2. \A q \in Procs : RunTyped(q)'
    BY <1>1, <2>1, OwnTyped, OpenTyped DEF TypeInv, Undisturbed
  <2>3. SharedTyped'
    BY <1>1, SharedStep
  <2>4. run' = [q \in Procs |-> run'[q]]
    BY <1>1, StaysFunction DEF TypeInv
  <2> QED
    BY <1>0, <2>2, <2>3, <2>4 DEF TypeInv
<1>2. CASE EditFile
  <2>1. /\ SharedTyped' /\ run' = [q \in Procs |-> run'[q]]
    BY <1>2, BoundsAssumption, BytesAssumption DEF EditFile, Detached, TypeInv, SharedTyped, Bytes
  <2>2. ASSUME NEW q \in Procs
        PROVE  RunTyped(q)'
    <3>1. run'[q] = run[q] \/ run'[q] = [run[q] EXCEPT !.open = FALSE]
      BY <1>2 DEF EditFile, Detached
    <3> QED
      BY <3>1, OpenTyped DEF TypeInv
  <2> QED
    BY <1>0, <2>1, <2>2 DEF TypeInv
<1>3. CASE AuthorDocs \/ RemoveStaleLock \/ UNCHANGED vars
  <2>1. SharedTyped' /\ run' = run
    BY <1>3, BoundsAssumption DEF AuthorDocs, RemoveStaleLock, vars, TypeInv, SharedTyped, Has
  <2>2. ASSUME NEW q \in Procs
        PROVE  RunTyped(q)'
    BY <2>1, OpenTyped DEF TypeInv
  <2> QED
    BY <1>0, <2>1, <2>2 DEF TypeInv
<1> QED
  BY <1>1, <1>2, <1>3 DEF Next, ProcessStep

\* They have them to begin with.
LEMMA TypeInit == Init => TypeInv
<1> SUFFICES ASSUME Init
             PROVE  TypeInv
  OBVIOUS
<1>1. SharedTyped /\ run = [q \in Procs |-> Idle(0)]
  <2>1. UserBytes \cup {Missing} \subseteq Bytes \cup {Missing, Partial}
    BY DEF Bytes
  <2>2. disk \in [Files -> Bytes \cup {Missing, Partial}]
    BY <2>1 DEF Init
  <2>3. runs \in 0..MaxRuns /\ edits \in 0..MaxEdits
    BY BoundsAssumption DEF Init
  <2>4. /\ lock \in Procs \cup {NoProc} /\ made \in BOOLEAN /\ torn \in BOOLEAN
        /\ manifest \in ManifestType \cup {NoManifest}
        /\ docs \in {"none", "placeholder", "authored"}
        /\ schema \subseteq Migrations /\ ran \subseteq Migrations \X {"up", "down"}
    BY DEF Init
  <2>5. run = [q \in Procs |-> Idle(0)]
    BY DEF Init
  <2> QED
    BY <2>2, <2>3, <2>4, <2>5 DEF SharedTyped
<1>2. ASSUME NEW q \in Procs
      PROVE  RunTyped(q)
  <2>1. run[q] = Idle(0)
    BY <1>1
  <2>2. IsRecord(Idle(0))
    BY DEF IsRecord, RunFields, Idle
  <2>3. FieldsTyped(Idle(0), "none")
    BY DEF FieldsTyped, Steps, Idle, NoEntries
  <2>4. run[q].pc = "idle" /\ run[q].cmd = NoCommand /\ NoCommand.kind = "none"
    BY <2>1 DEF Idle, NoCommand
  <2> QED
    BY <2>1, <2>2, <2>3, <2>4 DEF RunTyped, Due, Is, At
<1> QED
  BY <1>1, <1>2, PlacesInit DEF TypeInv

\* Every variable has its type in every reachable state, for any number of processes,
\* files, versions and migrations, and any faults: what migrate has planned is always
\* migrations it has, which needs that planMigrations goes no other way.
THEOREM TypeCorrect == Spec => []TypeOK
<1>1. Init => TypeInv
  BY TypeInit
<1>2. TypeInv /\ [Next]_vars => TypeInv'
  BY TypeStep
<1>3. TypeInv => TypeOK
  BY ByFields DEF TypeInv, TypeOK, SharedTyped, RunTyped, Due, Is
<1> QED
  BY <1>1, <1>2, <1>3, PTL DEF Spec

-------------------------------------------------------------------------------
(* The opt-ins *)

\* A migrate that leads back has been given leave, and the second one for what is
\* sensitive.
Asked(p) ==
  Is(p, "migrate") /\ run[p].pc \in {"locking", "running"} /\ Direction(p) = "down" =>
    /\ run[p].cmd.allow
    /\ run[p].todo \cap Sensitive # {} => run[p].cmd.ack

AskedInv == TypeInv /\ \A p \in Procs : Asked(p)

\* What a migrate that goes on has planned.
LEMMA Planned ==
  ASSUME TypeInv, NEW p \in Procs, MigrateRead(p), At(p, "locking")'
  PROVE  /\ Is(p, "migrate") /\ run[p].cmd \in Commands
         /\ manifest \in ManifestType /\ manifest # NoManifest
         /\ manifest.version \in Nat /\ run[p].cmd.v \in Nat /\ run[p].cmd.to \in Nat
         /\ manifest.version <= run[p].cmd.v
         /\ KeepsBut(p, {"pc", "seen", "todo"})
         /\ run'[p].seen = manifest
         /\ run'[p].todo = Between(manifest.version, run[p].cmd.to)
         /\ run'[p].todo \subseteq Migrations
         /\ run[p].cmd.to < manifest.version =>
              /\ run[p].cmd.allow
              /\ run'[p].todo \cap Sensitive # {} => run[p].cmd.ack
         /\ UNCHANGED <<shared, runs, edits>>
<1> DEFINE v == run[p].cmd.v
           a == manifest.version
           b == run[p].cmd.to
<1>0. Shape /\ InPlace(p) /\ RunTyped(p) /\ SharedTyped
  BY DEF TypeInv, Places
<1>1. Is(p, "migrate") /\ run[p].cmd \in Commands /\ v \in Versions /\ b \in Versions
  BY <1>0, CommandsAssumption DEF MigrateRead, InPlace, At, Is, NoCommand, Command
<1>2. \A code : ~Ends(p, code)
  BY <1>0 DEF Ends, Idle, Shape, At
<1>3. /\ manifest # NoManifest
      /\ ~(compareSemver(Semver(a), Semver(v)) > 0)
      /\ ~(compareSemver(Semver(b), Semver(a)) < 0 /\ ~run[p].cmd.allow)
      /\ Plan(v, a, b) # NoPlan
      /\ ~(/\ Plan(v, a, b).direction = "down"
           /\ StepsOf(Plan(v, a, b)) \cap Sensitive # {} /\ ~run[p].cmd.ack)
      /\ run' = [run EXCEPT ![p].pc = "locking", ![p].seen = manifest,
                            ![p].todo = StepsOf(Plan(v, a, b))]
      /\ UNCHANGED <<shared, runs, edits>>
  BY <1>2 DEF MigrateRead, MigratePlan, ManifestExists, Plan, StepsOf
<1>4. manifest \in ManifestType /\ a \in Versions
  BY <1>0, <1>3 DEF SharedTyped, ManifestType
<1>5. /\ v \in Nat /\ a \in Nat /\ b \in Nat
      /\ Plan(v, a, b).direction = IF a <= b THEN "up" ELSE "down"
      /\ StepsOf(Plan(v, a, b)) = Between(a, b)
      /\ Between(a, b) \subseteq Migrations
  BY <1>1, <1>3, <1>4, PlannedSteps
<1>6. (a > v => compareSemver(Semver(a), Semver(v)) = 1)
      /\ (b < a => compareSemver(Semver(b), Semver(a)) = -1)
  BY <1>5, Compares
<1>7. KeepsBut(p, {"pc", "seen", "todo"}) /\ run'[p].seen = manifest /\ run'[p].todo = Between(a, b)
  BY <1>0, <1>3, <1>5 DEF KeepsBut, Shape, RunTyped, IsRecord, RunFields
<1>8. a <= v /\ (b < a => run[p].cmd.allow)
  BY <1>3, <1>5, <1>6
<1>9. b < a => (Between(a, b) \cap Sensitive # {} => run[p].cmd.ack)
  BY <1>3, <1>5
<1> QED
  BY <1>1, <1>3, <1>4, <1>5, <1>7, <1>8, <1>9

\* Which steps of p change the team data, and how.
LEMMA SchemaSteps ==
  ASSUME NEW p \in Procs, ProcessStep(p), schema' # schema
  PROVE  \/ PlaceDocs(p)
         \/ (ApplyStep(p) \/ StepFails(p)) /\ schema' = Effect(NextStep(p), Direction(p))
<1>1. CASE \E c \in Commands : Begin(p, c)
  BY <1>1 DEF Begin, shared
<1>2. CASE InitSteps(p)
  BY <1>2 DEF InitSteps, InitProbe, EraseGate, InitPreview, ListTargets, EraseTarget,
     EraseRefused, EraseDone, CheckDocs, Ends, Local, shared
<1>3. CASE UpdateSteps(p) \/ DoctorSteps(p)
  BY <1>3 DEF UpdateSteps, UpdateRead, CompareFile, UpdateDecide, Rebuild, DoctorSteps,
     DoctorRules, PresenceCheck, IntegrityRead, IntegrityFile, DoctorExit, VersionShow, Ends,
     Local, shared
<1>4. CASE CopySteps(p)
  BY <1>4 DEF CopySteps, CopyUnlink, CopyCreate, CopyFill, HashCopied, CopyDone, Local, shared
<1>5. CASE MigrateSteps(p)
  BY <1>5 DEF MigrateSteps, MigrateRead, MigratePlan, SkipStep, ApplyStep, StepFails, StepsDone,
     Ends, Local, shared
<1>6. CASE LockSteps(p) \/ ManifestSteps(p) \/ Kill(p)
  BY <1>6 DEF LockSteps, AcquireLock, LockHeld, Release, ManifestSteps, TruncateManifest,
     WriteManifest, WriteFails, Kill, Ends, shared
<1> QED
  BY <1>1, <1>2, <1>3, <1>4, <1>5, <1>6 DEF ProcessStep

\* A step of p that ends where a migrate may be, begins where one may be.
LEMMA MigrateArrivals ==
  ASSUME Places, NEW p \in Procs, ProcessStep(p), Is(p, "migrate")',
         run'[p].pc \in {"locking", "running"}
  PROVE  \/ MigrateRead(p) /\ At(p, "locking")'
         \/ AcquireLock(p)
         \/ SkipStep(p)
         \/ ApplyStep(p)
<1> USE DEF Shape, RunFields, At, Is
<1>0. Shape /\ InPlace(p)
  BY DEF Places
<1>1. ASSUME NEW code, run'[p] = Idle(code)
      PROVE  FALSE
  BY <1>1 DEF Idle
<1>2. ~\E code : Ends(p, code)
  BY <1>0, <1>1 DEF Ends
<1>3. ASSUME NEW pc, Goto(p, pc)
      PROVE  run'[p].pc = pc /\ run'[p].cmd = run[p].cmd
  BY <1>0, <1>3 DEF Goto
<1>4. CASE \E c \in Commands : Begin(p, c)
  <2>1. PICK c \in Commands : Begin(p, c)
    BY <1>4
  <2>2. run'[p].pc = c.kind /\ c.kind \in {"init", "update", "migrate", "doctor", "version"}
    BY <1>0, <2>1, CommandsAssumption DEF Begin, Idle, Command
  <2> QED
    BY <2>2
<1>5. CASE InitSteps(p)
  <2>1. CASE InitProbe(p) \/ EraseGate(p) \/ InitPreview(p) \/ CheckDocs(p) \/ PlaceDocs(p)
    BY <1>0, <1>2, <1>3, <2>1
    DEF InitProbe, EraseGate, InitPreview, CheckDocs, PlaceDocs, InPlace
  <2>2. CASE ListTargets(p) \/ EraseRefused(p) \/ EraseDone(p)
    BY <1>0, <2>2 DEF ListTargets, EraseRefused, EraseDone
  <2>3. CASE EraseTarget(p)
    BY <1>0, <2>3 DEF EraseTarget, Detached
  <2> QED
    BY <1>5, <2>1, <2>2, <2>3 DEF InitSteps
<1>6. CASE UpdateSteps(p)
  <2>1. Is(p, "update")
    BY <1>0, <1>6 DEF UpdateSteps, UpdateRead, CompareFile, UpdateDecide, Rebuild, InPlace
  <2>2. CASE UpdateRead(p)
    <3>1. run' = [run EXCEPT ![p].pc = "comparing", ![p].seen = manifest, ![p].todo = Paths(p)]
      BY <1>2, <2>2 DEF UpdateRead
    <3> QED
      BY <1>0, <3>1
  <2>4. CASE CompareFile(p)
    <3>1. run'[p].pc = run[p].pc /\ run[p].pc = "comparing"
      BY <1>0, <2>4 DEF CompareFile
    <3> QED
      BY <3>1
  <2>3. CASE UpdateDecide(p) \/ Rebuild(p)
    BY <1>0, <1>2, <1>3, <2>1, <2>3 DEF UpdateDecide, Rebuild
  <2> QED
    BY <1>6, <2>2, <2>3, <2>4 DEF UpdateSteps
<1>7. CASE CopySteps(p)
  <2>1. CASE CopyUnlink(p)
    BY <1>0, <2>1 DEF CopyUnlink, Detached
  <2>2. CASE CopyCreate(p) \/ CopyFill(p) \/ HashCopied(p) \/ CopyDone(p)
    BY <1>0, <1>3, <2>2 DEF CopyCreate, CopyFill, HashCopied, CopyDone
  <2> QED
    BY <1>7, <2>1, <2>2 DEF CopySteps
<1>8. CASE MigrateSteps(p)
  <2>1. CASE MigrateRead(p)
    <3>1. \E steps : run' = [run EXCEPT ![p].pc = "locking", ![p].seen = manifest,
                                        ![p].todo = steps]
      BY <1>2, <2>1 DEF MigrateRead, MigratePlan
    <3>2. run'[p].pc = "locking"
      BY <1>0, <3>1
    <3> QED
      BY <2>1, <3>2
  <2>2. CASE StepFails(p) \/ StepsDone(p)
    BY <1>0, <2>2 DEF StepFails, StepsDone
  <2> QED
    BY <1>8, <2>1, <2>2 DEF MigrateSteps
<1>9. CASE DoctorSteps(p)
  <2>1. CASE PresenceCheck(p) \/ IntegrityFile(p)
    BY <1>0, <2>1, ZenonT(60) DEF PresenceCheck, IntegrityFile
  <2>2. CASE DoctorRules(p) \/ IntegrityRead(p) \/ DoctorExit(p) \/ VersionShow(p)
    BY <1>0, <1>2, <1>3, <2>2 DEF DoctorRules, IntegrityRead, DoctorExit, VersionShow
  <2> QED
    BY <1>9, <2>1, <2>2 DEF DoctorSteps
<1>10. CASE LockSteps(p)
  BY <1>0, <1>1, <1>2, <1>10 DEF LockSteps, LockHeld, Release
<1>11. CASE ManifestSteps(p)
  BY <1>0, <1>11, ZenonT(60) DEF ManifestSteps, TruncateManifest, WriteManifest, WriteFails
<1>12. CASE Kill(p)
  BY <1>0, <1>1, <1>12 DEF Kill
<1> QED
  BY <1>4, <1>5, <1>6, <1>7, <1>8, <1>9, <1>10, <1>11, <1>12 DEF ProcessStep

\* A migrate that is under way only shortens what it has planned.
LEMMA MigrateSame ==
  ASSUME TypeInv, NEW p \in Procs, Is(p, "migrate"),
         AcquireLock(p) \/ SkipStep(p) \/ ApplyStep(p)
  PROVE  /\ run'[p].cmd = run[p].cmd
         /\ run'[p].seen.version = run[p].seen.version
         /\ run'[p].todo \subseteq run[p].todo
         /\ run[p].pc \in {"locking", "running"} /\ run'[p].pc = "running"
<1>0. Shape /\ RunTyped(p)
  BY DEF TypeInv, Places
<1>1. CASE AcquireLock(p)
  <2>1. PICK pc : run' = [run EXCEPT ![p].pc = pc, ![p].todo = run[p].todo] /\ pc = "running"
    BY <1>1 DEF AcquireLock, Is
  <2> QED
    BY <1>0, <1>1, <2>1 DEF AcquireLock, At, Shape, RunFields
<1>2. CASE SkipStep(p)
  BY <1>0, <1>2 DEF SkipStep, At, Shape, RunFields
<1>3. CASE ApplyStep(p)
  <2>1. run[p].seen \in ManifestType
    BY <1>0, <1>3 DEF ApplyStep, RunTyped, Due, At
  <2>2. /\ run'[p].cmd = run[p].cmd /\ run'[p].pc = run[p].pc
        /\ run'[p].todo = run[p].todo \ {NextStep(p)}
        /\ run'[p].seen = [run[p].seen EXCEPT !.applied =
             run[p].seen.applied \cup {<<NextStep(p), Direction(p)>>}]
    BY <1>0, <1>3 DEF ApplyStep, Shape, RunFields
  <2>3. run'[p].seen.version = run[p].seen.version
    BY <2>1, <2>2 DEF ManifestType
  <2> QED
    BY <1>3, <2>2, <2>3 DEF ApplyStep, At
<1> QED
  BY <1>1, <1>2, <1>3

LEMMA AskedStep ==
  ASSUME AskedInv, [Next]_vars
  PROVE  AskedInv'
<1>0. TypeInv /\ TypeInv' /\ Places
  BY TypeStep DEF AskedInv, TypeInv
<1>1. ASSUME NEW p \in Procs, ProcessStep(p)
      PROVE  Asked(p)'
  <2> SUFFICES ASSUME Is(p, "migrate")', run'[p].pc \in {"locking", "running"}, Direction(p)' = "down"
               PROVE  /\ run'[p].cmd.allow
                      /\ run'[p].todo \cap Sensitive # {} => run'[p].cmd.ack
    BY DEF Asked
  <2>1. CASE MigrateRead(p) /\ At(p, "locking")'
    <3>1. run'[p].cmd = run[p].cmd /\ run'[p].seen = manifest
      BY <1>0, <2>1, Planned DEF KeepsBut, RunFields
    <3>2. manifest.version \in Nat /\ run[p].cmd.to \in Nat
      BY <1>0, <2>1, Planned
    <3>3. run[p].cmd.to < manifest.version
      BY <3>1, <3>2 DEF Direction
    <3> QED
      BY <1>0, <2>1, <3>1, <3>3, Planned
  <2>2. CASE AcquireLock(p) \/ SkipStep(p) \/ ApplyStep(p)
    <3>1. Is(p, "migrate")
      <4>1. CASE AcquireLock(p)
        BY <1>0, <4>1 DEF AcquireLock, Is, Places, Shape, RunFields
      <4>2. CASE SkipStep(p) \/ ApplyStep(p)
        BY <1>0, <4>2 DEF SkipStep, ApplyStep, Places, InPlace, At
      <4> QED
        BY <2>2, <4>1, <4>2
    <3>2. /\ run'[p].cmd = run[p].cmd /\ run'[p].seen.version = run[p].seen.version
          /\ run'[p].todo \subseteq run[p].todo /\ run[p].pc \in {"locking", "running"}
      BY <1>0, <2>2, <3>1, MigrateSame
    <3>3. Direction(p) = "down"
      BY <3>2 DEF Direction
    <3> QED
      BY <3>1, <3>2, <3>3 DEF AskedInv, Asked
  <2> QED
    BY <1>0, <1>1, <2>1, <2>2, MigrateArrivals
<1>2. ASSUME NEW q \in Procs, run'[q] = run[q] \/ run'[q] = [run[q] EXCEPT !.open = FALSE]
      PROVE  Asked(q)'
  <2>1. /\ run'[q].pc = run[q].pc /\ run'[q].cmd = run[q].cmd /\ run'[q].seen = run[q].seen
        /\ run'[q].todo = run[q].todo
    BY <1>0, <1>2 DEF Places, Shape, RunFields
  <2> QED
    BY <2>1 DEF AskedInv, Asked, Is, Direction
<1>3. CASE \E p \in Procs : ProcessStep(p)
  BY <1>0, <1>1, <1>2, <1>3, StepOfOne DEF AskedInv, Places, Undisturbed
<1>4. CASE EditFile \/ AuthorDocs \/ RemoveStaleLock \/ UNCHANGED vars
  <2>1. ASSUME NEW q \in Procs
        PROVE  run'[q] = run[q] \/ run'[q] = [run[q] EXCEPT !.open = FALSE]
    BY <1>4 DEF EditFile, AuthorDocs, RemoveStaleLock, vars, Detached
  <2> QED
    BY <1>0, <1>2, <2>1 DEF AskedInv
<1> QED
  BY <1>3, <1>4 DEF Next, ProcessStep

\* The effect of a security-sensitive migration is taken back only by a migrate that
\* was given both opt-ins (migrate.ts), or by starting over with new team data: for any
\* number of processes, migrations and faults, though both opt-ins are checked before
\* the lock.
THEOREM SensitiveAcked == Spec => SensitiveNeedsAck
<1>1. Init => AskedInv
  <2>1. Init => TypeInv
    BY TypeInit
  <2>2. Init => \A p \in Procs : run[p].pc = "idle"
    BY DEF Init, Idle
  <2> QED
    BY <2>1, <2>2 DEF AskedInv, Asked
<1>2. AskedInv /\ [Next]_vars => AskedInv'
  BY AskedStep
<1>3. AskedInv /\ [Next]_vars =>
        \A p \in Procs :
          schema \cap Sensitive # schema' \cap Sensitive /\ Moves(p) /\ ~(schema \subseteq schema')
          => \/ At(p, "running") /\ run[p].cmd.allow /\ run[p].cmd.ack
             \/ At(p, "placing")
  <2> SUFFICES ASSUME AskedInv, [Next]_vars, NEW p \in Procs, Moves(p),
                      schema \cap Sensitive # schema' \cap Sensitive, ~(schema \subseteq schema')
               PROVE  \/ At(p, "running") /\ run[p].cmd.allow /\ run[p].cmd.ack
                      \/ At(p, "placing")
    OBVIOUS
  <2>1. PICK q \in Procs : ProcessStep(q)
    BY DEF AskedInv, TypeInv, SharedTyped, Next, ProcessStep, EditFile, AuthorDocs,
           RemoveStaleLock, vars, Moves
  <2>2. \/ PlaceDocs(q)
        \/ (ApplyStep(q) \/ StepFails(q)) /\ schema' = Effect(NextStep(q), Direction(q))
    BY <2>1, SchemaSteps
  <2>3. p = q
    <3>1. run[q].pc \in {"placing", "running"}
      BY <2>2 DEF PlaceDocs, ApplyStep, StepFails, At
    <3> QED
      BY <2>1, <3>1, StepOfOne DEF AskedInv, TypeInv, Places, Undisturbed, Moves
  <2>4. CASE PlaceDocs(p)
    BY <2>4 DEF PlaceDocs
  <2>5. CASE (ApplyStep(p) \/ StepFails(p)) /\ schema' = Effect(NextStep(p), Direction(p))
    <3>1. At(p, "running") /\ run[p].todo # {} /\ Is(p, "migrate")
      BY <2>5 DEF ApplyStep, StepFails, AskedInv, TypeInv, Places, InPlace, At
    <3>2. Direction(p) = "down" /\ schema' = schema \ {NextStep(p)}
      BY <2>5 DEF Effect, Direction
    <3>3. NextStep(p) \in run[p].todo /\ NextStep(p) \in Sensitive
      <4>1. run[p].todo \subseteq Nat
        BY <3>1, VersionsAssumption DEF AskedInv, TypeInv, RunTyped, FieldsTyped, Is
      <4>2. PICK b \in Nat : \A m \in run[p].todo : m <= b
        BY <3>1 DEF AskedInv, TypeInv, RunTyped, Due
      <4> QED
        BY <3>1, <3>2, <4>1, <4>2, NextSteps
    <3> QED
      BY <3>1, <3>2, <3>3 DEF AskedInv, Asked, At
  <2> QED
    BY <2>2, <2>3, <2>4, <2>5
<1> QED
  BY <1>1, <1>2, <1>3, PTL DEF Spec, SensitiveNeedsAck

-------------------------------------------------------------------------------
(* One command at a time: nothing is read before the lock that is not so after it *)

OneAtATime == \A p, q \in Procs : p = q \/ At(p, "idle") \/ At(q, "idle")

\* Then no step of one touches another.
LEMMA Alone ==
  ASSUME Places, OneAtATime, OneAtATime', NEW p \in Procs, ProcessStep(p), NEW q \in Procs \ {p}
  PROVE  At(q, "idle") /\ run'[q] = run[q]
<1>0. Shape /\ InPlace(q) /\ Undisturbed(p)
  BY StepOfOne DEF Places
<1>1. run'[q].pc = run[q].pc
  BY <1>0, Others
<1>2. CASE At(p, "idle")
  <2>1. PICK c \in Commands : Begin(p, c)
    BY <1>2 DEF ProcessStep, InitSteps, InitProbe, EraseGate, InitPreview, ListTargets, EraseTarget,
       EraseRefused, EraseDone, CheckDocs, PlaceDocs, UpdateSteps, UpdateRead, CompareFile,
       UpdateDecide, Rebuild, CopySteps, CopyUnlink, CopyCreate, CopyFill, HashCopied, CopyDone,
       MigrateSteps, MigrateRead, SkipStep, ApplyStep, StepFails, StepsDone, DoctorSteps,
       DoctorRules, PresenceCheck, IntegrityRead, IntegrityFile, DoctorExit, VersionShow,
       LockSteps, AcquireLock, LockHeld, Release, ManifestSteps, TruncateManifest, WriteManifest,
       WriteFails, Kill, At
  <2>2. run'[p].pc = c.kind /\ c.kind # "idle"
    BY <1>0, <2>1, CommandsAssumption DEF Begin, Idle, Shape, Command
  <2>3. At(q, "idle")
    BY <1>1, <2>2 DEF OneAtATime, At
  <2> QED
    BY <1>0, <1>2, <2>3 DEF Undisturbed, At
<1>3. CASE ~At(p, "idle")
  <2>1. At(q, "idle")
    BY <1>3 DEF OneAtATime
  <2> QED
    BY <1>0, <2>1 DEF InPlace, Undisturbed, At
<1> QED
  BY <1>2, <1>3

\* A migrate that may have carried out what the manifest does not say yet.
Underway(p) == Is(p, "migrate") /\ run[p].pc \in {"running", "manifest", "writing"}

\* Where the framework has been made a directory of its own.
PastLock == Holding \cup {"listing", "erasing"}

\* A migration that has been carried out, as the manifest p has read says.
Applied(p, n) == <<n, "up">> \in run[p].seen.applied

\* What p has read is what there is, and what it still has to do is what is missing.
Believes(p) ==
  /\ Is(p, "update") /\ run[p].pc \notin {"update", "releasing"} =>
       manifest # NoManifest /\ run[p].seen = manifest /\ manifest.version <= run[p].cmd.v
  /\ Is(p, "migrate") /\ At(p, "locking") => manifest # NoManifest /\ run[p].seen = manifest
  /\ Underway(p) =>
       manifest # NoManifest /\ ran = run[p].seen.applied /\ manifest.applied \subseteq ran
  /\ At(p, "running") => run[p].seen.version = manifest.version
  /\ Is(p, "migrate") /\ run[p].pc \in {"locking", "running"} /\ Direction(p) = "up" =>
       /\ \A m \in run[p].todo : m <= run[p].cmd.to
       /\ \A n \in Migrations :
            run[p].seen.version < n /\ n <= run[p].cmd.to => n \in run[p].todo \/ Applied(p, n)
  /\ Underway(p) /\ ~At(p, "running") =>
       /\ manifest.version <= run[p].seen.version \/ run[p].cmd.allow
       /\ \A n \in Migrations :
            manifest.version < n /\ n <= run[p].seen.version => Applied(p, n)
  /\ At(p, "writing") => run[p].open
  /\ Is(p, "init") /\ run[p].pc \notin {"init", "releasing"} /\ ~run[p].cmd.force =>
       manifest = NoManifest

\* The manifest says what has been carried out, but for a migrate that is underway.
Recorded ==
  /\ manifest # NoManifest \/ (\E p \in Procs : run[p].pc \in PastLock) => made
  /\ manifest # NoManifest => ran = manifest.applied \/ \E p \in Procs : Underway(p)

OrderInv == AskedInv /\ Recorded /\ \A p \in Procs : Believes(p)

\* Which steps of p change the manifest and what is known to have been carried out.
LEMMA ManifestStep ==
  ASSUME NEW p \in Procs, ProcessStep(p)
  PROVE  /\ manifest' = manifest \/ WriteManifest(p) \/ (EraseTarget(p) /\ manifest' = NoManifest)
         /\ made' = made \/ (AcquireLock(p) /\ made')
         /\ ran' = ran \/ ApplyStep(p) \/ WriteManifest(p) \/ WriteFails(p) \/ Kill(p)
<1>1. CASE \E c \in Commands : Begin(p, c)
  BY <1>1 DEF Begin, shared
<1>2. CASE InitSteps(p)
  <2>1. CASE EraseTarget(p)
    BY <2>1 DEF EraseTarget
  <2> QED
    BY <1>2, <2>1 DEF InitSteps, InitProbe, EraseGate, InitPreview, ListTargets,
       EraseRefused, EraseDone, CheckDocs, PlaceDocs, Ends, Local, shared
<1>3. CASE UpdateSteps(p) \/ DoctorSteps(p)
  BY <1>3 DEF UpdateSteps, UpdateRead, CompareFile, UpdateDecide, Rebuild, DoctorSteps,
     DoctorRules, PresenceCheck, IntegrityRead, IntegrityFile, DoctorExit, VersionShow, Ends,
     Local, shared
<1>4. CASE CopySteps(p)
  BY <1>4 DEF CopySteps, CopyUnlink, CopyCreate, CopyFill, HashCopied, CopyDone, Local, shared
<1>5. CASE MigrateSteps(p)
  BY <1>5 DEF MigrateSteps, MigrateRead, MigratePlan, SkipStep, ApplyStep, StepFails, StepsDone,
     Ends, Local, shared
<1>6. CASE LockSteps(p)
  BY <1>6 DEF LockSteps, AcquireLock, LockHeld, Release, Ends, shared
<1>7. CASE ManifestSteps(p) \/ Kill(p)
  BY <1>7 DEF ManifestSteps, TruncateManifest, WriteManifest, WriteFails, Kill
<1> QED
  BY <1>1, <1>2, <1>3, <1>4, <1>5, <1>6, <1>7 DEF ProcessStep

\* What a step of p leaves to be believed and on record.
OrderKept(p) ==
  /\ Believes(p)'
  /\ manifest' # NoManifest /\ ~Underway(p)' => ran' = manifest'.applied

\* An ended run has nothing to believe.
LEMMA IdleBelieves ==
  ASSUME NEW p \in Procs, NEW code, run'[p] = Idle(code)
  PROVE  Believes(p)' /\ ~Underway(p)'
BY DEF Idle, NoCommand, Believes, Underway, Is, At

\* p has gone on with what it has read, and nothing is on record that was not.
KeepsRecord(p) ==
  /\ run'[p].cmd = run[p].cmd /\ run'[p].seen = run[p].seen
  /\ UNCHANGED <<manifest, ran>>
  /\ run'[p].pc \notin {"init", "update", "migrate", "running", "writing"}

\* Where init, update and doctor may go: on, or to the end; past the look at what
\* there is, or the read of the manifest; to one target less.
LEMMA StepsOfOthers ==
  ASSUME Places, NEW p \in Procs,
         InitSteps(p) \/ UpdateSteps(p) \/ CopySteps(p) \/ DoctorSteps(p)
  PROVE  /\ run[p].pc \notin {"idle", "running", "manifest", "writing"}
         /\ Is(p, "migrate") => At(p, "version")
         /\ \/ \E code : Ends(p, code)
            \/ KeepsRecord(p) /\ run[p].pc \notin {"init", "update"}
            \/ KeepsRecord(p) /\ At(p, "init") /\ (run[p].cmd.force \/ ~made)
            \/ /\ At(p, "update") /\ manifest # NoManifest /\ ~(manifest.version > run[p].cmd.v)
               /\ run'[p].cmd = run[p].cmd /\ run'[p].seen = manifest /\ At(p, "comparing")'
               /\ UNCHANGED <<manifest, ran>>
            \/ /\ EraseTarget(p) /\ run'[p].cmd = run[p].cmd /\ At(p, "erasing")'
               /\ manifest' \in {manifest, NoManifest} /\ ran' = ran
<1> USE DEF Shape, RunFields
<1>0. Shape /\ InPlace(p)
  BY DEF Places
<1>1. /\ run[p].pc \notin {"idle", "running", "manifest", "writing"}
      /\ Is(p, "migrate") => At(p, "version")
  <2>1. CASE InitSteps(p)
    BY <1>0, <2>1 DEF InitSteps, InitProbe, EraseGate, InitPreview, ListTargets, EraseTarget,
       EraseRefused, EraseDone, CheckDocs, PlaceDocs, InPlace, Is, At
  <2>2. CASE UpdateSteps(p)
    BY <1>0, <2>2 DEF UpdateSteps, UpdateRead, CompareFile, UpdateDecide, Rebuild, InPlace, Is, At
  <2>3. CASE CopySteps(p)
    BY <1>0, <2>3 DEF CopySteps, CopyUnlink, CopyCreate, CopyFill, HashCopied, CopyDone, InPlace,
       Is, At, Copying
  <2>4. CASE DoctorSteps(p)
    BY <1>0, <2>4 DEF DoctorSteps, DoctorRules, PresenceCheck, IntegrityRead, IntegrityFile,
       DoctorExit, VersionShow, InPlace, Is, At
  <2> QED
    BY <2>1, <2>2, <2>3, <2>4
<1>2. ASSUME NEW pc, pc \notin {"init", "update", "migrate", "running", "writing"}, Goto(p, pc),
             UNCHANGED <<manifest, ran>>
      PROVE  KeepsRecord(p)
  BY <1>0, <1>2 DEF Goto, KeepsRecord
<1>3. CASE InitSteps(p)
  <2>1. CASE InitProbe(p)
    BY <1>1, <1>2, <2>1 DEF InitProbe, HasArtifacts, Local, shared
  <2>2. CASE EraseGate(p) \/ InitPreview(p)
    BY <1>1, <1>2, <2>2 DEF EraseGate, InitPreview, shared, At
  <2>3. CASE ListTargets(p) \/ EraseRefused(p) \/ EraseDone(p)
    <3>1. KeepsRecord(p) /\ run[p].pc \notin {"init", "update"}
      BY <1>0, <2>3 DEF ListTargets, EraseRefused, EraseDone, KeepsRecord, Local, shared, At
    <3> QED
      BY <1>1, <3>1
  <2>4. CASE EraseTarget(p)
    <3>1. run'[p].cmd = run[p].cmd /\ At(p, "erasing")'
      BY <1>0, <2>4 DEF EraseTarget, Detached, At
    <3> QED
      BY <1>1, <2>4, <3>1 DEF EraseTarget
  <2>5. CASE CheckDocs(p) \/ PlaceDocs(p)
    BY <1>1, <1>2, <2>5 DEF CheckDocs, PlaceDocs, Local, shared, At
  <2> QED
    BY <1>3, <2>1, <2>2, <2>3, <2>4, <2>5 DEF InitSteps
<1>4. CASE UpdateSteps(p)
  <2>1. CASE UpdateRead(p)
    <3>1. CASE \E code : Ends(p, code)
      BY <1>1, <3>1
    <3>2. CASE ~\E code : Ends(p, code)
      BY <1>0, <1>1, <2>1, <3>2 DEF UpdateRead, ManifestExists, shared, At
    <3> QED
      BY <3>1, <3>2
  <2>2. CASE CompareFile(p) \/ Rebuild(p)
    <3>1. CASE CompareFile(p)
      <4>1. run'[p].pc = "comparing" /\ run'[p].cmd = run[p].cmd /\ run'[p].seen = run[p].seen
        BY <1>0, <3>1 DEF CompareFile, At
      <4> QED
        BY <1>1, <3>1, <4>1 DEF CompareFile, KeepsRecord, Local, shared, At
    <3>2. CASE Rebuild(p)
      BY <1>0, <1>1, <3>2 DEF Rebuild, KeepsRecord, Local, shared, At
    <3> QED
      BY <2>2, <3>1, <3>2
  <2>3. CASE UpdateDecide(p)
    BY <1>1, <1>2, <2>3 DEF UpdateDecide, shared, At
  <2> QED
    BY <1>4, <2>1, <2>2, <2>3 DEF UpdateSteps
<1>5. CASE CopySteps(p)
  <2>1. CASE CopyDone(p)
    BY <1>1, <1>2, <2>1 DEF CopyDone, Local, shared, At
  <2>2. CASE CopyUnlink(p)
    <3>1. KeepsRecord(p)
      BY <1>0, <2>2 DEF CopyUnlink, Detached, KeepsRecord
    <3> QED
      BY <1>1, <2>2, <3>1 DEF CopyUnlink, At
  <2>3. CASE CopyCreate(p) \/ CopyFill(p)
    <3>1. KeepsRecord(p)
      BY <1>0, <2>3 DEF CopyCreate, CopyFill, KeepsRecord
    <3> QED
      BY <1>1, <2>3, <3>1 DEF CopyCreate, CopyFill, At
  <2>4. CASE HashCopied(p)
    <3>1. KeepsRecord(p)
      BY <1>0, <2>4 DEF HashCopied, KeepsRecord, Local, shared
    <3> QED
      BY <1>1, <2>4, <3>1 DEF HashCopied, At
  <2> QED
    BY <1>5, <2>1, <2>2, <2>3, <2>4 DEF CopySteps
<1>6. CASE DoctorSteps(p)
  <2>1. CASE DoctorExit(p) \/ VersionShow(p)
    BY <1>1, <2>1 DEF DoctorExit, VersionShow
  <2>2. CASE DoctorRules(p) \/ PresenceCheck(p) \/ IntegrityRead(p) \/ IntegrityFile(p)
    <3>1. CASE \E code : Ends(p, code)
      BY <1>1, <3>1
    <3>2. CASE ~\E code : Ends(p, code)
      <4>0. /\ run[p].pc \notin {"init", "update"}
            /\ UNCHANGED <<manifest, ran>>
        <5>1. CASE DoctorRules(p)
          BY <3>2, <5>1 DEF DoctorRules, shared, At
        <5>2. CASE PresenceCheck(p)
          BY <5>2 DEF PresenceCheck, Local, shared, At
        <5>3. CASE IntegrityRead(p)
          BY <3>2, <5>3 DEF IntegrityRead, shared, At
        <5>4. CASE IntegrityFile(p)
          BY <5>4 DEF IntegrityFile, Local, shared, At
        <5> QED
          BY <2>2, <5>1, <5>2, <5>3, <5>4
      <4>1. /\ run'[p].pc \in {"presence", "integrity", "verifying"}
            /\ run'[p].cmd = run[p].cmd /\ run'[p].seen = run[p].seen
        <5>0. CASE DoctorRules(p)
          BY <1>0, <3>2, <5>0 DEF DoctorRules
        <5>1. CASE PresenceCheck(p)
          BY <1>0, <5>1 DEF PresenceCheck
        <5>2. CASE IntegrityRead(p)
          BY <1>0, <3>2, <5>2 DEF IntegrityRead, Goto
        <5>3. CASE IntegrityFile(p)
          BY <1>0, <5>3 DEF IntegrityFile, At
        <5> QED
          BY <2>2, <5>0, <5>1, <5>2, <5>3
      <4> QED
        BY <1>1, <4>0, <4>1 DEF KeepsRecord
    <3> QED
      BY <3>1, <3>2
  <2> QED
    BY <1>6, <2>1, <2>2 DEF DoctorSteps
<1> QED
  BY <1>3, <1>4, <1>5, <1>6

\* A run that has begun knows nothing yet.
LEMMA BeginKept ==
  ASSUME OrderInv, NEW p \in Procs, NEW c \in Commands, Begin(p, c)
  PROVE  Believes(p)' /\ ~Underway(p)' /\ ~Underway(p) /\ UNCHANGED <<manifest, ran>>
<1>1. Shape /\ InPlace(p)
  BY DEF OrderInv, AskedInv, TypeInv, Places
<1>2. /\ run'[p].pc = c.kind /\ run'[p].cmd = c
      /\ c.kind \in {"init", "update", "migrate", "doctor", "version"}
  BY <1>1, CommandsAssumption DEF Begin, Idle, Shape, Command
<1>3. At(p, "idle") /\ UNCHANGED <<manifest, ran>>
  BY DEF Begin, shared
<1> QED
  BY <1>2, <1>3 DEF Believes, Underway, Is, At

LEMMA OthersKept ==
  ASSUME OrderInv, NEW p \in Procs,
         InitSteps(p) \/ UpdateSteps(p) \/ CopySteps(p) \/ DoctorSteps(p)
  PROVE  Believes(p)' /\ ~Underway(p)' /\ ~Underway(p) /\ ran' = ran
         /\ manifest' \in {manifest, NoManifest}
<1>0. Places /\ Shape /\ RunTyped(p) /\ SharedTyped /\ Believes(p)
  BY DEF OrderInv, AskedInv, TypeInv, Places
<1>1. /\ run[p].pc \notin {"idle", "running", "manifest", "writing"}
      /\ Is(p, "migrate") => At(p, "version")
  BY <1>0, StepsOfOthers
<1>2. ~Underway(p)
  BY <1>1 DEF Underway
<1>3. CASE \E code : Ends(p, code)
  <2>1. PICK code : run'[p] = Idle(code) /\ UNCHANGED <<manifest, ran>>
    BY <1>0, <1>3 DEF Ends, Shape, shared
  <2> QED
    BY <1>2, <2>1, IdleBelieves
<1>4. CASE KeepsRecord(p) /\ run[p].pc \notin {"init", "update"}
  <2>1. Is(p, "migrate") => run'[p].pc \notin {"locking", "running", "manifest", "writing"}
    <3>1. CASE At(p, "version")
      <4>1. VersionShow(p)
        BY <3>1 DEF InitSteps, InitProbe, EraseGate, InitPreview, ListTargets, EraseTarget,
           EraseRefused, EraseDone, CheckDocs, PlaceDocs, UpdateSteps, UpdateRead, CompareFile,
           UpdateDecide, Rebuild, CopySteps, CopyUnlink, CopyCreate, CopyFill, HashCopied, CopyDone,
           DoctorSteps, DoctorRules, PresenceCheck, IntegrityRead, IntegrityFile, DoctorExit, At
      <4>2. \E code : run'[p] = Idle(code)
        BY <1>0, <4>1 DEF VersionShow, Ends, Shape
      <4> QED
        BY <4>2 DEF Idle
    <3> QED
      BY <1>1, <3>1
  <2>2. run[p].pc # "releasing"
    BY DEF InitSteps, InitProbe, EraseGate, InitPreview, ListTargets, EraseTarget,
       EraseRefused, EraseDone, CheckDocs, PlaceDocs, UpdateSteps, UpdateRead, CompareFile,
       UpdateDecide, Rebuild, CopySteps, CopyUnlink, CopyCreate, CopyFill, HashCopied, CopyDone,
       DoctorSteps, DoctorRules, PresenceCheck, IntegrityRead, IntegrityFile, DoctorExit,
       VersionShow, At
  <2> QED
    BY <1>0, <1>2, <1>4, <2>1, <2>2 DEF KeepsRecord, Believes, Underway, Is, At
<1>5. CASE KeepsRecord(p) /\ At(p, "init") /\ (run[p].cmd.force \/ ~made)
  <2>1. Is(p, "init")
    BY <1>0, <1>5 DEF Places, InPlace, At
  <2>2. run[p].cmd.force \/ manifest = NoManifest
    BY <1>5 DEF OrderInv, Recorded
  <2> QED
    BY <1>2, <1>5, <2>1, <2>2 DEF KeepsRecord, Believes, Underway, Is, At
<1>6. CASE /\ At(p, "update") /\ manifest # NoManifest /\ ~(manifest.version > run[p].cmd.v)
           /\ run'[p].cmd = run[p].cmd /\ run'[p].seen = manifest /\ At(p, "comparing")'
           /\ UNCHANGED <<manifest, ran>>
  <2>1. Is(p, "update") /\ run[p].cmd \in Command
    BY <1>0, <1>6, CommandsAssumption DEF Places, InPlace, At, Is, NoCommand
  <2>2. manifest.version \in Nat /\ run[p].cmd.v \in Nat
    BY <1>0, <1>6, <2>1, VersionsAssumption DEF SharedTyped, ManifestType, Command
  <2>3. manifest.version <= run[p].cmd.v
    BY <1>6, <2>2
  <2> QED
    BY <1>2, <1>6, <2>1, <2>3 DEF Believes, Underway, Is, At
<1>7. CASE /\ EraseTarget(p) /\ run'[p].cmd = run[p].cmd /\ At(p, "erasing")'
           /\ manifest' \in {manifest, NoManifest} /\ ran' = ran
  <2>1. At(p, "erasing") /\ Is(p, "init")
    BY <1>0, <1>7 DEF EraseTarget, Places, InPlace, At
  <2>2. run[p].cmd.force \/ manifest' = NoManifest
    BY <1>0, <1>7, <2>1 DEF Believes, At
  <2> QED
    BY <1>2, <1>7, <2>1, <2>2 DEF Believes, Underway, Is, At
<1> QED
  BY <1>0, <1>3, <1>4, <1>5, <1>6, <1>7, StepsOfOthers

\* What a migrate that runs relies on, with the types it needs.
LEMMA Migrating ==
  ASSUME OrderInv, NEW p \in Procs, Is(p, "migrate"), run[p].pc \in {"locking", "running"}
  PROVE  /\ run[p].seen \in ManifestType /\ manifest \in ManifestType /\ manifest # NoManifest
         /\ run[p].seen.version = manifest.version
         /\ manifest.version \in Nat /\ run[p].cmd.to \in Nat
         /\ run[p].todo \subseteq Nat /\ run[p].todo \subseteq Migrations
         /\ \E b \in Nat : \A m \in run[p].todo : m <= b
<1>0. Places /\ RunTyped(p) /\ SharedTyped /\ Believes(p) /\ InPlace(p)
  BY DEF OrderInv, AskedInv, TypeInv, Places
<1>1. manifest # NoManifest /\ run[p].seen.version = manifest.version
  BY <1>0 DEF Believes, Underway, At
<1>2. run[p].seen \in ManifestType /\ \E b \in Nat : \A m \in run[p].todo : m <= b
  BY <1>0 DEF RunTyped, Due, At
<1>3. manifest \in ManifestType /\ manifest.version \in Nat
  BY <1>0, <1>1, VersionsAssumption DEF SharedTyped, ManifestType
<1>4. run[p].cmd.to \in Nat
  <2>1. run[p].cmd \in Command
    BY <1>0, CommandsAssumption DEF InPlace, Is, NoCommand
  <2> QED
    BY <2>1, VersionsAssumption DEF Command
<1>5. run[p].todo \subseteq Migrations /\ run[p].todo \subseteq Nat
  BY <1>0, VersionsAssumption DEF RunTyped, FieldsTyped, Is
<1> QED
  BY <1>1, <1>2, <1>3, <1>4, <1>5

\* What there is to believe while the steps run, and once they have.
LEMMA RunningBelieves ==
  ASSUME NEW p \in Procs, Is(p, "migrate")', At(p, "running")', (manifest # NoManifest)',
         ran' = run'[p].seen.applied, manifest'.applied \subseteq ran',
         run'[p].seen.version = manifest'.version,
         Direction(p)' = "up" =>
           /\ \A m \in run'[p].todo : m <= run'[p].cmd.to
           /\ \A n \in Migrations : run'[p].seen.version < n /\ n <= run'[p].cmd.to =>
                n \in run'[p].todo \/ Applied(p, n)'
  PROVE  Believes(p)' /\ Underway(p)'
BY DEF Believes, Underway, Is, At

LEMMA DoneBelieves ==
  ASSUME NEW p \in Procs, Is(p, "migrate")', At(p, "manifest")', (manifest # NoManifest)',
         ran' = run'[p].seen.applied, manifest'.applied \subseteq ran',
         manifest'.version <= run'[p].seen.version \/ run'[p].cmd.allow,
         \A n \in Migrations :
           manifest'.version < n /\ n <= run'[p].seen.version => Applied(p, n)'
  PROVE  Believes(p)' /\ Underway(p)'
BY DEF Believes, Underway, Is, At

LEMMA MigrateKept ==
  ASSUME OrderInv, NEW p \in Procs, MigrateSteps(p), \A q \in Procs \ {p} : At(q, "idle")
  PROVE  /\ Believes(p)' /\ manifest' = manifest
         /\ \/ Underway(p) /\ Underway(p)'
            \/ ~Underway(p) /\ ~Underway(p)' /\ ran' = ran
<1>0. Places /\ Shape /\ RunTyped(p) /\ SharedTyped /\ Believes(p) /\ InPlace(p) /\ TypeInv
  BY DEF OrderInv, AskedInv, TypeInv, Places
<1>1. Is(p, "migrate") /\ run[p].pc \in {"migrate", "running"}
  BY <1>0 DEF MigrateSteps, MigrateRead, SkipStep, ApplyStep, StepFails, StepsDone, InPlace, At
<1>2. CASE MigrateRead(p)
  <2>0. ~Underway(p)
    BY <1>2 DEF MigrateRead, Underway, At
  <2>1. CASE \E code : Ends(p, code)
    <3>1. PICK code : run'[p] = Idle(code) /\ UNCHANGED <<manifest, ran>>
      BY <1>0, <2>1 DEF Ends, Shape, shared
    <3> QED
      BY <2>0, <3>1, IdleBelieves
  <2>2. CASE ~\E code : Ends(p, code)
    <3>1. At(p, "locking")'
      <4>1. \E steps : run' = [run EXCEPT ![p].pc = "locking", ![p].seen = manifest,
                                         ![p].todo = steps]
        BY <1>2, <2>2 DEF MigrateRead, MigratePlan
      <4> QED
        BY <1>0, <4>1 DEF Shape, RunFields, At
    <3>2. /\ manifest # NoManifest /\ manifest.version \in Nat /\ run[p].cmd.to \in Nat
          /\ run'[p].cmd = run[p].cmd /\ run'[p].seen = manifest
          /\ run'[p].todo = Between(manifest.version, run[p].cmd.to)
          /\ run'[p].todo \subseteq Migrations
          /\ manifest' = manifest /\ ran' = ran
      BY <1>0, <1>2, <3>1, Planned DEF KeepsBut, RunFields, shared
    <3>3. Direction(p)' = "up" =>
            /\ \A m \in run'[p].todo : m <= run'[p].cmd.to
            /\ \A n \in Migrations :
                 run'[p].seen.version < n /\ n <= run'[p].cmd.to => n \in run'[p].todo
      <4> SUFFICES ASSUME Direction(p)' = "up"
                   PROVE  /\ \A m \in run'[p].todo : m <= run'[p].cmd.to
                          /\ \A n \in Migrations :
                               run'[p].seen.version < n /\ n <= run'[p].cmd.to => n \in run'[p].todo
        OBVIOUS
      <4>1. manifest.version <= run[p].cmd.to
        BY <3>2 DEF Direction
      <4>2. run'[p].todo = manifest.version + 1 .. run[p].cmd.to
        BY <3>2, <4>1 DEF Between
      <4> QED
        <5> DEFINE a == manifest.version
                   b == run[p].cmd.to
        <5>1. run'[p].seen.version = a /\ run'[p].cmd.to = b /\ run'[p].todo = a + 1 .. b
          BY <3>2, <4>2
        <5>2. a \in Nat /\ b \in Nat /\ Migrations \subseteq Nat
          BY <3>2, VersionsAssumption
        <5> HIDE DEF a, b
        <5>3. \A m \in a + 1 .. b : m <= b
          BY <5>2
        <5>4. \A n \in Migrations : a < n /\ n <= b => n \in a + 1 .. b
          BY <5>2
        <5> QED
          BY <5>1, <5>3, <5>4
    <3> QED
      BY <1>1, <2>0, <3>1, <3>2, <3>3 DEF Believes, Underway, Is, At
  <2> QED
    BY <2>1, <2>2
<1>3. CASE ~MigrateRead(p)
  <2>0. At(p, "running") /\ Underway(p)
    BY <1>1, <1>3 DEF MigrateSteps, SkipStep, ApplyStep, StepFails, StepsDone, Underway, At
  <2>1. /\ manifest # NoManifest /\ ran = run[p].seen.applied /\ manifest.applied \subseteq ran
        /\ run[p].seen.version = manifest.version
    BY <1>0, <2>0 DEF Believes
  <2>2. Direction(p) = "up" =>
          /\ \A m \in run[p].todo : m <= run[p].cmd.to
          /\ \A n \in Migrations :
               run[p].seen.version < n /\ n <= run[p].cmd.to => n \in run[p].todo \/ Applied(p, n)
    BY <1>0, <1>1, <2>0 DEF Believes, At
  <2>3. /\ run[p].seen \in ManifestType /\ manifest.version \in Nat /\ run[p].cmd.to \in Nat
    BY <1>1, <2>0, Migrating DEF At
  <2>4. CASE SkipStep(p)
    <3>1. /\ run'[p].pc = run[p].pc /\ run'[p].cmd = run[p].cmd /\ run'[p].seen = run[p].seen
          /\ run'[p].todo = run[p].todo \ {NextStep(p)}
          /\ manifest' = manifest /\ ran' = ran
          /\ <<NextStep(p), Direction(p)>> \in run[p].seen.applied
      BY <1>0, <2>4 DEF SkipStep, Shape, RunFields, Local, shared
    <3>2. Direction(p)' = "up" =>
            /\ \A m \in run'[p].todo : m <= run'[p].cmd.to
            /\ \A n \in Migrations : run'[p].seen.version < n /\ n <= run'[p].cmd.to =>
                 n \in run'[p].todo \/ Applied(p, n)'
      BY <2>2, <3>1 DEF Direction, Applied
    <3> QED
      BY <1>1, <2>0, <2>1, <3>1, <3>2, RunningBelieves DEF Is, At
  <2>5. CASE ApplyStep(p)
    <3> DEFINE step == <<NextStep(p), Direction(p)>>
    <3>1. /\ run'[p].pc = run[p].pc /\ run'[p].cmd = run[p].cmd
          /\ run'[p].seen = [run[p].seen EXCEPT !.applied = run[p].seen.applied \cup {step}]
          /\ run'[p].todo = run[p].todo \ {NextStep(p)}
          /\ manifest' = manifest /\ ran' = ran \cup {step}
      BY <1>0, <2>5 DEF ApplyStep, Shape, RunFields
    <3>2. /\ run'[p].seen.version = run[p].seen.version
          /\ run'[p].seen.applied = run[p].seen.applied \cup {step}
      BY <2>3, <3>1 DEF ManifestType
    <3>3. Direction(p)' = "up" =>
            /\ \A m \in run'[p].todo : m <= run'[p].cmd.to
            /\ \A n \in Migrations : run'[p].seen.version < n /\ n <= run'[p].cmd.to =>
                 n \in run'[p].todo \/ Applied(p, n)'
      BY <2>2, <3>1, <3>2 DEF Direction, Applied
    <3> QED
      BY <1>1, <2>0, <2>1, <3>1, <3>2, <3>3, RunningBelieves DEF Is, At
  <2>6. CASE StepFails(p)
    <3>1. /\ run'[p].pc = "manifest" /\ run'[p].cmd = run[p].cmd /\ run'[p].seen = run[p].seen
          /\ manifest' = manifest /\ ran' = ran
      BY <1>0, <2>6 DEF StepFails, Shape, RunFields
    <3>2. /\ manifest.version <= run[p].seen.version
          /\ \A n \in Nat : ~(manifest.version < n /\ n <= run[p].seen.version)
      BY <2>1, <2>3
    <3>3. Migrations \subseteq Nat
      BY VersionsAssumption
    <3> QED
      BY <1>1, <2>0, <2>1, <3>1, <3>2, <3>3, DoneBelieves DEF Is, At
  <2>7. CASE StepsDone(p)
    <3>1. /\ run'[p].pc = "manifest" /\ run'[p].cmd = run[p].cmd
          /\ run'[p].seen = [run[p].seen EXCEPT !.version = run[p].cmd.to]
          /\ manifest' = manifest /\ ran' = ran /\ run[p].todo = {}
      BY <1>0, <2>7 DEF StepsDone, Shape, RunFields, Local, shared
    <3>2. run'[p].seen.version = run[p].cmd.to /\ run'[p].seen.applied = run[p].seen.applied
      BY <2>3, <3>1 DEF ManifestType
    <3>3. Asked(p)
      BY DEF OrderInv, AskedInv
    <3>4. /\ manifest.version <= run[p].cmd.to \/ run[p].cmd.allow
          /\ \A n \in Migrations : manifest.version < n /\ n <= run[p].cmd.to => Applied(p, n)
      <4>1. CASE run[p].seen.version <= run[p].cmd.to
        BY <2>1, <2>2, <3>1, <4>1 DEF Direction
      <4>2. CASE ~(run[p].seen.version <= run[p].cmd.to)
        <5>1. run[p].cmd.allow
          BY <1>1, <2>0, <3>3, <4>2 DEF Asked, Direction, At
        <5>2. \A n \in Migrations : ~(manifest.version < n /\ n <= run[p].cmd.to)
          BY <2>1, <2>3, <4>2, VersionsAssumption
        <5> QED
          BY <5>1, <5>2
      <4> QED
        BY <4>1, <4>2
    <3> QED
      BY <1>1, <2>0, <2>1, <3>1, <3>2, <3>4, DoneBelieves DEF Applied, Is, At
  <2> QED
    BY <1>3, <2>4, <2>5, <2>6, <2>7 DEF MigrateSteps
<1> QED
  BY <1>2, <1>3

\* Between the steps of a migrate the manifest says it all.
LEMMA OnRecordNow ==
  ASSUME OrderInv, NEW p \in Procs, \A q \in Procs \ {p} : At(q, "idle"),
         manifest # NoManifest, ~Underway(p)
  PROVE  ran = manifest.applied
<1>1. \A q \in Procs : ~Underway(q)
  BY DEF Underway, At
<1> QED
  BY <1>1 DEF OrderInv, Recorded

LEMMA LockKept ==
  ASSUME OrderInv, NEW p \in Procs, LockSteps(p), \A q \in Procs \ {p} : At(q, "idle")
  PROVE  OrderKept(p)
<1>0. Places /\ Shape /\ RunTyped(p) /\ SharedTyped /\ Believes(p) /\ InPlace(p)
  BY DEF OrderInv, AskedInv, TypeInv, Places
<1>1. ~Underway(p) /\ UNCHANGED <<manifest, ran>>
  BY DEF LockSteps, AcquireLock, LockHeld, Release, Underway, Ends, shared, At
<1>2. manifest # NoManifest => ran = manifest.applied
  BY <1>1, OnRecordNow
<1>3. CASE LockHeld(p) \/ Release(p)
  <2>1. \E code : run'[p] = Idle(code)
    BY <1>0, <1>3 DEF LockHeld, Release, Ends, Shape
  <2> QED
    BY <1>1, <1>2, <2>1, IdleBelieves DEF OrderKept
<1>4. CASE AcquireLock(p)
  <2>0. At(p, "locking")
    BY <1>4 DEF AcquireLock
  <2>1. /\ run'[p].cmd = run[p].cmd /\ run'[p].seen = run[p].seen
        /\ Is(p, "migrate") => run'[p].pc = "running" /\ run'[p].todo = run[p].todo
        /\ ~Is(p, "migrate") => run'[p].pc \in {"listing", "copying"}
    <3>1. \E pc, todo :
            /\ run' = [run EXCEPT ![p].pc = pc, ![p].todo = todo]
            /\ Is(p, "migrate") => pc = "running" /\ todo = run[p].todo
            /\ ~Is(p, "migrate") => pc \in {"listing", "copying"}
      <4> DEFINE pc == CASE Is(p, "migrate") -> "running"
                         [] Is(p, "init") /\ run[p].cmd.erase -> "listing"
                         [] OTHER -> "copying"
                 todo == CASE Is(p, "migrate") -> run[p].todo
                           [] Is(p, "init") -> Paths(p)
                           [] OTHER -> run[p].stale \cup
                                (IF run[p].cmd.strategy = "theirs" THEN run[p].drift ELSE {})
      <4>1. run' = [run EXCEPT ![p].pc = pc, ![p].todo = todo]
        BY <1>0, <1>4 DEF AcquireLock, Shape, RunFields
      <4>2. /\ Is(p, "migrate") => pc = "running" /\ todo = run[p].todo
            /\ ~Is(p, "migrate") => pc \in {"listing", "copying"}
        BY DEF Is
      <4> HIDE DEF pc, todo
      <4> QED
        BY <4>1, <4>2
    <3> QED
      BY <1>0, <3>1 DEF Shape, RunFields
  <2>2. CASE Is(p, "migrate")
    <3>1. manifest # NoManifest /\ run[p].seen = manifest
      BY <1>0, <2>0, <2>2 DEF Believes
    <3>2. Direction(p) = "up" =>
            /\ \A m \in run[p].todo : m <= run[p].cmd.to
            /\ \A n \in Migrations :
                 run[p].seen.version < n /\ n <= run[p].cmd.to => n \in run[p].todo \/ Applied(p, n)
      BY <1>0, <2>0, <2>2 DEF Believes, At
    <3>3. Direction(p)' = "up" =>
            /\ \A m \in run'[p].todo : m <= run'[p].cmd.to
            /\ \A n \in Migrations : run'[p].seen.version < n /\ n <= run'[p].cmd.to =>
                 n \in run'[p].todo \/ Applied(p, n)'
      BY <2>1, <2>2, <3>2 DEF Direction, Applied
    <3> QED
      BY <1>1, <1>2, <2>1, <2>2, <3>1, <3>3, RunningBelieves DEF OrderKept, Is, At
  <2>3. CASE ~Is(p, "migrate")
    BY <1>0, <1>1, <1>2, <2>0, <2>1, <2>3 DEF OrderKept, Believes, Underway, Is, At
  <2> QED
    BY <2>2, <2>3
<1> QED
  BY <1>3, <1>4 DEF LockSteps

LEMMA ManifestKept ==
  ASSUME OrderInv, NEW p \in Procs, ManifestSteps(p) \/ Kill(p),
         \A q \in Procs \ {p} : At(q, "idle")
  PROVE  OrderKept(p)
<1>0. Places /\ Shape /\ RunTyped(p) /\ SharedTyped /\ Believes(p) /\ InPlace(p)
  BY DEF OrderInv, AskedInv, TypeInv, Places
<1>1. manifest # NoManifest /\ ~Underway(p) => ran = manifest.applied
  BY OnRecordNow
<1>2. manifest # NoManifest => OnRecord(p) = manifest.applied
  BY <1>0, <1>1 DEF OnRecord, Believes, Underway
<1>3. CASE TruncateManifest(p)
  <2>1. /\ run'[p].cmd = run[p].cmd /\ run'[p].seen = run[p].seen /\ run'[p].pc = "writing"
        /\ run'[p].open /\ UNCHANGED <<manifest, ran>> /\ At(p, "manifest")
    BY <1>0, <1>3 DEF TruncateManifest, Shape, RunFields
  <2> QED
    BY <1>0, <1>1, <2>1 DEF OrderKept, Believes, Underway, Applied, Is, At
<1>4. CASE WriteManifest(p)
  <2>1. /\ run'[p].pc = "releasing" /\ At(p, "writing")
        /\ manifest' = NewManifest(p) /\ ran' = IF Is(p, "init") THEN {} ELSE ran
    BY <1>0, <1>4 DEF WriteManifest, Believes, Shape, RunFields
  <2>2. CASE Is(p, "migrate")
    BY <1>0, <2>1, <2>2 DEF OrderKept, NewManifest, Believes, Underway, Is, At
  <2>3. CASE Is(p, "update")
    <3>1. manifest # NoManifest /\ run[p].seen = manifest /\ ~Underway(p)
      BY <1>0, <2>1, <2>3 DEF Believes, Underway, Is, At
    <3> QED
      BY <1>1, <2>1, <2>3, <3>1 DEF OrderKept, NewManifest, Believes, Underway, Is, At
  <2>4. CASE Is(p, "init")
    BY <2>1, <2>4 DEF OrderKept, NewManifest, Believes, Underway, Is, At
  <2>5. run[p].cmd.kind \in {"migrate", "update", "init"}
    BY <1>0, <2>1 DEF InPlace, At
  <2> QED
    BY <2>2, <2>3, <2>4, <2>5 DEF Is
<1>5. CASE WriteFails(p)
  <2>1. run'[p].pc = "releasing" /\ manifest' = manifest /\ ran' = OnRecord(p)
    BY <1>0, <1>5 DEF WriteFails, Shape, RunFields
  <2> QED
    BY <1>2, <2>1 DEF OrderKept, Believes, Underway, Is, At
<1>6. CASE Kill(p)
  <2>1. run'[p] = Idle(137) /\ manifest' = manifest /\ ran' = OnRecord(p)
    BY <1>0, <1>6 DEF Kill, Shape
  <2> QED
    BY <1>2, <2>1, IdleBelieves DEF OrderKept
<1> QED
  BY <1>3, <1>4, <1>5, <1>6 DEF ManifestSteps

\* While the manifest stands, who does not move believes what it did.
LEMMA StillBelieves ==
  ASSUME NEW q \in Procs, Believes(q), UNCHANGED <<manifest, ran>>,
         run'[q].pc = run[q].pc, run'[q].cmd = run[q].cmd, run'[q].seen = run[q].seen,
         run'[q].todo = run[q].todo, At(q, "writing") => run'[q].open = run[q].open
  PROVE  Believes(q)' /\ (Underway(q)' <=> Underway(q))
<1>1. Underway(q)' <=> Underway(q)
  BY DEF Underway, Is
<1>2. Direction(q)' = Direction(q) /\ \A n : Applied(q, n)' <=> Applied(q, n)
  BY DEF Direction, Applied
<1> QED
  BY <1>1, <1>2 DEF Believes, Is, At

LEMMA OrderStep ==
  ASSUME OrderInv, OneAtATime, OneAtATime', [Next]_vars
  PROVE  OrderInv'
<1>0. AskedInv' /\ TypeInv /\ Places /\ Shape
  BY AskedStep DEF OrderInv, AskedInv, TypeInv, Places
<1>1. ASSUME NEW p \in Procs, ProcessStep(p)
      PROVE  OrderInv'
  <2>1. \A q \in Procs \ {p} : At(q, "idle") /\ run'[q] = run[q]
    BY <1>0, <1>1, Alone
  <2>2. OrderKept(p)
    <3>1. CASE \E c \in Commands : Begin(p, c)
      <4>1. Believes(p)' /\ ~Underway(p)' /\ ~Underway(p) /\ UNCHANGED <<manifest, ran>>
        BY <3>1, BeginKept
      <4>2. manifest # NoManifest => ran = manifest.applied
        BY <2>1, <4>1, OnRecordNow
      <4> QED
        BY <4>1, <4>2 DEF OrderKept
    <3>2. CASE InitSteps(p) \/ UpdateSteps(p) \/ CopySteps(p) \/ DoctorSteps(p)
      <4>1. /\ Believes(p)' /\ ~Underway(p)' /\ ~Underway(p) /\ ran' = ran
            /\ manifest' \in {manifest, NoManifest}
        BY <3>2, OthersKept
      <4>2. manifest # NoManifest => ran = manifest.applied
        BY <2>1, <4>1, OnRecordNow
      <4> QED
        BY <4>1, <4>2 DEF OrderKept
    <3>3. CASE MigrateSteps(p)
      <4>1. /\ Believes(p)' /\ manifest' = manifest
            /\ \/ Underway(p) /\ Underway(p)'
               \/ ~Underway(p) /\ ~Underway(p)' /\ ran' = ran
        BY <2>1, <3>3, MigrateKept
      <4>2. manifest # NoManifest /\ ~Underway(p) => ran = manifest.applied
        BY <2>1, OnRecordNow
      <4> QED
        BY <4>1, <4>2 DEF OrderKept
    <3> QED
      BY <1>1, <2>1, <3>1, <3>2, <3>3, LockKept, ManifestKept DEF ProcessStep
  <2>3. \A q \in Procs \ {p} : Believes(q)'
    BY <1>0, <2>1 DEF Places, InPlace, Believes, Underway, NoCommand, Is, At
  <2>4. manifest' # NoManifest \/ (\E q \in Procs : run'[q].pc \in PastLock) => made'
    <3>1. made' = made \/ made'
      BY <1>1, ManifestStep
    <3>2. CASE run[p].pc \in PastLock
      BY <3>1, <3>2 DEF OrderInv, Recorded
    <3>3. CASE AcquireLock(p)
      BY <3>3 DEF AcquireLock
    <3>4. CASE run[p].pc \notin PastLock /\ ~AcquireLock(p)
      <4>1. manifest' = manifest
        BY <1>1, <3>4, ManifestStep DEF WriteManifest, EraseTarget, PastLock, Holding, At
      <4>2. run'[p].pc \notin PastLock
        BY <1>0, <1>1, <3>4, Arrivals DEF Arrives, PastLock, At
      <4>3. \A q \in Procs : run'[q].pc \in PastLock => run[q].pc \in PastLock
        BY <2>1, <4>2
      <4> QED
        BY <3>1, <4>1, <4>3 DEF OrderInv, Recorded
    <3> QED
      BY <3>2, <3>3, <3>4
  <2> QED
    BY <1>0, <2>2, <2>3, <2>4 DEF OrderInv, OrderKept, Recorded
<1>2. CASE EditFile \/ AuthorDocs \/ RemoveStaleLock \/ UNCHANGED vars
  <2>1. UNCHANGED <<made, manifest, ran>>
    BY <1>2 DEF EditFile, AuthorDocs, RemoveStaleLock, vars
  <2>2. ASSUME NEW q \in Procs
        PROVE  /\ run'[q].pc = run[q].pc /\ run'[q].cmd = run[q].cmd /\ run'[q].seen = run[q].seen
               /\ run'[q].todo = run[q].todo
               /\ At(q, "writing") => run'[q].open = run[q].open
    <3>1. CASE EditFile
      <4>1. PICK f \in Files : run' = Detached(run, f)
        BY <3>1 DEF EditFile
      <4>2. At(q, "writing") => run[q].cur # f
        BY <1>0, FilesAssumption DEF Places, InPlace
      <4> QED
        BY <1>0, <4>1, <4>2 DEF Detached, Shape, RunFields, At
    <3>2. CASE AuthorDocs \/ RemoveStaleLock \/ UNCHANGED vars
      BY <3>2 DEF AuthorDocs, RemoveStaleLock, vars
    <3> QED
      BY <1>2, <3>1, <3>2
  <2>3. \A q \in Procs : Believes(q)' /\ (Underway(q)' <=> Underway(q))
    BY <2>1, <2>2, StillBelieves DEF OrderInv
  <2>4. Recorded'
    BY <2>1, <2>2, <2>3 DEF OrderInv, Recorded
  <2> QED
    BY <1>0, <2>3, <2>4 DEF OrderInv
<1> QED
  BY <1>1, <1>2 DEF Next, ProcessStep

LEMMA OrderInit == Init => OrderInv
<1> SUFFICES ASSUME Init
             PROVE  OrderInv
  OBVIOUS
<1>1. TypeInv /\ manifest = NoManifest
  BY TypeInit DEF Init
<1>2. \A p \in Procs : run[p].pc = "idle" /\ run[p].cmd = NoCommand
  BY DEF Init, Idle
<1> QED
  BY <1>1, <1>2 DEF OrderInv, AskedInv, Asked, Recorded, Believes, Underway, PastLock, Holding,
     Copying, NoCommand, Is, At

\* Between commands, every migration that was carried out is on record
\* (writeManifest, migrate.ts), as long as no two commands run at a time: for any
\* number of migrations, whatever fails and whenever a migrate is killed.
THEOREM Records == Spec /\ []OneAtATime => []MigrationsRecorded
<1>1. Init => OrderInv
  BY OrderInit
<1>2. OrderInv /\ OneAtATime /\ OneAtATime' /\ [Next]_vars => OrderInv'
  BY OrderStep
<1>3. OrderInv => MigrationsRecorded
  BY DEF OrderInv, Recorded, MigrationsRecorded, Quiet, Underway, At
<1> QED
  BY <1>1, <1>2, <1>3, PTL DEF Spec

\* A process that is at something is the only one that goes on; another one begins at most.
LEMMA OnlyOne ==
  ASSUME OneAtATime, NEW p \in Procs, ~At(p, "idle"), NEW q \in Procs \ {p}, ProcessStep(q)
  PROVE  UNCHANGED <<manifest, schema>>
<1>1. At(q, "idle")
  BY DEF OneAtATime
<1>2. schema' = schema
  BY <1>1, SchemaSteps DEF PlaceDocs, ApplyStep, StepFails, At
<1>3. manifest' = manifest
  BY <1>1, ManifestStep DEF WriteManifest, EraseTarget, At
<1> QED
  BY <1>2, <1>3

\* Migrations run in order (migrate.ts, migrations-registry.ts), as long as no two
\* commands run at a time: for any registry, in whatever order it lists its migrations,
\* any failures and any earlier migrates that ended halfway.
THEOREM InOrder == Spec /\ []OneAtATime => MigrationsInOrder
<1>1. Init => OrderInv
  BY OrderInit
<1>2. OrderInv /\ OneAtATime /\ OneAtATime' /\ [Next]_vars => OrderInv'
  BY OrderStep
<1>3. OrderInv /\ OneAtATime /\ [Next]_vars =>
        \A p \in Procs :
          At(p, "running") /\ Has(manifest.version) \subseteq schema /\ Straight =>
            \A m \in schema' \ schema : Has(m) \subseteq schema'
  <2> SUFFICES ASSUME OrderInv, OneAtATime, [Next]_vars, NEW p \in Procs, At(p, "running"),
                      Has(manifest.version) \subseteq schema, Straight,
                      NEW m \in schema' \ schema, NEW n \in Has(m)
               PROVE  n \in schema'
    OBVIOUS
  <2>1. Is(p, "migrate") /\ Believes(p) /\ TypeInv /\ Underway(p)
    BY DEF OrderInv, AskedInv, TypeInv, Places, InPlace, Underway, At
  <2>2. /\ manifest # NoManifest /\ manifest.version \in Nat /\ run[p].cmd.to \in Nat
        /\ run[p].seen.version = manifest.version
        /\ run[p].todo \subseteq Nat /\ (\E b \in Nat : \A k \in run[p].todo : k <= b)
    BY <2>1, Migrating DEF At
  <2>3. n \in Migrations /\ n \in Nat /\ n <= m
    BY VersionsAssumption DEF Has
  <2>4. CASE AuthorDocs
    <3>1. m \in Has(manifest.version)
      BY <2>2, <2>4 DEF AuthorDocs
    <3>2. n \in Has(manifest.version)
      BY <2>2, <2>3, <3>1, VersionsAssumption DEF Has
    <3> QED
      BY <2>2, <2>4, <3>2 DEF AuthorDocs
  <2>5. CASE \E q \in Procs : ProcessStep(q)
    <3>1. ProcessStep(p)
      BY <2>5, OnlyOne DEF At
    <3>2. (ApplyStep(p) \/ StepFails(p)) /\ schema' = Effect(NextStep(p), Direction(p))
      BY <3>1, SchemaSteps DEF PlaceDocs, At
    <3>3. Direction(p) = "up" /\ schema' = schema \cup {NextStep(p)} /\ m = NextStep(p)
      BY <3>2 DEF Effect
    <3>4. /\ m \in run[p].todo /\ \A k \in run[p].todo : m <= k
      <4>1. run[p].todo # {}
        BY <3>2 DEF ApplyStep, StepFails
      <4> QED
        BY <2>2, <3>3, <4>1, NextSteps
    <3>5. CASE n <= manifest.version
      BY <2>3, <3>3, <3>5 DEF Has
    <3>6. CASE ~(n <= manifest.version)
      <4>1. m <= run[p].cmd.to
        BY <2>1, <3>3, <3>4 DEF Believes, At
      <4>2. run[p].seen.version < n /\ n <= run[p].cmd.to
        BY <2>2, <2>3, <3>4, <3>6, <4>1
      <4>3. n \in run[p].todo \/ Applied(p, n)
        BY <2>1, <2>3, <3>3, <4>2 DEF Believes, At
      <4>4. CASE n \in run[p].todo
        BY <2>2, <2>3, <3>3, <3>4, <4>4
      <4>5. CASE Applied(p, n)
        BY <2>1, <3>3, <4>5 DEF Applied, Believes, Straight
      <4> QED
        BY <4>3, <4>4, <4>5
    <3> QED
      BY <3>5, <3>6
  <2>6. CASE EditFile \/ RemoveStaleLock \/ UNCHANGED vars
    BY <2>6 DEF EditFile, RemoveStaleLock, vars
  <2> QED
    BY <2>4, <2>5, <2>6 DEF Next, ProcessStep
<1> QED
  BY <1>1, <1>2, <1>3, PTL DEF Spec, MigrationsInOrder

\* Who changes the manifest of an install, and into what.
LEMMA WritesOwn ==
  ASSUME OrderInv, [Next]_vars, manifest' # manifest, manifest' # NoManifest
  PROVE  \E p \in Procs : ProcessStep(p) /\ At(p, "writing") /\ manifest' = NewManifest(p)
<1>1. PICK p \in Procs : ProcessStep(p)
  BY DEF Next, ProcessStep, EditFile, AuthorDocs, RemoveStaleLock, vars
<1>2. WriteManifest(p)
  BY <1>1, ManifestStep
<1> QED
  BY <1>1, <1>2 DEF WriteManifest, OrderInv, Believes

\* migrate moves the installed version past a migration only when the team data has
\* been through it, as long as none has been taken back and no two commands run at a
\* time (migrate.ts): for any number of migrations and any failures.
THEOREM NoneSkipped == Spec /\ []OneAtATime => NoMigrationSkipped
<1>1. Init => OrderInv
  BY OrderInit
<1>2. OrderInv /\ OneAtATime /\ OneAtATime' /\ [Next]_vars => OrderInv'
  BY OrderStep
<1>3. OrderInv /\ OneAtATime /\ [Next]_vars => \A p \in Procs : Straight => ~PastUnmigrated(p)
  <2> SUFFICES ASSUME OrderInv, OneAtATime, [Next]_vars, NEW p \in Procs, Straight,
                      At(p, "writing"), Is(p, "migrate"), manifest' # manifest,
                      Has(manifest.version) \subseteq schema
               PROVE  Has(manifest'.version) \subseteq schema
    BY DEF PastUnmigrated
  <2>1. /\ manifest # NoManifest /\ ran = run[p].seen.applied
        /\ \A n \in Migrations : manifest.version < n /\ n <= run[p].seen.version => Applied(p, n)
    BY DEF OrderInv, Believes, Underway, At
  <2>2. manifest' = run[p].seen
    <3>1. PICK q \in Procs : ProcessStep(q)
      BY DEF Next, ProcessStep, EditFile, AuthorDocs, RemoveStaleLock, vars
    <3>2. ProcessStep(p)
      BY <3>1, OnlyOne DEF At
    <3>3. WriteManifest(p)
      BY <3>2, ManifestStep DEF EraseTarget, At
    <3> QED
      BY <3>3 DEF WriteManifest, NewManifest, OrderInv, Believes
  <2>3. manifest.version \in Nat /\ Migrations \subseteq Nat
    BY <2>1, VersionsAssumption DEF OrderInv, AskedInv, TypeInv, SharedTyped, ManifestType
  <2> SUFFICES ASSUME NEW n \in Has(manifest'.version)
               PROVE  n \in schema
    OBVIOUS
  <2>4. n \in Migrations /\ n <= run[p].seen.version
    BY <2>2 DEF Has
  <2>5. CASE n <= manifest.version
    BY <2>4, <2>5 DEF Has
  <2>6. CASE ~(n <= manifest.version)
    <3>1. Applied(p, n)
      BY <2>1, <2>3, <2>4, <2>6
    <3> QED
      BY <2>1, <3>1 DEF Applied, Straight
  <2> QED
    BY <2>5, <2>6
<1> QED
  BY <1>1, <1>2, <1>3, PTL DEF Spec, NoMigrationSkipped

\* p is about to write the manifest of a command that may turn the version back.
Turns(p) ==
  /\ At(p, "writing")
  /\ \/ Is(p, "migrate") /\ run[p].cmd.allow
     \/ Is(p, "init") /\ run[p].cmd.force

\* The installed version goes back only by migrate --allow-downgrade (update.ts,
\* migrate.ts), or by an init --force (init.ts), which reads no manifest, as long as
\* no two commands run at a time.
THEOREM NewerRefused == Spec /\ []OneAtATime => NewerInstallRefused
<1>1. Init => OrderInv
  BY OrderInit
<1>2. OrderInv /\ OneAtATime /\ OneAtATime' /\ [Next]_vars => OrderInv'
  BY OrderStep
<1>3. OrderInv /\ [Next]_vars =>
        (manifest # NoManifest /\ manifest' # NoManifest =>
           \/ manifest'.version >= manifest.version
           \/ \E p \in Procs : Turns(p))
  <2> SUFFICES ASSUME OrderInv, [Next]_vars, manifest # NoManifest, manifest' # NoManifest,
                      ~\E p \in Procs : Turns(p)
               PROVE  manifest'.version >= manifest.version
    OBVIOUS
  <2>0. manifest.version \in Versions /\ manifest.version \in Nat
    BY VersionsAssumption DEF OrderInv, AskedInv, TypeInv, SharedTyped, ManifestType
  <2>1. CASE manifest' = manifest
    BY <2>0, <2>1
  <2>2. CASE manifest' # manifest
    <3>1. PICK p \in Procs : At(p, "writing") /\ manifest' = NewManifest(p)
      BY <2>2, WritesOwn
    <3>2. InPlace(p) /\ Believes(p) /\ RunTyped(p)
      BY DEF OrderInv, AskedInv, TypeInv, Places
    <3>3. run[p].cmd \in Commands /\ run[p].cmd.kind \in {"init", "update", "migrate"}
      BY <3>1, <3>2 DEF InPlace, NoCommand, At
    <3>4. run[p].cmd.v \in Nat
      BY <3>3, CommandsAssumption, VersionsAssumption DEF Command
    <3>5. CASE Is(p, "migrate")
      <4>1. manifest.version <= run[p].seen.version /\ run[p].seen \in ManifestType
        BY <3>1, <3>2, <3>5 DEF Believes, Underway, RunTyped, Due, At, Turns
      <4>2. run[p].seen.version \in Nat
        BY <4>1, VersionsAssumption DEF ManifestType
      <4> QED
        BY <2>0, <3>1, <3>5, <4>1, <4>2 DEF NewManifest, Turns
    <3>6. CASE Is(p, "update")
      <4>1. manifest.version <= run[p].cmd.v
        BY <3>1, <3>2, <3>6 DEF Believes, At
      <4> QED
        BY <2>0, <3>1, <3>4, <3>6, <4>1 DEF NewManifest, Is
    <3>7. CASE Is(p, "init")
      <4>1. run[p].cmd.force
        BY <3>1, <3>2, <3>7 DEF Believes, At
      <4> QED
        BY <3>1, <3>7, <4>1 DEF Turns
    <3> QED
      BY <3>3, <3>5, <3>6, <3>7 DEF Is
  <2> QED
    BY <2>1, <2>2
<1> QED
  BY <1>1, <1>2, <1>3, PTL DEF Spec, NewerInstallRefused, Turns
=================================================================================
