---------------------------- MODULE LockReviewProofs ----------------------------
(***************************************************************************)
(* Proofs about LockReview: what a review lets through, for any number of   *)
(* changes, tests, commits and branches.                                    *)
(***************************************************************************)
EXTENDS LockReview, TestLockProofs

-------------------------------------------------------------------------------
(* The type invariant *)

\* What a review parses of a lock is what a lock holds.
LEMMA ParsedType ==
  ASSUME NEW lock \in AnyLock
  PROVE  Parsed(lock) \in [Tests -> Entry]
<1>1. Nothing \in [Tests -> Entry]
  BY DEF Nothing, Entry
<1> QED
  BY <1>1, EntriesType DEF Parsed

\* A change is at one of its places, with a lock or without.
LEMMA Folders ==
  ASSUME TypeOK, NEW c \in Changes
  PROVE  tree.folder[c] \in Places /\ LockAt(c) \in AnyLock
BY DEF TypeOK, Revision, LockAt, AnyLock

\* Setting one lock keeps the type of all.
LEMMA SetLockType ==
  ASSUME TypeOK, NEW c \in Changes, NEW lock \in AnyLock, SetLock(c, lock)
  PROVE  tree' \in Revision /\ LockAt(c)' = lock
<1>1. tree.folder[c] \in Places
  BY Folders
<1>2. tree.locks \in [Changes \X Places -> AnyLock]
  BY DEF TypeOK, Revision, AnyLock
<1>3. [tree.locks EXCEPT ![<<c, tree.folder[c]>>] = lock] \in [Changes \X Places -> AnyLock]
  BY <1>2
<1>4. tree' = [tree EXCEPT !.locks = [tree.locks EXCEPT ![<<c, tree.folder[c]>>] = lock]]
  BY DEF SetLock, TypeOK, Revision
<1> QED
  BY <1>1, <1>2, <1>3, <1>4 DEF TypeOK, Revision, LockAt, AnyLock

\* Every step keeps the types.
LEMMA TypeStep ==
  ASSUME TypeOK, [Next]_vars
  PROVE  TypeOK'
<1>1. MaxSteps \in Nat /\ MaxMerges \in Nat
  BY BoundsAssumption
<1>2. ASSUME Step, TreeOnly, tree' \in Revision
      PROVE  TypeOK'
  BY <1>1, <1>2 DEF TypeOK, Step, TreeOnly
<1>3. ASSUME NEW c \in Changes, ScriptSteps(c)
      PROVE  TypeOK'
  <2>1. tree.tests \in [Tests -> Contents \cup {Gone}] /\ LockAt(c) \in AnyLock
    BY Folders DEF TypeOK, Revision
  <2>2. CASE ApproveTests(c)
    <3>1. PICK paths \in SUBSET Tests \ {{}} :
            /\ CanApprove(LockAt(c), paths, tree.tests)
            /\ SetLock(c, Approve(LockAt(c), paths, tree.tests))
      BY <2>2 DEF ApproveTests
    <3>2. Approve(LockAt(c), paths, tree.tests) \in AnyLock
      BY <2>1, <3>1, ApproveType DEF AnyLock
    <3> QED
      BY <1>2, <2>2, <3>1, <3>2, SetLockType DEF ApproveTests
  <2>3. CASE UnlockTest(c)
    <3>1. PICK t \in Tests : CanUnlock(LockAt(c), t) /\ SetLock(c, Unlock(LockAt(c), t))
      BY <2>3 DEF UnlockTest
    <3>2. Unlock(LockAt(c), t) \in AnyLock
      BY <2>1, <3>1, UnlockType DEF AnyLock
    <3> QED
      BY <1>2, <2>3, <3>1, <3>2, SetLockType DEF UnlockTest
  <2>4. CASE ArchiveChange(c)
    <3>1. /\ tree' = [tree EXCEPT !.folder = [tree.folder EXCEPT ![c] = "archived"],
                       !.locks = [tree.locks EXCEPT ![<<c, "archived">>] = LockAt(c),
                                                    ![<<c, "live">>] = NoLock]]
      BY <2>4 DEF ArchiveChange, TypeOK, Revision
    <3>2. [tree.folder EXCEPT ![c] = "archived"] \in [Changes -> Places]
      BY DEF TypeOK, Revision, Places
    <3>3. [tree.locks EXCEPT ![<<c, "archived">>] = LockAt(c), ![<<c, "live">>] = NoLock]
            \in [Changes \X Places -> AnyLock]
      BY <2>1 DEF TypeOK, Revision, Places, AnyLock
    <3>4. tree' \in Revision
      BY <3>1, <3>2, <3>3 DEF TypeOK, Revision, AnyLock
    <3> QED
      BY <1>2, <2>4, <3>4 DEF ArchiveChange
  <2> QED
    BY <1>3, <2>2, <2>3, <2>4 DEF ScriptSteps
<1>4. ASSUME NEW c \in Changes, HandSteps(c)
      PROVE  TypeOK'
  <2>1. LockAt(c) \in AnyLock
    BY Folders
  <2>2. CASE EditLock(c)
    <3>1. PICK lock \in AnyLock : SetLock(c, lock)
      <4>1. CASE \E lock \in {NoLock, BadLock} : SetLock(c, lock)
        BY <4>1 DEF AnyLock
      <4>2. CASE LockAt(c) # BadLock /\ SetLock(c, [LockAt(c) EXCEPT !.history = NoHistory])
        <5>1. [LockAt(c) EXCEPT !.history = NoHistory] \in LockFile
          BY <2>1, <2>2, <4>2 DEF EditLock, AnyLock, LockFile, NoHistory
        <5> QED
          BY <4>2, <5>1 DEF AnyLock
      <4>3. ASSUME NEW t \in Tests, NEW e \in Entry, LockAt(c) # BadLock,
                   SetLock(c, [LockAt(c) EXCEPT !.entries[t] = e])
            PROVE  \E lock \in AnyLock : SetLock(c, lock)
        <5>1. [LockAt(c) EXCEPT !.entries[t] = e] \in LockFile
          BY <2>1, <2>2, <4>3 DEF EditLock, AnyLock, LockFile, Entry
        <5> QED
          BY <4>3, <5>1 DEF AnyLock
      <4> QED
        BY <2>2, <4>1, <4>2, <4>3 DEF EditLock, Entry
    <3> QED
      BY <1>2, <2>2, <3>1, SetLockType DEF EditLock
  <2>3. CASE CopyLock(c)
    <3>1. PICK p \in Places, lock \in AnyLock : tree' = [tree EXCEPT !.locks[<<c, p>>] = lock]
      BY <2>1, <2>3 DEF CopyLock, AnyLock
    <3>2. [tree.locks EXCEPT ![<<c, p>>] = lock] \in [Changes \X Places -> AnyLock]
      BY DEF TypeOK, Revision, AnyLock
    <3>3. tree' \in Revision
      BY <3>1, <3>2 DEF TypeOK, Revision, AnyLock
    <3> QED
      BY <1>2, <2>3, <3>3 DEF CopyLock
  <2> QED
    BY <1>4, <2>2, <2>3 DEF HandSteps
<1>5. CASE EditTest
  <2>1. PICK t \in Tests, v \in Contents \cup {Gone} : tree' = [tree EXCEPT !.tests[t] = v]
    BY <1>5 DEF EditTest
  <2>2. tree' \in Revision
    BY <2>1 DEF TypeOK, Revision
  <2> QED
    BY <1>2, <1>5, <2>2 DEF EditTest
<1>6. CASE Commit
  <2>1. ASSUME NEW c \in Changes
        PROVE  {tree.locks[<<c, p>>] : p \in Copies(tree, c)} \subseteq LockFile \cup {BadLock}
    BY DEF TypeOK, Revision, Copies
  <2>2. first' \in [Changes -> SUBSET (LockFile \cup {BadLock})]
    BY <1>6, <2>1 DEF Commit, TypeOK
  <2>3. steps' \in 0 .. MaxSteps /\ UNCHANGED <<base, tree, merges, seen>> /\ head' = tree
    <3>1. steps \in 0 .. MaxSteps /\ steps < MaxSteps /\ steps' = steps + 1
      BY <1>6 DEF Commit, Step, TypeOK
    <3>2. steps' \in 0 .. MaxSteps
      BY <1>1, <3>1
    <3> QED
      BY <1>6, <3>2 DEF Commit
  <2> QED
    BY <2>2, <2>3 DEF TypeOK
<1>7. ASSUME NEW c \in Changes, Merge(c)
      PROVE  TypeOK'
  <2>1. ASSUME NEW d \in Changes, NEW t \in Tests
        PROVE  Digests(d, t) \subseteq Entry
    <3>1. New(d) \subseteq AnyLock
      BY DEF New, Copies, TypeOK, Revision, AnyLock
    <3> QED
      BY <3>1, ParsedType DEF Digests
  <2>2. seen' \in [Changes \X Tests -> SUBSET Entry]
    BY <1>7, <2>1 DEF Merge, TypeOK, Entry
  <2> QED
    BY <1>1, <1>7, <2>2 DEF Merge, TypeOK, Entry
<1>8. CASE UNCHANGED vars
  BY <1>8 DEF TypeOK, vars
<1> QED
  BY <1>3, <1>4, <1>5, <1>6, <1>7, <1>8 DEF Next

\* The types hold at the start.
LEMMA TypeInit == Init => TypeOK
<1> SUFFICES ASSUME Init PROVE TypeOK
  OBVIOUS
<1>1. base \in Revision
  BY DEF Init, Revision, Places
<1> QED
  BY <1>1, BoundsAssumption DEF Init, TypeOK

(***************************************************************************)
(* Revisions, working tree and what a human has seen keep their types.      *)
(***************************************************************************)
THEOREM TypeCorrect == Spec => []TypeOK
<1>1. TypeOK /\ [Next]_vars => TypeOK'
  BY TypeStep
<1> QED
  BY <1>1, TypeInit, PTL DEF Spec

-------------------------------------------------------------------------------
(* Approved digests *)

\* An entry that no finding names keeps its digest, or is open.
LEMMA Unnamed ==
  ASSUME NEW c \in Changes, NEW t \in Tests, t \notin LockFindings(c), Old(c) # {},
         NEW new \in New(c)
  PROVE  \/ Parsed(new)[t] \in {Unlocked, NotLocked}
         \/ \E old \in Old(c) : Parsed(new)[t] = Parsed(old)[t]
<1> SUFFICES ASSUME Parsed(new)[t] # NotLocked, Parsed(new)[t] # Unlocked
             PROVE  \E old \in Old(c) : Parsed(new)[t] = Parsed(old)[t]
  OBVIOUS
<1>1. t \notin Rehashed(c) /\ t \notin EntriesAdded(c)
  BY DEF LockFindings
<1>2. PICK old \in Old(c) : t \in LockedBy(Parsed(old))
  BY <1>1 DEF EntriesAdded, LockedBy
<1>3. Parsed(old)[t] # NotLocked
  BY <1>2 DEF LockedBy
<1> QED
  BY <1>1, <1>3 DEF Rehashed

\* Every step keeps the digests of the main branch among those a human saw.
LEMMA SeenStep ==
  ASSUME MergedDigestsWereSeen, [Next]_vars
  PROVE  MergedDigestsWereSeen'
<1>1. CASE UNCHANGED <<base, seen>>
  BY <1>1 DEF MergedDigestsWereSeen, Old, Copies, Parsed
<1>2. ASSUME NEW c \in Changes, Merge(c)
      PROVE  MergedDigestsWereSeen'
  <2>1. ASSUME NEW d \in Changes, NEW t \in Tests, NEW new \in New(d)
        PROVE  Parsed(new)[t] \in seen'[<<d, t>>] \cup {Unlocked, NotLocked}
    <3>1. seen'[<<d, t>>] = IF Old(d) = {} \/ t \in LockFindings(d)
                              THEN Digests(d, t) ELSE seen[<<d, t>>]
      BY <1>2 DEF Merge
    <3>2. CASE Old(d) = {} \/ t \in LockFindings(d)
      BY <3>1, <3>2 DEF Digests
    <3>3. CASE ~(Old(d) = {} \/ t \in LockFindings(d))
      BY <3>1, <3>3, Unnamed DEF MergedDigestsWereSeen
    <3> QED
      BY <3>2, <3>3
  <2>2. \A d \in Changes : Old(d)' = New(d)
    BY <1>2 DEF Merge, Old, New, Copies
  <2>3. \A d \in Changes, t \in Tests : \A new \in New(d) : Parsed(new)' = Parsed(new)
    BY DEF Parsed
  <2> QED
    BY <2>1, <2>2, <2>3 DEF MergedDigestsWereSeen
<1>3. \/ UNCHANGED <<base, seen>>
      \/ \E c \in Changes : Merge(c)
  <2>1. ASSUME NEW c \in Changes, ScriptSteps(c) \/ HandSteps(c)
        PROVE  UNCHANGED <<base, seen>>
    BY <2>1 DEF ScriptSteps, HandSteps, ApproveTests, UnlockTest, ArchiveChange, EditLock,
                CopyLock, TreeOnly
  <2> QED
    BY <2>1 DEF Next, EditTest, Commit, TreeOnly, vars
<1> QED
  BY <1>1, <1>2, <1>3

(***************************************************************************)
(* Over however many branches, and whatever is done to the locks by hand,   *)
(* an approved digest on the main branch is one a human has seen.           *)
(***************************************************************************)
THEOREM DigestsSeen == Spec => []MergedDigestsWereSeen
<1>1. Init => MergedDigestsWereSeen
  <2>1. SUFFICES ASSUME Init, NEW c \in Changes
                 PROVE  Copies(base, c) = {}
    BY DEF MergedDigestsWereSeen, Old
  <2>2. base.locks = [x \in Changes \X Places |-> NoLock]
    BY <2>1 DEF Init
  <2> QED
    BY <2>2 DEF Copies
<1>2. MergedDigestsWereSeen /\ [Next]_vars => MergedDigestsWereSeen'
  BY SeenStep
<1> QED
  BY <1>1, <1>2, PTL DEF Spec

-------------------------------------------------------------------------------
(* Approved tests *)

\* The lock of the change under review is at HEAD what the disk has, if the tree is
\* as committed.
LEMMA OwnLock ==
  ASSUME NEW c \in Changes, TypeOK, tree = head, LockAt(c) # NoLock
  PROVE  LockAt(c) \in New(c)
<1>1. tree.folder[c] \in Places /\ head.locks[<<c, tree.folder[c]>>] # NoLock
  BY Folders DEF LockAt
<1> QED
  BY <1>1 DEF New, Copies, LockAt

\* A test the change's own lock had approved: its entry is gone, has another digest
\* or no longer agrees with the disk, one of which is named.
LEMMA OwnTest ==
  ASSUME NEW c \in Changes, NEW t \in Tests, TypeOK, tree = head,
         New(c) # {} => LockAt(c) # NoLock,
         NEW old \in Old(c), Parsed(old)[t] = base.tests[t], base.tests[t] \in Contents,
         head.tests[t] # base.tests[t]
  PROVE  t \in Findings(c)
<1>1. t \in LockedBy(Parsed(old))
  BY ContentsAssumption DEF LockedBy
<1>2. CASE New(c) = {}
  BY <1>1, <1>2 DEF EntriesRemoved, LockFindings, Findings
<1>3. CASE LockAt(c) = BadLock
  BY <1>3 DEF NotAsLocked, Findings
<1>4. CASE LockAt(c) \notin {NoLock, BadLock}
  <2>1. LockAt(c) \in New(c) /\ Parsed(LockAt(c)) = Entries(LockAt(c))
    BY <1>4, OwnLock DEF Parsed
  <2>2. CASE t \notin LockedBy(Parsed(LockAt(c)))
    BY <1>1, <2>1, <2>2 DEF EntriesRemoved, LockFindings, Findings
  <2>3. CASE t \in Changed(Entries(LockAt(c)), tree.tests)
    BY <1>4, <2>3 DEF NotAsLocked, Findings
  <2>4. CASE /\ t \in LockedBy(Parsed(LockAt(c)))
             /\ Parsed(LockAt(c))[t] = head.tests[t]
    <3>1. head.tests[t] \in Contents \cup {Gone}
      BY DEF TypeOK, Revision
    <3>2. NotLocked \notin {Parsed(old)[t], head.tests[t]} /\ head.tests[t] # Unlocked
      BY <3>1, ContentsAssumption, EntriesAssumption
    <3>3. t \in Rehashed(c)
      BY <2>1, <2>4, <3>2 DEF Rehashed
    <3> QED
      BY <3>3 DEF LockFindings, Findings
  <2> QED
    BY <2>1, <2>2, <2>3, <2>4 DEF Changed
<1> QED
  BY <1>2, <1>3, <1>4

\* A test an approved lock covers is named when it changed.
LEMMA TestsNamed == TypeOK => ApprovedTestsShow
<1> SUFFICES ASSUME TypeOK, NEW c \in Changes, NEW t \in Tests, tree = head,
                    New(c) # {} => LockAt(c) # NoLock,
                    NEW d \in Changes, NEW old \in Old(d), Parsed(old)[t] = base.tests[t],
                    head.tests[t] # base.tests[t]
             PROVE  t \in Findings(c)
  BY DEF ApprovedTestsShow
<1>1. base.tests[t] \in Contents \cup {Gone} /\ Parsed(old)[t] \in Entry
  BY ParsedType DEF TypeOK, Revision, Old, Copies, AnyLock
<1>2. base.tests[t] \in Contents
  BY <1>1, ContentsAssumption, EntriesAssumption DEF Entry
<1>3. CASE d = c
  BY <1>2, <1>3, OwnTest
<1>4. CASE d # c
  <2>1. t \in Touched
    BY <1>2, ContentsAssumption DEF Touched
  <2>2. t \in LockedBy(Parsed(old))
    BY <1>2, ContentsAssumption DEF LockedBy
  <2> QED
    BY <1>4, <2>1, <2>2 DEF Foreign, Findings
<1> QED
  BY <1>3, <1>4

(***************************************************************************)
(* An approved test that is not what it was at the base is named by the     *)
(* review of any change whose lock is where its folder is, when the working *)
(* tree is as committed.                                                    *)
(***************************************************************************)
THEOREM TestsShow == Spec => []ApprovedTestsShow
BY TypeCorrect, TestsNamed, PTL
=================================================================================
