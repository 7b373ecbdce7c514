------------------------------ MODULE LockReview ------------------------------
(***************************************************************************)
(* What specforge/scripts/review_prep.py reports of the locks and the       *)
(* approved tests when a branch is reviewed: the revision it branched from, *)
(* the commits since, and a working tree that anyone may change, with the   *)
(* scripts or by hand.  A merge is a review whose findings a human has      *)
(* confirmed; the next branch starts from it.                               *)
(*                                                                          *)
(* A finding is the test, or the lock, it names.  BadLock is a lock that is *)
(* a symlink: read_lock raises on it and git shows its target, no entries.  *)
(***************************************************************************)
EXTENDS TestLock, FiniteSets

CONSTANTS
  Changes,     \* change folders
  ByHand,      \* whether locks are edited without lock_tests.py
  MaxSteps,    \* bound on the steps of one branch
  MaxMerges,   \* bound on the branches
  MaxHistory   \* bound on the history lines of each kind

ASSUME ByHandAssumption == ByHand \in BOOLEAN
ASSUME BoundsAssumption == {MaxSteps, MaxMerges, MaxHistory} \subseteq Nat

VARIABLES
  base,     \* the revision the branch started from
  first,    \* for each change, the copies of its lock in the first commit since with one
  head,     \* the last commit
  tree,     \* the working tree
  steps,    \* taken since base
  merges,   \* how many so far
  seen      \* the digests a human last saw for each entry of each change's lock

vars == <<base, first, head, tree, steps, merges, seen>>

\* specforge/changes/<change> and specforge/changes/archive/<change>.
Places == {"live", "archived"}
Revision == [folder : [Changes -> Places],
             locks : [Changes \X Places -> LockFile \cup {NoLock, BadLock}],
             tests : [Tests -> Contents \cup {Gone}]]

Init ==
  /\ \E tests \in [Tests -> Contents] :
       base = [folder |-> [c \in Changes |-> "live"],
               locks |-> [x \in Changes \X Places |-> NoLock], tests |-> tests]
  /\ first = [c \in Changes |-> {}]
  /\ head = base
  /\ tree = base
  /\ steps = 0
  /\ merges = 0
  /\ seen = [x \in Changes \X Tests |-> {}]

-------------------------------------------------------------------------------
(* The working tree and its commits *)

Step == merges < MaxMerges /\ steps < MaxSteps /\ steps' = steps + 1
TreeOnly == UNCHANGED <<base, first, head, merges, seen>>

LockAt(c) == tree.locks[<<c, tree.folder[c]>>]
SetLock(c, lock) == tree' = [tree EXCEPT !.locks[<<c, tree.folder[c]>>] = lock]

ApproveTests(c) ==
  /\ Step
  /\ \E paths \in SUBSET Tests \ {{}} :
       /\ CanApprove(LockAt(c), paths, tree.tests)
       /\ SetLock(c, Approve(LockAt(c), paths, tree.tests))
  /\ \A l \in HistoryLines : LockAt(c)'.history[l] <= MaxHistory
  /\ TreeOnly

UnlockTest(c) ==
  /\ Step
  /\ \E t \in Tests : CanUnlock(LockAt(c), t) /\ SetLock(c, Unlock(LockAt(c), t))
  /\ \A l \in HistoryLines : LockAt(c)'.history[l] <= MaxHistory
  /\ TreeOnly

EditTest ==
  /\ Step
  /\ \E t \in Tests, v \in Contents \cup {Gone} : tree' = [tree EXCEPT !.tests[t] = v]
  /\ TreeOnly

\* Deleted, linked elsewhere, an entry replaced or removed, the history emptied.
EditLock(c) ==
  /\ ByHand
  /\ Step
  /\ LockAt(c) # NoLock
  /\ \/ \E lock \in {NoLock, BadLock} : SetLock(c, lock)
     \/ /\ LockAt(c) # BadLock
        /\ \/ SetLock(c, [LockAt(c) EXCEPT !.history = NoHistory])
           \/ \E t \in Tests, e \in Contents \cup {Unlocked, NotLocked} :
                SetLock(c, [LockAt(c) EXCEPT !.entries[t] = e])
  /\ TreeOnly

\* A lock where the change's folder is not.
CopyLock(c) ==
  /\ ByHand
  /\ Step
  /\ \E p \in Places \ {tree.folder[c]}, lock \in {NoLock, LockAt(c)} :
       tree' = [tree EXCEPT !.locks[<<c, p>>] = lock]
  /\ TreeOnly

\* archive.py, which refuses a target that exists, a change already archived, a
\* lock that is tracked and not as committed and a locked test that has changed.
ArchiveChange(c) ==
  /\ Step
  /\ tree.folder[c] = "live"
  /\ tree.locks[<<c, "archived">>] = NoLock
  /\ ~ /\ LockAt(c) \notin {NoLock, BadLock}
       /\ head.locks[<<c, "live">>] \notin {NoLock, LockAt(c)}
  /\ CheckPasses(LockAt(c), tree.tests)
  /\ tree' = [tree EXCEPT !.folder[c] = "archived",
                          !.locks[<<c, "archived">>] = LockAt(c), !.locks[<<c, "live">>] = NoLock]
  /\ TreeOnly

\* The paths of a change's locks in a revision: _canonical pairs the two places.
Copies(rev, c) == {p \in Places : rev.locks[<<c, p>>] # NoLock}

Commit ==
  /\ Step
  /\ tree # head
  /\ head' = tree
  /\ first' = [c \in Changes |->
       IF first[c] # {} THEN first[c] ELSE {tree.locks[<<c, p>>] : p \in Copies(tree, c)}]
  /\ UNCHANGED <<base, tree, merges, seen>>

-------------------------------------------------------------------------------
(* lock_findings *)

\* _parse_lock: a line it does not recognise is skipped.
Parsed(lock) == IF lock = BadLock THEN Nothing ELSE Entries(lock)
Lines(lock) == IF lock = BadLock THEN NoHistory ELSE History(lock)

Old(c) == {base.locks[<<c, p>>] : p \in Copies(base, c)}
New(c) == {head.locks[<<c, p>>] : p \in Copies(head, c)}

\* "lock removed in the range" and "approved entry removed".
EntriesRemoved(c) ==
  {t \in Tests : \E old \in Old(c) :
     /\ t \in LockedBy(Parsed(old))
     /\ New(c) = {} \/ \E new \in New(c) : t \notin LockedBy(Parsed(new))}

\* Mutated: whatever an open entry becomes is taken for its re-approval.
Bug_Rehashed(c) ==
  {t \in Tests : \E old \in Old(c), new \in New(c) :
     /\ {Parsed(old)[t], Parsed(new)[t]} \cap {NotLocked, Unlocked} = {}
     /\ Parsed(new)[t] # Parsed(old)[t]}

\* "approved hash changed": an entry may be opened, never otherwise changed.
Rehashed(c) ==
  {t \in Tests : \E old \in Old(c), new \in New(c) :
     /\ NotLocked \notin {Parsed(old)[t], Parsed(new)[t]}
     /\ Parsed(new)[t] \notin {Parsed(old)[t], Unlocked}}

\* History lines, counted: removed or added where both revisions have the lock,
\* added where only HEAD has it.
HistoryMoved(c) ==
  {t \in Tests : \E new \in New(c), kind \in {"unlocked", "reapproved"} :
     \E old \in IF Old(c) = {} THEN {NoLock} ELSE Old(c) :
       Lines(new)[<<kind, t>>] # Lines(old)[<<kind, t>>]}

\* _added_entries: what the first version of the lock, at the base or since,
\* does not have.
EntriesAdded(c) ==
  LET known == UNION {LockedBy(Parsed(l)) : l \in IF Old(c) # {} THEN Old(c) ELSE first[c]}
  IN  (UNION {LockedBy(Parsed(new)) : new \in New(c)}) \ known

\* _mode_findings and "more than one lock for this change"; of two copies at the
\* base the mode is that of the one git lists last: a folder named after its date comes before `archive`.
LockNamed(c) ==
  \/ BadLock \in New(c)
  \/ New(c) # {} /\ IF "archived" \in Copies(base, c)
                      THEN base.locks[<<c, "archived">>] = BadLock
                      ELSE base.locks[<<c, "live">>] = BadLock
  \/ Cardinality(Copies(head, c)) > 1

LockFindings(c) ==
  IF LockNamed(c) THEN Tests
  ELSE EntriesRemoved(c) \cup Rehashed(c) \cup HistoryMoved(c) \cup EntriesAdded(c)

-------------------------------------------------------------------------------
(* review *)

\* Tests of the range with status M or D.
Touched == {t \in Tests : base.tests[t] \notin {Gone, head.tests[t]}}

\* Mutated: no archived lock is looked at.
Bug_Foreign(c) ==
  {t \in Touched : \E d \in Changes \ {c} :
     base.locks[<<d, "live">>] # NoLock /\ t \in LockedBy(Parsed(base.locks[<<d, "live">>]))}

\* foreign_lock_findings.
Foreign(c) ==
  {t \in Touched : \E d \in Changes \ {c} : \E old \in Old(d) : t \in LockedBy(Parsed(old))}

\* check_locked, on the working tree.
NotAsLocked(c) ==
  IF LockAt(c) = BadLock THEN Tests ELSE Changed(Entries(LockAt(c)), tree.tests)

Deleted == {t \in Touched : head.tests[t] = Gone}

\* The tests named by the review of change c, about its lock or another's.
Findings(c) ==
  (UNION {LockFindings(d) : d \in Changes}) \cup Foreign(c) \cup NotAsLocked(c) \cup Deleted

Digests(c, t) == {Parsed(new)[t] : new \in New(c)}

\* A human reads a new lock as it is at HEAD, and every finding about a lock.
Merge(c) ==
  /\ merges < MaxMerges
  /\ head # base
  /\ merges' = merges + 1
  /\ seen' = [x \in Changes \X Tests |->
       IF Old(x[1]) = {} \/ x[2] \in LockFindings(x[1]) THEN Digests(x[1], x[2]) ELSE seen[x]]
  /\ base' = head
  /\ first' = [d \in Changes |-> {}]
  /\ steps' = 0
  /\ UNCHANGED <<head, tree>>

-------------------------------------------------------------------------------
ScriptSteps(c) == ApproveTests(c) \/ UnlockTest(c) \/ ArchiveChange(c)
HandSteps(c) == EditLock(c) \/ CopyLock(c)

Next ==
  \/ \E c \in Changes : ScriptSteps(c) \/ HandSteps(c) \/ Merge(c)
  \/ EditTest \/ Commit

Spec == Init /\ [][Next]_vars

-------------------------------------------------------------------------------
(* Properties *)

TypeOK ==
  /\ {base, head, tree} \subseteq Revision
  /\ first \in [Changes -> SUBSET (LockFile \cup {BadLock})]
  /\ steps \in 0..MaxSteps
  /\ merges \in 0..MaxMerges
  /\ seen \in [Changes \X Tests -> SUBSET (Contents \cup {Unlocked, NotLocked})]

\* "No change to an approved test or its lock reaches merge without appearing in
\* review", for the lock, from one merge to the next: whatever was done to a
\* lock, with the scripts or by hand, moved or linked, over however many
\* branches, an approved digest on the main branch is one a human has seen.
MergedDigestsWereSeen ==
  \A c \in Changes, t \in Tests :
    \A old \in Old(c) : Parsed(old)[t] \in seen[<<c, t>>] \cup {Unlocked, NotLocked}

\* Of the tests: one that a lock, of this change or of another, archived
\* or not, held as it was at the base and that is not what it was, is named by
\* the review, when what is committed is what is on disk and the change's lock,
\* if it is still there, is in the change's folder.
ApprovedTestsShow ==
  \A c \in Changes, t \in Tests :
    /\ tree = head
    /\ New(c) # {} => LockAt(c) # NoLock
    /\ \E d \in Changes : \E old \in Old(d) : Parsed(old)[t] = base.tests[t]
    /\ head.tests[t] # base.tests[t]
    => t \in Findings(c)

\* "No change to an approved test or its lock reaches merge without appearing in
\* review": within one branch too, a digest other than the one the lock was first
\* committed with is named by the review.
NothingUnseen ==
  \A c \in Changes, t \in Tests :
    \A lock \in first[c], new \in New(c) :
      /\ tree = head
      /\ {Parsed(lock)[t], Parsed(new)[t]} \subseteq Contents
      /\ Parsed(lock)[t] # Parsed(new)[t]
      => t \in Findings(c)
===============================================================================
