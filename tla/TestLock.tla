-------------------------------- MODULE TestLock --------------------------------
(***************************************************************************)
(* <change>/locked-tests.txt as specforge/scripts/lock_tests.py reads and   *)
(* rewrites it.  A test's content stands for its sha256; the lock maps each *)
(* approved path to the content approved, or to Unlocked, and keeps, through *)
(* every rewrite, its `#` history lines: how many of each, without the date  *)
(* and the reason.                                                          *)
(***************************************************************************)
EXTENDS Naturals

CONSTANTS
  Tests,      \* test paths
  Contents,   \* what a test file may hold
  Gone,       \* no file at the path
  Unlocked,   \* an entry opened for re-approval
  NotLocked,  \* no entry for the path
  NoLock,     \* no lock file
  BadLock     \* a lock with a malformed line, on which read_lock raises

ASSUME ContentsAssumption == Contents \cap {Gone, Unlocked, NotLocked} = {}
ASSUME EntriesAssumption ==
  Gone # Unlocked /\ Gone # NotLocked /\ Unlocked # NotLocked
HistoryLines == {"unlocked", "reapproved"} \X Tests
LockFile == [entries : [Tests -> Contents \cup {Unlocked, NotLocked}],
             history : [HistoryLines -> Nat]]
ASSUME LocksAssumption == {NoLock, BadLock} \cap LockFile = {} /\ NoLock # BadLock

Nothing == [t \in Tests |-> NotLocked]
NoHistory == [l \in HistoryLines |-> 0]

\* read_lock, for a lock it does not raise on: no file is no entries.
Entries(lock) == IF lock = NoLock THEN Nothing ELSE lock.entries
History(lock) == IF lock = NoLock THEN NoHistory ELSE lock.history

LockedBy(entries) == {t \in Tests : entries[t] # NotLocked}
UnlockedIn(entries) == {t \in Tests : entries[t] = Unlocked}

\* The approved tests that are missing or hold something else; an unlocked
\* entry matches no digest.
Changed(entries, tests) == {t \in LockedBy(entries) : tests[t] # entries[t]}

\* check: what it reports, when the lock can be read at all.
CheckPasses(lock, tests) == lock # BadLock /\ Changed(Entries(lock), tests) = {}

\* Mutated: a file that is not there is approved too.
Bug_CanApproveMissing(lock, paths, tests) == lock # BadLock

CanApprove(lock, paths, tests) ==
  lock # BadLock /\ \A t \in paths : tests[t] # Gone

\* approve: the entry takes the digest on disk; one that was unlocked leaves a
\* "# reapproved" line, one that was locked leaves nothing.
Approve(lock, paths, tests) ==
  [entries |-> [t \in Tests |-> IF t \in paths THEN tests[t] ELSE Entries(lock)[t]],
   history |-> [l \in HistoryLines |->
     History(lock)[l] + (IF l[1] = "reapproved" /\ l[2] \in paths /\ Entries(lock)[l[2]] = Unlocked
                           THEN 1 ELSE 0)]]

\* unlock refuses a path with no entry or one already unlocked, and changes
\* nothing then; main refuses it without a reason.
CanUnlock(lock, t) ==
  lock # BadLock /\ Entries(lock)[t] \notin {NotLocked, Unlocked}

Unlock(lock, t) ==
  [entries |-> [Entries(lock) EXCEPT ![t] = Unlocked],
   history |-> [History(lock) EXCEPT ![<<"unlocked", t>>] = @ + 1]]
=================================================================================
