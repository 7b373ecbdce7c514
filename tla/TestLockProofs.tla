----------------------------- MODULE TestLockProofs -----------------------------
(***************************************************************************)
(* What lock_tests.py leaves on disk is a lock again.                       *)
(***************************************************************************)
EXTENDS TestLock, TLAPS

AnyLock == LockFile \cup {NoLock, BadLock}
Entry == Contents \cup {Unlocked, NotLocked}

\* The entries of any lock that can be read.
LEMMA EntriesType ==
  ASSUME NEW lock \in AnyLock, lock # BadLock
  PROVE  Entries(lock) \in [Tests -> Entry] /\ History(lock) \in [HistoryLines -> Nat]
BY DEF AnyLock, Entry, Entries, History, Nothing, NoHistory, LockFile

\* An approval leaves a lock.
LEMMA ApproveType ==
  ASSUME NEW lock \in AnyLock, NEW paths \in SUBSET Tests,
         NEW tests \in [Tests -> Contents \cup {Gone}], CanApprove(lock, paths, tests)
  PROVE  Approve(lock, paths, tests) \in LockFile
<1> DEFINE e == Entries(lock)
           h == History(lock)
<1>1. e \in [Tests -> Entry] /\ h \in [HistoryLines -> Nat]
  BY EntriesType DEF CanApprove
<1>2. \A t \in paths : tests[t] \in Contents
  BY DEF CanApprove
<1> HIDE DEF e, h
<1>3. [t \in Tests |-> IF t \in paths THEN tests[t] ELSE e[t]] \in [Tests -> Entry]
  BY <1>1, <1>2 DEF Entry
<1>4. [l \in HistoryLines |->
         h[l] + (IF l[1] = "reapproved" /\ l[2] \in paths /\ e[l[2]] = Unlocked THEN 1 ELSE 0)]
        \in [HistoryLines -> Nat]
  BY <1>1
<1> QED
  BY <1>3, <1>4 DEF Approve, LockFile, Entry, e, h

\* So does an unlock.
LEMMA UnlockType ==
  ASSUME NEW lock \in AnyLock, NEW t \in Tests, CanUnlock(lock, t)
  PROVE  Unlock(lock, t) \in LockFile
<1> DEFINE e == Entries(lock)
           h == History(lock)
<1>1. e \in [Tests -> Entry] /\ h \in [HistoryLines -> Nat]
  BY EntriesType DEF CanUnlock
<1> HIDE DEF e, h
<1>2. [e EXCEPT ![t] = Unlocked] \in [Tests -> Entry]
  BY <1>1 DEF Entry
<1>3. [h EXCEPT ![<<"unlocked", t>>] = @ + 1] \in [HistoryLines -> Nat]
  <2>1. <<"unlocked", t>> \in HistoryLines
    BY DEF HistoryLines
  <2> QED
    BY <1>1, <2>1
<1> QED
  BY <1>2, <1>3 DEF Unlock, LockFile, Entry, e, h
=================================================================================
