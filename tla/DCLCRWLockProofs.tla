-------------------------- MODULE DCLCRWLockProofs --------------------------
(***************************************************************************)
(* For every set of threads, number of counters and hash: the lock of      *)
(* DCLCRWLock excludes, its unlocks never fail, and it implements RWLock.  *)
(***************************************************************************)
EXTENDS DCLCRWLock, FiniteSetTheorems, TLAPS

USE NumCoresAssumption, ThreadsAssumption, Thread2IdxAssumption

\* The set of announced threads of an index is finite.
LEMMA AnnouncedFinite == \A i : IsFiniteSet(AnnouncedAt(i))
BY FS_Subset DEF AnnouncedAt

\* fetch_add(1) by a thread that was not announced keeps the counters exact.
LEMMA AnnounceCounts ==
  ASSUME TypeOK, CountInv, NEW t \in Threads, NEW x \in Announced,
         pc[t] \notin Announced, pc' = [pc EXCEPT ![t] = x], FetchAdd(t, 1)
  PROVE  CountInv'
<1> SUFFICES ASSUME NEW i \in Idx
             PROVE  readersCounters'[i] = Cardinality(AnnouncedAt(i)')
  BY DEF CountInv
<1>0. thread2idx[t] \in Idx
  OBVIOUS
<1>1. CASE i = thread2idx[t]
  <2>1. AnnouncedAt(i)' = AnnouncedAt(i) \cup {t} /\ t \notin AnnouncedAt(i)
    BY <1>1 DEF AnnouncedAt, TypeOK
  <2>2. Cardinality(AnnouncedAt(i)') = Cardinality(AnnouncedAt(i)) + 1
    BY <2>1, AnnouncedFinite, FS_AddElement
  <2> QED
    BY <1>0, <1>1, <2>2 DEF FetchAdd, CountInv, TypeOK
<1>2. CASE i # thread2idx[t]
  <2>1. AnnouncedAt(i)' = AnnouncedAt(i)
    BY <1>2 DEF AnnouncedAt, TypeOK
  <2> QED
    BY <1>0, <1>2, <2>1 DEF FetchAdd, CountInv, TypeOK
<1> QED
  BY <1>1, <1>2

\* fetch_add(-1) by an announced thread keeps the counters exact, and finds
\* its counter positive.
LEMMA WithdrawCounts ==
  ASSUME TypeOK, CountInv, NEW t \in Threads, NEW x \in PCs \ Announced,
         pc[t] \in Announced, pc' = [pc EXCEPT ![t] = x], FetchAdd(t, -1)
  PROVE  CountInv' /\ readersCounters[thread2idx[t]] > 0
<1>0. thread2idx[t] \in Idx
  OBVIOUS
<1>a. \A i \in Idx : readersCounters[i] = Cardinality(AnnouncedAt(i))
  BY DEF CountInv
<1>1. ASSUME NEW i \in Idx
      PROVE  readersCounters'[i] = Cardinality(AnnouncedAt(i)')
  <2>1. CASE i = thread2idx[t]
    <3>1. AnnouncedAt(i)' = AnnouncedAt(i) \ {t} /\ t \in AnnouncedAt(i)
      BY <2>1 DEF AnnouncedAt, TypeOK
    <3>2. Cardinality(AnnouncedAt(i)') = Cardinality(AnnouncedAt(i)) - 1
      BY <3>1, AnnouncedFinite, FS_RemoveElement, ZenonT(40)
    <3> QED
      BY <1>0, <1>a, <2>1, <3>2 DEF FetchAdd, TypeOK
  <2>2. CASE i # thread2idx[t]
    <3>1. AnnouncedAt(i)' = AnnouncedAt(i)
      BY <2>2 DEF AnnouncedAt, TypeOK
    <3> QED
      BY <1>0, <1>a, <2>2, <3>1 DEF FetchAdd, TypeOK
  <2> QED
    BY <2>1, <2>2
<1>2. readersCounters[thread2idx[t]] > 0
  <2>1. t \in AnnouncedAt(thread2idx[t])
    BY DEF AnnouncedAt
  <2>2. Cardinality(AnnouncedAt(thread2idx[t])) # 0
    BY <2>1, AnnouncedFinite, FS_EmptySet
  <2>3. Cardinality(AnnouncedAt(thread2idx[t])) \in Nat
    BY AnnouncedFinite, FS_CardinalityType
  <2> QED
    BY <1>0, <1>a, <2>2, <2>3
<1> QED
  BY <1>1, <1>2 DEF CountInv

\* A step that announces and withdraws no thread keeps the counters exact.
LEMMA QuietCounts ==
  ASSUME CountInv, UNCHANGED readersCounters,
         \A t \in Threads : pc'[t] \in Announced <=> pc[t] \in Announced
  PROVE  CountInv'
<1>1. \A i : AnnouncedAt(i)' = AnnouncedAt(i)
  BY DEF AnnouncedAt
<1> QED
  BY <1>1 DEF CountInv

\* A counter that reads zero has no reader in it.
LEMMA ZeroMeansDrained ==
  ASSUME CountInv, NEW i \in Idx, readersCounters[i] <= 0,
         NEW r \in Threads, thread2idx[r] = i
  PROVE  pc[r] # "reading"
<1>1. Cardinality(AnnouncedAt(i)) \in Nat
  BY AnnouncedFinite, FS_CardinalityType
<1>2. Cardinality(AnnouncedAt(i)) = 0
  BY <1>1 DEF CountInv
<1>3. AnnouncedAt(i) = {}
  BY <1>2, AnnouncedFinite, FS_EmptySet
<1> QED
  BY <1>3 DEF AnnouncedAt, Announced

-----------------------------------------------------------------------------
\* Every step keeps the type invariant.
LEMMA TypeStep == TypeOK /\ [Next]_vars => TypeOK'
<1> SUFFICES ASSUME TypeOK, [Next]_vars PROVE TypeOK'
  OBVIOUS
<1>1. ASSUME NEW t \in Threads, NEW x \in PCs, NEW f, Goto(t, f, x)
      PROVE  pc' \in [Threads -> PCs]
  BY <1>1 DEF TypeOK, Goto
<1>2. ASSUME NEW t \in Threads, NEW d \in Int, FetchAdd(t, d)
      PROVE  readersCounters' \in [Idx -> Int]
  BY <1>2 DEF TypeOK, FetchAdd
<1>3. ASSUME NEW t \in Threads, SharedAnnounce(t) \/ TryAnnounce(t)
                                \/ SharedUndo(t) \/ sharedUnlock(t)
      PROVE  TypeOK'
  <2>1. pc' \in [Threads -> PCs]
    BY <1>1, <1>3 DEF SharedAnnounce, TryAnnounce, SharedUndo, sharedUnlock, PCs
  <2>2. readersCounters' \in [Idx -> Int]
    BY <1>2, <1>3 DEF SharedAnnounce, TryAnnounce, SharedUndo, sharedUnlock
  <2>3. unlockError' \in BOOLEAN
    BY <1>3 DEF TypeOK, SharedAnnounce, TryAnnounce, SharedUndo, sharedUnlock
  <2> QED
    BY <1>3, <2>1, <2>2, <2>3
       DEF TypeOK, SharedAnnounce, TryAnnounce, SharedUndo, sharedUnlock
<1>4. ASSUME NEW t \in Threads, SharedCheck(t) \/ SharedWait(t) \/ ExclusiveCall(t)
                                \/ UnlockTest(t) \/ UnlockStore(t)
      PROVE  TypeOK'
  <2>1. pc' \in [Threads -> PCs]
    BY <1>1, <1>4
       DEF SharedCheck, SharedWait, ExclusiveCall, UnlockTest, UnlockStore, PCs
  <2> QED
    BY <1>4, <2>1
       DEF TypeOK, SharedCheck, SharedWait, ExclusiveCall, UnlockTest, UnlockStore
<1>5. ASSUME NEW t \in Threads, ExclusiveCAS(t)
      PROVE  TypeOK'
  <2>1. pc' \in [Threads -> PCs]
    BY <1>1, <1>5 DEF ExclusiveCAS, PCs
  <2> QED
    BY <1>5, <2>1 DEF TypeOK, ExclusiveCAS
<1>6. ASSUME NEW t \in Threads, ExclusiveScan(t)
      PROVE  TypeOK'
  BY <1>6 DEF TypeOK, ExclusiveScan, PCs
<1>7. CASE UNCHANGED vars
  BY <1>7 DEF TypeOK, vars
<1> QED
  BY <1>3, <1>4, <1>5, <1>6, <1>7 DEF Next, Step

\* The initial state has its types.
LEMMA InitType == Init => TypeOK
<1> SUFFICES ASSUME Init PROVE TypeOK
  OBVIOUS
<1>1. readersCounters \in [Idx -> Int] /\ scan \in [Threads -> Nat]
  BY DEF Init
<1>2. pc \in [Threads -> PCs]
  BY DEF Init, PCs
<1>3. unlockError \in BOOLEAN
  BY Zenon DEF Init
<1> QED
  BY <1>1, <1>2, <1>3 DEF Init, TypeOK

\* The type invariant holds of every behaviour.
THEOREM TypeCorrect == Spec => []TypeOK
BY InitType, TypeStep, PTL DEF Spec

-----------------------------------------------------------------------------
\* Every step keeps the inductive invariant.
LEMMA InvStep == IInv /\ [Next]_vars => IInv'
<1> SUFFICES ASSUME IInv, [Next]_vars PROVE IInv'
  OBVIOUS
<1> USE DEF IInv
<1>0. TypeOK'
  BY TypeStep
<1>1. ASSUME NEW t \in Threads, SharedAnnounce(t) \/ TryAnnounce(t)
      PROVE  IInv'
  <2>0. PICK x \in Announced \ {"reading"} :
           pc[t] \in {"idle", "r_retry"} /\ pc' = [pc EXCEPT ![t] = x]
    BY <1>1 DEF SharedAnnounce, TryAnnounce, Goto, Announced
  <2>1. CountInv'
    BY <1>1, <2>0, AnnounceCounts DEF SharedAnnounce, TryAnnounce, Announced
  <2>2. OwnerInv' /\ DrainInv' /\ NoUnlockError'
    BY <1>1, <2>0 DEF TypeOK, OwnerInv, Owners, DrainInv, Writing, Reading,
       NoUnlockError, SharedAnnounce, TryAnnounce, Announced
  <2> QED
    BY <1>0, <2>1, <2>2
<1>2. ASSUME NEW t \in Threads, SharedUndo(t)
      PROVE  IInv'
  <2>0. PICK x \in {"r_wait", "idle"} :
           pc[t] \in {"r_undo", "try_undo"} /\ pc' = [pc EXCEPT ![t] = x]
    BY <1>2 DEF SharedUndo, Goto
  <2>1. CountInv'
    BY <1>2, <2>0, WithdrawCounts DEF SharedUndo, Announced, PCs
  <2>2. OwnerInv' /\ DrainInv' /\ NoUnlockError'
    BY <1>2, <2>0 DEF TypeOK, OwnerInv, Owners, DrainInv, Writing, Reading,
       NoUnlockError, SharedUndo
  <2> QED
    BY <1>0, <2>1, <2>2
<1>3. ASSUME NEW t \in Threads, sharedUnlock(t)
      PROVE  IInv'
  <2>0. pc[t] = "reading" /\ pc' = [pc EXCEPT ![t] = "idle"]
    BY <1>3 DEF sharedUnlock, Goto
  <2>1. CountInv' /\ readersCounters[thread2idx[t]] > 0
    BY <1>3, <2>0, WithdrawCounts DEF sharedUnlock, Announced, PCs
  <2>2. NoUnlockError'
    <3>1. ~(readersCounters[thread2idx[t]] <= 0)
      BY <2>1 DEF TypeOK
    <3> QED
      BY <1>3, <3>1 DEF sharedUnlock, NoUnlockError
  <2>3. OwnerInv' /\ DrainInv'
    BY <1>3, <2>0 DEF TypeOK, OwnerInv, Owners, DrainInv, Writing, Reading, sharedUnlock
  <2> QED
    BY <1>0, <2>1, <2>2, <2>3
<1>4. ASSUME NEW t \in Threads, SharedCheck(t)
      PROVE  IInv'
  <2>0. \/ /\ writersMutex = "UNLOCKED" /\ pc[t] \in Announced
           /\ pc' = [pc EXCEPT ![t] = "reading"]
        \/ /\ pc[t] \in Announced
           /\ \E x \in Announced \ {"reading"} : pc' = [pc EXCEPT ![t] = x]
    BY <1>4 DEF SharedCheck, Goto, Announced
  <2>1. CountInv'
    BY <1>4, <2>0, QuietCounts DEF SharedCheck, TypeOK, Announced
  <2>2. Owners' = Owners /\ Writing' = Writing /\ Writing \subseteq Owners
    BY <2>0 DEF TypeOK, Owners, Writing, Announced
  <2>3. DrainInv'
    BY <1>4, <2>0, <2>2 DEF TypeOK, OwnerInv, Owners, DrainInv, Reading, SharedCheck, Announced
  <2> QED
    BY <1>0, <1>4, <2>1, <2>2, <2>3 DEF OwnerInv, NoUnlockError, SharedCheck
<1>5. ASSUME NEW t \in Threads, SharedWait(t) \/ ExclusiveCall(t)
      PROVE  IInv'
  <2>1. CountInv'
    BY <1>5, QuietCounts DEF SharedWait, ExclusiveCall, Goto, TypeOK, Announced
  <2> QED
    BY <1>0, <1>5, <2>1 DEF TypeOK, OwnerInv, Owners, DrainInv, Writing, Reading,
       NoUnlockError, SharedWait, ExclusiveCall, Goto
<1>6. ASSUME NEW t \in Threads, ExclusiveCAS(t)
      PROVE  IInv'
  <2>1. CountInv'
    BY <1>6, QuietCounts DEF ExclusiveCAS, Goto, TypeOK, Announced
  <2>2. Owners = {} /\ Owners' = {t} /\ writersMutex' = "LOCKED"
    BY <1>6 DEF ExclusiveCAS, Goto, TypeOK, OwnerInv, Owners
  <2>3. DrainInv'
    <3>1. scan'[t] = 0 /\ \A w \in Threads : pc'[w] = "w_scan" => w = t
      BY <1>6, <2>2 DEF ExclusiveCAS, TypeOK, Owners
    <3>2. \A r \in Threads : ~(thread2idx[r] < 0)
      BY DEF Idx
    <3>3. Writing' = {}
      BY <1>6, <2>2 DEF ExclusiveCAS, Goto, TypeOK, Owners, Writing
    <3> QED
      BY <3>1, <3>2, <3>3 DEF DrainInv
  <2> QED
    BY <1>0, <1>6, <2>1, <2>2, <2>3 DEF OwnerInv, NoUnlockError, ExclusiveCAS
<1>7. ASSUME NEW t \in Threads, ExclusiveScan(t)
      PROVE  IInv'
  <2>1. CountInv'
    BY <1>7, QuietCounts DEF ExclusiveScan, TypeOK, Announced
  <2>2. OwnerInv' /\ NoUnlockError'
    BY <1>7 DEF ExclusiveScan, TypeOK, OwnerInv, Owners, NoUnlockError
  <2>3. CASE /\ scan[t] < numCores /\ readersCounters[scan[t]] <= 0
             /\ scan' = [scan EXCEPT ![t] = @ + 1] /\ UNCHANGED pc
    <3>1. scan[t] \in Idx
      BY <2>3 DEF TypeOK, Idx
    <3>2. \A r \in Threads : thread2idx[r] = scan[t] => pc[r] # "reading"
      BY <2>3, <3>1, ZeroMeansDrained
    <3>3. ASSUME NEW w \in Threads, NEW r \in Threads,
                 pc'[w] = "w_scan", thread2idx[r] < scan'[w]
          PROVE  pc'[r] # "reading"
      <4>1. thread2idx[r] \in Int
        BY DEF Idx
      <4>2. CASE w = t
        <5>1. thread2idx[r] < scan[t] \/ thread2idx[r] = scan[t]
          BY <2>3, <3>3, <4>1, <4>2 DEF TypeOK
        <5> QED
          BY <1>7, <2>3, <3>2, <3>3, <4>2, <5>1 DEF DrainInv
      <4>3. CASE w # t
        BY <2>3, <3>3, <4>3 DEF DrainInv, TypeOK
      <4> QED
        BY <4>2, <4>3
    <3> QED
      BY <1>0, <2>1, <2>2, <2>3, <3>3 DEF DrainInv, Writing, Reading
  <2>4. CASE /\ scan[t] >= numCores
             /\ pc' = [pc EXCEPT ![t] = "writing"] /\ UNCHANGED scan
    <3>1. \A r \in Threads : thread2idx[r] < scan[t]
      BY <2>4 DEF TypeOK, Idx
    <3>2. Reading = {}
      BY <1>7, <3>1 DEF ExclusiveScan, DrainInv, Reading
    <3>3. Reading' = {}
      BY <2>4, <3>2 DEF Reading, TypeOK
    <3>4. \A r \in Threads : pc'[r] # "reading"
      BY <3>3 DEF Reading
    <3> QED
      BY <1>0, <2>1, <2>2, <3>3, <3>4 DEF DrainInv
  <2> QED
    BY <1>7, <2>3, <2>4 DEF ExclusiveScan
<1>8. ASSUME NEW t \in Threads, UnlockTest(t)
      PROVE  IInv'
  <2>1. pc[t] = "writing" /\ writersMutex = "LOCKED"
    BY <1>8 DEF UnlockTest, Goto, OwnerInv, Owners
  <2>2. pc' = [pc EXCEPT ![t] = "w_store"] /\ UNCHANGED unlockError
    BY <1>8, <2>1 DEF UnlockTest, Goto
  <2>3. CountInv'
    BY <1>8, <2>1, <2>2, QuietCounts DEF UnlockTest, TypeOK, Announced
  <2>4. Writing' = Writing /\ Reading' = Reading /\ Owners' = Owners
    BY <2>1, <2>2 DEF TypeOK, Writing, Reading, Owners
  <2>5. DrainInv'
    BY <1>8, <2>1, <2>2, <2>4 DEF UnlockTest, DrainInv, TypeOK
  <2> QED
    BY <1>0, <1>8, <2>2, <2>3, <2>4, <2>5 DEF UnlockTest, OwnerInv, NoUnlockError
<1>9. ASSUME NEW t \in Threads, UnlockStore(t)
      PROVE  IInv'
  <2>1. CountInv'
    BY <1>9, QuietCounts DEF UnlockStore, Goto, TypeOK, Announced
  <2>2. Owners' = {} /\ Writing' = {}
    BY <1>9 DEF UnlockStore, Goto, TypeOK, OwnerInv, Owners, Writing
  <2>3. \A w \in Threads : pc'[w] # "w_scan"
    BY <2>2 DEF Owners
  <2> QED
    BY <1>0, <1>9, <2>1, <2>2, <2>3 DEF OwnerInv, DrainInv, NoUnlockError, UnlockStore
<1>10. CASE UNCHANGED vars
  <2>1. CountInv'
    BY <1>10, QuietCounts DEF vars
  <2> QED
    BY <1>0, <1>10, <2>1 DEF vars, OwnerInv, Owners, DrainInv, Writing, Reading, NoUnlockError
<1> QED
  BY <1>1, <1>2, <1>3, <1>4, <1>5, <1>6, <1>7, <1>8, <1>9, <1>10
     DEF Next, Step

\* The inductive invariant holds of every behaviour.
THEOREM Invariance == Spec => []IInv
<1>1. Init => IInv
  <2> SUFFICES ASSUME Init PROVE IInv
    OBVIOUS
  <2>1. \A i \in Idx : AnnouncedAt(i) = {}
    BY DEF Init, AnnouncedAt, Announced
  <2>2. CountInv
    BY <2>1, FS_EmptySet DEF Init, CountInv
  <2>3. OwnerInv /\ DrainInv
    BY DEF Init, OwnerInv, Owners, DrainInv, Writing, Reading
  <2>4. NoUnlockError
    BY DEF Init, NoUnlockError
  <2> QED
    BY InitType, <2>2, <2>3, <2>4 DEF IInv
<1> QED
  BY <1>1, InvStep, PTL DEF Spec

\* sharedLock, trySharedLock and exclusiveLock exclude each other.
THEOREM Exclusion == Spec => []MutualExclusion
<1>1. IInv => MutualExclusion
  BY DEF IInv, OwnerInv, Owners, DrainInv, Writing, MutualExclusion
<1> QED
  BY <1>1, Invariance, PTL

\* Neither unlock ever takes its ERROR branch.
THEOREM UnlocksMatch == Spec => []NoUnlockError
<1>1. IInv => NoUnlockError
  BY DEF IInv
<1> QED
  BY <1>1, Invariance, PTL

-----------------------------------------------------------------------------
\* The lock implements RWLock under the mapping of Abstract: the threads that
\* hold it shared are the readers, the thread that holds it exclusively the
\* writer.
THEOREM Refinement == Spec => ImplementsRWLock
<1>1. Init => Abstract!Init
  BY DEF Init, Abstract!Init, Reading, Writing
<1>2. IInv /\ IInv' /\ [Next]_vars => [Abstract!Next]_(Abstract!vars)
  <2> SUFFICES ASSUME IInv, IInv', [Next]_vars
               PROVE  [Abstract!Next]_(Abstract!vars)
    OBVIOUS
  <2> USE DEF IInv
  <2>0. ASSUME Reading' = Reading, Writing' = Writing
        PROVE  [Abstract!Next]_(Abstract!vars)
    BY <2>0 DEF Abstract!vars
  <2>1. ASSUME NEW t \in Threads, SharedCheck(t)
        PROVE  [Abstract!Next]_(Abstract!vars)
    <3>1. CASE writersMutex = "UNLOCKED"
      <4>1. pc[t] \in {"r_check", "try_check"} /\ pc' = [pc EXCEPT ![t] = "reading"]
        BY <2>1, <3>1 DEF SharedCheck, Goto
      <4>2. t \notin Reading /\ Reading' = Reading \cup {t}
        BY <4>1 DEF Reading, TypeOK
      <4>3. Writing = {} /\ Writing' = {}
        BY <3>1, <4>1 DEF OwnerInv, Owners, Writing, TypeOK
      <4>4. Abstract!EnterShared(t)
        BY <4>2, <4>3 DEF Abstract!EnterShared
      <4> QED
        BY <4>4 DEF Abstract!Next
    <3>2. CASE writersMutex # "UNLOCKED"
      <4>1. \E x \in {"r_undo", "try_undo"} :
               pc[t] \in {"r_check", "try_check"} /\ pc' = [pc EXCEPT ![t] = x]
        BY <2>1, <3>2 DEF SharedCheck, Goto
      <4> QED
        BY <2>0, <4>1 DEF Reading, Writing, TypeOK
    <3> QED
      BY <3>1, <3>2
  <2>2. ASSUME NEW t \in Threads, sharedUnlock(t)
        PROVE  [Abstract!Next]_(Abstract!vars)
    <3>1. t \in Reading /\ Reading' = Reading \ {t} /\ Writing' = Writing
      BY <2>2 DEF sharedUnlock, Goto, Reading, Writing, TypeOK
    <3>2. Abstract!LeaveShared(t)
      BY <3>1 DEF Abstract!LeaveShared
    <3> QED
      BY <3>2 DEF Abstract!Next
  <2>3. ASSUME NEW t \in Threads, ExclusiveScan(t)
        PROVE  [Abstract!Next]_(Abstract!vars)
    <3>1. CASE UNCHANGED pc
      BY <2>0, <3>1 DEF Reading, Writing
    <3>2. CASE pc[t] = "w_scan" /\ pc' = [pc EXCEPT ![t] = "writing"]
      <4>1. Writing = {} /\ Writing' = {t}
        BY <3>2 DEF OwnerInv, Owners, Writing, TypeOK
      <4>2. Reading' = {} /\ Reading' = Reading
        BY <3>2, <4>1 DEF DrainInv, Reading, TypeOK
      <4>3. Abstract!EnterExclusive(t)
        BY <4>1, <4>2 DEF Abstract!EnterExclusive
      <4> QED
        BY <4>3 DEF Abstract!Next
    <3> QED
      BY <2>3, <3>1, <3>2 DEF ExclusiveScan
  <2>4. ASSUME NEW t \in Threads, UnlockTest(t)
        PROVE  [Abstract!Next]_(Abstract!vars)
    <3>1. pc[t] = "writing" /\ writersMutex = "LOCKED"
      BY <2>4 DEF UnlockTest, Goto, OwnerInv, Owners
    <3>2. pc' = [pc EXCEPT ![t] = "w_store"]
      BY <2>4, <3>1 DEF UnlockTest, Goto
    <3> QED
      BY <2>0, <3>1, <3>2 DEF Reading, Writing, TypeOK
  <2>5. ASSUME NEW t \in Threads, UnlockStore(t)
        PROVE  [Abstract!Next]_(Abstract!vars)
    <3>1. t \in Writing /\ Writing' = Writing \ {t} /\ Reading' = Reading
      BY <2>5 DEF UnlockStore, Goto, Reading, Writing, TypeOK
    <3>2. Abstract!LeaveExclusive(t)
      BY <3>1 DEF Abstract!LeaveExclusive
    <3> QED
      BY <3>2 DEF Abstract!Next
  <2>6. ASSUME NEW t \in Threads,
               \/ SharedAnnounce(t) \/ TryAnnounce(t) \/ SharedUndo(t)
               \/ SharedWait(t) \/ ExclusiveCall(t) \/ ExclusiveCAS(t)
        PROVE  [Abstract!Next]_(Abstract!vars)
    <3>1. \E f, x \in PCs \ {"reading", "writing", "w_store"} :
             pc[t] = f /\ pc' = [pc EXCEPT ![t] = x]
      BY <2>6 DEF SharedAnnounce, TryAnnounce, SharedUndo, SharedWait,
         ExclusiveCall, ExclusiveCAS, Goto, PCs
    <3> QED
      BY <2>0, <3>1 DEF Reading, Writing, TypeOK
  <2>7. CASE UNCHANGED vars
    BY <2>0, <2>7 DEF vars, Reading, Writing
  <2> QED
    BY <2>1, <2>2, <2>3, <2>4, <2>5, <2>6, <2>7 DEF Next, Step
<1> QED
  BY <1>1, <1>2, Invariance, PTL DEF Spec, ImplementsRWLock, Abstract!Spec
=============================================================================
