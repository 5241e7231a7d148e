----------------------------- MODULE DCLCRWLock -----------------------------
(***************************************************************************)
(* The readers-writer lock of common/DCLCRWLock.h, at the grain of its     *)
(* atomic operations.  A reader announces itself in a counter picked by a  *)
(* hash of its thread id and then looks at the writers' mutex; a writer    *)
(* takes the mutex and then waits for every counter to drain.  Several     *)
(* threads may share a counter.                                            *)
(*                                                                         *)
(* A spinning `while (...) yield()` is an action that is disabled until    *)
(* the loop's condition is false.  The cache-line stride of the counters   *)
(* array (DCLC_COUNTERS_RATIO) is abstracted: counter i stands for         *)
(* readersCounters[i * DCLC_COUNTERS_RATIO].                               *)
(***************************************************************************)
EXTENDS Integers, FiniteSets

CONSTANTS Threads,      \* threads that use the lock
          numCores,     \* number of reader counters
          thread2idx    \* hash of a thread id to the index of its counter

Idx == 0 .. numCores - 1

ASSUME NumCoresAssumption == numCores \in Nat \ {0}
ASSUME ThreadsAssumption == IsFiniteSet(Threads)
ASSUME Thread2IdxAssumption == thread2idx \in [Threads -> Idx]

VARIABLES writersMutex,     \* "UNLOCKED" or "LOCKED"
          readersCounters,  \* counter of each index
          pc,               \* where each thread is in the lock's code
          scan,             \* idx of the draining loop of exclusiveLock
          unlockError       \* an unlock found no matching lock

vars == <<writersMutex, readersCounters, pc, scan, unlockError>>

Init ==
  /\ writersMutex = "UNLOCKED"
  /\ readersCounters = [i \in Idx |-> 0]
  /\ pc = [t \in Threads |-> "idle"]
  /\ scan = [t \in Threads |-> 0]
  /\ unlockError = FALSE

Goto(t, from, to) == pc[t] = from /\ pc' = [pc EXCEPT ![t] = to]

\* fetch_add on the counter of thread t
FetchAdd(t, d) ==
  readersCounters' = [readersCounters EXCEPT ![thread2idx[t]] = @ + d]

-----------------------------------------------------------------------------
(* sharedLock and trySharedLock *)

SharedAnnounce(t) ==
  /\ Goto(t, "idle", "r_check") \/ Goto(t, "r_retry", "r_check")
  /\ FetchAdd(t, 1)
  /\ UNCHANGED <<writersMutex, scan, unlockError>>

TryAnnounce(t) ==
  /\ Goto(t, "idle", "try_check")
  /\ FetchAdd(t, 1)
  /\ UNCHANGED <<writersMutex, scan, unlockError>>

\* Mutant of SharedCheck: the reader does not look at the mutex.
SharedRush(t) ==
  /\ Goto(t, "r_check", "reading") \/ Goto(t, "try_check", "reading")
  /\ UNCHANGED <<writersMutex, readersCounters, scan, unlockError>>

SharedCheck(t) ==
  /\ IF writersMutex = "UNLOCKED"
     THEN Goto(t, "r_check", "reading") \/ Goto(t, "try_check", "reading")
     ELSE Goto(t, "r_check", "r_undo") \/ Goto(t, "try_check", "try_undo")
  /\ UNCHANGED <<writersMutex, readersCounters, scan, unlockError>>

SharedUndo(t) ==
  /\ Goto(t, "r_undo", "r_wait") \/ Goto(t, "try_undo", "idle")
  /\ FetchAdd(t, -1)
  /\ UNCHANGED <<writersMutex, scan, unlockError>>

\* Mutant of SharedWait: the reader tries again at once.
SharedNoWait(t) ==
  /\ Goto(t, "r_wait", "r_retry")
  /\ UNCHANGED <<writersMutex, readersCounters, scan, unlockError>>

SharedWait(t) ==
  /\ writersMutex # "LOCKED"
  /\ Goto(t, "r_wait", "r_retry")
  /\ UNCHANGED <<writersMutex, readersCounters, scan, unlockError>>

\* Mutant of sharedUnlock: the reader withdraws twice.
SharedUnlockTwice(t) ==
  /\ Goto(t, "reading", "idle")
  /\ FetchAdd(t, -2)
  /\ unlockError' = (unlockError \/ readersCounters[thread2idx[t]] <= 0)
  /\ UNCHANGED <<writersMutex, scan>>

sharedUnlock(t) ==
  /\ Goto(t, "reading", "idle")
  /\ FetchAdd(t, -1)
  /\ unlockError' = (unlockError \/ readersCounters[thread2idx[t]] <= 0)
  /\ UNCHANGED <<writersMutex, scan>>

-----------------------------------------------------------------------------
(* exclusiveLock and exclusiveUnlock *)

ExclusiveCall(t) ==
  /\ Goto(t, "idle", "w_try")
  /\ UNCHANGED <<writersMutex, readersCounters, scan, unlockError>>

\* Mutant of ExclusiveCAS: the loop over the counters starts at the second.
ExclusiveSkip(t) ==
  /\ writersMutex = "UNLOCKED"
  /\ Goto(t, "w_try", "w_scan")
  /\ writersMutex' = "LOCKED"
  /\ scan' = [scan EXCEPT ![t] = 1]
  /\ UNCHANGED <<readersCounters, unlockError>>

ExclusiveCAS(t) ==
  /\ writersMutex = "UNLOCKED"
  /\ Goto(t, "w_try", "w_scan")
  /\ writersMutex' = "LOCKED"
  /\ scan' = [scan EXCEPT ![t] = 0]
  /\ UNCHANGED <<readersCounters, unlockError>>

ExclusiveScan(t) ==
  /\ pc[t] = "w_scan"
  /\ \/ /\ scan[t] < numCores
        /\ readersCounters[scan[t]] <= 0
        /\ scan' = [scan EXCEPT ![t] = @ + 1]
        /\ UNCHANGED pc
     \/ /\ scan[t] >= numCores
        /\ pc' = [pc EXCEPT ![t] = "writing"]
        /\ UNCHANGED scan
  /\ UNCHANGED <<writersMutex, readersCounters, unlockError>>

UnlockTest(t) ==
  /\ IF writersMutex # "LOCKED"
     THEN Goto(t, "writing", "idle") /\ unlockError' = TRUE
     ELSE Goto(t, "writing", "w_store") /\ UNCHANGED unlockError
  /\ UNCHANGED <<writersMutex, readersCounters, scan>>

UnlockStore(t) ==
  /\ Goto(t, "w_store", "idle")
  /\ writersMutex' = "UNLOCKED"
  /\ UNCHANGED <<readersCounters, scan, unlockError>>

-----------------------------------------------------------------------------
\* Steps of a thread inside the lock's code, and its leaving a section.
Step(t) ==
  \/ SharedCheck(t) \/ SharedUndo(t) \/ SharedWait(t) \/ sharedUnlock(t)
  \/ ExclusiveCAS(t) \/ ExclusiveScan(t) \/ UnlockTest(t) \/ UnlockStore(t)

Next == \E t \in Threads : SharedAnnounce(t) \/ TryAnnounce(t) \/ ExclusiveCall(t) \/ Step(t)

Spec == Init /\ [][Next]_vars

(***************************************************************************)
(* The operating system runs every thread, sections end, and a reader that *)
(* has seen the mutex free goes on to announce itself again: every step    *)
(* that stays enabled is taken.  Nothing is assumed about who wins the     *)
(* compare-and-swap.                                                       *)
(***************************************************************************)
Fairness ==
  \A t \in Threads : WF_vars(Step(t)) /\ WF_vars(pc[t] = "r_retry" /\ SharedAnnounce(t))

FairSpec == Spec /\ Fairness

-----------------------------------------------------------------------------
(* Properties *)

PCs == {"idle", "r_check", "r_undo", "r_wait", "r_retry", "reading",
        "try_check", "try_undo", "w_try", "w_scan", "writing", "w_store"}

\* The variables have their types.
TypeOK ==
  /\ writersMutex \in {"UNLOCKED", "LOCKED"}
  /\ readersCounters \in [Idx -> Int]
  /\ pc \in [Threads -> PCs]
  /\ scan \in [Threads -> Nat]
  /\ unlockError \in BOOLEAN

Reading == {t \in Threads : pc[t] = "reading"}
Writing == {t \in Threads : pc[t] \in {"writing", "w_store"}}

\* exclusiveLock returns to one thread at a time, and only when no thread is
\* between the return of sharedLock (or of a successful trySharedLock) and
\* sharedUnlock.
MutualExclusion ==
  /\ Writing # {} => Reading = {}
  /\ \A s, t \in Writing : s = t

\* The ERROR branches of sharedUnlock and exclusiveUnlock are never taken by
\* threads that unlock what they locked.
NoUnlockError == ~unlockError

\* A writer that has won the mutex gets in: readers that arrive after it back
\* off and wait, so the counters it is waiting for drain.  Only threads that call
\* trySharedLock again and again, which does not wait, can keep it out.
WriterGetsIn == \/ \A t \in Threads : pc[t] = "w_scan" ~> pc[t] = "writing"
                \/ []<>(\E t \in Threads : pc[t] = "try_check")

\* The lock implements the abstract readers-writer lock.
Abstract == INSTANCE RWLock WITH readers <- Reading, writers <- Writing
ImplementsRWLock == Abstract!Spec

-----------------------------------------------------------------------------
(* The inductive invariant behind MutualExclusion and NoUnlockError *)

Announced == {"r_check", "r_undo", "reading", "try_check", "try_undo"}
AnnouncedAt(i) == {t \in Threads : pc[t] \in Announced /\ thread2idx[t] = i}

\* A counter is the number of threads that have announced themselves in it.
CountInv == \A i \in Idx : readersCounters[i] = Cardinality(AnnouncedAt(i))

\* One thread owns the mutex, from its compare-and-swap to its store.
Owners == {t \in Threads : pc[t] \in {"w_scan", "writing", "w_store"}}
OwnerInv == /\ \A s, t \in Owners : s = t
            /\ Owners # {} => writersMutex = "LOCKED"

\* No reader is left in the counters the owner has found drained.
DrainInv ==
  /\ \A w, r \in Threads :
       pc[w] = "w_scan" /\ thread2idx[r] < scan[w] => pc[r] # "reading"
  /\ Writing # {} => Reading = {}

IInv == TypeOK /\ CountInv /\ OwnerInv /\ DrainInv /\ NoUnlockError
=============================================================================
