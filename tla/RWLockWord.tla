----------------------------- MODULE RWLockWord -----------------------------
(***************************************************************************)
(* The readers-writer locks of common/rwlock.h, which keep everything in   *)
(* one word: a writer bit, an upgrade bit where readers are favoured, and  *)
(* the number of readers above.  The build picks one of them: `favour` is  *)
(* fixed by the initial state.  (The third choice is pthread_rwlock_t.)    *)
(*                                                                         *)
(* One action is one access to the word; a loop that only reads it is an   *)
(* action that is disabled until the loop ends.                            *)
(***************************************************************************)
EXTENDS Integers, FiniteSets

CONSTANT Threads

VARIABLES favour,  \* RWLOCK_FAVOR_READERS or RWLOCK_FAVOR_WRITERS
          lock,    \* the word
          pc,      \* where each thread is
          v        \* the word as the thread has read it (expval in upgradeLock)

vars == <<favour, lock, pc, v>>

Init ==
  /\ favour \in {"readers", "writers"}
  /\ lock = 0
  /\ pc = [t \in Threads |-> "idle"]
  /\ v = [t \in Threads |-> 0]

isWriteLocked(w) == w % 2 = 1
isUpgrading(w) == (w \div 2) % 2 = 1
Reader == IF favour = "readers" THEN 4 ELSE 2

Goto(t, from, to) == pc[t] = from /\ pc' = [pc EXCEPT ![t] = to]
Quietly == UNCHANGED <<favour, v>>
Load(t) == v' = [v EXCEPT ![t] = lock] /\ UNCHANGED <<favour, lock>>
Forget(t) == v' = [v EXCEPT ![t] = 0] /\ UNCHANGED favour

-----------------------------------------------------------------------------
(* Readers.  Favoured ones announce themselves and wait for the writer to  *)
(* leave; the others wait until nobody is there and withdraw if a writer   *)
(* was faster.                                                             *)

ReadAnnounce(t) ==
  /\ favour = "readers" /\ Goto(t, "idle", "r_wait")
  /\ lock' = lock + Reader /\ Quietly

ReadEnter(t) ==
  /\ ~isWriteLocked(lock) /\ Goto(t, "r_wait", "reading")
  /\ UNCHANGED lock /\ Quietly

\* Mutant of ReadTry: the reader does not look at the writer bit.
ReadRush(t) ==
  /\ Goto(t, "r_add", "reading")
  /\ lock' = lock + Reader /\ Quietly

ReadSpin(t) ==
  /\ favour = "writers" /\ lock = 0 /\ Goto(t, "r_spin", "r_add")
  /\ UNCHANGED lock /\ Quietly

ReadTry(t) ==
  /\ IF isWriteLocked(lock) THEN Goto(t, "r_add", "r_undo") ELSE Goto(t, "r_add", "reading")
  /\ lock' = lock + Reader /\ Quietly

ReadUndo(t) ==
  /\ Goto(t, "r_undo", "r_spin")
  /\ lock' = lock - Reader /\ Quietly

\* A reader that could not upgrade releases its lock too.
readUnlock(t) ==
  /\ Goto(t, "reading", "idle") \/ Goto(t, "u_failed", "idle")
  /\ lock' = lock - Reader /\ Quietly

-----------------------------------------------------------------------------
(* upgradeLock: a reader becomes the upgrader, of which there is one, and  *)
(* the writer when the others have left.                                   *)

UpgradeRead(t) ==
  /\ IF isUpgrading(lock)
     THEN Goto(t, "u_read", "u_failed") /\ UNCHANGED lock /\ Quietly
     ELSE Goto(t, "u_read", "u_cas") /\ Load(t)

UpgradeCAS(t) ==
  /\ IF lock = v[t]
     THEN Goto(t, "u_cas", "u_wait") /\ lock' = v[t] - Reader + 2
     ELSE Goto(t, "u_cas", "u_read") /\ UNCHANGED lock
  /\ Forget(t)

UpgradeWait(t) ==
  /\ lock \in {0, 2} /\ Goto(t, "u_wait", "u_set")
  /\ UNCHANGED lock /\ Quietly

UpgradeSet(t) ==
  /\ IF lock = 2 THEN Goto(t, "u_set", "writing") /\ lock' = 1
                 ELSE Goto(t, "u_set", "u_wait") /\ UNCHANGED lock
  /\ Quietly

-----------------------------------------------------------------------------
(* Writers.  Where they are favoured they take the bit first and then wait *)
(* for the readers that are inside.                                        *)

WriteSpin(t) ==
  /\ favour = "readers" /\ lock = 0 /\ Goto(t, "w_spin", "w_set")
  /\ UNCHANGED lock /\ Quietly

WriteSet(t) ==
  /\ IF lock = 0 THEN Goto(t, "w_set", "writing") /\ lock' = 1
                 ELSE Goto(t, "w_set", "w_spin") /\ UNCHANGED lock
  /\ Quietly

WriteRead(t) == favour = "writers" /\ Goto(t, "w_spin", "w_cas") /\ Load(t)

\* The loop reads the word again only if there were readers.
WriteCAS(t) ==
  LET free == v[t] - (v[t] % 2) IN
  /\ IF lock = free
     THEN /\ lock' = free + 1
          /\ IF free = 0 THEN Goto(t, "w_cas", "writing") ELSE Goto(t, "w_cas", "w_drain")
     ELSE Goto(t, "w_cas", "w_spin") /\ UNCHANGED lock
  /\ Forget(t)

WriteDrain(t) ==
  /\ lock = 1 /\ Goto(t, "w_drain", "writing")
  /\ UNCHANGED lock /\ Quietly

writeUnlock(t) ==
  /\ Goto(t, "writing", "idle")
  /\ lock' = lock - 1 /\ Quietly

-----------------------------------------------------------------------------
\* The client asks for the lock, or a reader to become the writer.
Call(t) ==
  /\ \/ favour = "writers" /\ Goto(t, "idle", "r_spin")
     \/ Goto(t, "idle", "w_spin")
     \/ favour = "readers" /\ Goto(t, "reading", "u_read")
  /\ UNCHANGED lock /\ Quietly

\* Steps of the lock's code and the releases, which the client makes in the end.
Step(t) ==
  \/ ReadEnter(t) \/ ReadSpin(t) \/ ReadTry(t) \/ ReadUndo(t) \/ readUnlock(t)
  \/ UpgradeRead(t) \/ UpgradeCAS(t) \/ UpgradeWait(t) \/ UpgradeSet(t)
  \/ WriteSpin(t) \/ WriteSet(t) \/ WriteRead(t) \/ WriteCAS(t) \/ WriteDrain(t)
  \/ writeUnlock(t)

Next == \E t \in Threads : Call(t) \/ ReadAnnounce(t) \/ Step(t)

readers == {t \in Threads : pc[t] \in {"reading", "u_read", "u_cas", "u_failed"}}
writers == {t \in Threads : pc[t] = "writing"}
R == INSTANCE RWLock

-----------------------------------------------------------------------------
(* Why the word is a readers-writer lock: it counts the threads that have  *)
(* announced themselves as readers, and its bits are the upgrader and the  *)
(* owner of the writer bit, of which there is one each.                    *)

Places == IF favour = "readers"
          THEN {"idle", "r_wait", "reading", "u_read", "u_cas", "u_failed", "u_wait", "u_set",
                "w_spin", "w_set", "writing"}
          ELSE {"idle", "r_spin", "r_add", "r_undo", "reading", "w_spin", "w_cas", "w_drain",
                "writing"}
Announced == {"r_wait", "r_undo", "reading", "u_read", "u_cas", "u_failed"}
Upgrading == {"u_wait", "u_set"}
Owning == {"w_drain", "writing"}
At(places) == {t \in Threads : pc[t] \in places}

TypeOK ==
  /\ favour \in {"readers", "writers"}
  /\ lock \in Nat
  /\ pc \in [Threads -> Places]
  /\ v \in [Threads -> Nat]

WordInv == lock = Reader * Cardinality(At(Announced))
                  + (IF At(Upgrading) = {} THEN 0 ELSE 2) + (IF At(Owning) = {} THEN 0 ELSE 1)
OneInv == \A places \in {Upgrading, Owning} : \A s, t \in At(places) : s = t
AloneInv == writers # {} => readers = {} /\ At(Upgrading) = {}
CasInv == \A t \in Threads : pc[t] = "u_cas" => ~isUpgrading(v[t])

IInv == TypeOK /\ WordInv /\ OneInv /\ AloneInv /\ CasInv
=============================================================================
