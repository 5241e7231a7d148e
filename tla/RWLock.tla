------------------------------- MODULE RWLock -------------------------------
(***************************************************************************)
(* What a readers-writer lock promises: any number of readers, or one      *)
(* writer and no reader.  It is the abstract specification that            *)
(* DCLCRWLock implements, and what the CBTree variants rely on.            *)
(***************************************************************************)
CONSTANT Threads

VARIABLES readers,   \* the threads inside a shared section
          writers    \* the threads inside the exclusive section

vars == <<readers, writers>>

Init == readers = {} /\ writers = {}

EnterShared(t) ==
  /\ writers = {} /\ t \notin readers
  /\ readers' = readers \cup {t}
  /\ UNCHANGED writers

LeaveShared(t) ==
  /\ t \in readers
  /\ readers' = readers \ {t}
  /\ UNCHANGED writers

EnterExclusive(t) ==
  /\ writers = {} /\ readers = {}
  /\ writers' = {t}
  /\ UNCHANGED readers

LeaveExclusive(t) ==
  /\ t \in writers
  /\ writers' = writers \ {t}
  /\ UNCHANGED readers

Next == \E t \in Threads : \/ EnterShared(t) \/ LeaveShared(t)
                           \/ EnterExclusive(t) \/ LeaveExclusive(t)

Spec == Init /\ [][Next]_vars
=============================================================================
