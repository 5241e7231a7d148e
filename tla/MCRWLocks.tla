------------------------------ MODULE MCRWLocks -----------------------------
(***************************************************************************)
(* The three readers-writer locks side by side: DCLCRWLock of the trees,   *)
(* CLHRWLock, which they can be built with instead, and the words of       *)
(* rwlock.h, which the range queries use.  `kind` says which one this      *)
(* behaviour uses; the other two stay as they were initialised.  Three     *)
(* threads, two of which share a counter of DCLCRWLock.                    *)
(***************************************************************************)
EXTENDS DCLCRWLock

CONSTANTS t1, t2, t3
MCThreads == {t1, t2, t3}
MCThread2Idx == [t \in MCThreads |-> IF t = t3 THEN 1 ELSE 0]

VARIABLES kind, favour, lock, wordpc, v,
          succ_must_wait, tail, writer_node, readers_counter, clhpc, mynode, prev

W == INSTANCE RWLockWord WITH pc <- wordpc
C == INSTANCE CLHRWLock WITH pc <- clhpc

wordVars == <<favour, lock, wordpc, v>>
clhVars == <<succ_must_wait, tail, writer_node, readers_counter, clhpc, mynode, prev>>
allVars == <<kind, vars, wordVars, clhVars>>

AnyInit ==
  /\ kind \in {"dclc", "word", "clh"}
  /\ Init /\ W!Init /\ C!Init
  /\ kind = "word" \/ favour = "readers"

AnyNext ==
  /\ \/ kind = "dclc" /\ Next /\ UNCHANGED <<wordVars, clhVars>>
     \/ kind = "word" /\ W!Next /\ UNCHANGED <<vars, clhVars>>
     \/ kind = "clh"  /\ C!Next /\ UNCHANGED <<vars, wordVars>>
  /\ UNCHANGED kind

\* Every step of a lock's code that stays enabled is taken, and sections end.
AnyFairness ==
  \A t \in Threads :
    WF_allVars(/\ UNCHANGED kind
               /\ \/ kind = "dclc" /\ Step(t) /\ UNCHANGED <<wordVars, clhVars>>
                  \/ kind = "dclc" /\ pc[t] = "r_retry" /\ SharedAnnounce(t)
                                   /\ UNCHANGED <<wordVars, clhVars>>
                  \/ kind = "word" /\ W!Step(t) /\ UNCHANGED <<vars, clhVars>>
                  \/ kind = "clh"  /\ C!Step(t) /\ UNCHANGED <<vars, wordVars>>)

AnySpec == AnyInit /\ [][AnyNext]_allVars /\ AnyFairness

-----------------------------------------------------------------------------
\* The words of rwlock.h, whichever side they favour and with their upgrade of a reader to
\* the writer, and the queue lock of CLHRWLock.h implement the abstract readers-writer lock.
OthersImplementRWLock == W!R!Spec /\ C!R!Spec

\* The queue lock frees a node once, and when no thread waits for it or stores to it any
\* more: the free(prev) at the end of its two lock functions is safe.
NodesAllocated == C!NodesAllocated

\* Whom a lock favours is not kept out for ever by the others: the writer of DCLCRWLock.h
\* that has set the flag; in rwlock.h a reader that has announced itself, or a writer that
\* has taken the bit; everybody in the queue of CLHRWLock.h.
FavouredGetsIn ==
  /\ WriterGetsIn
  /\ \A t \in Threads :
       /\ wordpc[t] = "r_wait" ~> wordpc[t] = "reading"
       /\ wordpc[t] = "w_drain" ~> wordpc[t] = "writing"
       /\ clhpc[t] = "r_turn" ~> clhpc[t] = "reading"
       /\ clhpc[t] = "w_turn" ~> clhpc[t] = "writing"
=============================================================================
