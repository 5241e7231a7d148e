----------------------------- MODULE CLHRWLock ------------------------------
(***************************************************************************)
(* The readers-writer lock of common/CLHRWLock.h: a CLH queue of nodes, in *)
(* which each thread waits for its predecessor, and a count of the readers *)
(* inside.  A reader lets its successor go on at once, a writer when it    *)
(* unlocks; who has got the lock frees the node of its predecessor.        *)
(*                                                                         *)
(* One action is one atomic operation.  Freed nodes are handed out again   *)
(* by malloc, the lowest number first.  The relaxed loads are ordered as   *)
(* on x86, where the library is built.                                     *)
(***************************************************************************)
EXTENDS Integers, FiniteSets

CONSTANT Threads

VARIABLES succ_must_wait,   \* of the allocated nodes
          tail,             \* the last node of the queue
          writer_node,      \* mynode of the lock: the node of the last writer
          readers_counter,
          pc,               \* where each thread is
          mynode, prev      \* of the call each thread is in

vars == <<succ_must_wait, tail, writer_node, readers_counter, pc, mynode, prev>>

Nodes == 0 .. Cardinality(Threads)
None == -1
allocated == DOMAIN succ_must_wait

\* clh_rwlock_init: a sentinel that nobody has to wait for.
Init ==
  /\ succ_must_wait = [n \in {0} |-> FALSE]
  /\ tail = 0 /\ writer_node = 0
  /\ readers_counter = 0
  /\ pc = [t \in Threads |-> "idle"]
  /\ mynode = [t \in Threads |-> None]
  /\ prev = [t \in Threads |-> None]

Goto(t, from, to) == pc[t] = from /\ pc' = [pc EXCEPT ![t] = to]

\* The nodes after n has been freed.
Freed(n) == [m \in allocated \ {n} |-> succ_must_wait[m]]

\* clh_rwlock_create_node and the exchange of the tail.
Enqueue(t, to) ==
  LET n == CHOOSE n \in Nodes \ allocated : \A m \in Nodes \ allocated : n <= m IN
  /\ Goto(t, "idle", to)
  /\ succ_must_wait' = [m \in allocated \cup {n} |-> IF m = n THEN TRUE ELSE succ_must_wait[m]]
  /\ mynode' = [mynode EXCEPT ![t] = n]
  /\ prev' = [prev EXCEPT ![t] = tail]
  /\ tail' = n
  /\ UNCHANGED <<writer_node, readers_counter>>

\* It is the turn of t: its predecessor lets it go on.
Turn(t, from, to) ==
  /\ Goto(t, from, to) /\ ~succ_must_wait[prev[t]]
  /\ UNCHANGED <<succ_must_wait, tail, writer_node, readers_counter, mynode, prev>>

Count(t) ==
  /\ Goto(t, "r_count", "r_pass")
  /\ readers_counter' = readers_counter + 1
  /\ UNCHANGED <<succ_must_wait, tail, writer_node, mynode, prev>>

Pass(t) ==
  /\ Goto(t, "r_pass", "r_free")
  /\ succ_must_wait' = [succ_must_wait EXCEPT ![mynode[t]] = FALSE]
  /\ mynode' = [mynode EXCEPT ![t] = None]
  /\ UNCHANGED <<tail, writer_node, readers_counter, prev>>

FreePrev(t) ==
  /\ Goto(t, "r_free", "reading") \/ Goto(t, "w_free", "writing")
  /\ succ_must_wait' = Freed(prev[t])
  /\ prev' = [prev EXCEPT ![t] = None]
  /\ UNCHANGED <<tail, writer_node, readers_counter, mynode>>

readunlock(t) ==
  /\ Goto(t, "reading", "idle")
  /\ readers_counter' = readers_counter - 1
  /\ UNCHANGED <<succ_must_wait, tail, writer_node, mynode, prev>>

\* The lock remembers the node of its writer.
Drain(t) ==
  /\ readers_counter = 0
  /\ Goto(t, "w_drain", "w_free")
  /\ writer_node' = mynode[t]
  /\ mynode' = [mynode EXCEPT ![t] = None]
  /\ UNCHANGED <<succ_must_wait, tail, readers_counter, prev>>

\* Mutant of writeunlock: the writer frees its own node instead of letting its successor go on.
FreeOwn(t) ==
  /\ Goto(t, "writing", "idle")
  /\ succ_must_wait' = Freed(writer_node)
  /\ UNCHANGED <<tail, writer_node, readers_counter, mynode, prev>>

writeunlock(t) ==
  /\ Goto(t, "writing", "idle")
  /\ succ_must_wait' = [succ_must_wait EXCEPT ![writer_node] = FALSE]
  /\ UNCHANGED <<tail, writer_node, readers_counter, mynode, prev>>

readlock(t) == Enqueue(t, "r_turn")
writelock(t) == Enqueue(t, "w_turn")

Step(t) ==
  \/ Turn(t, "r_turn", "r_count") \/ Count(t) \/ Pass(t) \/ FreePrev(t) \/ readunlock(t)
  \/ Turn(t, "w_turn", "w_drain") \/ Drain(t) \/ writeunlock(t)

Next == \E t \in Threads : readlock(t) \/ writelock(t) \/ Step(t)

readers == {t \in Threads : pc[t] \in {"r_pass", "r_free", "reading"}}
writers == {t \in Threads : pc[t] \in {"w_free", "writing"}}
R == INSTANCE RWLock

\* A node is freed once, and not while a thread waits for it or the lock still stores to it:
\* the free(prev) at the end of clh_rwlock_readlock and clh_rwlock_writelock is safe.
NodesAllocated ==
  /\ tail \in allocated
  /\ \A t \in Threads : {mynode[t], prev[t]} \subseteq allocated \cup {None}
  /\ \A t \in Threads : pc[t] \in {"w_free", "writing"} => writer_node \in allocated

-----------------------------------------------------------------------------
(* Why the queue is a readers-writer lock: a turn is given to one thread   *)
(* at a time.  It is with the thread at the head of the queue, or with the *)
(* node that the last head has opened.                                     *)

Places == {"idle", "r_turn", "r_count", "r_pass", "r_free", "reading",
           "w_turn", "w_drain", "w_free", "writing"}
Waiting == {"r_turn", "w_turn"}
Heads == {"r_count", "r_pass", "w_drain", "w_free", "writing"}
Past == {"r_count", "r_pass", "r_free", "w_drain", "w_free"}  \* the turn has come, prev is kept
At(places) == {t \in Threads : pc[t] \in places}

\* The node of a thread whose successor has to wait for it.
Holds(t, n) ==
  \/ pc[t] \in {"r_turn", "r_count", "r_pass", "w_turn", "w_drain"} /\ mynode[t] = n
  \/ pc[t] \in {"w_free", "writing"} /\ writer_node = n

\* The node has been opened, and nobody has taken the turn yet.
Open(n) == n \in allocated /\ ~succ_must_wait[n] /\ \A t \in At(Past) : prev[t] # n

TypeOK ==
  /\ allocated \subseteq Nodes
  /\ succ_must_wait \in [allocated -> BOOLEAN]
  /\ tail \in allocated
  /\ writer_node \in Nodes
  /\ pc \in [Threads -> Places]
  /\ mynode \in [Threads -> Nodes \cup {None}]
  /\ prev \in [Threads -> Nodes \cup {None}]

\* Everybody in the queue keeps the node before, nobody else any; there are no other nodes.
PrevInv ==
  /\ \A t \in Threads : IF pc[t] \in Waiting \cup Past THEN prev[t] \in allocated \ {tail}
                                                       ELSE prev[t] = None
  /\ \A s, t \in At(Waiting \cup Past) : prev[s] = prev[t] => s = t
  /\ \A n \in allocated : n = tail \/ \E t \in At(Waiting \cup Past) : prev[t] = n

\* A node that is held is allocated, shut, and held by one thread.
HoldInv ==
  /\ \A t \in Threads, n \in Nodes : Holds(t, n) => n \in allocated /\ succ_must_wait[n]
  /\ \A s, t \in Threads, n \in Nodes : Holds(s, n) /\ Holds(t, n) => s = t
  /\ \A t \in Threads : IF pc[t] \in {"r_turn", "r_count", "r_pass", "w_turn", "w_drain"}
                         THEN mynode[t] \in Nodes ELSE mynode[t] = None

TurnInv ==
  /\ \A t \in At(Past) : ~succ_must_wait[prev[t]]
  /\ \A s, t \in At(Heads) : s = t
  /\ \A m, n \in allocated : Open(m) /\ Open(n) => m = n
  /\ At(Heads) # {} => \A n \in allocated : ~Open(n)

CountInv == readers_counter = Cardinality(readers)
AloneInv == writers # {} => readers = {}

IInv == TypeOK /\ PrevInv /\ HoldInv /\ TurnInv /\ CountInv /\ AloneInv
=============================================================================
