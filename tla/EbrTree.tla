------------------------------- MODULE EbrTree ------------------------------
(***************************************************************************)
(* The tree-based reclaimer (common/recordmgr/reclaimer_ebr_tree.h).  The  *)
(* announcements are the leaves of a binary tree; a thread carries its own *)
(* towards the root as long as the sibling has the same value, or belongs  *)
(* to no thread, and the root is the epoch.  The nodes are numbered as in  *)
(* a heap, from 1.  endOp does nothing.                                    *)
(***************************************************************************)
EXTENDS Integers

CONSTANTS NUM_PROCESSES, numThreadsPow2, MIN_TIME_BEFORE_TRY_ADVANCE, Records,
          MaxEpoch   \* bound: the epoch is not advanced beyond

VARIABLES nodes,
          epochbags, index, timeSinceTryAdvance,
          pc,
          readEpoch,   \* what startOp has read
          currIx,      \* where tryAdvance is in the tree
          parentVal,   \* what it has read there
          limbo

vars == <<nodes, epochbags, index, timeSinceTryAdvance, pc, readEpoch, currIx, parentVal, limbo>>

EPOCH_INCREMENT == 2
NUMBER_OF_EPOCH_BAGS == 3
Tids == 0 .. NUM_PROCESSES - 1

EBRT_ROOT == 1
EBRT_PARENT(ix) == ix \div 2
EBRT_LEAF(t) == t + numThreadsPow2
sibling(ix) == IF ix % 2 = 0 THEN ix + 1 ELSE ix - 1

BITS_EPOCH(ann) == ann - (ann % EPOCH_INCREMENT)
QUIESCENT(ann) == ann % 2 = 1

active == {t \in Tids : pc[t] = "op"}
GP == INSTANCE GracePeriod WITH Threads <- Tids

Nodes == EBRT_ROOT .. 2 * numThreadsPow2 - 1

\* The parent of two quiescent nodes is quiescent.
propagateQ ==
  \A ix \in EBRT_ROOT + 1 .. numThreadsPow2 - 1 :
    nodes[ix] = IF QUIESCENT(nodes[2 * ix]) /\ QUIESCENT(nodes[2 * ix + 1]) THEN 1 ELSE 0

\* The constructor: leaves of no thread, and what is above nothing else, are quiescent.
Init ==
  /\ nodes \in [Nodes -> {0, 1, EPOCH_INCREMENT}]
  /\ \A ix \in Nodes \ {EBRT_ROOT} :
       EBRT_LEAF(0) <= ix => nodes[ix] = IF EBRT_LEAF(NUM_PROCESSES) <= ix THEN 1 ELSE 0
  /\ propagateQ
  /\ nodes[EBRT_ROOT] = EPOCH_INCREMENT
  /\ epochbags = [t \in Tids |-> [i \in 0 .. NUMBER_OF_EPOCH_BAGS - 1 |-> {}]]
  /\ index = [t \in Tids |-> 0]
  /\ timeSinceTryAdvance = [t \in Tids |-> 0]
  /\ pc = [t \in Tids |-> "idle"]
  /\ readEpoch = [t \in Tids |-> 0]
  /\ currIx = [t \in Tids |-> EBRT_ROOT]
  /\ parentVal = [t \in Tids |-> 0]
  /\ limbo = GP!NoRecords

Goto(t, from, to) == pc[t] = from /\ pc' = [pc EXCEPT ![t] = to]

-----------------------------------------------------------------------------
nextIndex(t) == (index[t] + 1) % NUMBER_OF_EPOCH_BAGS

rotateEpochBags(t) ==
  /\ limbo' = GP!Without(epochbags[t][nextIndex(t)])
  /\ epochbags' = [epochbags EXCEPT ![t][nextIndex(t)] = {}]
  /\ index' = [index EXCEPT ![t] = nextIndex(t)]

ReadEpoch(t) ==
  /\ Goto(t, "idle", "announce")
  /\ readEpoch' = [readEpoch EXCEPT ![t] = nodes[EBRT_ROOT]]
  /\ UNCHANGED <<nodes, epochbags, index, timeSinceTryAdvance, currIx, parentVal, limbo>>

\* announce and the rotation that follows it; then tryAdvance, now and then.  (At the bound
\* there is no tryAdvance.)
Announce(t) ==
  /\ IF readEpoch[t] # BITS_EPOCH(nodes[EBRT_LEAF(t)])
     THEN nodes' = [nodes EXCEPT ![EBRT_LEAF(t)] = readEpoch[t]] /\ rotateEpochBags(t)
     ELSE UNCHANGED <<nodes, epochbags, index, limbo>>
  /\ timeSinceTryAdvance' =
       [timeSinceTryAdvance EXCEPT ![t] = (@ + 1) % MIN_TIME_BEFORE_TRY_ADVANCE]
  /\ currIx' = [currIx EXCEPT ![t] = EBRT_LEAF(t)]
  /\ IF timeSinceTryAdvance'[t] = 0 /\ readEpoch[t] < MaxEpoch /\ EBRT_LEAF(t) > EBRT_ROOT
     THEN Goto(t, "announce", "climb")
     ELSE Goto(t, "announce", "op")
  /\ UNCHANGED <<readEpoch, parentVal>>

val(t) == nodes[EBRT_LEAF(t)]

\* The sibling is in the same epoch, or has nobody below.
MayPass(t, v) == v = val(t) \/ QUIESCENT(v)

\* tryAdvance reads the sibling of the node it has reached.
ReadSibling(t) ==
  /\ pc[t] = "climb"
  /\ IF MayPass(t, nodes[sibling(currIx[t])]) THEN Goto(t, "climb", "parent")
                                              ELSE Goto(t, "climb", "op")
  /\ UNCHANGED <<nodes, epochbags, index, timeSinceTryAdvance, readEpoch, currIx, parentVal, limbo>>

\* Then the parent: the root must have the value, another node a smaller one.
ReadParent(t) ==
  LET p == EBRT_PARENT(currIx[t]) IN
  /\ pc[t] = "parent"
  /\ IF IF p = EBRT_ROOT THEN nodes[p] = val(t) ELSE nodes[p] < val(t)
     THEN Goto(t, "parent", "cas")
     ELSE Goto(t, "parent", "op")
  /\ parentVal' = [parentVal EXCEPT ![t] = nodes[p]]
  /\ UNCHANGED <<nodes, epochbags, index, timeSinceTryAdvance, readEpoch, currIx, limbo>>

\* The compare-and-swap.  Whoever loses leaves the rest to the winner.
CASParent(t) ==
  LET p == EBRT_PARENT(currIx[t])
      won == nodes[p] = parentVal[t]
  IN  /\ pc[t] = "cas"
      /\ nodes' = [nodes EXCEPT ![p] = CASE ~won -> @
                                         [] won /\ p = EBRT_ROOT -> @ + EPOCH_INCREMENT
                                         [] OTHER -> val(t)]
      /\ currIx' = [currIx EXCEPT ![t] = p]
      /\ IF won /\ p # EBRT_ROOT THEN Goto(t, "cas", "climb") ELSE Goto(t, "cas", "op")
      /\ UNCHANGED <<epochbags, index, timeSinceTryAdvance, readEpoch, parentVal, limbo>>

retire(t, r) ==
  /\ pc[t] = "op" /\ r \notin DOMAIN limbo
  /\ epochbags' = [epochbags EXCEPT ![t][index[t]] = @ \cup {r}]
  /\ limbo' = GP!Retired(r, active)
  /\ UNCHANGED <<nodes, index, timeSinceTryAdvance, pc, readEpoch, currIx, parentVal>>

endOp(t) ==
  /\ Goto(t, "op", "idle")
  /\ readEpoch' = [readEpoch EXCEPT ![t] = 0]
  /\ currIx' = [currIx EXCEPT ![t] = EBRT_ROOT]
  /\ parentVal' = [parentVal EXCEPT ![t] = 0]
  /\ limbo' = GP!Outlived(t)
  /\ UNCHANGED <<nodes, epochbags, index, timeSinceTryAdvance>>

-----------------------------------------------------------------------------
Step(t) == \/ ReadEpoch(t) \/ Announce(t) \/ ReadSibling(t) \/ ReadParent(t) \/ CASParent(t)
           \/ endOp(t)

Next == \E t \in Tids : Step(t) \/ \E r \in Records : retire(t, r)

-----------------------------------------------------------------------------
(* Why a record outlives the operations that may use it: the epoch is at   *)
(* most one ahead of every announcement, since a node is never ahead of    *)
(* the nodes below it.                                                     *)

Bags == 0 .. NUMBER_OF_EPOCH_BAGS - 1
Even(e) == e \in Nat /\ e % 2 = 0
Climbing == {"climb", "parent", "cas"}

TypeOK ==
  /\ nodes \in [Nodes -> Nat]
  /\ epochbags \in [Tids -> [Bags -> SUBSET DOMAIN limbo]]
  /\ index \in [Tids -> Bags]
  /\ pc \in [Tids -> {"idle", "announce", "op"} \cup Climbing]
  /\ readEpoch \in [Tids -> Nat]
  /\ currIx \in [Tids -> Nodes]
  /\ parentVal \in [Tids -> Nat]
  /\ limbo \in [DOMAIN limbo -> SUBSET active]

\* The root is even, and so is a node that has a thread below it.
TreeInv ==
  /\ Even(nodes[EBRT_ROOT])
  /\ \A t \in Tids : Even(val(t)) /\ val(t) <= nodes[EBRT_ROOT]
  /\ \A ix \in EBRT_ROOT + 1 .. 2 * numThreadsPow2 - 1 : Even(nodes[ix]) =>
       IF EBRT_PARENT(ix) = EBRT_ROOT
       THEN nodes[EBRT_ROOT] <= nodes[ix] + EPOCH_INCREMENT
       ELSE Even(nodes[EBRT_PARENT(ix)]) /\ nodes[EBRT_PARENT(ix)] <= nodes[ix]

\* A node that does not keep t from going on.
Reached(t, ix) == QUIESCENT(nodes[ix]) \/ val(t) <= nodes[ix]

ClimbInv == \A t \in Tids :
  /\ pc[t] = "announce" => Even(readEpoch[t]) /\ val(t) <= readEpoch[t] /\ readEpoch[t] <= nodes[EBRT_ROOT]
  /\ pc[t] \in Climbing => /\ currIx[t] # EBRT_ROOT
                           /\ Even(nodes[currIx[t]]) /\ val(t) <= nodes[currIx[t]]
  /\ pc[t] \in {"parent", "cas"} => Reached(t, sibling(currIx[t]))
  /\ pc[t] = "cas" => IF EBRT_PARENT(currIx[t]) = EBRT_ROOT THEN parentVal[t] = val(t)
                                                           ELSE parentVal[t] < val(t)

\* What a record may have to outlive when it is in the bag that t fills, in the one it filled
\* before, and in the one before that, which is the next to be freed: the operations that have
\* announced an epoch as old as that.
waits ==
  [t \in Tids |-> [i \in Bags |->
     {s \in active : val(s) + i * EPOCH_INCREMENT <= val(t) + EPOCH_INCREMENT}]]

\* A retired record is in one bag.
BagInv ==
  /\ \A t, u \in Tids, i, j \in Bags :
       epochbags[t][i] \cap epochbags[u][j] # {} => t = u /\ i = j
  /\ \A t \in Tids, i \in Bags :
       \A r \in epochbags[t][(index[t] + NUMBER_OF_EPOCH_BAGS - i) % NUMBER_OF_EPOCH_BAGS] :
         limbo[r] \subseteq waits[t][i]

IInv == TypeOK /\ TreeInv /\ ClimbInv /\ BagInv
=============================================================================
