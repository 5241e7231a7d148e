-------------------------------- MODULE Debra -------------------------------
(***************************************************************************)
(* The epoch-based reclaimer DEBRA (common/recordmgr/reclaimer_debra.h).   *)
(* A thread announces the epoch it has read when it starts an operation    *)
(* and sets the quiescent bit of its announcement when it ends one.  Each  *)
(* start looks at one other announcement; who has seen all of them in its  *)
(* epoch, or quiescent, advances the epoch.  Retired records go to one of  *)
(* three bags, and to the pool when the thread comes back to that bag.     *)
(*                                                                         *)
(* startOp is called through record_manager, whose full barrier after it   *)
(* makes the relaxed announcement visible before the operation begins.     *)
(* The pool is pool_none, which frees all of a bag.                        *)
(***************************************************************************)
EXTENDS Integers

CONSTANTS NUM_PROCESSES, MIN_OPS_BEFORE_READ, Records,
          MaxEpoch   \* bound: the epoch is not advanced beyond

VARIABLES epoch,
          announcedEpoch, localvar_announcedEpoch,
          epochbags, index,    \* the bags of each thread and the one it is filling
          checked,             \* whose announcement the thread looks at next
          opsSinceRead,
          pc,                  \* where each thread is
          readEpoch,           \* what startOp has read
          limbo                \* history: see GracePeriod

vars == <<epoch, announcedEpoch, localvar_announcedEpoch, epochbags, index, checked,
          opsSinceRead, pc, readEpoch, limbo>>

EPOCH_INCREMENT == 2
\* Mutant of NUMBER_OF_EPOCH_BAGS: a record is freed one epoch too early.
TwoBags == 2
NUMBER_OF_EPOCH_BAGS == 3
Tids == 0 .. NUM_PROCESSES - 1

BITS_EPOCH(ann) == ann - (ann % EPOCH_INCREMENT)
QUIESCENT(ann) == ann % 2 = 1
GET_WITH_QUIESCENT(ann) == BITS_EPOCH(ann) + 1

active == {t \in Tids : pc[t] = "op"}
GP == INSTANCE GracePeriod WITH Threads <- Tids

Init ==
  /\ epoch = 0
  /\ announcedEpoch = [t \in Tids |-> GET_WITH_QUIESCENT(0)]
  /\ localvar_announcedEpoch = [t \in Tids |-> GET_WITH_QUIESCENT(0)]
  /\ epochbags = [t \in Tids |-> [i \in 0 .. NUMBER_OF_EPOCH_BAGS - 1 |-> {}]]
  /\ index = [t \in Tids |-> 0]
  /\ checked = [t \in Tids |-> 0]
  /\ opsSinceRead = [t \in Tids |-> 0]
  /\ pc = [t \in Tids |-> "idle"]
  /\ readEpoch = [t \in Tids |-> 0]
  /\ limbo = GP!NoRecords

Goto(t, from, to) == pc[t] = from /\ pc' = [pc EXCEPT ![t] = to]

-----------------------------------------------------------------------------
nextIndex(t) == (index[t] + 1) % NUMBER_OF_EPOCH_BAGS

rotateEpochBags(t) ==
  /\ limbo' = GP!Without(epochbags[t][nextIndex(t)])
  /\ epochbags' = [epochbags EXCEPT ![t][nextIndex(t)] = {}]
  /\ index' = [index EXCEPT ![t] = nextIndex(t)]

\* Mutant of ReadEpoch: the scan goes on where it was in the last epoch.
ReadEpochGoOn(t) ==
  /\ Goto(t, "idle", "announce")
  /\ readEpoch' = [readEpoch EXCEPT ![t] = epoch]
  /\ localvar_announcedEpoch' = [localvar_announcedEpoch EXCEPT ![t] = epoch]
  /\ IF epoch # localvar_announcedEpoch[t] THEN rotateEpochBags(t)
                                           ELSE UNCHANGED <<epochbags, index, limbo>>
  /\ UNCHANGED <<epoch, announcedEpoch, checked, opsSinceRead>>

\* startOp reads the epoch and rotates the bags if it has changed.
ReadEpoch(t) ==
  /\ Goto(t, "idle", "announce")
  /\ readEpoch' = [readEpoch EXCEPT ![t] = epoch]
  /\ localvar_announcedEpoch' = [localvar_announcedEpoch EXCEPT ![t] = epoch]
  /\ IF epoch # localvar_announcedEpoch[t]
     THEN checked' = [checked EXCEPT ![t] = 0] /\ rotateEpochBags(t)
     ELSE UNCHANGED <<checked, epochbags, index, limbo>>
  /\ UNCHANGED <<epoch, announcedEpoch, opsSinceRead>>

Announce(t) ==
  /\ Goto(t, "announce", "check")
  /\ announcedEpoch' = [announcedEpoch EXCEPT ![t] = readEpoch[t]]
  /\ UNCHANGED <<epoch, localvar_announcedEpoch, epochbags, index, checked, opsSinceRead,
                 readEpoch, limbo>>

InEpoch(ann, e) == BITS_EPOCH(ann) = e \/ QUIESCENT(ann)

\* One announcement is looked at.  (At the bound there is no scan.)
Check(t) ==
  LET scans == opsSinceRead[t] + 1 = MIN_OPS_BEFORE_READ /\ readEpoch[t] < MaxEpoch
      found == scans /\ InEpoch(announcedEpoch[checked[t]], readEpoch[t])
  IN  /\ pc[t] = "check"
      /\ opsSinceRead' = [opsSinceRead EXCEPT ![t] = (@ + 1) % MIN_OPS_BEFORE_READ]
      /\ checked' = [checked EXCEPT ![t] = IF found THEN @ + 1 ELSE @]
      /\ IF found /\ checked'[t] >= NUM_PROCESSES THEN Goto(t, "check", "cas")
                                                  ELSE Goto(t, "check", "op")
      /\ UNCHANGED <<epoch, announcedEpoch, localvar_announcedEpoch, epochbags, index,
                     readEpoch, limbo>>

CASEpoch(t) ==
  /\ Goto(t, "cas", "op")
  /\ epoch' = IF epoch = readEpoch[t] THEN epoch + EPOCH_INCREMENT ELSE epoch
  /\ UNCHANGED <<announcedEpoch, localvar_announcedEpoch, epochbags, index, checked,
                 opsSinceRead, readEpoch, limbo>>

\* The operation retires a record it has unlinked.
retire(t, r) ==
  /\ pc[t] = "op" /\ r \notin DOMAIN limbo
  /\ epochbags' = [epochbags EXCEPT ![t][index[t]] = @ \cup {r}]
  /\ limbo' = GP!Retired(r, active)
  /\ UNCHANGED <<epoch, announcedEpoch, localvar_announcedEpoch, index, checked, opsSinceRead,
                 pc, readEpoch>>

\* Mutant of endOp: the quiescent bit is not set.
endOpBusy(t) ==
  /\ Goto(t, "op", "idle")
  /\ limbo' = GP!Outlived(t)
  /\ UNCHANGED <<epoch, announcedEpoch, localvar_announcedEpoch, epochbags, index, checked,
                 opsSinceRead, readEpoch>>

endOp(t) ==
  /\ Goto(t, "op", "idle")
  /\ announcedEpoch' =
       [announcedEpoch EXCEPT ![t] = GET_WITH_QUIESCENT(localvar_announcedEpoch[t])]
  /\ readEpoch' = [readEpoch EXCEPT ![t] = 0]
  /\ limbo' = GP!Outlived(t)
  /\ UNCHANGED <<epoch, localvar_announcedEpoch, epochbags, index, checked, opsSinceRead>>

-----------------------------------------------------------------------------
Step(t) == Announce(t) \/ Check(t) \/ CASEpoch(t) \/ endOp(t)

Next == \E t \in Tids : ReadEpoch(t) \/ Step(t) \/ \E r \in Records : retire(t, r)

-----------------------------------------------------------------------------
\* A thread never looks for the announcement of a thread beyond the last one: when it has
\* seen all of them the epoch has changed by its next operation, which starts over.
ScanInRange == \A t \in Tids : pc[t] \in {"announce", "check"} => checked[t] < NUM_PROCESSES

-----------------------------------------------------------------------------
(* Why a record outlives the operations that may use it.  When the epoch   *)
(* advances nobody has started to scan for the next one, so that every     *)
(* operation that is running then stops it: whoever scans does not get     *)
(* past its announcement, and the epoch advances only once while it runs.  *)

Bags == 0 .. NUMBER_OF_EPOCH_BAGS - 1
Even(e) == e \in Nat /\ e % 2 = 0

TypeOK ==
  /\ Even(epoch)
  /\ announcedEpoch \in [Tids -> Nat]
  /\ localvar_announcedEpoch \in [Tids -> Nat]
  /\ epochbags \in [Tids -> [Bags -> SUBSET DOMAIN limbo]]
  /\ index \in [Tids -> Bags]
  /\ checked \in [Tids -> 0 .. NUM_PROCESSES]
  /\ pc \in [Tids -> {"idle", "announce", "check", "cas", "op"}]
  /\ readEpoch \in [Tids -> Nat]
  /\ limbo \in [DOMAIN limbo -> SUBSET active]

\* What a thread has announced: the epoch it has read, unless it is between two operations.
AnnounceInv == \A t \in Tids :
  /\ \/ localvar_announcedEpoch[t] = GET_WITH_QUIESCENT(0)
     \/ Even(localvar_announcedEpoch[t]) /\ localvar_announcedEpoch[t] <= epoch
  /\ pc[t] # "idle" => readEpoch[t] = localvar_announcedEpoch[t] /\ Even(readEpoch[t])
  /\ IF pc[t] \in {"idle", "announce"}
     THEN QUIESCENT(announcedEpoch[t])
     ELSE announcedEpoch[t] = localvar_announcedEpoch[t]

\* Who has seen all announcements sees to it that the epoch is over.
ScanInv == \A t \in Tids :
  /\ pc[t] = "cas" => checked[t] = NUM_PROCESSES
  /\ checked[t] = NUM_PROCESSES /\ pc[t] # "cas" =>
       /\ pc[t] \in {"op", "idle"}
       /\ Even(localvar_announcedEpoch[t]) /\ localvar_announcedEpoch[t] < epoch

\* The operation of s keeps the epoch as it is.
Stops(s) == /\ announcedEpoch[s] < epoch
            /\ \A u \in Tids : localvar_announcedEpoch[u] = epoch => checked[u] <= s

stoppers == {s \in active : Stops(s)}

\* What a record may have to outlive when it is in the bag that t fills, in the one it filled
\* before, and in the one before that, which is the next to be freed.
waits ==
  [t \in Tids |-> [i \in Bags |->
     LET e == localvar_announcedEpoch[t] IN
     IF e = GET_WITH_QUIESCENT(0) THEN {}
     ELSE CASE i = 0 \/ (i = 1 /\ e = epoch) -> active
            [] (i = 1 /\ e < epoch) \/ (i = 2 /\ e = epoch) -> stoppers
            [] OTHER -> {}]]

\* A retired record is in one bag.
BagInv ==
  /\ \A t, u \in Tids, i, j \in Bags :
       epochbags[t][i] \cap epochbags[u][j] # {} => t = u /\ i = j
  /\ \A t \in Tids, i \in Bags :
       \A r \in epochbags[t][(index[t] + NUMBER_OF_EPOCH_BAGS - i) % NUMBER_OF_EPOCH_BAGS] :
         limbo[r] \subseteq waits[t][i]

IInv == TypeOK /\ AnnounceInv /\ ScanInv /\ BagInv
=============================================================================
