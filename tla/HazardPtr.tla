------------------------------ MODULE HazardPtr -----------------------------
(***************************************************************************)
(* The hazard-pointer reclaimer (common/recordmgr/reclaimer_hazardptr.h)   *)
(* and the list it announces in (AtomicArrayList of arraylist.h).  A       *)
(* thread announces a record before it uses it and looks whether it is     *)
(* still in the data structure; who has retired enough records collects    *)
(* the announcements of all threads and frees the rest.                    *)
(*                                                                         *)
(* One action is one access to shared memory.  The client is a data        *)
(* structure whose operations protect records and release them, all at     *)
(* once (endOp) or one by one, and unlink records before they retire them. *)
(***************************************************************************)
EXTENDS Integers, FiniteSets, FiniteSetsExt

CONSTANTS NUM_PROCESSES, Records,
          MAX_HAZARDPTRS_PER_THREAD,
          scanThreshold,  \* capacity of the list of retired records
          AnyOrder        \* a client releases records in any order, not only the last one

VARIABLES size, data,     \* announce[tid]: the length of the list and its array
          retired,        \* of each thread
          comparing,      \* the announcements a thread has collected
          unlinked,       \* records no longer in the data structure
          freed,          \* records given to the pool
          holds,          \* what each thread may use: protect returned true
          pc, obj,        \* where each thread is, and the record its call is about
          other, ixHP, sz \* where the scan of a thread is

announceVars == <<size, data>>
scanVars == <<comparing, other, ixHP, sz>>
vars == <<size, data, retired, comparing, unlinked, freed, holds, pc, obj, other, ixHP, sz>>

Tids == 0 .. NUM_PROCESSES - 1
None == "none"

Init ==
  /\ size = [t \in Tids |-> 0]
  /\ data = [t \in Tids |-> [i \in 0 .. MAX_HAZARDPTRS_PER_THREAD - 1 |-> None]]
  /\ retired = [t \in Tids |-> {}]
  /\ comparing = [t \in Tids |-> {}]
  /\ unlinked = {} /\ freed = {}
  /\ holds = [t \in Tids |-> {}]
  /\ pc = [t \in Tids |-> "idle"]
  /\ obj = [t \in Tids |-> None]
  /\ other = [t \in Tids |-> 0] /\ ixHP = [t \in Tids |-> 0] /\ sz = [t \in Tids |-> 0]

Goto(t, from, to) == pc[t] = from /\ pc' = [pc EXCEPT ![t] = to]
Set(f, t, x) == [f EXCEPT ![t] = x]

-----------------------------------------------------------------------------
(* protect: add, the barrier, and the callback *)

protect(t, r) ==
  /\ Goto(t, "idle", "add")
  /\ r \notin holds[t] /\ size[t] < MAX_HAZARDPTRS_PER_THREAD
  /\ data' = [data EXCEPT ![t][size[t]] = r]
  /\ obj' = Set(obj, t, r)
  /\ UNCHANGED <<size, retired, unlinked, freed, holds, scanVars>>

AddSize(t) ==
  /\ Goto(t, "add", "callback")
  /\ size' = [size EXCEPT ![t] = @ + 1]
  /\ UNCHANGED <<data, retired, unlinked, freed, holds, obj, scanVars>>

\* Mutant of notRetiredCallback: the callback is not made.
protectBlindly(t) ==
  /\ Goto(t, "callback", "idle")
  /\ holds' = [holds EXCEPT ![t] = @ \cup {obj[t]}]
  /\ obj' = Set(obj, t, None)
  /\ UNCHANGED <<announceVars, retired, unlinked, freed, scanVars>>

notRetiredCallback(t) ==
  /\ IF obj[t] \notin unlinked
     THEN /\ Goto(t, "callback", "idle")
          /\ holds' = [holds EXCEPT ![t] = @ \cup {obj[t]}]
          /\ obj' = Set(obj, t, None)
     ELSE Goto(t, "callback", "erase") /\ UNCHANGED <<holds, obj>>
  /\ UNCHANGED <<announceVars, retired, unlinked, freed, scanVars>>

-----------------------------------------------------------------------------
(* unprotect: the last announcement takes the place of the erased one *)

unprotect(t, r) ==
  /\ Goto(t, "idle", "erase")
  /\ r \in holds[t] /\ (AnyOrder \/ r = data[t][size[t] - 1])
  /\ holds' = [holds EXCEPT ![t] = @ \ {r}]
  /\ obj' = Set(obj, t, r)
  /\ UNCHANGED <<announceVars, retired, unlinked, freed, scanVars>>

getIndex(t, r) == Min({i \in 0 .. size[t] - 1 : data[t][i] = r})

EraseMove(t) ==
  /\ Goto(t, "erase", "erased")
  /\ data' = [data EXCEPT ![t][getIndex(t, obj[t])] = data[t][size[t] - 1]]
  /\ UNCHANGED <<size, retired, unlinked, freed, holds, obj, scanVars>>

EraseSize(t) ==
  /\ Goto(t, "erased", "idle")
  /\ size' = [size EXCEPT ![t] = @ - 1]
  /\ obj' = Set(obj, t, None)
  /\ UNCHANGED <<data, retired, unlinked, freed, holds, scanVars>>

endOp(t) ==
  /\ pc[t] = "idle" /\ holds[t] # {}
  /\ holds' = Set(holds, t, {})
  /\ size' = Set(size, t, 0)
  /\ UNCHANGED <<data, retired, unlinked, freed, pc, obj, scanVars>>

-----------------------------------------------------------------------------
(* retire, after the operation has unlinked the record *)

\* (In the code the list is five times as long as all announcements together, so that a scan
\* always makes room.)
Unlink(t, r) ==
  /\ Goto(t, "idle", "retire") /\ r \notin unlinked
  /\ Cardinality(retired[t]) < scanThreshold
  /\ unlinked' = unlinked \cup {r}
  /\ obj' = Set(obj, t, r)
  /\ UNCHANGED <<announceVars, retired, freed, holds, scanVars>>

retire(t) ==
  /\ IF Cardinality(retired[t]) + 1 = scanThreshold THEN Goto(t, "retire", "size")
                                                    ELSE Goto(t, "retire", "idle")
  /\ retired' = [retired EXCEPT ![t] = @ \cup {obj[t]}]
  /\ obj' = Set(obj, t, None)
  /\ UNCHANGED <<announceVars, unlinked, freed, holds, scanVars>>

ScanSize(t) ==
  /\ pc[t] = "size" /\ other[t] < NUM_PROCESSES
  /\ sz' = Set(sz, t, size[other[t]])
  /\ ixHP' = Set(ixHP, t, 0)
  /\ Goto(t, "size", "get")
  /\ UNCHANGED <<announceVars, retired, comparing, unlinked, freed, holds, obj, other>>

ScanGet(t) ==
  /\ pc[t] = "get"
  /\ IF ixHP[t] < sz[t]
     THEN /\ comparing' = [comparing EXCEPT ![t] = @ \cup {data[other[t]][ixHP[t]]}]
          /\ ixHP' = [ixHP EXCEPT ![t] = @ + 1]
          /\ UNCHANGED <<pc, other, sz>>
     ELSE /\ Goto(t, "get", "size")
          /\ other' = [other EXCEPT ![t] = @ + 1]
          /\ ixHP' = Set(ixHP, t, 0) /\ sz' = Set(sz, t, 0)
          /\ UNCHANGED comparing
  /\ UNCHANGED <<announceVars, retired, unlinked, freed, holds, obj>>

FreeRest(t) ==
  /\ other[t] = NUM_PROCESSES /\ Goto(t, "size", "idle")
  /\ freed' = freed \cup (retired[t] \ comparing[t])
  /\ retired' = [retired EXCEPT ![t] = @ \cap comparing[t]]
  /\ comparing' = Set(comparing, t, {}) /\ other' = Set(other, t, 0)
  /\ UNCHANGED <<announceVars, unlinked, holds, obj, ixHP, sz>>

-----------------------------------------------------------------------------
Next ==
  \E t \in Tids :
    \/ \E r \in Records : protect(t, r) \/ unprotect(t, r) \/ Unlink(t, r)
    \/ AddSize(t) \/ notRetiredCallback(t) \/ EraseMove(t) \/ EraseSize(t) \/ endOp(t)
    \/ retire(t) \/ ScanSize(t) \/ ScanGet(t) \/ FreeRest(t)

Spec == Init /\ [][Next]_vars

-----------------------------------------------------------------------------
\* A record is not given to the pool while a thread may use it: "no hazard pointers point
\* to the item, so we send it to the pool".
NoProtectedFreed == \A t \in Tids : holds[t] \cap freed = {}

-----------------------------------------------------------------------------
(* Why, when records are released last first: the announcements are a      *)
(* stack, so that what a thread holds stays where the scan looks for it.   *)

TypeOK ==
  /\ size \in [Tids -> 0 .. MAX_HAZARDPTRS_PER_THREAD]
  /\ data \in [Tids -> [0 .. MAX_HAZARDPTRS_PER_THREAD - 1 -> Records \cup {None}]]
  /\ retired \in [Tids -> SUBSET unlinked]
  /\ comparing \in [Tids -> SUBSET (Records \cup {None})]
  /\ unlinked \subseteq Records /\ freed \subseteq unlinked
  /\ holds \in [Tids -> SUBSET Records]
  /\ pc \in [Tids -> {"idle", "add", "callback", "erase", "erased", "retire", "size", "get"}]
  /\ obj \in [Tids -> Records \cup {None}]
  /\ other \in [Tids -> 0 .. NUM_PROCESSES]
  /\ ixHP \in [Tids -> Nat] /\ sz \in [Tids -> 0 .. MAX_HAZARDPTRS_PER_THREAD]

\* How many of the announcements of t are of records it may use: not the one that protect
\* has just made or that unprotect takes back.
held == [t \in Tids |-> IF pc[t] \in {"callback", "erase", "erased"} THEN size[t] - 1 ELSE size[t]]

StackInv == \A t \in Tids :
  /\ holds[t] = {data[t][i] : i \in 0 .. held[t] - 1}
  /\ \A i, j \in 0 .. size[t] - 1 : data[t][i] = data[t][j] => i = j
  /\ pc[t] \in {"callback", "erase", "erased"} => size[t] > 0 /\ data[t][size[t] - 1] = obj[t]
  /\ pc[t] = "add" =>
       /\ size[t] < MAX_HAZARDPTRS_PER_THREAD /\ data[t][size[t]] = obj[t] /\ obj[t] \notin holds[t]
  /\ pc[t] \in {"add", "callback", "erase", "erased", "retire"} => obj[t] \in Records
  /\ pc[t] = "retire" => obj[t] \in unlinked

\* A record that a thread holds is not missed by the scan that is looking for it.
ScanInv == \A u \in Tids :
  /\ pc[u] \notin {"size", "get"} => other[u] = 0
  /\ pc[u] = "get" => other[u] < NUM_PROCESSES
  /\ \A t \in Tids : \A i \in 0 .. held[t] - 1 : data[t][i] \in retired[u] =>
       /\ t < other[u] => data[t][i] \in comparing[u]
       /\ pc[u] = "get" /\ t = other[u] =>
            i < sz[u] /\ (i < ixHP[u] => data[t][i] \in comparing[u])

IInv == TypeOK /\ StackInv /\ ScanInv /\ NoProtectedFreed
=============================================================================
