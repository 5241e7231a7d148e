------------------------------ MODULE EbrToken ------------------------------
(***************************************************************************)
(* The token-passing reclaimer (common/recordmgr/reclaimer_ebr_token.h).   *)
(* A token goes round the threads; who finds it when it starts an          *)
(* operation passes it on and frees what it had retired before it had the  *)
(* token the last time.  There are no epochs and endOp does nothing.       *)
(***************************************************************************)
EXTENDS Integers

CONSTANTS NUM_PROCESSES, Records

VARIABLES token,       \* of each thread
          curr, last,  \* the bags of each thread
          pc, limbo

vars == <<token, curr, last, pc, limbo>>

Tids == 0 .. NUM_PROCESSES - 1

active == {t \in Tids : pc[t] = "op"}
GP == INSTANCE GracePeriod WITH Threads <- Tids

Init ==
  /\ token = [t \in Tids |-> IF t = 0 THEN 1 ELSE 0]
  /\ curr = [t \in Tids |-> {}]
  /\ last = [t \in Tids |-> {}]
  /\ pc = [t \in Tids |-> "idle"]
  /\ limbo = GP!NoRecords

Goto(t, from, to) == pc[t] = from /\ pc' = [pc EXCEPT ![t] = to]

startOp(t) ==
  /\ IF token[t] = 1 THEN Goto(t, "idle", "pass") /\ token' = [token EXCEPT ![t] = 0]
                     ELSE Goto(t, "idle", "op") /\ UNCHANGED token
  /\ UNCHANGED <<curr, last, limbo>>

PassToken(t) ==
  /\ Goto(t, "pass", "rotate")
  /\ token' = [token EXCEPT ![(t + 1) % NUM_PROCESSES] = 1]
  /\ UNCHANGED <<curr, last, limbo>>

rotateEpochBags(t) ==
  /\ Goto(t, "rotate", "op")
  /\ limbo' = GP!Without(last[t])
  /\ last' = [last EXCEPT ![t] = curr[t]]
  /\ curr' = [curr EXCEPT ![t] = {}]
  /\ UNCHANGED token

retire(t, r) ==
  /\ pc[t] = "op" /\ r \notin DOMAIN limbo
  /\ curr' = [curr EXCEPT ![t] = @ \cup {r}]
  /\ limbo' = GP!Retired(r, active)
  /\ UNCHANGED <<token, last, pc>>

endOp(t) ==
  /\ Goto(t, "op", "idle")
  /\ limbo' = GP!Outlived(t)
  /\ UNCHANGED <<token, curr, last>>

Step(t) == startOp(t) \/ PassToken(t) \/ rotateEpochBags(t) \/ endOp(t)

Next == \E t \in Tids : Step(t) \/ \E r \in Records : retire(t, r)

-----------------------------------------------------------------------------
(* Why a record outlives the operations that may use it: the token does    *)
(* not get past a thread in the middle of an operation.                    *)

TypeOK ==
  /\ token \in [Tids -> {0, 1}]
  /\ curr \in [Tids -> SUBSET DOMAIN limbo]
  /\ last \in [Tids -> SUBSET DOMAIN limbo]
  /\ pc \in [Tids -> {"idle", "pass", "rotate", "op"}]
  /\ limbo \in [DOMAIN limbo -> SUBSET active]

\* Where the token is; how far it goes from t to get to u.
holders == {t \in Tids : token[t] = 1 \/ pc[t] = "pass"}
Distance(t, u) == IF u > t THEN u - t ELSE u - t + NUM_PROCESSES

TokenInv ==
  /\ \A t, u \in holders : t = u
  /\ \A t \in Tids : pc[t] = "pass" => token[t] = 0

\* The operations that the token has not got past since it left t.
ahead == [t \in Tids |-> {s \in active : \A u \in holders : Distance(t, u) <= Distance(t, s)}]

\* What a record may have to outlive in the bag that t fills, and in the one it frees next.
waitsCurr == [t \in Tids |-> IF pc[t] = "rotate" THEN ahead[t] ELSE active]
waitsLast == [t \in Tids |-> IF pc[t] \in {"pass", "rotate"} THEN {} ELSE ahead[t]]

\* A retired record is in one bag.
BagInv ==
  /\ \A t, u \in Tids : /\ curr[t] \cap last[u] = {}
                        /\ t # u => curr[t] \cap curr[u] = {} /\ last[t] \cap last[u] = {}
  /\ \A t \in Tids : /\ \A r \in curr[t] : limbo[r] \subseteq waitsCurr[t]
                     /\ \A r \in last[t] : limbo[r] \subseteq waitsLast[t]

IInv == TypeOK /\ TokenInv /\ BagInv
=============================================================================
