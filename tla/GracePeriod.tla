----------------------------- MODULE GracePeriod ----------------------------
(***************************************************************************)
(* What the epoch-based reclaimers of common/recordmgr promise: a record   *)
(* that has been retired goes back to the pool only after every operation  *)
(* that was running then, and may still hold a pointer to it, has ended.   *)
(***************************************************************************)
CONSTANTS Threads, Records

VARIABLES active,  \* threads between the return of startOp and endOp
          limbo    \* of each retired record, the operations it has to outlive

vars == <<active, limbo>>

NoRecords == [r \in {} |-> {}]

Init == active = {} /\ limbo = NoRecords

\* What happens to the records in limbo when they are retired, when an operation ends, and
\* when some are given to the pool.
Retired(r, running) == [x \in DOMAIN limbo \cup {r} |-> IF x = r THEN running ELSE limbo[x]]
Outlived(t) == [x \in DOMAIN limbo |-> limbo[x] \ {t}]
Without(given) == [x \in DOMAIN limbo \ given |-> limbo[x]]

Start(t) == t \notin active /\ active' = active \cup {t} /\ UNCHANGED limbo

End(t) == t \in active /\ active' = active \ {t} /\ limbo' = Outlived(t)

Retire(t, r) ==
  /\ t \in active /\ r \notin DOMAIN limbo
  /\ limbo' = Retired(r, active) /\ UNCHANGED active

Reclaim(given) ==
  /\ given \subseteq DOMAIN limbo /\ \A r \in given : limbo[r] = {}
  /\ limbo' = Without(given)

\* A thread reclaims while it starts an operation.
Next == \E t \in Threads :
          \/ Start(t) \/ End(t) \/ \E r \in Records : Retire(t, r)
          \/ \E given \in SUBSET DOMAIN limbo : Reclaim(given) /\ active' \in {active, active \cup {t}}

Spec == Init /\ [][Next]_vars
=============================================================================
