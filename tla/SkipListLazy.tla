---------------------------- MODULE SkipListLazy ----------------------------
(***************************************************************************)
(* The skip list of ds/skiplist_lazy/skiplist.h: erase only takes the      *)
(* value from its node, which stays linked, and an insertion of the key    *)
(* gives the node a value again.                                           *)
(***************************************************************************)
EXTENDS SkipList

\* insertIfAbsent has found a node and reads its value.
InsertFound(t) ==
  LET v == node[l[t].curr].value IN
  /\ At(t, "i_found")
  /\ IF v = NoValue THEN Goto(t, "swap") ELSE Return(t, v) /\ UNCHANGED node

\* Another thread may give the node a value before this one.
Revive(t) ==
  LET L == l[t] IN
  /\ At(t, "swap") /\ L.op = "insertIfAbsent"
  /\ IF node[L.curr].value = NoValue
     THEN /\ node' = [node EXCEPT ![L.curr].value = t]
          /\ l' = [l EXCEPT ![t].pc = "swapped"]
          /\ call' = D!Witnessed(t, L.key, t, NoValue)
          /\ UNCHANGED <<LoopKept, realMaxLvl, plan, skipListSize>>
     ELSE Goto(t, "i_found")

Revived(t) ==
  /\ At(t, "swapped") /\ l[t].op = "insertIfAbsent"
  /\ Return(t, NoValue)
  /\ UNCHANGED node

\* erase reads the value of a node of the key, which need not be fully linked.
EraseTest(t) ==
  LET L == l[t]
      target == L.succs[L.flevel]
      v == node[target].value IN
  /\ At(t, "e_test")
  /\ IF L.flevel = -1 \/ v = NoValue
     THEN Return(t, NoValue) /\ UNCHANGED node
     ELSE Local(t, [L EXCEPT !.pc = "swap", !.victim = target, !.v = v])

\* Mutant of Remove: no new read of the value after a compare-and-swap that failed.
RemoveStale(t) ==
  LET L == l[t] IN
  /\ At(t, "swap") /\ L.op = "erase"
  /\ IF node[L.victim].value = L.v
     THEN /\ node' = [node EXCEPT ![L.victim].value = NoValue]
          /\ l' = [l EXCEPT ![t].pc = "swapped"]
          /\ call' = D!Witnessed(t, L.key, NoValue, L.v)
          /\ UNCHANGED <<LoopKept, realMaxLvl, plan, skipListSize>>
     ELSE UNCHANGED vars

Remove(t) ==
  LET L == l[t] IN
  /\ At(t, "swap") /\ L.op = "erase"
  /\ IF node[L.victim].value = L.v
     THEN /\ node' = [node EXCEPT ![L.victim].value = NoValue]
          /\ l' = [l EXCEPT ![t].pc = "swapped"]
          /\ call' = D!Witnessed(t, L.key, NoValue, L.v)
          /\ UNCHANGED <<LoopKept, realMaxLvl, plan, skipListSize>>
     ELSE Goto(t, "e_test")

Removed(t) ==
  /\ At(t, "swapped") /\ l[t].op = "erase"
  /\ Return(t, l[t].v)
  /\ UNCHANGED node

Step(t) ==
  \/ Search(t) \/ Insert(t) \/ InsertFound(t) \/ Revive(t) \/ Revived(t)
  \/ EraseTest(t) \/ Remove(t) \/ Removed(t)

Next == (\E t \in Threads : Invoke(t) \/ Step(t)) \/ Joined
=============================================================================
