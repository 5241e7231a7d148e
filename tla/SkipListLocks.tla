---------------------------- MODULE SkipListLocks ----------------------------
(***************************************************************************)
(* The skip list of ds/skiplist_locks/skiplist.h: erase marks its node     *)
(* under the node's lock and then unlinks it under the locks of its        *)
(* predecessors.  ds/ideal_skiplist_locks/skiplist.h is the same list with *)
(* the level of a node taken from a counter.                               *)
(***************************************************************************)
EXTENDS SkipList

\* Mutant of InsertFound: it returns what an insertion returns.
InsertFoundNull(t) == At(t, "i_found") /\ Return(t, NoValue) /\ UNCHANGED node

\* insertIfAbsent returns the value that find has read.
InsertFound(t) == At(t, "i_found") /\ Return(t, l[t].v) /\ UNCHANGED node

\* Only a node found on its top level is removed.  A removal that has marked its
\* node searches and tries again until it has unlinked it.
EraseTest(t) ==
  LET L == l[t]
      victim == IF L.flevel # -1 THEN L.succs[L.flevel] ELSE L.victim
      toMark == L.flevel # -1 /\ L.flevel = node[victim].topLevel /\ ~node[victim].mark IN
  /\ At(t, "e_test")
  /\ CASE L.isMarked -> Local(t, [L EXCEPT !.pc = "lock", !.victim = victim])
       [] ~L.isMarked /\ toMark ->
            Local(t, [L EXCEPT !.pc = "e_lock", !.victim = victim, !.topLevel = node[victim].topLevel])
       [] ~L.isMarked /\ ~toMark -> Return(t, NoValue) /\ UNCHANGED node

\* The removal takes effect, unless another one came first.
EraseMark(t) ==
  LET L == l[t] IN
  /\ At(t, "e_lock") /\ Free(L.victim)
  /\ IF node[L.victim].mark
     THEN Return(t, NoValue) /\ UNCHANGED node
     ELSE /\ node' = [node EXCEPT ![L.victim].lock = t, ![L.victim].mark = TRUE]
          /\ l' = [l EXCEPT ![t].pc = "lock", ![t].isMarked = TRUE]
          /\ call' = D!Witnessed(t, L.key, NoValue, node[L.victim].value)
          /\ UNCHANGED <<LoopKept, realMaxLvl, plan, skipListSize>>

\* Mutant of EraseUnlink: the bottom level is left out.
EraseUpper(t) ==
  LET L == l[t] IN
  /\ At(t, "e_unlink")
  /\ IF L.level = 0 THEN Local(t, [L EXCEPT !.pc = "e_leave", !.level = L.topLevel])
     ELSE Do(t, [node EXCEPT ![L.preds[L.level]].next[L.level] = node[L.victim].next[L.level]],
             [L EXCEPT !.level = @ - 1])

\* From the top level down.
EraseUnlink(t) ==
  LET L == l[t] IN
  /\ At(t, "e_unlink")
  /\ Do(t, [node EXCEPT ![L.preds[L.level]].next[L.level] = node[L.victim].next[L.level]],
        IF L.level > 0 THEN [L EXCEPT !.level = @ - 1]
                       ELSE [L EXCEPT !.pc = "e_leave", !.level = L.topLevel])

EraseLeave(t) ==
  /\ At(t, "e_leave")
  /\ node' = [Unlocked(l[t]) EXCEPT ![l[t].victim].lock = Nobody]
  /\ Return(t, node[l[t].victim].value)

Step(t) ==
  \/ Search(t) \/ Insert(t) \/ InsertFound(t)
  \/ EraseTest(t) \/ EraseMark(t) \/ EraseUnlink(t) \/ EraseLeave(t)

Next == (\E t \in Threads : Invoke(t) \/ Step(t)) \/ Joined
=============================================================================
