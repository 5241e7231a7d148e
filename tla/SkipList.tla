------------------------------ MODULE SkipList ------------------------------
(***************************************************************************)
(* What ds/skiplist_lazy/skiplist.h and ds/skiplist_locks/skiplist.h have  *)
(* in common: the list, the searches without locks (contains, find), and   *)
(* the insertion of a new node under the locks of its predecessors.  The   *)
(* two differ in how a key is removed and in what an insertion does with a *)
(* node that exists: SkipListLazy and SkipListLocks extend this module.    *)
(*                                                                         *)
(* One action is one access to shared memory; several locks are released   *)
(* in one.  Accesses are sequentially consistent, with one exception: see  *)
(* WaitLinked.                                                             *)
(***************************************************************************)
EXTENDS Integers, Sequences, FiniteSets

CONSTANTS Threads,    \* thread identifiers, positive integers
          Keys, minKey, maxKey,
          MAX_LEVEL,  \* 25 in the code
          Scripts     \* what the client may do, records: with the build of loopKept, main
                      \* inserts the keys of the set prefill with the value 1, then thread
                      \* t makes Len(plan[t]) calls, the i-th one an operation <<op, key>>
                      \* of plan[t][i]

Operations == {"contains", "find", "insertIfAbsent", "erase"}

ASSUME ThreadsAssumption == Threads \subseteq Nat \ {0}
ASSUME RangeAssumption == /\ Keys \subseteq minKey .. maxKey /\ minKey \in Int /\ maxKey \in Int
                          /\ MAX_LEVEL \in Nat \ {0}
ASSUME OrderAssumption == minKey <= maxKey
ASSUME ScriptsAssumption ==
  \A s \in Scripts : /\ s.loopKept \in BOOLEAN
                     /\ s.prefill \subseteq Keys /\ Cardinality(s.prefill) <= 1
                     /\ s.plan \in [Threads -> Seq(SUBSET (Operations \X Keys))]

Levels == 0 .. MAX_LEVEL
NULL == -1
head == 0
tail == 1
NoValue == 0            \* noValue, the null pointer
Nobody == 0             \* the lock is free; else it names its owner

VARIABLES LoopKept,      \* whether the build keeps a loop that only waits: see WaitLinked
          node,          \* the nodes, numbered in the order of their creation
          realMaxLvl,
          l,             \* local variables of the call each thread is in
          plan,          \* calls each thread still makes
          call,          \* the calls as their callers see them: see Dictionary
          skipListSize   \* the client's count of the keys (test2.cpp)

vars == <<LoopKept, node, realMaxLvl, l, plan, call, skipListSize>>
client == <<LoopKept, plan, call, skipListSize>>

Locals ==
  [pc |-> "idle", op |-> "none", key |-> minKey, topLevel |-> 0, level |-> 0,
   pred |-> NULL, curr |-> NULL, preds |-> [i \in Levels |-> NULL],
   succs |-> [i \in Levels |-> NULL], flevel |-> -1, v |-> NoValue,
   victim |-> NULL, isMarked |-> FALSE]

createNode(h, k, v) ==
  [key |-> k, value |-> v, topLevel |-> h, fullyLinked |-> FALSE, mark |-> FALSE,
   lock |-> Nobody, next |-> [i \in Levels |-> NULL]]

\* The value of a key: that of its node, from the instant it is fully linked until
\* it is marked.
Live(k) == {n \in DOMAIN node : node[n].key = k /\ node[n].fullyLinked /\ ~node[n].mark}
dict == [k \in Keys |-> IF Live(k) = {} THEN NoValue ELSE node[CHOOSE n \in Live(k) : TRUE].value]

D == INSTANCE Dictionary WITH Values <- Threads \cup {1}

EmptyList ==
  [n \in {head, tail} |->
     [createNode(MAX_LEVEL, IF n = head THEN minKey - 1 ELSE maxKey + 1, NoValue)
        EXCEPT !.next = [i \in Levels |-> IF n = head THEN tail ELSE NULL]]]

\* The nodes with a new one, before succs and not yet reachable.
Created(nodes, h, k, v, succs) ==
  LET c == Cardinality(DOMAIN nodes) IN
  [n \in DOMAIN nodes \cup {c} |->
     IF n # c THEN nodes[n]
     ELSE [createNode(h, k, v) EXCEPT !.next = [i \in Levels |-> IF i <= h THEN succs[i] ELSE NULL]]]

\* The list after main has inserted k with a node of level h.
Filled(k, h) ==
  [Created(EmptyList, h, k, 1, [i \in Levels |-> tail])
     EXCEPT ![head].next = [i \in Levels |-> IF i <= h THEN 2 ELSE tail], ![2].fullyLinked = TRUE]

\* The threads start after main has followed s.
Init(s) ==
  /\ \/ s.prefill = {} /\ node = EmptyList /\ realMaxLvl = 1
     \/ \E k \in s.prefill, h \in 0 .. MAX_LEVEL - 1 :
          node = Filled(k, h) /\ realMaxLvl = IF h <= 1 THEN 1 ELSE h
  /\ LoopKept = s.loopKept /\ plan = s.plan
  /\ skipListSize = Cardinality(s.prefill)
  /\ l = [t \in Threads |-> Locals]
  /\ call = [t \in Threads |-> D!Answered(NoValue)]

-----------------------------------------------------------------------------
At(t, p) == l[t].pc = p
Free(n) == node[n].lock = Nobody

\* A step of t that leaves the nodes as `nodes` and its locals as L.
Do(t, nodes, L) ==
  /\ node' = nodes
  /\ l' = [l EXCEPT ![t] = L]
  /\ UNCHANGED <<realMaxLvl, client>>

Local(t, L) == Do(t, node, L)
Goto(t, p) == Local(t, [l[t] EXCEPT !.pc = p])

\* genRandom picks any level below MAX_LEVEL.
Invoke(t) ==
  /\ At(t, "idle") /\ plan[t] # <<>>
  /\ \E c \in Head(plan[t]), top \in 0 .. MAX_LEVEL - 1 :
       /\ c[1] # "insertIfAbsent" => top = 0
       /\ l' = [l EXCEPT ![t] =
            [Locals EXCEPT !.op = c[1], !.key = c[2], !.topLevel = top,
                           !.pc = CASE c[1] = "insertIfAbsent" -> "i_max"
                                    [] c[1] = "erase" -> "find"
                                    [] OTHER -> "c_level"]]
       /\ call' = [call EXCEPT ![t] = D!Call(c[1], c[2], t)]
  /\ plan' = [plan EXCEPT ![t] = Tail(@)]
  /\ UNCHANGED <<LoopKept, node, realMaxLvl, skipListSize>>

\* The call returns r; the client of test2.cpp counts what it has added and removed.
Return(t, r) ==
  /\ l' = [l EXCEPT ![t] = Locals]
  /\ call' = [call EXCEPT ![t] = D!Answered(r)]
  /\ skipListSize' = CASE l[t].op = "insertIfAbsent" /\ r = NoValue -> skipListSize + 1
                       [] l[t].op = "erase" /\ r # NoValue -> skipListSize - 1
                       [] OTHER -> skipListSize
  /\ UNCHANGED <<LoopKept, realMaxLvl, plan>>

-----------------------------------------------------------------------------
(* contains and find(key): from realMaxLvl down, to the first node found *)

SearchFrom(t) ==
  /\ At(t, "c_level")
  /\ Local(t, [l[t] EXCEPT !.pc = "c_next", !.pred = head, !.level = realMaxLvl])

SearchNext(t) ==
  LET L == l[t]
      c == node[L.pred].next[L.level] IN
  /\ At(t, "c_next")
  /\ CASE L.key > node[c].key -> Local(t, [L EXCEPT !.pred = c])
       [] L.key = node[c].key -> Local(t, [L EXCEPT !.pc = "c_test", !.curr = c])
       [] L.key < node[c].key /\ L.level > 0 -> Local(t, [L EXCEPT !.level = @ - 1])
       [] L.key < node[c].key /\ L.level = 0 -> Return(t, NoValue) /\ UNCHANGED node

\* contains answers true with any value.
SearchTest(t) ==
  LET n == node[l[t].curr] IN
  /\ At(t, "c_test")
  /\ Return(t, IF ~n.fullyLinked \/ n.mark THEN NoValue
               ELSE IF l[t].op = "contains" THEN t ELSE n.value)
  /\ UNCHANGED node

-----------------------------------------------------------------------------
(* find(key, preds, succs): the neighbours of the key on every level *)

Find(t, L) == Local(t, [L EXCEPT !.pc = "f_next", !.pred = head, !.level = MAX_LEVEL,
                                 !.flevel = -1, !.v = NoValue])

FindStart(t) == At(t, "find") /\ Find(t, l[t])

FindNext(t) ==
  LET L == l[t]
      c == node[L.pred].next[L.level]
      first == L.key = node[c].key /\ L.flevel = -1 IN
  /\ At(t, "f_next")
  /\ IF L.key > node[c].key
     THEN Local(t, [L EXCEPT !.pred = c])
     ELSE Local(t, [L EXCEPT !.preds[L.level] = L.pred, !.succs[L.level] = c,
                             !.flevel = IF first THEN L.level ELSE @,
                             !.v = IF first THEN node[c].value ELSE @,
                             !.level = IF L.level = 0 THEN 0 ELSE L.level - 1,
                             !.pc = IF L.level > 0 THEN "f_next"
                                    ELSE IF L.op = "erase" THEN "e_test" ELSE "i_test"])

-----------------------------------------------------------------------------
(* insertIfAbsent *)

RaiseMax(t) ==
  /\ At(t, "i_max")
  /\ realMaxLvl' = IF l[t].topLevel <= realMaxLvl THEN realMaxLvl ELSE l[t].topLevel
  /\ l' = [l EXCEPT ![t].pc = "find"]
  /\ UNCHANGED <<node, client>>

\* Mutant of InsertTest: a node that is being removed will do.
InsertTestDead(t) ==
  LET L == l[t] IN
  /\ At(t, "i_test")
  /\ IF L.flevel = -1 THEN Goto(t, "lock")
     ELSE Local(t, [L EXCEPT !.pc = "i_wait", !.curr = L.succs[L.flevel]])

\* A node of the key that is being removed is waited for by searching again.
InsertTest(t) ==
  LET L == l[t] IN
  /\ At(t, "i_test")
  /\ CASE L.flevel = -1 -> Goto(t, "lock")
       [] L.flevel # -1 /\ node[L.succs[L.flevel]].mark -> Goto(t, "find")
       [] L.flevel # -1 /\ ~node[L.succs[L.flevel]].mark ->
            Local(t, [L EXCEPT !.pc = "i_wait", !.curr = L.succs[L.flevel]])

(***************************************************************************)
(* while (!(found->fullyLinked)) {} reads a field that is neither volatile *)
(* nor atomic: a data race.  A compiler that keeps the loop gives the      *)
(* wait; one that uses C++'s promise that loops end (g++ -O2 since version *)
(* 10) removes it, and the insertion goes on at once.                      *)
(***************************************************************************)
WaitLinked(t) ==
  /\ At(t, "i_wait")
  /\ LoopKept => node[l[t].curr].fullyLinked
  /\ Goto(t, "i_found")

\* The predecessors of the levels up to topLevel are locked from the bottom up, and
\* checked one by one.
NewLock(L) == L.level = 0 \/ L.preds[L.level] # L.preds[L.level - 1]

LockPred(t) ==
  LET L == l[t]
      p == L.preds[L.level] IN
  /\ At(t, "lock")
  /\ IF NewLock(L)
     THEN /\ Free(p)
          /\ Do(t, [node EXCEPT ![p].lock = t], [L EXCEPT !.pc = "valid"])
     ELSE Goto(t, "valid")

\* The nodes without the locks taken for levels 0 .. level.
Unlocked(L) ==
  [n \in DOMAIN node |->
     IF \E i \in 0 .. L.level : L.preds[i] = n THEN [node[n] EXCEPT !.lock = Nobody] ELSE node[n]]

Links(L) == node[L.preds[L.level]].next[L.level] = IF L.op = "erase" THEN L.victim ELSE L.succs[L.level]

\* Mutant of Valid: the link is not checked.
ValidMoved(L) == ~node[L.preds[L.level]].mark

\* What the search has seen still holds on this level.
Valid(L) ==
  /\ ~node[L.preds[L.level]].mark
  /\ L.op # "erase" => ~node[L.succs[L.level]].mark
  /\ Links(L)

Validate(t) ==
  LET L == l[t] IN
  /\ At(t, "valid")
  /\ CASE ~Valid(L) -> Do(t, Unlocked(L), [L EXCEPT !.pc = "find"])
       [] Valid(L) /\ L.level < L.topLevel -> Local(t, [L EXCEPT !.pc = "lock", !.level = @ + 1])
       [] Valid(L) /\ L.level = L.topLevel ->
            Goto(t, IF L.op = "erase" THEN "e_unlink" ELSE "i_create")

InsertCreate(t) ==
  LET L == l[t] IN
  /\ At(t, "i_create")
  /\ Do(t, Created(node, L.topLevel, L.key, t, L.succs),
        [L EXCEPT !.pc = "i_link", !.curr = Cardinality(DOMAIN node), !.level = 0])

InsertLink(t) ==
  LET L == l[t] IN
  /\ At(t, "i_link")
  /\ Do(t, [node EXCEPT ![L.preds[L.level]].next[L.level] = L.curr],
        IF L.level < L.topLevel THEN [L EXCEPT !.level = @ + 1] ELSE [L EXCEPT !.pc = "i_full"])

\* The insertion takes effect.
InsertFull(t) ==
  LET L == l[t] IN
  /\ At(t, "i_full")
  /\ node' = [node EXCEPT ![L.curr].fullyLinked = TRUE]
  /\ l' = [l EXCEPT ![t].pc = "i_leave"]
  /\ call' = D!Witnessed(t, L.key, t, NoValue)
  /\ UNCHANGED <<LoopKept, realMaxLvl, plan, skipListSize>>

InsertLeave(t) ==
  /\ At(t, "i_leave")
  /\ node' = Unlocked(l[t])
  /\ Return(t, NoValue)

-----------------------------------------------------------------------------
Search(t) ==
  \/ SearchFrom(t) \/ SearchNext(t) \/ SearchTest(t) \/ FindStart(t) \/ FindNext(t)

Insert(t) ==
  \/ RaiseMax(t) \/ InsertTest(t) \/ WaitLinked(t) \/ LockPred(t) \/ Validate(t)
  \/ InsertCreate(t) \/ InsertLink(t) \/ InsertFull(t) \/ InsertLeave(t)

Quiescent == \A t \in Threads : At(t, "idle")

\* The threads are joined.
Joined == Quiescent /\ (\A t \in Threads : plan[t] = <<>>) /\ UNCHANGED vars

-----------------------------------------------------------------------------
(* Properties *)

Nodes == DOMAIN node
\* The nodes reached from the head on level h.
ReachedAt(h) ==
  LET R[i \in 0 .. Cardinality(Nodes)] ==
        IF i = 0 THEN {head}
        ELSE R[i - 1] \cup {node[n].next[h] : n \in R[i - 1] \ {tail}}
  IN R[Cardinality(Nodes)]

\* Every key stays reachable on every level of its node from the instant it is fully
\* linked until it is marked, whatever is linked or unlinked around it; and no level
\* has two nodes of one key.
LiveNodesReached ==
  \A h \in Levels :
    LET R == ReachedAt(h) IN
    /\ \A n \in Nodes : node[n].fullyLinked /\ ~node[n].mark /\ h <= node[n].topLevel => n \in R
    /\ \A m, n \in R : node[m].key = node[n].key => m = n

\* When the threads have stopped, nothing that was removed is left on a level, and no
\* lock is held.
CleanWhenQuiet == Quiescent =>
  /\ \A n \in Nodes : Free(n)
  /\ \A h \in Levels : \A n \in ReachedAt(h) \ {head, tail} :
       node[n].fullyLinked /\ ~node[n].mark /\ h <= node[n].topLevel

\* test2.cpp: the client's count of insertions and removals is the number of keys.
SizeMatches == Quiescent => skipListSize = Cardinality({k \in Keys : dict[k] # NoValue})

\* The list is a linearizable dictionary, if the build keeps the wait for fullyLinked:
\* without it an insertion answers that a key is there before any search can find it.
ImplementsDictionary == D!Init /\ [][D!Next \/ ~LoopKept]_(D!vars)
=============================================================================
