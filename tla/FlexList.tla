------------------------------ MODULE FlexList ------------------------------
(***************************************************************************)
(* The concurrent splay-list of ds/flexlist_locks/flexlist.h: a skip list  *)
(* whose nodes count the accesses to themselves (selfhits) and to the keys *)
(* below them on each level (hits), and rise and sink with them.           *)
(*                                                                         *)
(* Searches (find) take no lock, except to lower a node lazily to a new    *)
(* bottom level.  Every UPDATE_NUM-th successful search of a thread, and   *)
(* every insertion, walks down from the head again under hand-over-hand    *)
(* locks (update, updateWithInsert), counts the access and rebalances.     *)
(*                                                                         *)
(* One action is one access to shared memory, or the accesses a thread     *)
(* makes to fields that nobody else may write at that point (it holds the  *)
(* lock of the node), or a lock acquired and released with nothing but     *)
(* the locked node written in between.  Accesses are sequentially          *)
(* consistent.  The statistics (sumLengths, sum_lengths, contains) are     *)
(* left out: nothing reads them but the reports.                           *)
(***************************************************************************)
EXTENDS Integers, Sequences, FiniteSets

LOCAL INSTANCE FiniteSetsExt

CONSTANTS NumWorkers,  \* worker threads; thread 0 is main
          Keys,        \* keys in use, all between minKey and maxKey
          minKey, maxKey,
          MAX_LEVEL,   \* number of the highest level; 44 in the code
          Scripts      \* what the client may do, records: main calls setCops(cops) and
                       \* inserts the keys of the sequence prefill (a key that comes again
                       \* is an access), then worker t makes Len(plan[t]) calls, the i-th
                       \* one an operation <<op, key>> of plan[t][i]

Main == 0
Workers == 1 .. NumWorkers
Threads == Workers \cup {Main}
Operations == {"contains", "find", "insertIfAbsent", "erase"}

ASSUME SizeAssumption == NumWorkers \in Nat /\ MAX_LEVEL \in Nat /\ MAX_LEVEL > 1
ASSUME KeysAssumption == /\ Keys \subseteq Int /\ minKey \in Int /\ maxKey \in Int /\ minKey < maxKey
                         /\ \A k \in Keys : minKey < k /\ k < maxKey
\* A fact of arithmetic, for the proofs, which know nothing of powers.
ASSUME PowerAssumption == \A i \in 0 .. MAX_LEVEL : 2^i > 0
ASSUME ScriptsAssumption ==
  \A s \in Scripts : /\ s.cops \in Nat \ {0}
                     /\ s.prefill \in Seq(Keys)
                     /\ s.plan \in [Workers -> Seq(SUBSET (Operations \X Keys))]

Levels == 0 .. MAX_LEVEL
NULL == -1
head == 0
tail == 1
NoValue == 0            \* noValue, the null pointer
Val(t) == t + 1         \* the value thread t inserts
Values == {Val(t) : t \in Threads}
Nobody == -1            \* the lock is free; else it names its owner

VARIABLES node,           \* the nodes, numbered in the order of their creation
          zeroLevel,      \* the bottom level of the list
          accessCounter,
          UPDATE_NUM,     \* a thread updates on every UPDATE_NUM-th hit
          update_counter, \* per thread
          l,              \* local variables of the call each thread is in
          todo,           \* what is left of the prefill
          plan,           \* calls each worker still makes
          call,           \* the calls as their callers see them: see Dictionary
          skipListSize    \* the client's count of the keys (test2.cpp)

vars == <<node, zeroLevel, accessCounter, UPDATE_NUM, update_counter, l, todo, plan, call,
          skipListSize>>
client == <<UPDATE_NUM, todo, plan, call, skipListSize>>

Locals ==
  [pc |-> "idle", op |-> "none", key |-> minKey, v |-> NoValue, succ |-> NULL,
   h |-> 0, pred |-> NULL, predpred |-> NULL, cur |-> NULL, curAccess |-> 0,
   curZeroLevel |-> 0, curZeroLevel2 |-> 0, curh |-> 0, acquired |-> FALSE, ok |-> FALSE,
   inserting |-> FALSE, fix |-> NULL, back |-> "idle"]

createNode(h, k, v) ==
  [key |-> k, value |-> v, zeroLevel |-> h, topLevel |-> h, selfhits |-> 0,
   lock |-> Nobody, next |-> [i \in Levels |-> NULL], hits |-> [i \in Levels |-> 0]]

\* The node of a key, if the key has been inserted.
Of(k) == {n \in DOMAIN node : node[n].key = k}
dict == [k \in Keys |-> IF Of(k) = {} THEN NoValue ELSE node[CHOOSE n \in Of(k) : TRUE].value]

\* The calls as their callers see them, and the map they are about.
D == INSTANCE Dictionary

Init ==
  /\ zeroLevel = MAX_LEVEL - 1
  /\ node = [n \in {head, tail} |->
               [createNode(MAX_LEVEL - 1, IF n = head THEN minKey ELSE maxKey, NoValue)
                  EXCEPT !.topLevel = MAX_LEVEL,
                         !.next = [i \in Levels |->
                           IF n = head /\ i >= MAX_LEVEL - 1 THEN tail ELSE NULL]]]
  /\ accessCounter = 0
  /\ update_counter = [t \in Threads |-> 0]
  /\ l = [t \in Threads |-> Locals]
  /\ \E s \in Scripts : UPDATE_NUM = s.cops /\ todo = s.prefill /\ plan = s.plan
  /\ call = [t \in Threads |-> D!Answered(NoValue)]
  /\ skipListSize = 0

-----------------------------------------------------------------------------
(* Helpers *)

\* acquireLock waits until the lock is free.
Free(n) == node[n].lock = Nobody

\* updateZeroLevel: one level down, if the list has gone below the node.
updateZeroLevel(nd) ==
  IF nd.zeroLevel > zeroLevel
  THEN LET z == nd.zeroLevel IN
       [nd EXCEPT !.hits[z - 1] = 0, !.next[z - 1] = nd.next[z], !.zeroLevel = z - 1]
  ELSE nd

\* while (nd->zeroLevel > h) updateZeroLevel(nd), when the list is at h or below.
Lowered(nd, h) ==
  IF nd.zeroLevel > h
  THEN [nd EXCEPT
          !.hits = [i \in Levels |-> IF i \in h .. nd.zeroLevel - 1 THEN 0 ELSE nd.hits[i]],
          !.next = [i \in Levels |-> IF i \in h .. nd.zeroLevel - 1
                                     THEN nd.next[nd.zeroLevel] ELSE nd.next[i]],
          !.zeroLevel = h]
  ELSE nd

getHits(nd, h) == IF nd.zeroLevel > h THEN nd.selfhits ELSE nd.selfhits + nd.hits[h]

\* Mutant of Ascends: a node never reaches the top level of its parent.
AscendsLate(p, h, curAccess) ==
  /\ h + 1 < MAX_LEVEL
  /\ h + 1 < node[p].topLevel
  /\ node[p].hits[h + 1] - node[p].hits[h] > curAccess \div 2^(MAX_LEVEL - 1 - h - 1)

\* The child of p on level h has more than its share of the accesses.
Ascends(p, h, curAccess) ==
  /\ h + 1 < MAX_LEVEL
  /\ h < node[p].topLevel
  /\ node[p].hits[h + 1] - node[p].hits[h] > curAccess \div 2^(MAX_LEVEL - 1 - h - 1)

\* c is the top of its column and, together with p, has less than its share.
Sinks(p, c, h, k, curAccess) ==
  /\ node[c].topLevel = h
  /\ node[node[c].next[h]].key <= k
  /\ getHits(node[c], h) + getHits(node[p], h) <= curAccess \div 2^(MAX_LEVEL - 1 - h)

At(t, p) == l[t].pc = p

list == <<node, zeroLevel, accessCounter>>

\* A step of t that leaves the nodes as `nodes` and its locals as L.
Do(t, nodes, L) ==
  /\ node' = nodes
  /\ l' = [l EXCEPT ![t] = L]
  /\ UNCHANGED <<zeroLevel, accessCounter, update_counter, client>>

Local(t, L) == Do(t, node, L)
Goto(t, p) == Local(t, [l[t] EXCEPT !.pc = p])

\* L, about to go to `to`, goes there at once if n is low enough, and else locks n
\* and lowers it first.
Via(L, n, to) ==
  IF node[n].zeroLevel > L.h
  THEN [L EXCEPT !.pc = "fix", !.fix = n, !.back = to]
  ELSE [L EXCEPT !.pc = to]

FixZeroLevel(t) ==
  LET n == l[t].fix IN
  /\ At(t, "fix") /\ Free(n)
  /\ Do(t, [node EXCEPT ![n] = Lowered(@, l[t].h)],
        [l[t] EXCEPT !.pc = l[t].back, !.fix = NULL, !.back = "idle"])

-----------------------------------------------------------------------------
(* The client: main inserts the prefill, then the workers make their calls *)

Enter(t, op, k) ==
  /\ At(t, "idle")
  /\ l' = [l EXCEPT ![t] = [Locals EXCEPT !.pc = "f_level", !.op = op, !.key = k,
                                          !.h = MAX_LEVEL - 1, !.pred = head]]
  /\ call' = [call EXCEPT ![t] = D!Call(op, k, Val(t))]
  /\ UNCHANGED <<list, UPDATE_NUM, update_counter, skipListSize>>

PrefillNext ==
  /\ todo # <<>>
  /\ Enter(Main, "insertIfAbsent", todo[1])
  /\ todo' = Tail(todo)
  /\ UNCHANGED plan

Invoke(t) ==
  /\ todo = <<>> /\ At(Main, "idle") /\ plan[t] # <<>>
  /\ \E c \in Head(plan[t]) : Enter(t, c[1], c[2])
  /\ plan' = [plan EXCEPT ![t] = Tail(@)]
  /\ UNCHANGED todo

\* The call returns r; the client of test2.cpp counts what it has added and removed.
Return(t, r) ==
  /\ l' = [l EXCEPT ![t] = Locals]
  /\ call' = [call EXCEPT ![t] = D!Answered(r)]
  /\ skipListSize' = CASE l[t].op = "insertIfAbsent" /\ r = NoValue -> skipListSize + 1
                       [] l[t].op = "erase" /\ r # NoValue -> skipListSize - 1
                       [] OTHER -> skipListSize
  /\ UNCHANGED <<node, zeroLevel, accessCounter, UPDATE_NUM, update_counter, todo, plan>>

\* A compare-and-swap of thread t stores v in the node it has found and will answer r.
Store(t, v, r) ==
  /\ node' = [node EXCEPT ![l[t].succ].value = v]
  /\ call' = D!Witnessed(t, l[t].key, v, r)
  /\ l' = [l EXCEPT ![t].pc = "swapped"]
  /\ UNCHANGED <<zeroLevel, accessCounter, UPDATE_NUM, update_counter, todo, plan, skipListSize>>

-----------------------------------------------------------------------------
(* find: a search without locks *)

\* The next level of L, or none if L is on the bottom.
FindLevel(t) ==
  /\ At(t, "f_level")
  /\ IF l[t].h >= zeroLevel THEN Local(t, Via(l[t], l[t].pred, "f_read")) ELSE Goto(t, "miss")

\* succ = pred->next[level]; a NULL means that pred has sunk below the level.
Follow(L, pred) ==
  LET s == node[pred].next[L.h]
      M == [L EXCEPT !.pred = pred, !.succ = s] IN
  IF s = NULL THEN [M EXCEPT !.pc = "f_level", !.h = L.h - 1] ELSE Via(M, s, "f_cmp")

FindRead(t) == At(t, "f_read") /\ Local(t, Follow(l[t], l[t].pred))

\* Mutant of FindCompare: the search does not go down.
FindStays(t) ==
  LET L == l[t]
      k == node[L.succ].key IN
  /\ At(t, "f_cmp")
  /\ Local(t, CASE L.key > k -> Follow(L, L.succ)
                [] L.key = k -> [L EXCEPT !.pc = "found"]
                [] L.key < k -> [L EXCEPT !.pc = "f_level"])

FindCompare(t) ==
  LET L == l[t]
      k == node[L.succ].key IN
  /\ At(t, "f_cmp")
  /\ Local(t, CASE L.key > k -> Follow(L, L.succ)
                [] L.key = k -> [L EXCEPT !.pc = "found"]
                [] L.key < k -> [L EXCEPT !.pc = "f_level", !.h = L.h - 1])

-----------------------------------------------------------------------------
(* contains, qfind, insertIfAbsent and erase after their search *)

\* The key has a node: read its value and count the hit.
Found(t) ==
  /\ At(t, "found")
  /\ l' = [l EXCEPT ![t].v = node[l[t].succ].value,
                    ![t].pc = IF update_counter[t] + 1 = UPDATE_NUM THEN "u_enter" ELSE "after"]
  /\ update_counter' = [update_counter EXCEPT ![t] = @ + 1]
  /\ UNCHANGED <<list, client>>

Miss(t) ==
  /\ At(t, "miss")
  /\ IF l[t].op = "insertIfAbsent"
     THEN Local(t, [l[t] EXCEPT !.pc = "u_enter", !.inserting = TRUE])
     ELSE Return(t, NoValue)

\* contains reads the value again after its update; find returns what it read.
Answer(t) ==
  /\ At(t, "after")
  /\ \/ /\ l[t].op = "contains"
        /\ Return(t, IF node[l[t].succ].value # NoValue THEN Val(Main) ELSE NoValue)
     \/ /\ l[t].op = "find"
        /\ Return(t, l[t].v)

\* Mutant of Revive: a plain store in place of the compare-and-swap.
ReviveBlindly(t) ==
  /\ At(t, "after") /\ l[t].op = "insertIfAbsent"
  /\ IF l[t].v # NoValue THEN Return(t, l[t].v) ELSE Store(t, Val(t), NoValue)

\* insertIfAbsent on a node that exists revives it if it is logically erased.
Revive(t) ==
  LET L == l[t] IN
  /\ At(t, "after") /\ L.op = "insertIfAbsent"
  /\ \/ /\ L.v # NoValue
        /\ Return(t, L.v)
     \/ /\ L.v = NoValue /\ node[L.succ].value = NoValue
        /\ Store(t, Val(t), NoValue)
     \/ /\ L.v = NoValue /\ node[L.succ].value # NoValue
        /\ Goto(t, "reread")

\* erase only takes the value away; the node stays in the list.
Remove(t) ==
  LET L == l[t] IN
  /\ At(t, "after") /\ L.op = "erase"
  /\ \/ /\ L.v = NoValue
        /\ Return(t, NoValue)
     \/ /\ L.v # NoValue /\ node[L.succ].value = L.v
        /\ Store(t, NoValue, L.v)
     \/ /\ L.v # NoValue /\ node[L.succ].value # L.v
        /\ Goto(t, "reread")

Swapped(t) == At(t, "swapped") /\ Return(t, l[t].v)

Reread(t) ==
  /\ At(t, "reread")
  /\ Local(t, [l[t] EXCEPT !.v = node[l[t].succ].value, !.pc = "after"])

-----------------------------------------------------------------------------
(* update, and updateWithInsert when `inserting`: the walk that counts the   *)
(* access, rebalances, and adds the key on the bottom level.                 *)

UpdateEnter(t) ==
  /\ At(t, "u_enter") /\ Free(head)
  /\ accessCounter' = accessCounter + 1
  /\ node' = [node EXCEPT ![head].lock = t, ![head].hits[MAX_LEVEL] = @ + 1]
  /\ l' = [l EXCEPT ![t].pc = "u_level", ![t].curAccess = accessCounter',
                    ![t].pred = head, ![t].h = MAX_LEVEL - 1]
  /\ UNCHANGED <<zeroLevel, update_counter, client>>

\* The head of the for loop, down to the load of the first node of the level.
UpdateLevel(t) ==
  LET L == l[t]
      p == Lowered(node[L.pred], L.h)
      M == [L EXCEPT !.predpred = L.pred, !.cur = p.next[L.h]] IN
  /\ At(t, "u_level")
  /\ IF L.h < zeroLevel
     THEN Goto(t, "u_leave")
     ELSE Do(t, [node EXCEPT ![L.pred] = p],
               IF M.cur = NULL THEN [M EXCEPT !.pc = "crash"] ELSE Via(M, M.cur, "u_cmp"))

\* Nothing on this level lies between pred and the key: go down, or insert.
UpdateCompare(t) ==
  LET L == [l[t] EXCEPT !.curZeroLevel = zeroLevel, !.ok = FALSE] IN
  /\ At(t, "u_cmp")
  /\ IF node[L.cur].key <= L.key
     THEN Local(t, [L EXCEPT !.pc = "w_peek"])
     ELSE IF L.inserting /\ L.h = zeroLevel
     THEN Local(t, [L EXCEPT !.pc = "i_link"])
     ELSE Do(t, [node EXCEPT ![L.pred].hits[L.h] = @ + 1],
               [L EXCEPT !.pc = "u_level", !.h = @ - 1])

\* The condition of the while loop and its lowering of cur, for a new cur.
Loop(L, c) ==
  LET M == [L EXCEPT !.cur = c, !.acquired = FALSE, !.curh = 0] IN
  CASE c = NULL -> [M EXCEPT !.pc = "crash"]
    [] c # NULL /\ node[c].key > L.key -> [M EXCEPT !.pc = "w_exit"]
    [] c # NULL /\ node[c].key <= L.key -> Via(M, c, "w_peek")

\* The walk locks the last node of the level that is not beyond the key.
WalkPeek(t) ==
  LET L == l[t] IN
  /\ At(t, "w_peek")
  /\ Goto(t, IF node[node[L.cur].next[L.h]].key > L.key THEN "w_lock" ELSE "w_test")

WalkLock(t) ==
  LET L == l[t]
      c == L.cur
      hit == node[c].key = L.key IN
  /\ At(t, "w_lock") /\ Free(c)
  /\ IF node[node[c].next[L.h]].key <= L.key
     THEN Local(t, [L EXCEPT !.pc = "w_test"])
     ELSE Do(t, [node EXCEPT ![c].lock = t,
                               ![c].selfhits = IF hit THEN @ + 1 ELSE @,
                               ![c].hits[L.h] = IF hit \/ (L.inserting /\ L.h = L.curZeroLevel)
                                                THEN @ ELSE @ + 1],
               [L EXCEPT !.pc = "w_test", !.acquired = TRUE, !.ok = L.ok \/ hit])

\* Choose between promoting cur, demoting it, and walking on.
WalkTest(t) ==
  LET L == l[t]
      rises == /\ node[L.predpred].next[L.h] = L.cur
               /\ Ascends(L.predpred, L.h, L.curAccess)
      sinks == Sinks(L.pred, L.cur, L.h, L.key, L.curAccess) IN
  /\ At(t, "w_test")
  /\ \/ /\ rises
        /\ Local(t, [L EXCEPT !.pc = IF L.acquired THEN "p_loop" ELSE "p_lock",
                              !.curh = node[L.cur].topLevel])
     \/ /\ ~rises /\ sinks
        /\ Local(t, [L EXCEPT !.pc = IF L.pred # L.predpred THEN "d_pred" ELSE "d_cur",
                              !.curZeroLevel2 = zeroLevel])
     \/ /\ ~rises /\ ~sinks
        /\ Goto(t, "w_step")

WalkStep(t) ==
  LET L == l[t] IN
  /\ At(t, "w_step")
  /\ Local(t, Loop([L EXCEPT !.pred = L.cur], node[L.cur].next[L.h]))

\* The end of a level: the key belongs right after pred, which is locked.
WalkExit(t) ==
  LET L == l[t]
      unlocked == IF L.predpred # L.pred
                  THEN [node EXCEPT ![L.predpred].lock = Nobody] ELSE node
      bottom == L.inserting /\ L.h = L.curZeroLevel IN
  /\ At(t, "w_exit")
  /\ CASE bottom /\ zeroLevel = L.curZeroLevel /\ ~L.ok ->
            Local(t, [L EXCEPT !.pc = "i_link"])
       [] L.ok ->
            Do(t, unlocked, [L EXCEPT !.pc = "u_leave"])
       [] OTHER ->
            Do(t, [unlocked EXCEPT ![L.pred].hits[L.h] = IF bottom THEN @ + 1 ELSE @],
                 [L EXCEPT !.pc = "u_level", !.h = @ - 1])

UpdateLeave(t) ==
  /\ At(t, "u_leave")
  /\ Do(t, [node EXCEPT ![l[t].pred].lock = Nobody], [l[t] EXCEPT !.pc = "u_return"])

\* updateWithInsert returns the value of cur, the node after the key, if it has
\* found the key.  After update the caller resets its counter and goes on.
UpdateReturn(t) ==
  LET L == l[t] IN
  /\ At(t, "u_return")
  /\ IF L.inserting
     THEN Return(t, IF L.ok THEN node[L.cur].value ELSE NoValue)
     ELSE /\ update_counter' = [update_counter EXCEPT ![t] = 0]
          /\ l' = [l EXCEPT ![t] = [Locals EXCEPT !.pc = "after", !.op = L.op, !.key = L.key,
                                                  !.v = L.v, !.succ = L.succ]]
          /\ UNCHANGED <<list, client>>

-----------------------------------------------------------------------------
(* Promotion of cur, the first node after predpred *)

PromoteLock(t) ==
  LET c == l[t].cur IN
  /\ At(t, "p_lock") /\ Free(c)
  /\ Do(t, [node EXCEPT ![c].lock = t],
          [l[t] EXCEPT !.pc = "p_loop", !.curh = node[c].topLevel])

\* One level up: cur takes over from p what p has on level i = curh + 1.
Promoted(p, c, i) ==
  [node EXCEPT ![c] = [node[c] EXCEPT
                         !.topLevel = node[c].topLevel + 1,
                         !.hits[i] = node[p].hits[i] - node[p].hits[i - 1] - node[c].selfhits,
                         !.next[i] = node[p].next[i]],
               ![p] = [node[p] EXCEPT !.next[i] = c, !.hits[i] = node[p].hits[i - 1]]]

PromoteLoop(t) ==
  LET L == l[t] IN
  /\ At(t, "p_loop")
  /\ \/ /\ Ascends(L.predpred, L.curh, L.curAccess)
        /\ Do(t, Promoted(L.predpred, L.cur, L.curh + 1), [L EXCEPT !.curh = @ + 1])
     \/ /\ ~Ascends(L.predpred, L.curh, L.curAccess)
        /\ Do(t, [node EXCEPT ![L.predpred].lock = Nobody],
                Loop([L EXCEPT !.predpred = L.cur, !.pred = L.cur], node[L.cur].next[L.h]))

-----------------------------------------------------------------------------
(* Demotion of cur from level h, its top, in favour of pred *)

DemoteLockPred(t) ==
  LET p == l[t].pred IN
  /\ At(t, "d_pred") /\ Free(p)
  /\ Do(t, [node EXCEPT ![p].lock = t], [l[t] EXCEPT !.pc = "d_cur"])

\* Mutants of DemoteLockCur: pred stays locked when the test fails; the links are
\* not looked at again.
DemoteKeepsPred(t) ==
  LET L == l[t] IN
  /\ At(t, "d_cur") /\ Free(L.cur)
  /\ IF Sinks(L.pred, L.cur, L.h, L.key, L.curAccess) /\ node[L.pred].next[L.h] = L.cur
     THEN Do(t, [node EXCEPT ![L.cur].lock = t], [L EXCEPT !.pc = "d_zero"])
     ELSE Goto(t, "d_next")

DemoteUnchecked(t) ==
  LET L == l[t] IN
  /\ At(t, "d_cur") /\ Free(L.cur)
  /\ Do(t, [node EXCEPT ![L.cur].lock = t], [L EXCEPT !.pc = "d_zero"])

\* With both locks, the test is made again.
DemoteLockCur(t) ==
  LET L == l[t] IN
  /\ At(t, "d_cur") /\ Free(L.cur)
  /\ IF Sinks(L.pred, L.cur, L.h, L.key, L.curAccess) /\ node[L.pred].next[L.h] = L.cur
     THEN Do(t, [node EXCEPT ![L.cur].lock = t], [L EXCEPT !.pc = "d_zero"])
     ELSE Do(t, [node EXCEPT ![L.pred].lock = IF L.pred # L.predpred THEN Nobody ELSE @],
               [L EXCEPT !.pc = "d_next"])

\* Mutant of DemoteZero: every demotion opens a bottom level.
DemoteOpens(t) ==
  /\ At(t, "d_zero")
  /\ zeroLevel' = zeroLevel - 1
  /\ l' = [l EXCEPT ![t].pc = "d_low"]
  /\ UNCHANGED <<node, accessCounter, update_counter, client>>

\* A demotion from the bottom level opens a new one.
DemoteZero(t) ==
  LET L == l[t] IN
  /\ At(t, "d_zero")
  /\ zeroLevel' = IF L.h = L.curZeroLevel2 /\ zeroLevel = L.curZeroLevel2
                  THEN zeroLevel - 1 ELSE zeroLevel
  /\ l' = [l EXCEPT ![t].pc = "d_low"]
  /\ UNCHANGED <<node, accessCounter, update_counter, client>>

\* Mutant of DemoteLower: the columns are not lowered first.
DemoteHigh(t) ==
  LET L == l[t] IN
  /\ At(t, "d_low")
  /\ Do(t, [node EXCEPT ![L.cur].hits[L.h] = 0,
                        ![L.pred].hits[L.h] = @ + getHits(node[L.cur], L.h)],
        [L EXCEPT !.pc = "d_unlink"])

\* The two columns reach below h before cur leaves it, and pred takes its hits.
DemoteLower(t) ==
  LET L == l[t]
      low(n) == IF node[n].zeroLevel > L.h - 1 THEN updateZeroLevel(node[n]) ELSE node[n]
      c == low(L.cur)
      p == low(L.pred) IN
  /\ At(t, "d_low")
  /\ Do(t, [node EXCEPT ![L.cur] = [c EXCEPT !.hits[L.h] = 0],
                          ![L.pred] = [p EXCEPT !.hits[L.h] = @ + getHits(c, L.h)]],
          [L EXCEPT !.pc = "d_unlink"])

DemoteUnlink(t) ==
  LET L == l[t] IN
  /\ At(t, "d_unlink")
  /\ Do(t, [node EXCEPT ![L.pred].next[L.h] = node[L.cur].next[L.h]],
          [L EXCEPT !.pc = "d_null"])

DemoteNull(t) ==
  LET L == l[t] IN
  /\ At(t, "d_null")
  /\ Do(t, [node EXCEPT ![L.cur].next[L.h] = NULL,
                          ![L.pred].lock = IF L.pred # L.predpred THEN Nobody ELSE @],
          [L EXCEPT !.pc = "d_top"])

DemoteTop(t) ==
  LET L == l[t] IN
  /\ At(t, "d_top")
  /\ Do(t, [node EXCEPT ![L.cur].topLevel = @ - 1, ![L.cur].lock = Nobody],
          [L EXCEPT !.pc = "d_next"])

\* Mutant of DemoteNext: the walk goes on from the node it has demoted.
DemoteAstray(t) ==
  /\ At(t, "d_next")
  /\ Local(t, Loop(l[t], node[l[t].cur].next[l[t].h]))

DemoteNext(t) ==
  LET L == l[t] IN
  /\ At(t, "d_next")
  /\ Local(t, Loop(L, node[L.pred].next[L.h]))

-----------------------------------------------------------------------------
(* insert: the new node is created, locked and published after pred *)

InsertLink(t) ==
  LET L == l[t]
      c == Cardinality(DOMAIN node)
      new == [createNode(L.h, L.key, Val(t))
                EXCEPT !.next[L.h] = node[L.pred].next[L.h], !.lock = t] IN
  /\ At(t, "i_link")
  /\ node' = [n \in DOMAIN node \cup {c} |->
                CASE n = c -> new
                  [] n = L.pred -> [node[n] EXCEPT !.next[L.h] = c]
                  [] OTHER -> node[n]]
  /\ l' = [l EXCEPT ![t].pc = "i_count", ![t].cur = c]
  /\ call' = D!Witnessed(t, L.key, Val(t), NoValue)
  /\ UNCHANGED <<zeroLevel, accessCounter, UPDATE_NUM, update_counter, todo, plan, skipListSize>>

\* Mutant of InsertCount: the new node has no hit.
InsertUncounted(t) == At(t, "i_count") /\ Goto(t, "i_leave")

InsertCount(t) ==
  LET L == l[t]
      rises == /\ node[L.predpred].next[L.h] = L.cur
               /\ Ascends(L.predpred, L.h, L.curAccess) IN
  /\ At(t, "i_count")
  /\ Do(t, [node EXCEPT ![L.cur].selfhits = @ + 1,
                          ![L.predpred].lock = IF rises \/ L.predpred = L.pred THEN @ ELSE Nobody],
          [L EXCEPT !.pc = IF rises THEN "i_loop" ELSE "i_leave", !.curh = L.h])

InsertLoop(t) ==
  LET L == l[t] IN
  /\ At(t, "i_loop")
  /\ \/ /\ Ascends(L.predpred, L.curh, L.curAccess)
        /\ Do(t, Promoted(L.predpred, L.cur, L.curh + 1), [L EXCEPT !.curh = @ + 1])
     \/ /\ ~Ascends(L.predpred, L.curh, L.curAccess)
        /\ Local(t, [L EXCEPT !.pc = "i_leave"])

InsertLeave(t) ==
  /\ At(t, "i_leave")
  /\ Do(t, [node EXCEPT ![l[t].cur].lock = Nobody], [l[t] EXCEPT !.pc = "u_leave"])

-----------------------------------------------------------------------------
Step(t) ==
  \/ FixZeroLevel(t) \/ FindLevel(t) \/ FindRead(t) \/ FindCompare(t)
  \/ Found(t) \/ Miss(t) \/ Answer(t) \/ Revive(t) \/ Remove(t) \/ Swapped(t) \/ Reread(t)
  \/ UpdateEnter(t) \/ UpdateLevel(t) \/ UpdateCompare(t) \/ UpdateLeave(t) \/ UpdateReturn(t)
  \/ WalkPeek(t) \/ WalkLock(t) \/ WalkTest(t) \/ WalkStep(t) \/ WalkExit(t)
  \/ PromoteLock(t) \/ PromoteLoop(t)
  \/ DemoteLockPred(t) \/ DemoteLockCur(t) \/ DemoteZero(t) \/ DemoteLower(t)
  \/ DemoteUnlink(t) \/ DemoteNull(t) \/ DemoteTop(t) \/ DemoteNext(t)
  \/ InsertLink(t) \/ InsertCount(t) \/ InsertLoop(t) \/ InsertLeave(t)

Quiescent == \A t \in Threads : At(t, "idle")

\* The threads are joined.
Joined ==
  /\ Quiescent /\ todo = <<>> /\ \A t \in Workers : plan[t] = <<>>
  /\ UNCHANGED vars

Next ==
  \/ PrefillNext
  \/ \E t \in Workers : Invoke(t)
  \/ \E t \in Threads : Step(t)
  \/ Joined

Spec == Init /\ [][Next]_vars

\* The operating system runs every thread; a spin lock that stays free is taken.
FairSpec ==
  /\ Spec
  /\ WF_vars(PrefillNext)
  /\ \A t \in Workers : WF_vars(Invoke(t))
  /\ \A t \in Threads : WF_vars(Step(t))

-----------------------------------------------------------------------------
(* Properties *)

Nodes == DOMAIN node
\* The next node of n on level h: a node that has not been lowered to h has the
\* nodes of its lowest level there.
After(n, h) == node[n].next[IF node[n].zeroLevel > h THEN node[n].zeroLevel ELSE h]

\* m is the first node of S with a key above that of n.
IsNext(n, m, S) ==
  m \in S /\ node[n].key < node[m].key
  /\ \A x \in S : node[x].key <= node[n].key \/ node[m].key <= node[x].key

\* Every node that was ever inserted stays on the bottom level, in the order of
\* the keys and once, in every state: whatever promotions, demotions, insertions
\* and lowerings are under way.
BottomLevelComplete ==
  \A n \in Nodes \ {tail} : IsNext(n, After(n, zeroLevel), Nodes)

\* The locks each thread holds, by where it is.
Held(L) ==
  LET pc == IF L.pc = "fix" THEN L.back ELSE L.pc IN
  CASE pc \in {"u_level", "u_cmp", "u_leave"} -> {L.pred}
    [] pc \in {"w_peek", "w_lock", "p_lock", "d_pred", "d_next"} -> {L.predpred}
    [] pc \in {"w_test", "w_step"} -> {L.predpred} \cup (IF L.acquired THEN {L.cur} ELSE {})
    [] pc \in {"d_cur", "w_exit", "i_link"} -> {L.predpred, L.pred}
    [] pc \in {"d_zero", "d_low", "d_unlink", "d_null", "i_count"} -> {L.predpred, L.pred, L.cur}
    [] pc \in {"p_loop", "d_top"} -> {L.predpred, L.cur}
    [] pc \in {"i_loop", "i_leave"} -> {L.pred, L.cur}
    [] OTHER -> {}

\* A walk holds exactly the locks its code relies on: in particular pred when a
\* level ends (it is written and released there though it was walked over without
\* a lock), and none at all when the call is over.
HoldsItsLocks == \A t \in Threads : {n \in Nodes : node[n].lock = t} = Held(l[t])

\* No walk follows a NULL: it never comes to a node that has left the level, and
\* the assert(0) at the end of insert is never reached.
NoNullDereference ==
  \A t \in Threads :
    LET L == l[t] IN
    /\ L.pc # "crash"
    /\ L.pc \in {"w_peek", "w_lock", "w_test", "d_cur"} => node[L.cur].next[L.h] # NULL
    /\ L.pc = "i_loop" => L.predpred = L.pred

\* The nodes of n's subtree on level h: n and what follows it up to the next node
\* of level h + 1.
Subtree(n, h) ==
  {m \in Nodes : /\ node[m].topLevel >= h /\ node[n].key <= node[m].key
                 /\ node[m].key < node[After(n, h + 1)].key}
LevelNodes(h) == {n \in Nodes : node[n].topLevel >= h}
HitsOf(S, h) == MapThenSumSet(LAMBDA m : getHits(node[m], h), S)

\* What validate() checks when the threads have stopped: every level is the sorted
\* list of the nodes that reach it, and a node's hits on a level are the sum of the
\* hits below it on the next.
LevelsAddUp == Quiescent =>
  \A h \in zeroLevel .. MAX_LEVEL - 1 :
    /\ \A n \in LevelNodes(h) \ {tail} : IsNext(n, After(n, h), LevelNodes(h))
    /\ \A n \in LevelNodes(h + 1) \ {tail} : getHits(node[n], h + 1) = HitsOf(Subtree(n, h), h)

\* No access is lost between two levels: when the threads have stopped, the hits of
\* the nodes themselves are all the accesses that were counted.
EveryAccessCounted == Quiescent =>
  accessCounter = MapThenSumSet(LAMBDA n : node[n].selfhits, Nodes)

\* validate()'s ascent condition: no node has more than its share and stays low.
NobodyOverdue == Quiescent =>
  \A h \in zeroLevel .. MAX_LEVEL - 2 : \A n \in LevelNodes(h + 1) \ {tail} :
    \A m \in Subtree(n, h) \ {n} :
      getHits(node[n], h + 1) - HitsOf({x \in Subtree(n, h) : node[x].key < node[m].key}, h)
        <= accessCounter \div 2^(MAX_LEVEL - 1 - h - 1)

\* The list is never higher than the logarithm of the number of accesses: a level is
\* opened only by a node that is not worth the one it leaves.
HeightBound ==
  zeroLevel = MAX_LEVEL - 1 \/ 2^(MAX_LEVEL - 2 - zeroLevel) <= accessCounter

\* The splay-list is a linearizable dictionary.
ImplementsDictionary == D!Spec

\* Every call returns, whoever holds the locks that its walks and its lowering of nodes
\* wait for: the clients make finitely many calls, and in the end none is running.
EveryCallReturns == <>[]Quiescent

\* test2.cpp: the client's count of insertions and removals is the number of keys.
SizeMatches == Quiescent => skipListSize = Cardinality({k \in Keys : dict[k] # NoValue})
=============================================================================
