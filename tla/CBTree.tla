------------------------------- MODULE CBTree -------------------------------
(***************************************************************************)
(* The counting-based trees of ds/cbtree-concurrent, cbtree-concurrent-    *)
(* fair, cbtree-ideal and cbtree (cbtree_impl.h).  A node counts in w the  *)
(* searches that went through it, and a search that may restructure        *)
(* rotates the nodes of its path by these weights.  Searches that only     *)
(* read share a readers-writer lock, the others exclude everybody.  Keys   *)
(* are never removed, and a node is named by its key.                      *)
(*                                                                         *)
(* The variants differ in who restructures: thread 1 every cops-th time    *)
(* ("concurrent"), every thread every cops-th time ("fair"), thread 1      *)
(* during the warm-up, after which nobody takes the lock ("ideal"), or the *)
(* only thread ("sequential").                                             *)
(*                                                                         *)
(* The lock is RWLock, which DCLCRWLock implements.  One action is one     *)
(* turn of a search's loop.                                                *)
(***************************************************************************)
EXTENDS Integers, FiniteSets, Sequences

CONSTANTS Threads,    \* tid: 0 is main, 1 may be special
          Keys, max_key,
          Scripts     \* what the client may do, records: of the tree `variant` with the
                      \* period cops, main inserts the keys of the sequence prefill, then
                      \* thread t makes Len(plan[t]) calls, the i-th one an operation
                      \* <<op, key>> of plan[t][i]

Operations == {"contains", "find", "insertIfAbsent"}

\* In the ideal tree only main inserts: its adapter asserts that, and insertIfAbsent does not take
\* the lock of the searches.
Allowed(variant) == IF variant = "ideal" THEN {"contains", "find"} ELSE Operations

ASSUME ThreadsAssumption == Threads \subseteq Nat /\ 0 \in Threads
ASSUME KeysAssumption == Keys \subseteq Nat \ {0} /\ max_key \in Nat \ {0} /\ \A k \in Keys : k < max_key
ASSUME ScriptsAssumption ==
  \A s \in Scripts : /\ s.variant \in {"concurrent", "fair", "ideal", "sequential"} /\ s.cops \in Nat
                    /\ s.prefill \in Seq(Keys)
                    /\ s.plan \in [Threads -> Seq(SUBSET (Allowed(s.variant) \X Keys))]
                    /\ s.plan[0] = <<>>

NULL == 0             \* nullptr
NoValue == -1         \* no_value
root == max_key

VARIABLES Variant, cops,     \* which tree this is: they never change
          tree,              \* the nodes by key
          hits,              \* the restructuring searches that ended at each node
          readers, writers,  \* who holds the lock: see RWLock
          warmup,
          nops,              \* finds of each thread since it last restructured
          l,                 \* local variables of the call each thread is in
          script,            \* keys main has still to insert
          plan,              \* calls each thread still makes
          call               \* the calls as their callers see them: see Dictionary

build == <<Variant, cops>>
lock == <<readers, writers>>
counters == <<warmup, nops>>
client == <<script, plan, call>>
vars == <<build, tree, hits, lock, counters, l, client>>

dict == [k \in Keys |-> IF k \in DOMAIN tree THEN tree[k].value ELSE NoValue]
D == INSTANCE Dictionary WITH Values <- Threads
R == INSTANCE RWLock

NewNode(v) == [value |-> v, left |-> NULL, right |-> NULL, w |-> 0]
Locals == [pc |-> "idle", op |-> "none", key |-> max_key, mode |-> "none",
           inserting |-> FALSE, z |-> NULL, z_par |-> NULL, node |-> NULL]

Init ==
  /\ tree = [n \in {root} |-> NewNode(NoValue)]
  /\ hits = [n \in {root} |-> 0]
  /\ R!Init
  /\ nops = [t \in Threads |-> 0]
  /\ l = [t \in Threads |-> Locals]
  /\ \E s \in Scripts : /\ Variant = s.variant /\ cops = s.cops
                        /\ script = s.prefill /\ plan = s.plan
  /\ warmup = (Variant = "ideal")
  /\ call = [t \in Threads |-> D!Answered(NoValue)]

-----------------------------------------------------------------------------
(* Operators on the tree *)

get_child(n, k) ==
  CASE k < n -> tree[n].left
    [] k > n -> tree[n].right
    [] k = n -> NULL

w(n) == IF n = NULL THEN 0 ELSE tree[n].w
c(n) == w(n) - w(tree[n].left) - w(tree[n].right)

Counted(S) == [n \in DOMAIN tree |-> IF n \in S THEN [tree[n] EXCEPT !.w = @ + 1] ELSE tree[n]]

\* Mutant of Replaced: z is taken to be the parent on the right.
ReplacedLeft(T, z, y, x) == [T EXCEPT ![z].left = x]

\* The child y of z in T is replaced by x.
Replaced(T, z, y, x) == IF T[z].left = y THEN [T EXCEPT ![z].left = x] ELSE [T EXCEPT ![z].right = x]

WeightIn(T, n) == IF n = NULL THEN 0 ELSE T[n].w

\* Mutant of rotate_right: the subtree that moves from x to y is not weighed.
rotate_right_light(T, x, y, z) ==
  Replaced([T EXCEPT ![x] = [@ EXCEPT !.w = T[y].w, !.right = y],
                     ![y] = [@ EXCEPT !.w = T[y].w - T[x].w, !.left = T[x].right]], z, y, x)

rotate_right(T, x, y, z) ==
  LET y_new_w == T[y].w - T[x].w + WeightIn(T, T[x].right) IN
  Replaced([T EXCEPT ![x] = [@ EXCEPT !.w = T[y].w, !.right = y],
                     ![y] = [@ EXCEPT !.w = y_new_w, !.left = T[x].right]], z, y, x)

rotate_left(T, x, y, z) ==
  LET y_new_w == T[y].w - T[x].w + WeightIn(T, T[x].left) IN
  Replaced([T EXCEPT ![x] = [@ EXCEPT !.w = T[y].w, !.left = y],
                     ![y] = [@ EXCEPT !.w = y_new_w, !.right = T[x].left]], z, y, x)

\* Mutant of check_single_rotation: eps is 1.
check_single_eager(y, z, first_move_left) ==
  /\ z # root
  /\ w(z) + w(IF first_move_left THEN tree[y].right ELSE tree[y].left) < 2 * w(y)

\* eps is 1/2: the factors are multiplied out.
check_single_rotation(y, z, first_move_left) ==
  /\ z # root
  /\ 2 * (w(z) + w(IF first_move_left THEN tree[y].right ELSE tree[y].left)) < 3 * w(y)

check_double_rotation(x, y, z, first_move_left) ==
  LET toZ == IF first_move_left THEN tree[x].right ELSE tree[x].left
      toY == IF first_move_left THEN tree[x].left ELSE tree[x].right IN
  /\ z # root
  /\ 2 * (w(z) - w(y) + w(toZ)) * (w(y) - w(x) + w(toY)) < w(y) * w(x)

-----------------------------------------------------------------------------
At(t, p) == l[t].pc = p
Local(t, L) == l' = [l EXCEPT ![t] = L]

\* Mutant of Mode: readers take no lock.
ModeOpen(t, op) == IF t = 1 /\ nops[t] + 1 = cops THEN "exclusive" ELSE "none"

\* The lock an operation takes first.  In the ideal tree insertIfAbsent takes a mutex of
\* its own, which only main ever takes.  The sequential tree has no lock: its one thread
\* finds the lock of this model always free.
Mode(t, op) ==
  CASE Variant = "concurrent" -> IF t = 1 /\ nops[t] + 1 = cops THEN "exclusive" ELSE "shared"
    [] Variant = "fair" -> IF nops[t] + 1 = cops THEN "exclusive" ELSE "shared"
    [] Variant = "sequential" -> "exclusive"
    [] Variant = "ideal" -> IF ~warmup \/ op = "insertIfAbsent" THEN "none"
                            ELSE IF t = 1 THEN "exclusive" ELSE "shared"

Direct == Variant \in {"ideal", "sequential"}

\* insertIfAbsent calls find first, except in the ideal and the sequential tree.
Start(t, op, k) ==
  /\ Local(t, [Locals EXCEPT !.pc = "enter", !.op = op, !.key = k, !.mode = Mode(t, op),
                             !.inserting = (Direct /\ op = "insertIfAbsent")])
  /\ nops' = IF Direct THEN nops ELSE [nops EXCEPT ![t] = @ + 1]
  /\ call' = [call EXCEPT ![t] = D!Call(op, k, t)]
  /\ UNCHANGED <<build, tree, hits, lock, warmup>>

\* main inserts the keys of the prefill; then the threads start.
Prefill(t) ==
  /\ t = 0 /\ At(t, "idle") /\ script # <<>>
  /\ Start(t, "insertIfAbsent", Head(script))
  /\ script' = Tail(script)
  /\ UNCHANGED plan

Filled == script = <<>> /\ At(0, "idle")

Invoke(t) ==
  /\ At(t, "idle") /\ plan[t] # <<>> /\ Filled
  /\ \E o \in Head(plan[t]) : Start(t, o[1], o[2])
  /\ plan' = [plan EXCEPT ![t] = Tail(@)]
  /\ UNCHANGED script

\* A worker finds that its warm-up time is over.
warmupEnd(t) ==
  /\ At(t, "idle") /\ t # 0 /\ Filled /\ warmup
  /\ warmup' = FALSE
  /\ UNCHANGED <<build, tree, hits, lock, nops, l, client>>

Enter(t) ==
  LET L == l[t] IN
  /\ At(t, "enter")
  /\ CASE L.mode = "shared" -> R!EnterShared(t)
       [] L.mode = "exclusive" -> R!EnterExclusive(t)
       [] L.mode = "none" -> UNCHANGED lock
  /\ Local(t, [L EXCEPT !.pc = "search", !.z = root, !.z_par = NULL])
  /\ UNCHANGED <<tree, hits, counters, client>>

\* The search has ended at n: its node, or the parent of a new one.
EndedAt(L, n) == [L EXCEPT !.pc = "leave", !.z = n, !.node = IF L.key = n THEN n ELSE NULL]

Restructures(L) == L.mode = "exclusive" \/ L.inserting

-----------------------------------------------------------------------------
(* search_no_restructure *)

\* Mutant of Search: the loop does not go on to x.
SearchStays(t) ==
  LET L == l[t]
      y == get_child(L.z, L.key)
      x == get_child(y, L.key) IN
  /\ At(t, "search") /\ ~Restructures(L)
  /\ Local(t, IF y = NULL THEN EndedAt(L, L.z) ELSE IF x = NULL THEN EndedAt(L, y) ELSE L)
  /\ UNCHANGED <<tree, hits, lock, counters, client>>

Search(t) ==
  LET L == l[t]
      y == get_child(L.z, L.key)
      x == get_child(y, L.key) IN
  /\ At(t, "search") /\ ~Restructures(L)
  /\ Local(t, IF y = NULL THEN EndedAt(L, L.z)
              ELSE IF x = NULL THEN EndedAt(L, y)
              ELSE [L EXCEPT !.z = x])
  /\ UNCHANGED <<tree, hits, lock, counters, client>>

-----------------------------------------------------------------------------
(* search: one turn of its loop ends, passes two nodes, or rotates *)

SearchEnds(t) ==
  LET L == l[t]
      y == get_child(L.z, L.key)
      n == IF y = NULL THEN L.z ELSE y IN
  /\ At(t, "search") /\ Restructures(L)
  /\ get_child(n, L.key) = NULL
  /\ tree' = Counted({L.z, n})
  /\ hits' = IF L.inserting /\ L.key # n THEN hits ELSE [hits EXCEPT ![n] = @ + 1]
  /\ Local(t, EndedAt(L, n))
  /\ UNCHANGED <<lock, counters, client>>

\* The rest of a turn, at z, y and x.
Rotates(L, x, y, z) ==
  LET first_move_left == L.key < z
      second_move_left == L.key < y IN
  IF first_move_left = second_move_left THEN check_single_rotation(y, z, first_move_left)
  ELSE check_double_rotation(x, y, z, first_move_left)

SearchPasses(t) ==
  LET L == l[t]
      y == get_child(L.z, L.key)
      x == get_child(y, L.key) IN
  /\ At(t, "search") /\ Restructures(L) /\ y # NULL /\ x # NULL
  /\ ~Rotates(L, x, y, L.z)
  /\ tree' = Counted({L.z, y})
  /\ Local(t, [L EXCEPT !.z_par = y, !.z = x])
  /\ UNCHANGED <<hits, lock, counters, client>>

SearchRotates(t) ==
  LET L == l[t]
      z == L.z
      y == get_child(z, L.key)
      x == get_child(y, L.key)
      first_move_left == L.key < z
      second_move_left == L.key < y IN
  /\ At(t, "search") /\ Restructures(L) /\ y # NULL /\ x # NULL
  /\ Rotates(L, x, y, z)
  /\ tree' = CASE first_move_left /\ second_move_left -> rotate_right(tree, y, z, L.z_par)
               [] ~first_move_left /\ ~second_move_left -> rotate_left(tree, y, z, L.z_par)
               [] first_move_left /\ ~second_move_left ->
                    rotate_right(rotate_left(tree, x, y, z), x, z, L.z_par)
               [] ~first_move_left /\ second_move_left ->
                    rotate_left(rotate_right(tree, x, y, z), x, z, L.z_par)
  /\ Local(t, [L EXCEPT !.z = IF first_move_left = second_move_left THEN y ELSE x])
  /\ UNCHANGED <<hits, lock, counters, client>>

-----------------------------------------------------------------------------
(* The end of find and of insertIfAbsent *)

Unlock(t, mode) ==
  CASE mode = "shared" -> R!LeaveShared(t)
    [] mode = "exclusive" -> R!LeaveExclusive(t)
    [] mode = "none" -> UNCHANGED lock

Return(t, r) ==
  /\ Local(t, Locals)
  /\ call' = [call EXCEPT ![t] = D!Answered(r)]
  /\ UNCHANGED <<script, plan>>

\* find has its node; insertIfAbsent goes on when there is none.
FindLeave(t) ==
  LET L == l[t]
      v == IF L.node = NULL THEN NoValue ELSE tree[L.node].value IN
  /\ At(t, "leave") /\ ~L.inserting
  /\ Unlock(t, L.mode)
  /\ nops' = IF L.mode = "exclusive" THEN [nops EXCEPT ![t] = 0] ELSE nops
  /\ IF L.op = "insertIfAbsent" /\ v = NoValue
     THEN /\ Local(t, [L EXCEPT !.pc = "enter", !.mode = "exclusive", !.inserting = TRUE])
          /\ UNCHANGED client
     ELSE Return(t, v)
  /\ UNCHANGED <<tree, hits, warmup>>

\* Another thread may have inserted the key since find.
InsertFound(t) ==
  LET L == l[t] IN
  /\ At(t, "leave") /\ L.inserting /\ L.node # NULL
  /\ Unlock(t, L.mode)
  /\ Return(t, tree[L.node].value)
  /\ UNCHANGED <<tree, hits, counters>>

\* The insertion takes effect.
InsertLink(t) ==
  LET L == l[t]
      T == IF L.key < L.z THEN [tree EXCEPT ![L.z].left = L.key]
                          ELSE [tree EXCEPT ![L.z].right = L.key] IN
  /\ At(t, "leave") /\ L.inserting /\ L.node = NULL
  /\ tree' = [n \in DOMAIN tree \cup {L.key} |->
                IF n = L.key THEN [NewNode(t) EXCEPT !.w = 1] ELSE T[n]]
  /\ hits' = [n \in DOMAIN tree \cup {L.key} |-> IF n = L.key THEN 1 ELSE hits[n]]
  /\ Local(t, [L EXCEPT !.pc = "linked"])
  /\ call' = D!Witnessed(t, L.key, t, NoValue)
  /\ UNCHANGED <<lock, counters, script, plan>>

InsertLeave(t) ==
  /\ At(t, "linked")
  /\ Unlock(t, l[t].mode)
  /\ Return(t, NoValue)
  /\ UNCHANGED <<tree, hits, counters>>

Step(t) ==
  /\ \/ Enter(t) \/ Search(t) \/ SearchEnds(t) \/ SearchPasses(t) \/ SearchRotates(t)
     \/ FindLeave(t) \/ InsertFound(t) \/ InsertLink(t) \/ InsertLeave(t)
  /\ UNCHANGED build

Quiescent == \A t \in Threads : At(t, "idle")

\* The threads are joined.
Joined == Quiescent /\ script = <<>> /\ (\A t \in Threads : plan[t] = <<>>) /\ UNCHANGED vars

Next == (\E t \in Threads : Prefill(t) \/ Invoke(t) \/ warmupEnd(t) \/ Step(t)) \/ Joined

Spec == Init /\ [][Next]_vars

\* The operating system runs every thread.
FairSpec == Spec /\ \A t \in Threads : WF_vars(Prefill(t) \/ Invoke(t) \/ Step(t))

-----------------------------------------------------------------------------
(* Properties *)

Nodes == DOMAIN tree

\* A search for any key of the tree that starts now and is not disturbed ends at it,
\* also between two rotations of a restructuring search.
KeysFound ==
  \A k \in Nodes :
    LET path[i \in 0 .. Cardinality(Nodes)] ==
          IF i = 0 THEN root
          ELSE IF path[i - 1] \in {NULL, k} THEN path[i - 1]
          ELSE get_child(path[i - 1], k)
    IN path[Cardinality(Nodes)] = k

\* While nobody restructures, the weights tell what the searches did: c(n), which
\* rotations must not change, is the number of searches that ended at n.
WeightsAddUp == (\A t \in Threads : ~(l[t].pc # "idle" /\ l[t].pc # "enter" /\ Restructures(l[t]))) =>
  \A n \in Nodes : c(n) = hits[n]

InTree(t) == l[t].pc \in {"search", "leave", "linked"}

\* Where every access takes the lock, it keeps everybody else out of the tree while a
\* search restructures it.
Alone == Variant # "ideal" =>
  \A s, t \in Threads : InTree(s) /\ InTree(t) /\ Restructures(l[s]) => s = t

\* A rotation lowers the weight of the nodes that go down to less than half: the
\* product of all weights, the potential of CBTree's analysis, falls by more than 2.
Product(T) ==
  LET P[S \in SUBSET (DOMAIN T \ {root})] ==
        IF S = {} THEN 1 ELSE LET n == CHOOSE m \in S : TRUE IN T[n].w * P[S \ {n}]
  IN P[DOMAIN T \ {root}]
RotationPays == [][(\E t \in Threads : SearchRotates(t)) => 2 * Product(tree') < Product(tree)]_vars

\* The tree is a linearizable dictionary, except the ideal one: there a worker that finds
\* its warm-up over makes everybody search without the lock while thread 1 still rotates.
ImplementsDictionary == D!Init /\ [][D!Next \/ Variant = "ideal"]_(D!vars)

\* Every call returns, whoever holds the lock: the clients make finitely many calls, and
\* in the end none is running.
EveryCallReturns == <>[]Quiescent
=============================================================================
