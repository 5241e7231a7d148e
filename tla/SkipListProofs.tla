--------------------------- MODULE SkipListProofs ---------------------------
(***************************************************************************)
(* That both skip lists keep what they hold, for any number of threads,    *)
(* keys, calls and levels, whether or not the build keeps the wait of an   *)
(* insertion: no node that is fully linked and not marked is ever lost,    *)
(* nothing that was removed is left behind, no lock is kept, and the count *)
(* of the client is right.                                                 *)
(*                                                                         *)
(* Every level is a sorted list of the nodes that are on it.  A node that  *)
(* was ever linked on a level leads, along that level, to nodes that were  *)
(* linked there, also after it has been unlinked: so a search without      *)
(* locks is never astray.  What an update relies on when it writes, it has *)
(* validated under the locks of the predecessors.                          *)
(***************************************************************************)
EXTENDS MCSkipLists, FiniteSetTheorems, FunctionTheorems, NaturalsInduction, TLAPS

NodeFields == {"key", "value", "topLevel", "fullyLinked", "mark", "lock", "next"}
Fields == {"pc", "op", "key", "topLevel", "level", "pred", "curr", "preds", "succs", "flevel", "v",
           "victim", "isMarked"}

\* An insertion has made n and not yet linked it on level i.
NotYet(ll, n, i) ==
  \E t \in Threads : ll[t].pc = "i_link" /\ ll[t].curr = n /\ ll[t].level <= i

\* A removal has marked n and not yet unlinked it from level i.
Erases(L, n, i) ==
  L.isMarked /\ L.victim = n /\ L.pc # "e_leave" /\ (L.pc = "e_unlink" => i <= L.level)
Erasing(ll, n, i) == \E t \in Threads : Erases(ll[t], n, i)

\* n has been linked on level i; it still is.
Linked(nd, ll, n, i) == n \in DOMAIN nd /\ i \in 0 .. nd[n].topLevel /\ ~NotYet(ll, n, i)
On(nd, ll, n, i) == Linked(nd, ll, n, i) /\ (nd[n].mark => Erasing(ll, n, i))

\* m follows n on level i: no node of the level is between them.
Follows(nd, ll, n, m, i) ==
  /\ On(nd, ll, m, i) /\ nd[n].key < nd[m].key
  /\ \A x \in DOMAIN nd : On(nd, ll, x, i) => nd[x].key <= nd[n].key \/ nd[m].key <= nd[x].key

\* Every level is a sorted list, and has one node of a key at most.
Lists(nd, ll) ==
  /\ \A i \in Levels : \A n \in DOMAIN nd \ {tail} :
       On(nd, ll, n, i) => Follows(nd, ll, n, nd[n].next[i], i)
  /\ \A n, m \in DOMAIN nd : On(nd, ll, n, 0) /\ On(nd, ll, m, 0) /\ nd[n].key = nd[m].key => n = m

\* Whatever a node points to on a level has been linked there.
NextOK(nd, ll, n) ==
  \A i \in 0 .. nd[n].topLevel :
    Linked(nd, ll, nd[n].next[i], i) /\ nd[n].key < nd[nd[n].next[i]].key

AttrsOK(nd, n) ==
  /\ DOMAIN nd[n] = NodeFields
  /\ nd[n].key \in Int /\ nd[n].topLevel \in Levels
  /\ nd[n].value \in Threads \cup {1, NoValue}
  /\ nd[n].lock \in Threads \cup {Nobody}
  /\ nd[n].mark \in BOOLEAN /\ nd[n].fullyLinked \in BOOLEAN
  /\ DOMAIN nd[n].next = Levels

NodeOK(nd, ll, n) ==
  /\ AttrsOK(nd, n)
  /\ n # tail => NextOK(nd, ll, n)
  /\ nd[n].mark => Linked(nd, ll, n, nd[n].topLevel)

NodesOK(nd, ll) ==
  /\ \E k \in Nat : k > 1 /\ DOMAIN nd = 0 .. k - 1
  /\ nd[head].key = minKey - 1 /\ nd[tail].key = maxKey + 1
  /\ \A n \in {head, tail} :
       nd[n].topLevel = MAX_LEVEL /\ ~nd[n].mark /\ \A i \in Levels : ~NotYet(ll, n, i)
  /\ \A n \in DOMAIN nd \ {head, tail} : nd[n].key \in Keys
  /\ \A n \in DOMAIN nd : NodeOK(nd, ll, n)

-----------------------------------------------------------------------------
(* What a call relies on, by where it is.  L are its locals.               *)

\* What the search has found on level i.
Neighbours(nd, ll, L, i) ==
  /\ Linked(nd, ll, L.preds[i], i) /\ nd[L.preds[i]].key < L.key
  /\ Linked(nd, ll, L.succs[i], i) /\ L.key <= nd[L.succs[i]].key

\* The search has passed the levels from h on.
Found(nd, ll, L, h) ==
  /\ \A i \in h .. MAX_LEVEL : Neighbours(nd, ll, L, i)
  /\ IF L.flevel = -1 THEN \A i \in h .. MAX_LEVEL : nd[L.succs[i]].key # L.key
     ELSE /\ L.flevel \in h .. MAX_LEVEL /\ nd[L.succs[L.flevel]].key = L.key
          /\ L.isMarked => L.succs[L.flevel] = L.victim

\* A level whose predecessor is locked; which has been validated.
Locked(nd, t, L, i) == nd[L.preds[i]].lock = t
Target(L, i) == IF L.op = "erase" THEN L.victim ELSE L.succs[i]
Guarded(nd, t, L, i) ==
  Locked(nd, t, L, i) /\ ~nd[L.preds[i]].mark /\ nd[L.preds[i]].next[i] = Target(L, i)

\* The types of the locals.
LocalsOK(L) ==
  /\ DOMAIN L = Fields
  /\ L.op \in Operations \cup {"none"}
  /\ L.topLevel \in Levels /\ L.level \in Levels /\ L.isMarked \in BOOLEAN
  /\ L.flevel \in Levels \cup {-1}
  /\ DOMAIN L.preds = Levels /\ DOMAIN L.succs = Levels
  /\ L.pc # "idle" => L.key \in Keys

SearchOK(nd, ll, L) ==
  /\ L.pc \in {"c_next", "f_next"} =>
       Linked(nd, ll, L.pred, L.level) /\ nd[L.pred].key < L.key
  /\ L.pc \in {"c_test", "i_wait", "i_found"} \/ (L.pc = "swap" /\ L.op = "insertIfAbsent") =>
       L.curr \in DOMAIN nd /\ nd[L.curr].key = L.key
  /\ L.pc = "f_next" => Found(nd, ll, L, L.level + 1)
  /\ L.pc \in {"i_test", "e_test", "e_lock", "lock", "valid", "i_create", "i_link", "i_full", "i_leave",
               "e_unlink", "e_leave"} => Found(nd, ll, L, 0)
  /\ L.pc = "swap" /\ L.op = "erase" => Found(nd, ll, L, 0)
  /\ L.pc \in {"i_test", "e_test", "e_lock"} \/ (L.pc = "swap" /\ L.op = "erase") => L.level = 0

\* The places between the first lock of an update and the last.
LockPlaces == {"lock", "valid", "i_create", "i_link", "i_full", "i_leave", "e_unlink", "e_leave"}

UpdateOK(nd, t, L) ==
  /\ L.pc \in LockPlaces => /\ L.level <= L.topLevel
                            /\ IF L.op = "erase" THEN L.isMarked ELSE L.flevel = -1
  /\ L.pc = "lock" => \A i \in 0 .. L.level - 1 : Guarded(nd, t, L, i)
  /\ L.pc = "valid" => /\ \A i \in 0 .. L.level - 1 : Guarded(nd, t, L, i)
                       /\ Locked(nd, t, L, L.level)
  /\ L.pc \in {"i_create", "i_link", "i_full", "i_leave", "e_unlink", "e_leave"} =>
       \A i \in 0 .. L.topLevel : Locked(nd, t, L, i)
  /\ L.pc = "i_create" => \A i \in 0 .. L.topLevel : Guarded(nd, t, L, i)
  /\ L.pc = "i_link" => \A i \in L.level .. L.topLevel : Guarded(nd, t, L, i)
  /\ L.pc \in {"i_full", "i_leave", "e_leave", "i_create"} => L.level = L.topLevel
  /\ L.pc = "e_unlink" => \A i \in 0 .. L.level : Guarded(nd, t, L, i)
  /\ L.pc \in {"i_max", "i_test", "i_create", "i_link", "i_full", "i_leave", "i_wait", "i_found"} =>
       L.op = "insertIfAbsent"
  /\ L.pc \in {"e_test", "e_lock", "e_unlink", "e_leave"} => L.op = "erase"
  /\ L.pc \in LockPlaces \cup {"find", "f_next"} => L.op \in {"insertIfAbsent", "erase"}
  /\ L.pc \in {"i_link", "i_full"} =>
       /\ L.curr \in DOMAIN nd \ {head, tail} /\ nd[L.curr].key = L.key
       /\ nd[L.curr].topLevel = L.topLevel
  /\ L.pc = "i_link" => \A i \in L.level .. L.topLevel : nd[L.curr].next[i] = L.succs[i]

EraseOK(nd, ll, t, L) ==
  /\ L.pc = "e_lock" \/ L.isMarked =>
       /\ L.victim \in DOMAIN nd \ {head, tail} /\ nd[L.victim].key = L.key
       /\ nd[L.victim].topLevel = L.topLevel /\ Linked(nd, ll, L.victim, L.topLevel)
  /\ L.pc = "e_lock" => ~L.isMarked /\ L.flevel # -1 /\ L.succs[L.flevel] = L.victim
  /\ L.isMarked => /\ nd[L.victim].mark /\ nd[L.victim].lock = t /\ L.op = "erase"
                   /\ L.pc \in {"find", "f_next", "e_test", "lock", "valid", "e_unlink", "e_leave"}

CallOK(nd, ll, t, L) ==
  LocalsOK(L) /\ SearchOK(nd, ll, L) /\ UpdateOK(nd, t, L) /\ EraseOK(nd, ll, t, L)

\* The locks a thread may hold.
HeldNodes(L) ==
  (CASE L.pc = "lock" -> {L.preds[i] : i \in 0 .. L.level - 1}
     [] L.pc \in LockPlaces \ {"lock"} -> {L.preds[i] : i \in 0 .. (IF L.pc = "valid" THEN L.level ELSE L.topLevel)}
     [] OTHER -> {})
  \cup (IF L.isMarked THEN {L.victim} ELSE {})

-----------------------------------------------------------------------------
(* The inductive invariant *)

(***************************************************************************)
(* A removal that has marked its node may have to search for it again.     *)
(* The nodes it can meet then are in a set W of nodes with their levels:   *)
(* those on the lists, and those that were when the search was there.      *)
(* None of them but the victim has its key.                                *)
(***************************************************************************)
Within(nd, ll, L, W) ==
  /\ W \subseteq (DOMAIN nd) \X Levels
  /\ \A n \in DOMAIN nd, i \in Levels : On(nd, ll, n, i) => <<n, i>> \in W
  /\ \A n \in DOMAIN nd, i \in Levels : <<n, i>> \in W =>
       /\ n # tail /\ i <= nd[n].topLevel => <<nd[n].next[i], i>> \in W
       /\ i > 0 => <<n, i - 1>> \in W
       /\ nd[n].key = L.key => n = L.victim
  /\ L.pc = "f_next" => <<L.pred, L.level>> \in W

Again(L) == L.isMarked /\ L.pc \notin {"e_unlink", "e_leave"}
AgainInv == \A t \in Threads : Again(l[t]) => \E W : Within(node, l, l[t], W)

ClientInv ==
  /\ plan \in [Threads -> Seq(SUBSET (Operations \X Keys))]
  /\ realMaxLvl \in Levels
  /\ DOMAIN l = Threads
  /\ list = "lazy" => \A t \in Threads : ~l[t].isMarked

LockInv == \A t \in Threads, n \in Nodes : node[n].lock = t => n \in HeldNodes(l[t])

\* Insertions have different nodes, and a node that is not fully linked has its insertion.
MakersInv ==
  /\ \A t, s \in Threads : l[t].pc = "i_link" /\ l[s].pc = "i_link" /\ l[t].curr = l[s].curr => t = s
  /\ \A n \in Nodes \ {head, tail} : ~node[n].fullyLinked =>
       \E t \in Threads : l[t].pc \in {"i_link", "i_full"} /\ l[t].curr = n

CallsInv == \A t \in Threads : CallOK(node, l, t, l[t])

Inv == ClientInv /\ NodesOK(node, l) /\ Lists(node, l) /\ CallsInv /\ LockInv /\ MakersInv /\ AgainInv

-----------------------------------------------------------------------------
(* The count of the client *)

Makes(L) == L.pc \in {"i_link", "i_full"}

\* An insertion that has made or revived a node; a removal that has taken effect.
Adds(L) == L.pc \in {"i_link", "i_full", "i_leave"} \/ (L.pc = "swapped" /\ L.op = "insertIfAbsent")
Takes(L) == L.isMarked \/ (L.pc = "swapped" /\ L.op = "erase")

\* A node has one insertion at most, and none from the instant it is fully linked.
FreshInv ==
  /\ \A t, s \in Threads : Makes(l[t]) /\ Makes(l[s]) /\ l[t].curr = l[s].curr => t = s
  /\ \A t \in Threads : Makes(l[t]) => ~node[l[t].curr].fullyLinked

\* What a call knows of values; nd are the nodes.  A search without locks counts nothing.
ValueOK(nd, L) ==
  /\ L.pc \in {"c_level", "c_next", "c_test"} => L.op \notin {"insertIfAbsent", "erase"}
  /\ list = "locks" =>
       /\ L.pc \in {"f_next", "i_test"} /\ L.flevel # -1 => L.v # NoValue
       /\ L.pc \in {"i_wait", "i_found"} => L.v # NoValue
  /\ list = "lazy" /\ L.pc \in {"swap", "swapped"} =>
       /\ L.op \in {"insertIfAbsent", "erase"}
       /\ L.op = "erase" => L.victim \in DOMAIN nd \ {head, tail} /\ L.v # NoValue
       /\ L.op # "erase" => L.curr \in DOMAIN nd \ {head, tail}

\* One list takes no value away, the other marks no node.
ValueInv ==
  /\ list \in {"locks", "lazy"}
  /\ list = "locks" => \A n \in Nodes \ {head, tail} : node[n].value # NoValue
  /\ list = "lazy" => \A n \in Nodes : ~node[n].mark
  /\ \A t \in Threads : ValueOK(node, l[t])

\* The nodes that hold a key, and the calls that the client has not counted yet.
Present == {n \in Nodes \ {head, tail} : ~node[n].mark /\ node[n].value # NoValue}
Adding == {t \in Threads : Adds(l[t])}
Taking == {t \in Threads : Takes(l[t])}

CountInv ==
  /\ IsFiniteSet(Adding) /\ IsFiniteSet(Taking)
  /\ skipListSize \in Int
  /\ Cardinality(Present) = skipListSize + Cardinality(Adding) - Cardinality(Taking)

SizeInv == FreshInv /\ ValueInv /\ CountInv

-----------------------------------------------------------------------------
(* Both lists have the actions of SkipList *)

USE ThreadsAssumption, RangeAssumption DEF Levels, NULL, head, tail, NoValue, Nobody, Nodes

\* The actions that SkipListLocks takes over are those of SkipList.
LEMMA LocksActions ==
  ASSUME NEW t \in Threads
  PROVE  /\ Locks!Search(t) => Search(t)
         /\ Locks!Insert(t) => Insert(t)
         /\ Locks!Invoke(t) => Invoke(t)
         /\ Locks!Joined => UNCHANGED vars
<1> USE DEF Locks!Levels, Locks!NULL, Locks!head, Locks!tail, Locks!NoValue, Locks!Nobody
<1>1. Locks!SearchFrom(t) => SearchFrom(t)
  BY DEF
    Locks!SearchFrom, SearchFrom, Locks!At, At, Locks!Local, Local, Locks!Do, Do, Locks!client, client
<1>2. Locks!SearchNext(t) => SearchNext(t)
  BY Zenon DEF
    Locks!SearchNext, SearchNext, Locks!At, At, Locks!Local, Local, Locks!Do, Do, Locks!client, client,
    Locks!Return, Return, Locks!Locals, Locals, Locks!D!Answered, D!Answered
<1>3. Locks!SearchTest(t) => SearchTest(t)
  BY DEF
    Locks!SearchTest, SearchTest, Locks!At, At, Locks!Return, Return, Locks!Locals, Locals,
    Locks!D!Answered, D!Answered
<1>4. Locks!FindStart(t) => FindStart(t)
  BY DEF
    Locks!FindStart, FindStart, Locks!At, At, Locks!Find, Find, Locks!Local, Local, Locks!Do, Do,
    Locks!client, client
<1>5. Locks!FindNext(t) => FindNext(t)
  BY Zenon DEF
    Locks!FindNext, FindNext, Locks!At, At, Locks!Local, Local, Locks!Do, Do, Locks!client, client
<1>6. Locks!RaiseMax(t) => RaiseMax(t)
  BY DEF
    Locks!RaiseMax, RaiseMax, Locks!At, At, Locks!client, client
<1>7. Locks!InsertTest(t) => InsertTest(t)
  BY Zenon DEF
    Locks!InsertTest, InsertTest, Locks!At, At, Locks!Goto, Goto, Locks!Local, Local, Locks!Do, Do,
    Locks!client, client
<1>8. Locks!WaitLinked(t) => WaitLinked(t)
  BY DEF
    Locks!WaitLinked, WaitLinked, Locks!At, At, Locks!Goto, Goto, Locks!Local, Local, Locks!Do, Do,
    Locks!client, client
<1>9. Locks!LockPred(t) => LockPred(t)
  BY DEF
    Locks!LockPred, LockPred, Locks!At, At, Locks!NewLock, NewLock, Locks!Free, Free, Locks!Do, Do,
    Locks!Goto, Goto, Locks!Local, Local, Locks!client, client
<1>10. Locks!Validate(t) => Validate(t)
  BY Zenon DEF
    Locks!Validate, Validate, Locks!At, At, Locks!Valid, Valid, Locks!Links, Links, Locks!Do, Do,
    Locks!Unlocked, Unlocked, Locks!Local, Local, Locks!Goto, Goto, Locks!client, client
<1>11. Locks!InsertCreate(t) => InsertCreate(t)
  <2>1. \A h, k, v : Locks!createNode(h, k, v) = createNode(h, k, v)
    BY DEF Locks!createNode, createNode
  <2>2. \A S : Locks!Cardinality(S) = Cardinality(S)
    BY Zenon DEF Locks!Cardinality, Cardinality
  <2>3. \A nodes, h, k, v, succs : Locks!Created(nodes, h, k, v, succs) = Created(nodes, h, k, v, succs)
    BY <2>1, <2>2 DEF Locks!Created, Created
  <2> QED
    BY <2>3, <2>2 DEF Locks!InsertCreate, InsertCreate, Locks!At, At, Locks!Do, Do, Locks!client, client
<1>12. Locks!InsertLink(t) => InsertLink(t)
  BY Zenon DEF
    Locks!InsertLink, InsertLink, Locks!At, At, Locks!Do, Do, Locks!client, client
<1>13. Locks!InsertFull(t) => InsertFull(t)
  BY DEF
    Locks!InsertFull, InsertFull, Locks!At, At, Locks!D!Witnessed, D!Witnessed, Locks!D!Outside,
    D!Outside
<1>14. Locks!InsertLeave(t) => InsertLeave(t)
  BY DEF
    Locks!InsertLeave, InsertLeave, Locks!At, At, Locks!Unlocked, Unlocked, Locks!Return, Return,
    Locks!Locals, Locals, Locks!D!Answered, D!Answered
<1>15. Locks!Invoke(t) => Invoke(t)
  BY DEF
    Locks!Invoke, Invoke, Locks!At, At, Locks!Locals, Locals, Locks!D!Call, D!Call, Locks!dict, dict,
    Locks!Live, Live
<1>16. Locks!Joined => UNCHANGED vars
  BY DEF Locks!Joined, Locks!vars, vars
<1>17. Locks!Search(t) => Search(t)
  BY <1>1, <1>2, <1>3, <1>4, <1>5 DEF Locks!Search, Search
<1>18. Locks!Insert(t) => Insert(t)
  BY <1>6, <1>7, <1>8, <1>9, <1>10, <1>11, <1>12, <1>13, <1>14 DEF Locks!Insert, Insert
<1> QED
  BY <1>15, <1>16, <1>17, <1>18

\* The actions that SkipListLazy takes over are those of SkipList.
LEMMA LazyActions ==
  ASSUME NEW t \in Threads
  PROVE  /\ Lazy!Search(t) => Search(t)
         /\ Lazy!Insert(t) => Insert(t)
         /\ Lazy!Invoke(t) => Invoke(t)
         /\ Lazy!Joined => UNCHANGED vars
<1> USE DEF Lazy!Levels, Lazy!NULL, Lazy!head, Lazy!tail, Lazy!NoValue, Lazy!Nobody
<1>1. Lazy!SearchFrom(t) => SearchFrom(t)
  BY DEF
    Lazy!SearchFrom, SearchFrom, Lazy!At, At, Lazy!Local, Local, Lazy!Do, Do, Lazy!client, client
<1>2. Lazy!SearchNext(t) => SearchNext(t)
  BY DEF
    Lazy!SearchNext, SearchNext, Lazy!At, At, Lazy!Local, Local, Lazy!Do, Do, Lazy!client, client,
    Lazy!Return, Return, Lazy!Locals, Locals, Lazy!D!Answered, D!Answered
<1>3. Lazy!SearchTest(t) => SearchTest(t)
  BY DEF
    Lazy!SearchTest, SearchTest, Lazy!At, At, Lazy!Return, Return, Lazy!Locals, Locals,
    Lazy!D!Answered, D!Answered
<1>4. Lazy!FindStart(t) => FindStart(t)
  BY DEF
    Lazy!FindStart, FindStart, Lazy!At, At, Lazy!Find, Find, Lazy!Local, Local, Lazy!Do, Do,
    Lazy!client, client
<1>5. Lazy!FindNext(t) => FindNext(t)
  BY DEF
    Lazy!FindNext, FindNext, Lazy!At, At, Lazy!Local, Local, Lazy!Do, Do, Lazy!client, client
<1>6. Lazy!RaiseMax(t) => RaiseMax(t)
  BY DEF
    Lazy!RaiseMax, RaiseMax, Lazy!At, At, Lazy!client, client
<1>7. Lazy!InsertTest(t) => InsertTest(t)
  BY DEF
    Lazy!InsertTest, InsertTest, Lazy!At, At, Lazy!Goto, Goto, Lazy!Local, Local, Lazy!Do, Do,
    Lazy!client, client
<1>8. Lazy!WaitLinked(t) => WaitLinked(t)
  BY DEF
    Lazy!WaitLinked, WaitLinked, Lazy!At, At, Lazy!Goto, Goto, Lazy!Local, Local, Lazy!Do, Do,
    Lazy!client, client
<1>9. Lazy!LockPred(t) => LockPred(t)
  BY DEF
    Lazy!LockPred, LockPred, Lazy!At, At, Lazy!NewLock, NewLock, Lazy!Free, Free, Lazy!Do, Do,
    Lazy!Goto, Goto, Lazy!Local, Local, Lazy!client, client
<1>10. Lazy!Validate(t) => Validate(t)
  BY DEF
    Lazy!Validate, Validate, Lazy!At, At, Lazy!Valid, Valid, Lazy!Links, Links, Lazy!Do, Do,
    Lazy!Unlocked, Unlocked, Lazy!Local, Local, Lazy!Goto, Goto, Lazy!client, client
<1>11. Lazy!InsertCreate(t) => InsertCreate(t)
  <2>1. \A h, k, v : Lazy!createNode(h, k, v) = createNode(h, k, v)
    BY DEF Lazy!createNode, createNode
  <2>2. \A S : Lazy!Cardinality(S) = Cardinality(S)
    BY Zenon DEF Lazy!Cardinality, Cardinality
  <2>3. \A nodes, h, k, v, succs : Lazy!Created(nodes, h, k, v, succs) = Created(nodes, h, k, v, succs)
    BY <2>1, <2>2 DEF Lazy!Created, Created
  <2> QED
    BY <2>3, <2>2 DEF Lazy!InsertCreate, InsertCreate, Lazy!At, At, Lazy!Do, Do, Lazy!client, client
<1>12. Lazy!InsertLink(t) => InsertLink(t)
  BY DEF
    Lazy!InsertLink, InsertLink, Lazy!At, At, Lazy!Do, Do, Lazy!client, client
<1>13. Lazy!InsertFull(t) => InsertFull(t)
  BY DEF
    Lazy!InsertFull, InsertFull, Lazy!At, At, Lazy!D!Witnessed, D!Witnessed, Lazy!D!Outside, D!Outside
<1>14. Lazy!InsertLeave(t) => InsertLeave(t)
  BY DEF
    Lazy!InsertLeave, InsertLeave, Lazy!At, At, Lazy!Unlocked, Unlocked, Lazy!Return, Return,
    Lazy!Locals, Locals, Lazy!D!Answered, D!Answered
<1>15. Lazy!Invoke(t) => Invoke(t)
  BY DEF
    Lazy!Invoke, Invoke, Lazy!At, At, Lazy!Locals, Locals, Lazy!D!Call, D!Call, Lazy!dict, dict,
    Lazy!Live, Live
<1>16. Lazy!Joined => UNCHANGED vars
  BY DEF Lazy!Joined, Lazy!vars, vars
<1>17. Lazy!Search(t) => Search(t)
  BY <1>1, <1>2, <1>3, <1>4, <1>5 DEF Lazy!Search, Search
<1>18. Lazy!Insert(t) => Insert(t)
  BY <1>6, <1>7, <1>8, <1>9, <1>10, <1>11, <1>12, <1>13, <1>14 DEF Lazy!Insert, Insert
<1> QED
  BY <1>15, <1>16, <1>17, <1>18

-----------------------------------------------------------------------------
(* What other threads' steps leave alone *)

\* What a call with locals L of thread s relies on is kept.
Keeps(nd, ll, nd2, ll2, s, L) ==
  /\ DOMAIN nd \subseteq DOMAIN nd2
  /\ \A n \in DOMAIN nd : nd2[n].key = nd[n].key /\ nd2[n].topLevel = nd[n].topLevel
  /\ \A n \in DOMAIN nd, i \in Levels : Linked(nd, ll, n, i) => Linked(nd2, ll2, n, i)
  /\ \A n \in DOMAIN nd : nd[n].lock = s =>
       nd2[n].lock = s /\ nd2[n].mark = nd[n].mark /\ nd2[n].next = nd[n].next
  /\ L.pc = "i_link" => \A i \in L.level .. L.topLevel : nd2[L.curr].next[i] = nd[L.curr].next[i]

\* The levels of a node are levels of the list.
LEMMA LinkedLevel ==
  ASSUME NEW nd, NEW ll, NEW n, NEW i, \A x \in DOMAIN nd : nd[x].topLevel \in Levels, Linked(nd, ll, n, i)
  PROVE  n \in DOMAIN nd /\ i \in Levels
  BY DEF Linked

\* What find() has noted of the levels above h stays right while the nodes it noted keep what Keeps says.
LEMMA FoundKeeps ==
  ASSUME NEW nd, NEW ll, NEW nd2, NEW ll2, NEW s, NEW L, NEW h \in Nat,
         \A x \in DOMAIN nd : nd[x].topLevel \in Levels,
         LocalsOK(L), Found(nd, ll, L, h), Keeps(nd, ll, nd2, ll2, s, L)
  PROVE  Found(nd2, ll2, L, h)
<1>1. ASSUME NEW i \in h .. MAX_LEVEL
      PROVE  /\ Neighbours(nd2, ll2, L, i) /\ L.succs[i] \in DOMAIN nd /\ L.preds[i] \in DOMAIN nd
             /\ nd2[L.succs[i]].key = nd[L.succs[i]].key
  <2>1. Neighbours(nd, ll, L, i)
    BY DEF Found
  <2>2. L.succs[i] \in DOMAIN nd /\ L.preds[i] \in DOMAIN nd /\ i \in Levels
    BY <2>1, LinkedLevel DEF Neighbours
  <2> QED
    BY <2>1, <2>2 DEF Neighbours, Keeps
<1>2. CASE L.flevel = -1
  BY <1>1, <1>2 DEF Found
<1>3. CASE L.flevel # -1
  <2>1. L.flevel \in h .. MAX_LEVEL
    BY <1>3 DEF Found
  <2> QED
    BY <1>1, <1>3, <2>1 DEF Found
<1> QED
  BY <1>2, <1>3

\* What is said of a search stays right when Keeps holds between two states.
LEMMA SearchKeeps ==
  ASSUME NEW nd, NEW ll, NEW nd2, NEW ll2, NEW s, NEW L,
         \A x \in DOMAIN nd : nd[x].topLevel \in Levels,
         LocalsOK(L), SearchOK(nd, ll, L), Keeps(nd, ll, nd2, ll2, s, L)
  PROVE  SearchOK(nd2, ll2, L)
<1>1. L.level \in Levels /\ L.level + 1 \in Nat
  BY DEF LocalsOK
<1>2. ASSUME L.pc \in {"c_next", "f_next"} PROVE Linked(nd2, ll2, L.pred, L.level) /\ nd2[L.pred].key < L.key
  BY <1>1, <1>2, LinkedLevel DEF SearchOK, Keeps
<1>3. ASSUME L.pc = "f_next" PROVE Found(nd2, ll2, L, L.level + 1)
  BY <1>1, <1>3, FoundKeeps DEF SearchOK
<1>4. ASSUME Found(nd, ll, L, 0) PROVE Found(nd2, ll2, L, 0)
  BY <1>4, FoundKeeps
<1>5. ASSUME L.curr \in DOMAIN nd /\ nd[L.curr].key = L.key PROVE L.curr \in DOMAIN nd2 /\ nd2[L.curr].key = L.key
  BY <1>5 DEF Keeps
<1> QED
  BY <1>2, <1>3, <1>4, <1>5 DEF SearchOK

\* The levels an update has locked are levels it has found.
LEMMA FoundAt ==
  ASSUME NEW nd, NEW ll, NEW L, \A x \in DOMAIN nd : nd[x].topLevel \in Levels, SearchOK(nd, ll, L),
         L.pc \in LockPlaces \cup {"i_test", "e_test", "e_lock"}, NEW i \in Levels
  PROVE  /\ Neighbours(nd, ll, L, i) /\ L.preds[i] \in DOMAIN nd /\ L.succs[i] \in DOMAIN nd
         /\ nd[L.preds[i]].key < L.key
<1>1. Found(nd, ll, L, 0)
  BY DEF SearchOK, LockPlaces
<1>2. Neighbours(nd, ll, L, i)
  BY <1>1 DEF Found
<1> QED
  BY <1>2, LinkedLevel DEF Neighbours

\* What is said of a call that locks and validates its nodes stays right when Keeps holds between two states.
LEMMA UpdateKeeps ==
  ASSUME NEW nd, NEW ll, NEW nd2, NEW ll2, NEW s, NEW L,
         \A x \in DOMAIN nd : nd[x].topLevel \in Levels,
         LocalsOK(L), SearchOK(nd, ll, L), UpdateOK(nd, s, L), Keeps(nd, ll, nd2, ll2, s, L)
  PROVE  UpdateOK(nd2, s, L)
<1> DEFINE P(i) == L.preds[i] \in DOMAIN nd
<1>1. L.level \in Levels /\ L.topLevel \in Levels
  BY DEF LocalsOK
<1>2. ASSUME L.pc \in LockPlaces, NEW i \in Levels PROVE P(i)
  BY <1>2, FoundAt
<1>3. ASSUME NEW i \in Levels, P(i), Locked(nd, s, L, i) PROVE Locked(nd2, s, L, i)
  BY <1>3 DEF Locked, Keeps
<1>4. ASSUME NEW i \in Levels, P(i), Guarded(nd, s, L, i) PROVE Guarded(nd2, s, L, i)
  BY <1>4 DEF Locked, Guarded, Keeps
<1> HIDE DEF P
<1>5. ASSUME L.pc = "lock", NEW i \in 0 .. L.level - 1 PROVE Guarded(nd2, s, L, i)
  BY <1>1, <1>2, <1>4, <1>5 DEF UpdateOK, LockPlaces
<1>6. ASSUME L.pc = "valid" PROVE (\A i \in 0 .. L.level - 1 : Guarded(nd2, s, L, i)) /\ Locked(nd2, s, L, L.level)
  BY <1>1, <1>2, <1>3, <1>4, <1>6 DEF UpdateOK, LockPlaces
<1>7. ASSUME L.pc \in {"i_create", "i_link", "i_full", "i_leave", "e_unlink", "e_leave"}, NEW i \in 0 .. L.topLevel
      PROVE  Locked(nd2, s, L, i)
  BY <1>1, <1>2, <1>3, <1>7 DEF UpdateOK, LockPlaces
<1>8. ASSUME L.pc = "i_create", NEW i \in 0 .. L.topLevel PROVE Guarded(nd2, s, L, i)
  BY <1>1, <1>2, <1>4, <1>8 DEF UpdateOK, LockPlaces
<1>9. ASSUME L.pc = "i_link", NEW i \in L.level .. L.topLevel PROVE Guarded(nd2, s, L, i)
  BY <1>1, <1>2, <1>4, <1>9 DEF UpdateOK, LockPlaces
<1>10. ASSUME L.pc = "e_unlink", NEW i \in 0 .. L.level PROVE Guarded(nd2, s, L, i)
  BY <1>1, <1>2, <1>4, <1>10 DEF UpdateOK, LockPlaces
<1>11. ASSUME L.pc \in {"i_link", "i_full"}
       PROVE  /\ L.curr \in DOMAIN nd2 \ {head, tail} /\ nd2[L.curr].key = L.key
              /\ nd2[L.curr].topLevel = L.topLevel
  BY <1>11 DEF UpdateOK, Keeps
<1>12. ASSUME L.pc = "i_link", NEW i \in L.level .. L.topLevel PROVE nd2[L.curr].next[i] = L.succs[i]
  BY <1>12 DEF UpdateOK, Keeps
<1> QED
  BY <1>5, <1>6, <1>7, <1>8, <1>9, <1>10, <1>11, <1>12 DEF UpdateOK

\* A call is not disturbed by a step that keeps what it relies on.
LEMMA CallKeeps ==
  ASSUME NEW nd, NEW ll, NEW nd2, NEW ll2, NEW s, NEW L,
         \A x \in DOMAIN nd : nd[x].topLevel \in Levels,
         CallOK(nd, ll, s, L), Keeps(nd, ll, nd2, ll2, s, L)
  PROVE  CallOK(nd2, ll2, s, L)
<1>1. SearchOK(nd2, ll2, L) /\ UpdateOK(nd2, s, L)
  BY SearchKeeps, UpdateKeeps DEF CallOK
<1>2. EraseOK(nd2, ll2, s, L)
  BY LinkedLevel DEF CallOK, EraseOK, Keeps
<1> QED
  BY <1>1, <1>2 DEF CallOK

-----------------------------------------------------------------------------
(* Steps that leave the lists as they are *)

Alike(nd, ll, nd2, ll2) ==
  /\ DOMAIN nd2 = DOMAIN nd
  /\ \A n \in DOMAIN nd :
       nd2[n].key = nd[n].key /\ nd2[n].topLevel = nd[n].topLevel /\ nd2[n].next = nd[n].next
  /\ \A n \in DOMAIN nd, i \in Levels :
       /\ Linked(nd2, ll2, n, i) <=> Linked(nd, ll, n, i)
       /\ On(nd2, ll2, n, i) <=> On(nd, ll, n, i)

\* The lists are in order in a state that is Alike to one in which they are.
LEMMA AlikeLists ==
  ASSUME NEW nd, NEW ll, NEW nd2, NEW ll2, Lists(nd, ll), Alike(nd, ll, nd2, ll2),
         \A n \in DOMAIN nd : nd[n].topLevel \in Levels
  PROVE  Lists(nd2, ll2)
<1>1. ASSUME NEW i \in Levels, NEW n \in DOMAIN nd2 \ {tail}, On(nd2, ll2, n, i)
      PROVE  Follows(nd2, ll2, n, nd2[n].next[i], i)
  <2>1. n \in DOMAIN nd \ {tail} /\ On(nd, ll, n, i) /\ nd2[n].next[i] = nd[n].next[i]
    BY <1>1 DEF Alike
  <2> DEFINE m == nd[n].next[i]
  <2>2. Follows(nd, ll, n, m, i)
    BY <2>1 DEF Lists
  <2> HIDE DEF m
  <2>3. m \in DOMAIN nd
    BY <2>2 DEF Follows, On, Linked
  <2>4. Follows(nd2, ll2, n, m, i)
    BY <2>1, <2>2, <2>3 DEF Follows, Alike
  <2> QED
    BY <2>1, <2>4 DEF m
<1>2. ASSUME NEW n \in DOMAIN nd2, NEW m \in DOMAIN nd2, On(nd2, ll2, n, 0), On(nd2, ll2, m, 0), nd2[n].key = nd2[m].key
      PROVE  n = m
  BY <1>2 DEF Alike, Lists
<1> QED
  BY <1>1, <1>2 DEF Lists

\* A search stays within the same nodes in a state that is Alike, wherever it goes on in them.
LEMMA AlikeWithin ==
  ASSUME NEW nd, NEW ll, NEW nd2, NEW ll2, NEW L, NEW M, NEW W, Within(nd, ll, L, W), Alike(nd, ll, nd2, ll2),
         M.key = L.key, M.victim = L.victim, M.pc = "f_next" => <<M.pred, M.level>> \in W
  PROVE  Within(nd2, ll2, M, W)
  BY DEF Within, Alike

\* A step that changes marks, links or locks of nodes only keeps what is said of each node.
LEMMA AlikeNodes ==
  ASSUME NEW nd, NEW ll, NEW nd2, NEW ll2, NodesOK(nd, ll), Alike(nd, ll, nd2, ll2),
         \A n \in DOMAIN nd : AttrsOK(nd2, n) /\ (nd2[n].mark => Linked(nd2, ll2, n, nd[n].topLevel)),
         ~nd2[head].mark, ~nd2[tail].mark
  PROVE  NodesOK(nd2, ll2)
<1>1. head \in DOMAIN nd /\ tail \in DOMAIN nd
  BY DEF NodesOK
<1>2. ASSUME NEW n \in {head, tail}, NEW i \in Levels PROVE ~NotYet(ll2, n, i)
  <2>1. Linked(nd, ll, n, i)
    BY <1>1 DEF NodesOK, Linked
  <2> QED
    BY <1>1, <2>1 DEF Alike, Linked
<1>3. ASSUME NEW n \in DOMAIN nd2 \ {tail} PROVE NextOK(nd2, ll2, n)
  <2>1. NextOK(nd, ll, n) /\ n \in DOMAIN nd
    BY DEF NodesOK, NodeOK, Alike
  <2> SUFFICES ASSUME NEW i \in 0 .. nd2[n].topLevel
               PROVE  Linked(nd2, ll2, nd2[n].next[i], i) /\ nd2[n].key < nd2[nd2[n].next[i]].key
    BY DEF NextOK
  <2>2. nd2[n].next = nd[n].next /\ nd2[n].topLevel = nd[n].topLevel /\ nd2[n].key = nd[n].key
    BY <2>1 DEF Alike
  <2> DEFINE m == nd[n].next[i]
  <2>3. Linked(nd, ll, m, i) /\ nd[n].key < nd[m].key
    BY <2>1, <2>2 DEF NextOK
  <2> HIDE DEF m
  <2>4. m \in DOMAIN nd /\ i \in Levels
    BY <2>3, LinkedLevel DEF NodesOK, NodeOK, AttrsOK
  <2> QED
    BY <2>1, <2>2, <2>3, <2>4 DEF Alike, m
<1>4. ASSUME NEW n \in DOMAIN nd2 PROVE NodeOK(nd2, ll2, n)
  BY <1>3 DEF NodeOK, Alike
<1>5. /\ \E k \in Nat : k > 1 /\ DOMAIN nd2 = 0 .. k - 1
      /\ nd2[head].key = minKey - 1 /\ nd2[tail].key = maxKey + 1
      /\ \A n \in DOMAIN nd2 \ {head, tail} : nd2[n].key \in Keys
  BY <1>1 DEF NodesOK, Alike
<1> QED
  BY <1>1, <1>2, <1>4, <1>5 DEF NodesOK, Alike

\* Nobody but t changes what t has locked, and t locks only what nobody else has.
Apart(nd, nd2, t) ==
  \A s \in Threads \ {t}, n \in DOMAIN nd :
    /\ nd[n].lock = s => nd2[n].lock = s /\ nd2[n].mark = nd[n].mark /\ nd2[n].next = nd[n].next
    /\ nd2[n].lock = s => nd[n].lock = s

\* The top level of every node is a level.
LEMMA Levelled ==
  ASSUME Inv
  PROVE  \A x \in Nodes : node[x].topLevel \in Levels
  BY DEF Inv, NodesOK, NodeOK, AttrsOK

\* A step of t that leaves the lists alone keeps the invariant if it keeps what is said about t.
LEMMA AlikeKeeps ==
  ASSUME Inv, NEW t \in Threads, NEW M, l' = [l EXCEPT ![t] = M], ClientInv', MakersInv',
         Alike(node, l, node', l'), Apart(node, node', t),
         \A n \in Nodes : AttrsOK(node', n) /\ (node'[n].mark => Linked(node', l', n, node[n].topLevel)),
         ~node'[head].mark, ~node'[tail].mark,
         CallOK(node', l', t, M),
         \A n \in Nodes : node'[n].lock = t => n \in HeldNodes(M),
         Again(M) => \E W : Within(node', l', M, W)
  PROVE  Inv'
<1>1. DOMAIN l = Threads /\ l'[t] = M /\ \A s \in Threads \ {t} : l'[s] = l[s]
  BY DEF Inv, ClientInv
<1>2. NodesOK(node', l') /\ Lists(node', l')
  BY AlikeNodes, AlikeLists, Levelled DEF Inv
<1>3. CallsInv'
  <2> SUFFICES ASSUME NEW s \in Threads \ {t} PROVE CallOK(node', l', s, l[s])
    BY <1>1 DEF CallsInv
  <2>1. CallOK(node, l, s, l[s])
    BY DEF Inv, CallsInv
  <2>2. Keeps(node, l, node', l', s, l[s])
    BY <2>1, ZenonT(40) DEF Keeps, Alike, Apart, CallOK, UpdateOK
  <2> QED
    BY <2>1, <2>2, CallKeeps, Levelled
<1>4. LockInv'
  <2> SUFFICES ASSUME NEW s \in Threads, NEW n \in DOMAIN node', node'[n].lock = s PROVE n \in HeldNodes(l'[s])
    BY DEF LockInv
  <2>1. n \in Nodes
    BY DEF Alike
  <2> QED
    BY <1>1, <2>1 DEF Apart, Inv, LockInv
<1>5. AgainInv'
  <2> SUFFICES ASSUME NEW s \in Threads \ {t}, Again(l[s]) PROVE \E W : Within(node', l', l[s], W)
    BY <1>1 DEF AgainInv
  <2>1. PICK W : Within(node, l, l[s], W)
    BY DEF Inv, AgainInv
  <2>2. Within(node', l', l[s], W)
    <3>1. l[s].pc = "f_next" => <<l[s].pred, l[s].level>> \in W
      BY <2>1 DEF Within
    <3> QED
      BY <2>1, <3>1, AlikeWithin
  <2> QED
    BY <2>2
<1> QED
  BY <1>2, <1>3, <1>4, <1>5 DEF Inv

\* A step of t that changes nothing but its locals, and neither links, nor unlinks, nor ends.
LEMMA LocalKeeps ==
  ASSUME Inv, NEW t \in Threads, NEW M, node' = node, l' = [l EXCEPT ![t] = M], ClientInv',
         l[t].pc \notin {"i_link", "i_full"}, M.pc \notin {"i_link", "i_full"},
         M.isMarked = l[t].isMarked,
         M.isMarked => M.victim = l[t].victim /\ M.key = l[t].key /\ Again(l[t]) /\ Again(M),
         CallOK(node, l, t, M), HeldNodes(l[t]) \subseteq HeldNodes(M),
         \A W : Again(M) /\ M.pc = "f_next" /\ Within(node, l, l[t], W) => <<M.pred, M.level>> \in W
  PROVE  Inv'
<1>1. DOMAIN l = Threads /\ l'[t] = M /\ \A s \in Threads \ {t} : l'[s] = l[s]
  BY DEF Inv, ClientInv
<1>2. \A n, i : NotYet(l', n, i) <=> NotYet(l, n, i)
  BY <1>1 DEF NotYet
<1>3. \A n, i : Erasing(l', n, i) <=> Erasing(l, n, i)
  BY <1>1 DEF Erasing, Erases, Again
<1>4. \A n, i : (Linked(node', l', n, i) <=> Linked(node, l, n, i)) /\ (On(node', l', n, i) <=> On(node, l, n, i))
  BY <1>2, <1>3 DEF Linked, On
<1>5. Alike(node, l, node', l')
  BY <1>4 DEF Alike
<1>6. Apart(node, node', t)
  BY DEF Apart
<1>7. \A n \in Nodes : AttrsOK(node', n) /\ (node'[n].mark => Linked(node', l', n, node[n].topLevel))
  BY <1>4 DEF Inv, NodesOK, NodeOK
<1>8. ~node'[head].mark /\ ~node'[tail].mark
  BY DEF Inv, NodesOK
<1>9. CallOK(node', l', t, M)
  <2>1. Keeps(node, l, node', l', t, M)
    BY <1>4 DEF Keeps
  <2> QED
    BY <2>1, CallKeeps, Levelled
<1>10. MakersInv'
  BY <1>1 DEF Inv, MakersInv
<1>11. \A n \in Nodes : node'[n].lock = t => n \in HeldNodes(M)
  BY DEF Inv, LockInv
<1>12. ASSUME Again(M) PROVE \E W : Within(node', l', M, W)
  <2>1. PICK W : Within(node, l, l[t], W)
    BY <1>12 DEF Inv, AgainInv, Again
  <2>2. Within(node', l', M, W)
    BY <1>5, <1>12, <2>1, AlikeWithin DEF Again
  <2> QED
    BY <2>2
<1> QED
  BY <1>5, <1>6, <1>7, <1>8, <1>9, <1>10, <1>11, <1>12, AlikeKeeps

\* A call that ends, or begins, holds no lock and has marked nothing.
LEMMA IdleKeeps ==
  ASSUME Inv, NEW t \in Threads, NEW M, node' = node, l' = [l EXCEPT ![t] = M], ClientInv',
         l[t].pc \notin LockPlaces, ~l[t].isMarked, ~M.isMarked,
         M.pc \notin {"f_next"} \cup LockPlaces, CallOK(node, l, t, M)
  PROVE  Inv'
<1>1. HeldNodes(l[t]) = {}
  BY DEF HeldNodes, LockPlaces
<1>2. ~Again(M)
  BY DEF Again
<1>3. M.isMarked = l[t].isMarked
  BY DEF CallOK, LocalsOK, Inv, CallsInv
<1> QED
  BY <1>1, <1>2, <1>3, LocalKeeps DEF LockPlaces

\* What is known about a call, by name.
LEMMA CallFacts ==
  ASSUME Inv, NEW t \in Threads
  PROVE  /\ LocalsOK(l[t]) /\ SearchOK(node, l, l[t]) /\ UpdateOK(node, t, l[t]) /\ EraseOK(node, l, t, l[t])
         /\ DOMAIN l = Threads /\ l[t].level \in Levels /\ l[t].topLevel \in Levels /\ l[t].isMarked \in BOOLEAN
         /\ l[t].flevel \in Levels \cup {-1} /\ (l[t].pc # "idle" => l[t].key \in Keys)
         /\ DOMAIN l[t] = Fields /\ DOMAIN l[t].preds = Levels /\ DOMAIN l[t].succs = Levels
  BY DEF Inv, CallsInv, CallOK, ClientInv, LocalsOK

\* Every key is an integer between minKey and maxKey.
LEMMA KeysInt == \A k \in Keys : k \in Int /\ minKey <= k /\ k <= maxKey
  OBVIOUS

\* Whatever a linked node of a smaller key points to is linked, and a node that can be read.
LEMMA NextLinked ==
  ASSUME Inv, NEW n, NEW i, Linked(node, l, n, i), NEW k \in Keys, node[n].key < k
  PROVE  LET c == node[n].next[i] IN
         /\ n \in Nodes \ {tail} /\ i \in Levels
         /\ Linked(node, l, c, i) /\ c \in Nodes \ {head} /\ node[n].key < node[c].key
         /\ node[n].key \in Int /\ node[c].key \in Int
<1>1. n \in Nodes /\ i \in Levels
  BY LinkedLevel, Levelled
<1>2. n # tail /\ k \in Int
  BY DEF Inv, NodesOK
<1>3. NextOK(node, l, n) /\ node[n].key \in Int
  BY <1>1, <1>2 DEF Inv, NodesOK, NodeOK, AttrsOK
<1> DEFINE c == node[n].next[i]
<1>4. Linked(node, l, c, i) /\ node[n].key < node[c].key
  BY <1>3 DEF NextOK, Linked
<1> HIDE DEF c
<1>5. c \in Nodes
  BY <1>4 DEF Linked
<1>6. node[c].key \in Int
  BY <1>5 DEF Inv, NodesOK, NodeOK, AttrsOK
<1>7. c # head
  <2>1. node[head].key = minKey - 1 /\ (n # head => node[n].key \in Keys)
    BY <1>1, <1>2 DEF Inv, NodesOK
  <2> QED
    BY <1>3, <1>4, <1>6, <2>1
<1> QED
  BY <1>1, <1>2, <1>3, <1>4, <1>5, <1>6, <1>7 DEF c

\* Nodes are linked from the bottom up, and unlinked from the top down.
LEMMA LinkedDown ==
  ASSUME Inv, NEW n, NEW i, NEW j \in 0 .. i
  PROVE  /\ Linked(node, l, n, i) => Linked(node, l, n, j)
         /\ On(node, l, n, i) => On(node, l, n, j)
<1>1. \A t \in Threads : l[t].level \in Int
  BY DEF Inv, CallsInv, CallOK, LocalsOK
<1>2. SUFFICES ASSUME Linked(node, l, n, i)
               PROVE  Linked(node, l, n, j) /\ (Erasing(l, n, i) => Erasing(l, n, j))
  BY DEF On
<1>3. i \in Int /\ node[n].topLevel \in Int
  BY <1>2, Levelled DEF Linked
<1> QED
  BY <1>1, <1>2, <1>3 DEF Linked, NotYet, Erasing, Erases

\* The head is on every level.
LEMMA HeadLinked ==
  ASSUME Inv
  PROVE  /\ head \in Nodes /\ ~node[head].mark /\ \A k \in Keys : node[head].key < k
         /\ \A i \in Levels : Linked(node, l, head, i)
<1>1. head \in Nodes /\ node[head].topLevel = MAX_LEVEL /\ \A i \in Levels : ~NotYet(l, head, i)
  BY DEF Inv, NodesOK
<1>2. ~node[head].mark /\ node[head].key = minKey - 1
  BY DEF Inv, NodesOK
<1> QED
  BY <1>1, <1>2, KeysInt DEF Linked

\* A local step.
LEMMA LocalStep ==
  ASSUME NEW t \in Threads, NEW M, Local(t, M)
  PROVE  node' = node /\ l' = [l EXCEPT ![t] = M] /\ UNCHANGED <<realMaxLvl, plan>>
  BY DEF Local, Do, client

-----------------------------------------------------------------------------
(* Calls and searches *)

\* A thread without a call satisfies whatever is said of calls.
LEMMA LocalsFacts ==
  /\ LocalsOK(Locals) /\ Locals.pc = "idle" /\ ~Locals.isMarked
  /\ \A nd, ll, t : CallOK(nd, ll, t, Locals)
<1>1. LocalsOK(Locals) /\ Locals.pc = "idle" /\ ~Locals.isMarked
  BY DEF LocalsOK, Locals, Fields
<1>2. ASSUME NEW nd, NEW ll, NEW t
      PROVE  SearchOK(nd, ll, Locals) /\ UpdateOK(nd, t, Locals) /\ EraseOK(nd, ll, t, Locals)
  BY <1>1 DEF SearchOK, UpdateOK, EraseOK, LockPlaces
<1> QED
  BY <1>1, <1>2 DEF CallOK

\* A call that changes nothing returns.
LEMMA ReturnKeeps ==
  ASSUME Inv, NEW t \in Threads, NEW r, node' = node, Return(t, r), UNCHANGED list,
         l[t].pc \notin LockPlaces, ~l[t].isMarked
  PROVE  Inv'
<1>1. l' = [l EXCEPT ![t] = Locals]
  BY DEF Return
<1>2. ClientInv'
  BY <1>1, LocalsFacts DEF Inv, ClientInv, Return
<1> QED
  BY <1>1, <1>2, LocalsFacts, IdleKeeps DEF LockPlaces

\* contains(), find(), insertIfAbsent() and erase() start without breaking the invariant.
LEMMA InvokeKeeps ==
  ASSUME Inv, NEW t \in Threads, Invoke(t), UNCHANGED list
  PROVE  Inv'
<1>1. plan[t] \in Seq(SUBSET (Operations \X Keys)) /\ plan[t] # <<>>
  BY DEF Invoke, Inv, ClientInv
<1>2. PICK c \in Head(plan[t]), top \in 0 .. MAX_LEVEL - 1 :
        l' = [l EXCEPT ![t] = [Locals EXCEPT !.op = c[1], !.key = c[2], !.topLevel = top,
                           !.pc = CASE c[1] = "insertIfAbsent" -> "i_max"
                                    [] c[1] = "erase" -> "find"
                                    [] OTHER -> "c_level"]]
  BY DEF Invoke
<1>3. c[1] \in Operations /\ c[2] \in Keys
  BY <1>1
<1> DEFINE pc == CASE c[1] = "insertIfAbsent" -> "i_max" [] c[1] = "erase" -> "find" [] OTHER -> "c_level"
           M == [Locals EXCEPT !.op = c[1], !.key = c[2], !.topLevel = top, !.pc = pc]
<1>4. pc \in {"i_max", "find", "c_level"} /\ (pc = "find" => c[1] = "erase") /\ (pc = "i_max" => c[1] = "insertIfAbsent")
  OBVIOUS
<1> HIDE DEF pc
<1>5. /\ M.op = c[1] /\ M.key = c[2] /\ M.topLevel = top /\ M.pc = pc /\ M.isMarked = FALSE
      /\ M.level = 0 /\ M.flevel = -1
  BY DEF Locals
<1>6. LocalsOK(M)
  BY <1>3, <1>5 DEF LocalsOK, Locals, Fields
<1>7. l' = [l EXCEPT ![t] = M]
  BY <1>2 DEF pc
<1> HIDE DEF M
<1>8. SearchOK(node, l, M) /\ UpdateOK(node, t, M) /\ EraseOK(node, l, t, M)
  BY <1>3, <1>4, <1>5 DEF SearchOK, UpdateOK, EraseOK, LockPlaces
<1>9. ClientInv'
  <2>1. plan' \in [Threads -> Seq(SUBSET (Operations \X Keys))]
    BY <1>1, SMTT(30) DEF Invoke, Inv, ClientInv
  <2> QED
    BY <1>5, <1>7, <2>1 DEF Invoke, Inv, ClientInv
<1> QED
  <2>1. ~l[t].isMarked /\ l[t].pc \notin LockPlaces
    BY CallFacts DEF EraseOK, Invoke, At, LockPlaces
  <2>2. node' = node
    BY DEF Invoke
  <2> QED
    BY <1>4, <1>5, <1>6, <1>7, <1>8, <1>9, <2>1, <2>2, IdleKeeps DEF CallOK, LockPlaces

\* A step on the locals of one thread keeps what is said of the client and of the marks made.
LEMMA LocalClient ==
  ASSUME Inv, NEW t \in Threads, NEW M, l' = [l EXCEPT ![t] = M], UNCHANGED <<plan, list>>,
         realMaxLvl' \in Levels, M.isMarked => l[t].isMarked
  PROVE  ClientInv'
  BY DEF Inv, ClientInv

\* contains() and find() take realMaxLvl to start their search from.
LEMMA SearchFromKeeps ==
  ASSUME Inv, NEW t \in Threads, SearchFrom(t), UNCHANGED list
  PROVE  Inv'
<1> DEFINE L == l[t]
           M == [L EXCEPT !.pc = "c_next", !.pred = head, !.level = realMaxLvl]
<1>1. node' = node /\ l' = [l EXCEPT ![t] = M] /\ UNCHANGED <<realMaxLvl, plan>> /\ L.pc = "c_level"
  BY DEF SearchFrom, Local, Do, client, At
<1>2. realMaxLvl \in Levels /\ LocalsOK(L) /\ ~L.isMarked
  BY <1>1, CallFacts DEF Inv, ClientInv, EraseOK
<1>3. /\ M.pc = "c_next" /\ M.pred = head /\ M.level = realMaxLvl /\ M.isMarked = L.isMarked
      /\ M.op = L.op /\ M.key = L.key
  BY <1>2 DEF LocalsOK, Fields
<1>4. LocalsOK(M) /\ L.key \in Keys
  BY <1>1, <1>2 DEF LocalsOK, Fields
<1> HIDE DEF M
<1>5. Linked(node, l, head, realMaxLvl) /\ node[head].key < L.key
  BY <1>2, <1>4, HeadLinked
<1>6. CallOK(node, l, t, M)
  BY <1>2, <1>3, <1>4, <1>5 DEF CallOK, SearchOK, UpdateOK, EraseOK, LockPlaces
<1> QED
  BY <1>1, <1>2, <1>3, <1>6, LocalClient, IdleKeeps DEF LockPlaces

\* contains() and find() go one node to the right or one level down.
LEMMA SearchNextKeeps ==
  ASSUME Inv, NEW t \in Threads, SearchNext(t), UNCHANGED list
  PROVE  Inv'
<1> DEFINE L == l[t]
           c == node[L.pred].next[L.level]
<1>1. /\ L.pc = "c_next" /\ LocalsOK(L) /\ ~L.isMarked /\ L.key \in Keys /\ L.level \in Levels
      /\ Linked(node, l, L.pred, L.level) /\ node[L.pred].key < L.key
  BY CallFacts, Zenon DEF SearchNext, At, EraseOK, SearchOK
<1>2. Linked(node, l, c, L.level) /\ c \in Nodes \ {head} /\ L.pred \in Nodes /\ node[c].key \in Int /\ L.key \in Int
  BY <1>1, NextLinked, KeysInt, Zenon
<1> HIDE DEF c
<1>3. CASE L.key > node[c].key
  <2> DEFINE M == [L EXCEPT !.pred = c]
  <2>0. Local(t, M)
    <3>1. L.key # node[c].key /\ ~(L.key < node[c].key)
      BY <1>2, <1>3
    <3> QED
      BY <1>3, <3>1, Zenon DEF SearchNext, c
  <2>1. node' = node /\ l' = [l EXCEPT ![t] = M] /\ UNCHANGED <<realMaxLvl, plan>>
    BY <2>0, LocalStep
  <2>2. /\ M.pc = "c_next" /\ M.pred = c /\ M.level = L.level /\ M.isMarked = L.isMarked
        /\ M.op = L.op /\ M.key = L.key /\ LocalsOK(M)
    BY <1>1 DEF LocalsOK, Fields
  <2> HIDE DEF M
  <2>3. CallOK(node, l, t, M)
    BY <1>1, <1>2, <1>3, <2>2 DEF CallOK, SearchOK, UpdateOK, EraseOK, LockPlaces
  <2> QED
    BY <1>1, <2>1, <2>2, <2>3, LocalClient, IdleKeeps DEF LockPlaces, Inv, ClientInv
<1>4. CASE L.key = node[c].key
  <2> DEFINE M == [L EXCEPT !.pc = "c_test", !.curr = c]
  <2>0. Local(t, M)
    <3>1. ~(L.key > node[c].key) /\ ~(L.key < node[c].key)
      BY <1>2, <1>4
    <3> QED
      BY <1>4, <3>1, Zenon DEF SearchNext, c
  <2>1. node' = node /\ l' = [l EXCEPT ![t] = M] /\ UNCHANGED <<realMaxLvl, plan>>
    BY <2>0, LocalStep
  <2>2. /\ M.pc = "c_test" /\ M.curr = c /\ M.isMarked = L.isMarked
        /\ M.op = L.op /\ M.key = L.key /\ LocalsOK(M)
    BY <1>1 DEF LocalsOK, Fields
  <2> HIDE DEF M
  <2>3. CallOK(node, l, t, M)
    BY <1>1, <1>2, <1>4, <2>2 DEF CallOK, SearchOK, UpdateOK, EraseOK, LockPlaces
  <2> QED
    BY <1>1, <2>1, <2>2, <2>3, LocalClient, IdleKeeps DEF LockPlaces, Inv, ClientInv
<1>5. CASE L.key < node[c].key /\ L.level > 0
  <2> DEFINE M == [L EXCEPT !.level = @ - 1]
  <2>0. Local(t, M)
    <3>1. ~(L.key > node[c].key) /\ L.key # node[c].key /\ L.level # 0
      BY <1>2, <1>5
    <3> QED
      BY <1>5, <3>1, Zenon DEF SearchNext, c
  <2>1. node' = node /\ l' = [l EXCEPT ![t] = M] /\ UNCHANGED <<realMaxLvl, plan>>
    BY <2>0, LocalStep
  <2>2. /\ M.pc = "c_next" /\ M.pred = L.pred /\ M.level = L.level - 1 /\ M.isMarked = L.isMarked
        /\ M.op = L.op /\ M.key = L.key /\ LocalsOK(M)
    BY <1>1, <1>5, SMTT(30) DEF LocalsOK, Fields
  <2> HIDE DEF M
  <2>3. Linked(node, l, L.pred, L.level - 1)
    <3>1. L.level - 1 \in 0 .. L.level
      BY <1>1, <1>5
    <3> QED
      BY <1>1, <3>1, LinkedDown
  <2>4. CallOK(node, l, t, M)
    BY <1>1, <2>2, <2>3 DEF CallOK, SearchOK, UpdateOK, EraseOK, LockPlaces
  <2> QED
    BY <1>1, <2>1, <2>2, <2>4, LocalClient, IdleKeeps DEF LockPlaces, Inv, ClientInv
<1>6. CASE L.key < node[c].key /\ L.level = 0
  <2>1. Return(t, NoValue) /\ UNCHANGED node
    BY <1>2, <1>6 DEF SearchNext, c
  <2> QED
    BY <1>1, <2>1, ReturnKeeps DEF LockPlaces
<1> QED
  BY <1>1, <1>2, <1>3, <1>4, <1>5, <1>6

\* contains() and find() test the flags of the node found and return.
LEMMA SearchTestKeeps ==
  ASSUME Inv, NEW t \in Threads, SearchTest(t), UNCHANGED list
  PROVE  Inv'
<1>1. l[t].pc = "c_test" /\ ~l[t].isMarked
  BY CallFacts DEF SearchTest, At, EraseOK
<1> DEFINE n == node[l[t].curr]
           r == IF ~n.fullyLinked \/ n.mark THEN NoValue ELSE IF l[t].op = "contains" THEN t ELSE n.value
<1>2. Return(t, r) /\ UNCHANGED node
  BY DEF SearchTest
<1> HIDE DEF r
<1> QED
  BY <1>1, <1>2, ReturnKeeps DEF LockPlaces

\* The internal find() of an update starts at the head's top level.
LEMMA FindStartKeeps ==
  ASSUME Inv, NEW t \in Threads, FindStart(t), UNCHANGED list
  PROVE  Inv'
<1> DEFINE L == l[t]
           M == [L EXCEPT !.pc = "f_next", !.pred = head, !.level = MAX_LEVEL, !.flevel = -1, !.v = NoValue]
<1>1. node' = node /\ l' = [l EXCEPT ![t] = M] /\ UNCHANGED <<realMaxLvl, plan>> /\ L.pc = "find"
  BY DEF FindStart, Find, Local, Do, client, At
<1>2. realMaxLvl \in Levels /\ LocalsOK(L) /\ EraseOK(node, l, t, L) /\ UpdateOK(node, t, L)
  BY <1>1, CallFacts DEF Inv, ClientInv
<1>3. /\ M.pc = "f_next" /\ M.pred = head /\ M.level = MAX_LEVEL /\ M.isMarked = L.isMarked
      /\ M.op = L.op /\ M.key = L.key /\ M.flevel = -1 /\ M.victim = L.victim /\ M.topLevel = L.topLevel
      /\ LocalsOK(M) /\ L.key \in Keys
  BY <1>1, <1>2 DEF LocalsOK, Fields
<1> HIDE DEF M
<1>4. Linked(node, l, head, MAX_LEVEL) /\ node[head].key < L.key /\ ~node[head].mark /\ head \in Nodes
  <2>1. MAX_LEVEL \in Levels
    OBVIOUS
  <2> QED
    BY <1>3, <2>1, HeadLinked
<1>5. SearchOK(node, l, M)
  BY <1>3, <1>4 DEF SearchOK, Found
<1>6. UpdateOK(node, t, M) /\ EraseOK(node, l, t, M)
  BY <1>1, <1>2, <1>3 DEF UpdateOK, EraseOK, LockPlaces
<1>7. HeldNodes(L) \subseteq HeldNodes(M)
  BY <1>1, <1>3 DEF HeldNodes, LockPlaces
<1>8. ASSUME NEW W, Within(node, l, L, W) PROVE <<head, MAX_LEVEL>> \in W
  BY <1>4, <1>8 DEF Within, On
<1> QED
  BY <1>1, <1>2, <1>3, <1>5, <1>6, <1>7, <1>8, LocalClient, LocalKeeps DEF CallOK, Again

\* The internal find() goes one node to the right, or notes both neighbours and goes down.
LEMMA FindNextKeeps ==
  ASSUME Inv, NEW t \in Threads, FindNext(t), UNCHANGED list
  PROVE  Inv'
<1> DEFINE L == l[t]
           c == node[L.pred].next[L.level]
           first == L.key = node[c].key /\ L.flevel = -1
<1>1. /\ L.pc = "f_next" /\ LocalsOK(L) /\ EraseOK(node, l, t, L) /\ L.key \in Keys /\ L.level \in Levels
      /\ Linked(node, l, L.pred, L.level) /\ node[L.pred].key < L.key /\ Found(node, l, L, L.level + 1)
      /\ L.op \in {"insertIfAbsent", "erase"} /\ L.flevel \in Levels \cup {-1}
      /\ DOMAIN L.preds = Levels /\ DOMAIN L.succs = Levels /\ DOMAIN L = Fields
  BY CallFacts, Zenon DEF FindNext, At, EraseOK, SearchOK, UpdateOK
<1>2. /\ Linked(node, l, c, L.level) /\ c \in Nodes \ {head} /\ L.pred \in Nodes \ {tail}
      /\ node[c].key \in Int /\ L.key \in Int
  BY <1>1, NextLinked, KeysInt, ZenonT(40)
<1>3. ASSUME NEW W, Within(node, l, L, W)
      PROVE  /\ <<c, L.level>> \in W /\ (L.level > 0 => <<L.pred, L.level - 1>> \in W)
             /\ node[c].key = L.key => c = L.victim
  <2>1. <<L.pred, L.level>> \in W /\ L.level <= node[L.pred].topLevel
    BY <1>1, <1>3 DEF Within, Linked
  <2>2. <<c, L.level>> \in W /\ (L.level > 0 => <<L.pred, L.level - 1>> \in W)
    BY <1>1, <1>2, <1>3, <2>1, Zenon DEF Within
  <2> QED
    BY <1>1, <1>2, <1>3, <2>2, Zenon DEF Within
<1>4. L.isMarked /\ node[c].key = L.key => c = L.victim
  BY <1>1, <1>3, Zenon DEF Inv, AgainInv, Again
<1> HIDE DEF c
<1>5. realMaxLvl \in Levels
  BY DEF Inv, ClientInv
<1>6. CASE L.key > node[c].key
  <2> DEFINE M == [L EXCEPT !.pred = c]
  <2>0. Local(t, M)
    BY <1>6, Zenon DEF FindNext, c
  <2>1. node' = node /\ l' = [l EXCEPT ![t] = M] /\ UNCHANGED <<realMaxLvl, plan>>
    BY <2>0, LocalStep
  <2>2. /\ M.pc = "f_next" /\ M.pred = c /\ M.level = L.level /\ M.isMarked = L.isMarked
        /\ M.op = L.op /\ M.key = L.key /\ M.flevel = L.flevel /\ M.victim = L.victim /\ M.topLevel = L.topLevel
        /\ M.preds = L.preds /\ M.succs = L.succs /\ LocalsOK(M)
    BY <1>1 DEF LocalsOK, Fields
  <2> HIDE DEF M
  <2>3. Found(node, l, M, L.level + 1)
    BY <1>1, <2>2, Zenon DEF Found, Neighbours
  <2>4. SearchOK(node, l, M)
    BY <1>1, <1>2, <1>6, <2>2, <2>3 DEF SearchOK
  <2>5. UpdateOK(node, t, M) /\ EraseOK(node, l, t, M)
    BY <1>1, <2>2 DEF UpdateOK, EraseOK, LockPlaces
  <2>6. HeldNodes(L) \subseteq HeldNodes(M)
    BY <1>1, <2>2 DEF HeldNodes, LockPlaces
  <2> QED
    BY <1>1, <1>3, <1>5, <2>1, <2>2, <2>4, <2>5, <2>6, LocalClient, LocalKeeps DEF CallOK, Again
<1>7. CASE ~(L.key > node[c].key)
  <2> DEFINE pc == IF L.level > 0 THEN "f_next" ELSE IF L.op = "erase" THEN "e_test" ELSE "i_test"
             level == IF L.level = 0 THEN 0 ELSE L.level - 1
             flevel == IF first THEN L.level ELSE L.flevel
             v == IF first THEN node[c].value ELSE L.v
             M == [L EXCEPT !.preds[L.level] = L.pred, !.succs[L.level] = c, !.flevel = flevel, !.v = v,
                            !.level = level, !.pc = pc]
  <2>0. Local(t, M)
    BY <1>7, Zenon DEF FindNext, c
  <2>1. node' = node /\ l' = [l EXCEPT ![t] = M] /\ UNCHANGED <<realMaxLvl, plan>>
    BY <2>0, LocalStep
  <2>2. /\ M.pc = pc /\ M.pred = L.pred /\ M.level = level /\ M.isMarked = L.isMarked
        /\ M.op = L.op /\ M.key = L.key /\ M.flevel = flevel /\ M.victim = L.victim /\ M.topLevel = L.topLevel
        /\ M.preds = [L.preds EXCEPT ![L.level] = L.pred] /\ M.succs = [L.succs EXCEPT ![L.level] = c]
        /\ DOMAIN M = Fields
    BY <1>1, Zenon DEF Fields
  <2> HIDE DEF M
  <2>3. /\ level \in Levels /\ (L.level > 0 => level = L.level - 1 /\ level + 1 = L.level)
        /\ flevel \in Levels \cup {-1} /\ pc \in {"f_next", "e_test", "i_test"} /\ (pc = "f_next" <=> L.level > 0)
        /\ (pc = "e_test" => L.op = "erase") /\ (pc = "i_test" => L.op # "erase")
        /\ (pc # "f_next" => level = 0)
    BY <1>1, SMTT(30)
  <2>4. LocalsOK(M)
    BY <1>1, <2>2, <2>3 DEF LocalsOK
  <2>5. Neighbours(node, l, M, L.level)
    BY <1>1, <1>2, <1>7, <2>2, SMTT(30) DEF Neighbours
  <2>6. ASSUME NEW i \in L.level + 1 .. MAX_LEVEL
        PROVE  Neighbours(node, l, M, i) /\ M.succs[i] = L.succs[i]
    BY <1>1, <2>2, <2>6, SMTT(30) DEF Neighbours, Found
  <2>7. Found(node, l, M, L.level)
    <3>1. \A i \in L.level .. MAX_LEVEL : i = L.level \/ i \in L.level + 1 .. MAX_LEVEL
      BY <1>1
    <3>2. M.succs[L.level] = c
      BY <1>1, <2>2
    <3>3. CASE first
      BY <1>1, <1>4, <2>2, <2>5, <2>6, <3>1, <3>2, <3>3 DEF Found
    <3>4. CASE ~first /\ L.flevel = -1
      <4>1. flevel = -1
        BY <3>4
      <4>2. \A i \in L.level .. MAX_LEVEL : node[M.succs[i]].key # L.key
        BY <1>1, <2>6, <3>1, <3>2, <3>4 DEF Found
      <4> QED
        BY <2>2, <2>5, <2>6, <3>1, <4>1, <4>2 DEF Found
    <3>5. CASE ~first /\ L.flevel # -1
      <4>1. flevel = L.flevel /\ L.flevel \in L.level + 1 .. MAX_LEVEL
        BY <1>1, <3>5 DEF Found
      <4>2. node[M.succs[flevel]].key = L.key /\ (L.isMarked => M.succs[flevel] = L.victim)
        BY <1>1, <2>6, <3>5, <4>1 DEF Found
      <4> QED
        BY <1>1, <2>2, <2>5, <2>6, <3>1, <3>5, <4>1, <4>2 DEF Found
    <3> QED
      BY <3>3, <3>4, <3>5
  <2> HIDE DEF pc, level, flevel, v, first
  <2>8. SearchOK(node, l, M)
    <3>1. CASE L.level > 0
      <4>1. L.level - 1 \in 0 .. L.level
        BY <1>1, <3>1
      <4>2. Linked(node, l, L.pred, L.level - 1)
        BY <1>1, <4>1, LinkedDown
      <4> QED
        BY <1>1, <2>2, <2>3, <2>7, <3>1, <4>2 DEF SearchOK
    <3>2. CASE L.level = 0
      BY <1>1, <2>2, <2>3, <2>7, <3>2 DEF SearchOK
    <3> QED
      BY <1>1, <3>1, <3>2
  <2>9. UpdateOK(node, t, M) /\ EraseOK(node, l, t, M)
    BY <1>1, <2>2, <2>3 DEF UpdateOK, EraseOK, LockPlaces
  <2>10. HeldNodes(L) \subseteq HeldNodes(M)
    BY <1>1, <2>2, <2>3 DEF HeldNodes, LockPlaces
  <2>11. ASSUME NEW W, Within(node, l, L, W), M.pc = "f_next" PROVE <<M.pred, M.level>> \in W
    BY <1>3, <2>2, <2>3, <2>11
  <2>12. M.isMarked => M.victim = L.victim /\ M.key = L.key /\ Again(L) /\ Again(M)
    BY <1>1, <2>2, <2>3 DEF Again
  <2>13. L.pc \notin {"i_link", "i_full"} /\ M.pc \notin {"i_link", "i_full"} /\ M.isMarked = L.isMarked
    BY <1>1, <2>2, <2>3
  <2>14. ClientInv'
    BY <1>5, <2>1, <2>13, LocalClient
  <2> QED
    BY <2>1, <2>4, <2>8, <2>9, <2>10, <2>11, <2>12, <2>13, <2>14, LocalKeeps DEF CallOK
<1> QED
  BY <1>6, <1>7

-----------------------------------------------------------------------------
(* Locks and validation *)

\* A call that moves on to p and keeps its other locals.
LEMMA GotoFacts ==
  ASSUME NEW L, LocalsOK(L), L.pc # "idle", NEW p, NEW M, M = [L EXCEPT !.pc = p]
  PROVE  /\ LocalsOK(M) /\ M.pc = p /\ M.op = L.op /\ M.key = L.key /\ M.topLevel = L.topLevel
         /\ M.level = L.level /\ M.pred = L.pred /\ M.curr = L.curr /\ M.preds = L.preds /\ M.succs = L.succs
         /\ M.flevel = L.flevel /\ M.v = L.v /\ M.victim = L.victim /\ M.isMarked = L.isMarked
  BY DEF LocalsOK, Fields

\* What was found does not depend on where the call is.
LEMMA FoundSame ==
  ASSUME NEW nd, NEW ll, NEW L, NEW M, NEW h, Found(nd, ll, L, h), M.preds = L.preds, M.succs = L.succs,
         M.key = L.key, M.flevel = L.flevel, M.victim = L.victim, M.isMarked = L.isMarked
  PROVE  Found(nd, ll, M, h)
  BY DEF Found, Neighbours

\* Neither does what was locked and validated.
LEMMA GuardedSame ==
  ASSUME NEW nd, NEW t, NEW L, NEW M, NEW i, M.preds = L.preds, M.succs = L.succs, M.op = L.op, M.victim = L.victim
  PROVE  /\ Locked(nd, t, M, i) <=> Locked(nd, t, L, i)
         /\ Guarded(nd, t, M, i) <=> Guarded(nd, t, L, i)
  BY DEF Locked, Guarded, Target

\* A step that links, unlinks and marks nothing leaves the lists alone.
LEMMA SameAlike ==
  ASSUME Inv, NEW t \in Threads, NEW M, l' = [l EXCEPT ![t] = M], DOMAIN node' = Nodes,
         \A n \in Nodes : /\ node'[n].key = node[n].key /\ node'[n].topLevel = node[n].topLevel
                          /\ node'[n].next = node[n].next /\ node'[n].mark = node[n].mark,
         l[t].pc # "i_link", M.pc # "i_link",
         \A n \in Nodes : \A i \in 0 .. node[n].topLevel : Erases(M, n, i) <=> Erases(l[t], n, i)
  PROVE  Alike(node, l, node', l')
<1>1. DOMAIN l = Threads /\ l'[t] = M /\ \A s \in Threads \ {t} : l'[s] = l[s]
  BY DEF Inv, ClientInv
<1>2. \A n, i : NotYet(l', n, i) <=> NotYet(l, n, i)
  BY <1>1 DEF NotYet
<1>3. \A n \in Nodes : \A i \in 0 .. node[n].topLevel : Erasing(l', n, i) <=> Erasing(l, n, i)
  BY <1>1 DEF Erasing
<1>4. \A n \in Nodes, i \in Levels : Linked(node', l', n, i) <=> Linked(node, l, n, i)
  BY <1>2 DEF Linked
<1>5. \A n \in Nodes, i \in Levels : On(node', l', n, i) <=> On(node, l, n, i)
  BY <1>3, <1>4 DEF On, Linked
<1> QED
  BY <1>4, <1>5 DEF Alike

\* A step of t that changes locks, values and its own place, but no link and no mark.
LEMMA SameKeeps ==
  ASSUME Inv, NEW t \in Threads, NEW M, l' = [l EXCEPT ![t] = M], ClientInv', DOMAIN node' = Nodes,
         \A n \in Nodes : /\ node'[n].key = node[n].key /\ node'[n].topLevel = node[n].topLevel
                          /\ node'[n].next = node[n].next /\ node'[n].mark = node[n].mark
                          /\ node'[n].fullyLinked = node[n].fullyLinked,
         \A n \in Nodes : AttrsOK(node', n),
         l[t].pc \notin {"i_link", "i_full"}, M.pc \notin {"i_link", "i_full"},
         \A n \in Nodes : \A i \in 0 .. node[n].topLevel : Erases(M, n, i) <=> Erases(l[t], n, i),
         Apart(node, node', t),
         Alike(node, l, node', l') => CallOK(node', l', t, M),
         \A n \in Nodes : node'[n].lock = t => n \in HeldNodes(M),
         Again(M) => Again(l[t]) /\ M.victim = l[t].victim /\ M.key = l[t].key /\ M.pc # "f_next"
  PROVE  Inv'
<1>1. DOMAIN l = Threads /\ l'[t] = M /\ \A s \in Threads \ {t} : l'[s] = l[s]
  BY DEF Inv, ClientInv
<1>2. Alike(node, l, node', l')
  BY SameAlike
<1>3. \A n \in Nodes : node'[n].mark => Linked(node', l', n, node[n].topLevel)
  BY <1>2 DEF Inv, NodesOK, NodeOK, AttrsOK, Alike
<1>4. ~node'[head].mark /\ ~node'[tail].mark
  BY DEF Inv, NodesOK
<1>5. MakersInv'
  BY <1>1 DEF Inv, MakersInv
<1>6. ASSUME Again(M) PROVE \E W : Within(node', l', M, W)
  <2>1. PICK W : Within(node, l, l[t], W)
    BY <1>6 DEF Inv, AgainInv
  <2>2. Within(node', l', M, W)
    BY <1>2, <1>6, <2>1, AlikeWithin
  <2> QED
    BY <2>2
<1> QED
  BY <1>2, <1>3, <1>4, <1>5, <1>6, AlikeKeeps

\* The greatest level grows.
LEMMA RaiseMaxKeeps ==
  ASSUME Inv, NEW t \in Threads, RaiseMax(t), UNCHANGED list
  PROVE  Inv'
<1> DEFINE L == l[t]
           M == [L EXCEPT !.pc = "find"]
<1>1. node' = node /\ l' = [l EXCEPT ![t] = M] /\ UNCHANGED plan /\ L.pc = "i_max"
  BY DEF RaiseMax, At, client
<1>2. realMaxLvl' \in Levels
  BY CallFacts DEF RaiseMax, Inv, ClientInv
<1>3. LocalsOK(L) /\ ~L.isMarked /\ L.op = "insertIfAbsent"
  BY <1>1, CallFacts DEF EraseOK, UpdateOK
<1>4. LocalsOK(M) /\ M.pc = "find" /\ M.op = L.op /\ M.isMarked = L.isMarked
  BY <1>1, <1>3, GotoFacts
<1> HIDE DEF M
<1>5. CallOK(node, l, t, M)
  BY <1>3, <1>4 DEF CallOK, SearchOK, UpdateOK, EraseOK, LockPlaces
<1> QED
  BY <1>1, <1>2, <1>3, <1>4, <1>5, LocalClient, IdleKeeps DEF LockPlaces

\* The insertion goes on by what it has found.
LEMMA InsertTestKeeps ==
  ASSUME Inv, NEW t \in Threads, InsertTest(t), UNCHANGED list
  PROVE  Inv'
<1> DEFINE L == l[t]
<1>1. /\ L.pc = "i_test" /\ LocalsOK(L) /\ ~L.isMarked /\ L.op = "insertIfAbsent" /\ L.level = 0
      /\ Found(node, l, L, 0) /\ L.key \in Keys /\ L.topLevel \in Levels /\ L.flevel \in Levels \cup {-1}
  BY CallFacts DEF InsertTest, At, EraseOK, UpdateOK, SearchOK
<1>2. realMaxLvl \in Levels
  BY DEF Inv, ClientInv
<1>3. CASE L.flevel = -1
  <2> DEFINE M == [L EXCEPT !.pc = "lock"]
  <2>1. node' = node /\ l' = [l EXCEPT ![t] = M] /\ UNCHANGED <<realMaxLvl, plan>>
    <3>1. Local(t, M)
      BY <1>3, Zenon DEF InsertTest, Goto
    <3> QED
      BY <3>1, LocalStep
  <2>2. /\ LocalsOK(M) /\ M.pc = "lock" /\ M.op = L.op /\ M.key = L.key /\ M.topLevel = L.topLevel
        /\ M.level = L.level /\ M.preds = L.preds /\ M.succs = L.succs
        /\ M.flevel = L.flevel /\ M.victim = L.victim /\ M.isMarked = L.isMarked
    BY <1>1, GotoFacts
  <2> HIDE DEF M
  <2>3. Found(node, l, M, 0)
    BY <1>1, <2>2, FoundSame
  <2>4. CallOK(node, l, t, M)
    BY <1>1, <1>3, <2>2, <2>3 DEF CallOK, SearchOK, UpdateOK, EraseOK, LockPlaces
  <2>5. HeldNodes(L) \subseteq HeldNodes(M)
    BY <1>1, <2>2 DEF HeldNodes, LockPlaces
  <2> QED
    BY <1>1, <1>2, <2>1, <2>2, <2>4, <2>5, LocalClient, LocalKeeps
<1>4. CASE L.flevel # -1 /\ node[L.succs[L.flevel]].mark
  <2> DEFINE M == [L EXCEPT !.pc = "find"]
  <2>1. node' = node /\ l' = [l EXCEPT ![t] = M] /\ UNCHANGED <<realMaxLvl, plan>>
    <3>1. Local(t, M)
      BY <1>4, Zenon DEF InsertTest, Goto
    <3> QED
      BY <3>1, LocalStep
  <2>2. LocalsOK(M) /\ M.pc = "find" /\ M.op = L.op /\ M.isMarked = L.isMarked
    BY <1>1, GotoFacts
  <2> HIDE DEF M
  <2>3. CallOK(node, l, t, M)
    BY <1>1, <2>2 DEF CallOK, SearchOK, UpdateOK, EraseOK, LockPlaces
  <2> QED
    BY <1>1, <1>2, <2>1, <2>2, <2>3, LocalClient, IdleKeeps DEF LockPlaces
<1>5. CASE L.flevel # -1 /\ ~node[L.succs[L.flevel]].mark
  <2> DEFINE c == L.succs[L.flevel]
             M == [L EXCEPT !.pc = "i_wait", !.curr = c]
  <2>1. node' = node /\ l' = [l EXCEPT ![t] = M] /\ UNCHANGED <<realMaxLvl, plan>>
    <3>1. Local(t, M)
      BY <1>5, Zenon DEF InsertTest
    <3> QED
      BY <3>1, LocalStep
  <2>2. LocalsOK(M) /\ M.pc = "i_wait" /\ M.op = L.op /\ M.isMarked = L.isMarked /\ M.curr = c /\ M.key = L.key
    BY <1>1 DEF LocalsOK, Fields
  <2>3. c \in Nodes /\ node[c].key = L.key
    BY <1>1, <1>5 DEF Found, Neighbours, Linked
  <2> HIDE DEF M, c
  <2>4. CallOK(node, l, t, M)
    BY <1>1, <2>2, <2>3 DEF CallOK, SearchOK, UpdateOK, EraseOK, LockPlaces
  <2> QED
    BY <1>1, <1>2, <2>1, <2>2, <2>4, LocalClient, IdleKeeps DEF LockPlaces
<1> QED
  BY <1>3, <1>4, <1>5

\* The insertion goes on with a node that it has waited for, or not.
LEMMA WaitLinkedKeeps ==
  ASSUME Inv, NEW t \in Threads, WaitLinked(t), UNCHANGED list
  PROVE  Inv'
<1> DEFINE L == l[t]
           M == [L EXCEPT !.pc = "i_found"]
<1>1. node' = node /\ l' = [l EXCEPT ![t] = M] /\ UNCHANGED <<realMaxLvl, plan>> /\ L.pc = "i_wait"
  BY DEF WaitLinked, Goto, Local, Do, client, At
<1>2. /\ LocalsOK(L) /\ ~L.isMarked /\ L.op = "insertIfAbsent" /\ L.curr \in Nodes /\ node[L.curr].key = L.key
      /\ realMaxLvl \in Levels
  BY <1>1, CallFacts DEF EraseOK, UpdateOK, SearchOK, Inv, ClientInv
<1>3. LocalsOK(M) /\ M.pc = "i_found" /\ M.op = L.op /\ M.isMarked = L.isMarked /\ M.curr = L.curr /\ M.key = L.key
  BY <1>1, <1>2, GotoFacts
<1> HIDE DEF M
<1>4. CallOK(node, l, t, M)
  BY <1>2, <1>3 DEF CallOK, SearchOK, UpdateOK, EraseOK, LockPlaces
<1> QED
  BY <1>1, <1>2, <1>3, <1>4, LocalClient, IdleKeeps DEF LockPlaces

\* A search is as right after a step that leaves the lists alone.
LEMMA AlikeSearch ==
  ASSUME Inv, Alike(node, l, node', l'), NEW M, LocalsOK(M), SearchOK(node, l, M), M.pc # "i_link"
  PROVE  SearchOK(node', l', M)
<1>1. \A n \in Nodes : node[n].lock # NULL
  BY DEF Inv, NodesOK, NodeOK, AttrsOK
<1>2. Keeps(node, l, node', l', NULL, M)
  BY <1>1 DEF Keeps, Alike
<1> QED
  BY <1>2, SearchKeeps, Levelled

\* A predecessor is locked, unless the level below has the same one.
LEMMA LockPredKeeps ==
  ASSUME Inv, NEW t \in Threads, LockPred(t), UNCHANGED list
  PROVE  Inv'
<1> DEFINE L == l[t]
           p == L.preds[L.level]
           M == [L EXCEPT !.pc = "valid"]
<1>1. /\ L.pc = "lock" /\ LocalsOK(L) /\ SearchOK(node, l, L) /\ UpdateOK(node, t, L) /\ EraseOK(node, l, t, L)
      /\ L.level \in Levels /\ L.topLevel \in Levels
  BY CallFacts DEF LockPred, At
<1>2. realMaxLvl \in Levels
  BY DEF Inv, ClientInv
<1>3. /\ LocalsOK(M) /\ M.pc = "valid" /\ M.op = L.op /\ M.key = L.key /\ M.topLevel = L.topLevel
      /\ M.level = L.level /\ M.preds = L.preds /\ M.succs = L.succs /\ M.curr = L.curr
      /\ M.flevel = L.flevel /\ M.victim = L.victim /\ M.isMarked = L.isMarked
  BY <1>1, GotoFacts
<1>4. \A i \in 0 .. L.level - 1 : L.preds[i] \in Nodes /\ Guarded(node, t, L, i)
  BY <1>1, FoundAt, Levelled DEF UpdateOK, LockPlaces
<1>5. p \in Nodes /\ node[p].key < L.key
  BY <1>1, FoundAt, Levelled DEF LockPlaces
<1>6. SearchOK(node, l, M)
  <2>1. Found(node, l, M, 0)
    BY <1>1, <1>3, FoundSame, Zenon DEF SearchOK
  <2> QED
    BY <1>3, <2>1 DEF SearchOK
<1>7. \A i \in Levels : Guarded(node, t, L, i) => Guarded(node, t, M, i)
  BY <1>3, GuardedSame
<1>8. l[t].pc \notin {"i_link", "i_full"} /\ M.pc \notin {"i_link", "i_full"}
  BY <1>1, <1>3
<1>9. Again(M) => Again(L) /\ M.victim = L.victim /\ M.key = L.key /\ M.pc # "f_next"
  BY <1>1, <1>3 DEF Again
<1>10. HeldNodes(L) \cup {p} \subseteq HeldNodes(M)
  BY <1>1, <1>3 DEF HeldNodes, LockPlaces
<1>11. CASE NewLock(L)
  <2>1. node[p].lock = Nobody /\ Do(t, [node EXCEPT ![p].lock = t], M)
    BY <1>11, Zenon DEF LockPred, Free
  <2>2. node' = [node EXCEPT ![p].lock = t] /\ l' = [l EXCEPT ![t] = M] /\ UNCHANGED <<realMaxLvl, plan>>
    BY <2>1 DEF Do, client
  <2> HIDE DEF M, p
  <2>3. \A n \in Nodes : AttrsOK(node, n) /\ DOMAIN node[n] = NodeFields
    BY DEF Inv, NodesOK, NodeOK, AttrsOK
  <2>4. /\ DOMAIN node' = Nodes /\ node'[p].lock = t /\ \A n \in Nodes \ {p} : node'[n] = node[n]
        /\ \A n \in Nodes : /\ node'[n].key = node[n].key /\ node'[n].topLevel = node[n].topLevel
                            /\ node'[n].next = node[n].next /\ node'[n].mark = node[n].mark
                            /\ node'[n].fullyLinked = node[n].fullyLinked /\ node'[n].value = node[n].value
                            /\ DOMAIN node'[n] = NodeFields
    BY <1>5, <2>2, <2>3 DEF NodeFields
  <2>5. \A n \in Nodes : AttrsOK(node', n)
    BY <2>3, <2>4 DEF AttrsOK
  <2>6. Apart(node, node', t)
    BY <2>1, <2>4 DEF Apart
  <2>7. \A n \in Nodes : \A i \in 0 .. node[n].topLevel : Erases(M, n, i) <=> Erases(l[t], n, i)
    BY <1>1, <1>3 DEF Erases
  <2>8. \A n \in Nodes : node'[n].lock = t => n \in HeldNodes(M)
    BY <1>10, <2>4 DEF Inv, LockInv
  <2>9. ASSUME Alike(node, l, node', l') PROVE CallOK(node', l', t, M)
    <3>1. SearchOK(node', l', M)
      BY <1>3, <1>6, <2>9, AlikeSearch
    <3>2. \A i \in 0 .. L.level - 1 : Guarded(node', t, M, i)
      BY <1>1, <1>3, <1>4, <2>4 DEF Guarded, Locked, Target
    <3>3. Locked(node', t, M, M.level)
      BY <1>3, <2>4 DEF Locked, p
    <3>4. UpdateOK(node', t, M)
      BY <1>1, <1>3, <3>2, <3>3 DEF UpdateOK, LockPlaces
    <3>5. EraseOK(node', l', t, M)
      BY <1>1, <1>3, <2>4, <2>9 DEF EraseOK, Alike
    <3> QED
      BY <1>3, <3>1, <3>4, <3>5 DEF CallOK
  <2>10. ClientInv'
    BY <1>2, <1>3, <2>2, LocalClient
  <2> QED
    BY <1>8, <1>9, <2>2, <2>4, <2>5, <2>6, <2>7, <2>8, <2>9, <2>10, SameKeeps, ZenonT(60)
<1>12. CASE ~NewLock(L)
  <2>1. Local(t, M)
    BY <1>12, Zenon DEF LockPred, Goto
  <2>2. node' = node /\ l' = [l EXCEPT ![t] = M] /\ UNCHANGED <<realMaxLvl, plan>>
    BY <2>1, LocalStep
  <2>3. L.level > 0 /\ L.level - 1 \in 0 .. L.level - 1 /\ L.preds[L.level - 1] = p
    BY <1>1, <1>12 DEF NewLock
  <2>4. node[p].lock = t
    BY <1>4, <2>3 DEF Guarded, Locked
  <2>5. UpdateOK(node, t, M)
    <3>1. \A i \in 0 .. M.level - 1 : Guarded(node, t, M, i)
      BY <1>1, <1>3, <1>4, <1>7
    <3>2. Locked(node, t, M, M.level)
      BY <1>3, <2>4 DEF Locked
    <3> HIDE DEF M
    <3> QED
      BY <1>1, <1>3, <3>1, <3>2 DEF UpdateOK, LockPlaces
  <2> HIDE DEF M
  <2>6. EraseOK(node, l, t, M)
    BY <1>1, <1>3 DEF EraseOK
  <2>7. ClientInv'
    BY <1>2, <1>3, <2>2, LocalClient
  <2>8. M.isMarked => Again(L) /\ Again(M)
    BY <1>1, <1>3 DEF Again
  <2> QED
    BY <1>3, <1>6, <1>8, <1>10, <2>2, <2>5, <2>6, <2>7, <2>8, LocalKeeps DEF CallOK
<1> QED
  BY <1>11, <1>12

\* What an update leaves when it releases the predecessors: only its victim is locked.
LEMMA Unlocking ==
  ASSUME Inv, NEW t \in Threads, l[t].pc \in {"valid", "i_leave", "e_leave"}, NEW nd, nd = Unlocked(l[t])
  PROVE  /\ DOMAIN nd = Nodes
         /\ \A n \in Nodes : /\ nd[n].key = node[n].key /\ nd[n].topLevel = node[n].topLevel
                             /\ nd[n].next = node[n].next /\ nd[n].mark = node[n].mark
                             /\ nd[n].fullyLinked = node[n].fullyLinked /\ nd[n].value = node[n].value
                             /\ DOMAIN nd[n] = NodeFields
         /\ \A n \in Nodes : AttrsOK(nd, n)
         /\ Apart(node, nd, t)
         /\ \A n \in Nodes : nd[n].lock = t => l[t].isMarked /\ n = l[t].victim
         /\ l[t].isMarked => nd[l[t].victim] = node[l[t].victim]
<1> DEFINE L == l[t]
<1>1. /\ LocalsOK(L) /\ SearchOK(node, l, L) /\ UpdateOK(node, t, L) /\ EraseOK(node, l, t, L)
      /\ L.level \in Levels /\ L.topLevel \in Levels
  BY CallFacts
<1>2. \A n \in Nodes : AttrsOK(node, n) /\ DOMAIN node[n] = NodeFields /\ node[n].key \in Int
  BY DEF Inv, NodesOK, NodeOK, AttrsOK
<1>3. L.pc \in LockPlaces /\ (L.pc = "valid" \/ L.level = L.topLevel) /\ L.pc # "lock"
  BY <1>1 DEF UpdateOK, LockPlaces
<1>4. ASSUME NEW i \in 0 .. L.level
      PROVE  L.preds[i] \in Nodes /\ node[L.preds[i]].lock = t /\ node[L.preds[i]].key < L.key
  <2>1. L.preds[i] \in Nodes /\ node[L.preds[i]].key < L.key
    BY <1>1, <1>3, FoundAt, Levelled
  <2>2. Locked(node, t, L, i)
    <3>1. CASE L.pc = "valid"
      <4>1. i = L.level \/ i \in 0 .. L.level - 1
        BY <1>1
      <4> QED
        BY <1>1, <3>1, <4>1 DEF UpdateOK, Guarded
    <3>2. CASE L.pc # "valid"
      BY <1>1, <1>3, <3>2 DEF UpdateOK
    <3> QED
      BY <3>1, <3>2
  <2> QED
    BY <2>1, <2>2 DEF Locked
<1> DEFINE P == {L.preds[i] : i \in 0 .. L.level}
<1>5. DOMAIN nd = Nodes /\ \A n \in Nodes : nd[n] = IF n \in P THEN [node[n] EXCEPT !.lock = Nobody] ELSE node[n]
  BY DEF Unlocked
<1>6. \A n \in P : n \in Nodes /\ node[n].lock = t /\ node[n].key < L.key
  BY <1>4
<1>7. HeldNodes(L) = P \cup (IF L.isMarked THEN {L.victim} ELSE {})
  BY <1>1, <1>3 DEF HeldNodes
<1> HIDE DEF P
<1>8. \A n \in Nodes : /\ nd[n].key = node[n].key /\ nd[n].topLevel = node[n].topLevel
                       /\ nd[n].next = node[n].next /\ nd[n].mark = node[n].mark
                       /\ nd[n].fullyLinked = node[n].fullyLinked /\ nd[n].value = node[n].value
                       /\ DOMAIN nd[n] = NodeFields
                       /\ nd[n].lock = IF n \in P THEN Nobody ELSE node[n].lock
  BY <1>2, <1>5, ZenonT(40) DEF NodeFields
<1>9. \A n \in Nodes : AttrsOK(nd, n)
  BY <1>2, <1>8 DEF AttrsOK
<1>10. Apart(node, nd, t)
  BY <1>6, <1>8 DEF Apart
<1>11. \A n \in Nodes : nd[n].lock = t => L.isMarked /\ n = L.victim
  BY <1>7, <1>8 DEF Inv, LockInv
<1>12. ASSUME L.isMarked PROVE nd[L.victim] = node[L.victim]
  <2>1. L.victim \in Nodes /\ node[L.victim].key = L.key
    BY <1>1, <1>12 DEF EraseOK
  <2>2. L.victim \notin P
    BY <1>2, <1>6, <2>1
  <2> QED
    BY <1>5, <2>1, <2>2
<1> QED
  BY <1>5, <1>8, <1>9, <1>10, <1>11, <1>12

\* A level that has changed makes the update begin again; the last level lets it go on.
LEMMA ValidateKeeps ==
  ASSUME Inv, NEW t \in Threads, Validate(t), UNCHANGED list
  PROVE  Inv'
<1> DEFINE L == l[t]
<1>1. /\ L.pc = "valid" /\ LocalsOK(L) /\ SearchOK(node, l, L) /\ UpdateOK(node, t, L) /\ EraseOK(node, l, t, L)
      /\ L.level \in Levels /\ L.topLevel \in Levels /\ L.level <= L.topLevel
      /\ L.op \in {"insertIfAbsent", "erase"}
  BY CallFacts DEF Validate, At, UpdateOK, LockPlaces
<1>2. realMaxLvl \in Levels
  BY DEF Inv, ClientInv
<1>3. Found(node, l, L, 0)
  BY <1>1 DEF SearchOK
<1>4. CASE ~Valid(L)
  <2> DEFINE M == [L EXCEPT !.pc = "find"]
  <2>1. Do(t, Unlocked(L), M)
    BY <1>4, Zenon DEF Validate
  <2>2. node' = Unlocked(l[t]) /\ l' = [l EXCEPT ![t] = M] /\ UNCHANGED <<realMaxLvl, plan>>
    BY <2>1 DEF Do, client
  <2>3. /\ LocalsOK(M) /\ M.pc = "find" /\ M.op = L.op /\ M.key = L.key /\ M.topLevel = L.topLevel
        /\ M.victim = L.victim /\ M.isMarked = L.isMarked
    BY <1>1, GotoFacts
  <2> HIDE DEF M
  <2>4. /\ DOMAIN node' = Nodes
        /\ \A n \in Nodes : /\ node'[n].key = node[n].key /\ node'[n].topLevel = node[n].topLevel
                            /\ node'[n].next = node[n].next /\ node'[n].mark = node[n].mark
                            /\ node'[n].fullyLinked = node[n].fullyLinked
        /\ \A n \in Nodes : AttrsOK(node', n)
        /\ Apart(node, node', t)
        /\ \A n \in Nodes : node'[n].lock = t => L.isMarked /\ n = L.victim
        /\ L.isMarked => node'[L.victim] = node[L.victim]
    BY <1>1, <2>2, Unlocking
  <2>5. \A n \in Nodes : \A i \in 0 .. node[n].topLevel : Erases(M, n, i) <=> Erases(l[t], n, i)
    BY <1>1, <2>3 DEF Erases
  <2>6. \A n \in Nodes : node'[n].lock = t => n \in HeldNodes(M)
    BY <2>3, <2>4 DEF HeldNodes
  <2>7. ASSUME Alike(node, l, node', l') PROVE CallOK(node', l', t, M)
    <3>1. SearchOK(node', l', M) /\ UpdateOK(node', t, M)
      BY <1>1, <2>3 DEF SearchOK, UpdateOK, LockPlaces
    <3>2. EraseOK(node', l', t, M)
      BY <1>1, <2>3, <2>4, <2>7 DEF EraseOK, Alike
    <3> QED
      BY <2>3, <3>1, <3>2 DEF CallOK
  <2>8. ClientInv'
    BY <1>2, <2>2, <2>3, LocalClient
  <2>9. l[t].pc \notin {"i_link", "i_full"} /\ M.pc \notin {"i_link", "i_full"}
    BY <1>1, <2>3
  <2>10. Again(M) => Again(L) /\ M.victim = L.victim /\ M.key = L.key /\ M.pc # "f_next"
    BY <1>1, <2>3 DEF Again
  <2> QED
    BY <2>2, <2>4, <2>5, <2>6, <2>7, <2>8, <2>9, <2>10, SameKeeps
<1>5. ASSUME Valid(L), NEW i \in 0 .. L.level PROVE Guarded(node, t, L, i)
  <2>1. CASE i = L.level
    BY <1>1, <1>5, <2>1 DEF UpdateOK, Guarded, Valid, Links, Target
  <2>2. CASE i # L.level
    BY <1>1, <2>2 DEF UpdateOK
  <2> QED
    BY <2>1, <2>2
<1>6. CASE Valid(L) /\ L.level < L.topLevel
  <2> DEFINE M == [L EXCEPT !.pc = "lock", !.level = @ + 1]
  <2>1. Local(t, M)
    <3>1. L.level # L.topLevel
      BY <1>1, <1>6
    <3> QED
      BY <1>6, <3>1, Zenon DEF Validate
  <2>2. node' = node /\ l' = [l EXCEPT ![t] = M] /\ UNCHANGED <<realMaxLvl, plan>>
    BY <2>1, LocalStep
  <2>3. /\ LocalsOK(M) /\ M.pc = "lock" /\ M.op = L.op /\ M.key = L.key /\ M.topLevel = L.topLevel
        /\ M.level = L.level + 1 /\ M.preds = L.preds /\ M.succs = L.succs
        /\ M.flevel = L.flevel /\ M.victim = L.victim /\ M.isMarked = L.isMarked
    BY <1>1, <1>6, SMTT(30) DEF LocalsOK, Fields
  <2> HIDE DEF M
  <2>4. Found(node, l, M, 0)
    BY <1>3, <2>3, FoundSame
  <2>5. \A i \in 0 .. M.level - 1 : Guarded(node, t, M, i)
    <3> SUFFICES ASSUME NEW i \in 0 .. M.level - 1 PROVE Guarded(node, t, M, i)
      OBVIOUS
    <3>1. i \in 0 .. L.level
      BY <1>1, <2>3
    <3> QED
      BY <1>5, <1>6, <2>3, <3>1, GuardedSame
  <2>6. SearchOK(node, l, M) /\ EraseOK(node, l, t, M)
    BY <1>1, <2>3, <2>4 DEF SearchOK, EraseOK
  <2>7. UpdateOK(node, t, M)
    BY <1>1, <1>6, <2>3, <2>5 DEF UpdateOK, LockPlaces
  <2>8. HeldNodes(L) \subseteq HeldNodes(M)
    BY <1>1, <2>3 DEF HeldNodes, LockPlaces
  <2>9. M.isMarked => Again(L) /\ Again(M)
    BY <1>1, <2>3 DEF Again
  <2>10. ClientInv'
    BY <1>2, <2>2, <2>3, LocalClient
  <2> QED
    BY <1>1, <2>2, <2>3, <2>6, <2>7, <2>8, <2>9, <2>10, LocalKeeps DEF CallOK
<1>7. CASE Valid(L) /\ L.level = L.topLevel
  <2> DEFINE p == IF L.op = "erase" THEN "e_unlink" ELSE "i_create"
             M == [L EXCEPT !.pc = p]
  <2>1. Local(t, M)
    <3>1. ~(L.level < L.topLevel)
      BY <1>1, <1>7
    <3> QED
      BY <1>7, <3>1, Zenon DEF Validate, Goto
  <2>2. node' = node /\ l' = [l EXCEPT ![t] = M] /\ UNCHANGED <<realMaxLvl, plan>>
    BY <2>1, LocalStep
  <2>3. /\ LocalsOK(M) /\ M.pc = p /\ M.op = L.op /\ M.key = L.key /\ M.topLevel = L.topLevel
        /\ M.level = L.level /\ M.preds = L.preds /\ M.succs = L.succs
        /\ M.flevel = L.flevel /\ M.victim = L.victim /\ M.isMarked = L.isMarked
    BY <1>1, GotoFacts
  <2> HIDE DEF M
  <2>4. /\ p \in {"e_unlink", "i_create"} /\ (p = "e_unlink" => L.op = "erase" /\ L.isMarked)
        /\ (p = "i_create" => L.op = "insertIfAbsent" /\ ~L.isMarked /\ L.flevel = -1)
    BY <1>1 DEF UpdateOK, LockPlaces, EraseOK
  <2> HIDE DEF p
  <2>5. Found(node, l, M, 0)
    BY <1>3, <2>3, FoundSame
  <2>6. \A i \in 0 .. M.topLevel : Guarded(node, t, M, i) /\ Locked(node, t, M, i)
    BY <1>5, <1>7, <2>3, GuardedSame DEF Guarded
  <2>7. SearchOK(node, l, M) /\ EraseOK(node, l, t, M)
    BY <1>1, <2>3, <2>4, <2>5 DEF SearchOK, EraseOK
  <2>8. UpdateOK(node, t, M)
    BY <1>1, <1>7, <2>3, <2>4, <2>6 DEF UpdateOK, LockPlaces
  <2>9. HeldNodes(L) \subseteq HeldNodes(M)
    BY <1>1, <1>7, <2>3, <2>4 DEF HeldNodes, LockPlaces
  <2>10. ClientInv'
    BY <1>2, <2>2, <2>3, LocalClient
  <2>11. \A n \in Nodes : \A i \in 0 .. node[n].topLevel : Erases(M, n, i) <=> Erases(l[t], n, i)
    BY <1>1, <1>7, <2>3, <2>4 DEF Erases, EraseOK
  <2>12. ASSUME Alike(node, l, node', l') PROVE CallOK(node', l', t, M)
    <3>1. SearchOK(node', l', M)
      BY <2>3, <2>4, <2>7, <2>12, AlikeSearch
    <3>2. UpdateOK(node', t, M)
      BY <2>2, <2>8
    <3>3. EraseOK(node', l', t, M)
      BY <1>1, <2>2, <2>3, <2>7, <2>12 DEF EraseOK, Alike
    <3> QED
      BY <2>3, <3>1, <3>2, <3>3 DEF CallOK
  <2>13. Apart(node, node', t) /\ \A n \in Nodes : AttrsOK(node', n)
    BY <2>2 DEF Apart, Inv, NodesOK, NodeOK
  <2>14. \A n \in Nodes : node'[n].lock = t => n \in HeldNodes(M)
    BY <2>2, <2>9 DEF Inv, LockInv
  <2>15. ~Again(M)
    BY <2>3, <2>4 DEF Again
  <2>16. l[t].pc \notin {"i_link", "i_full"} /\ M.pc \notin {"i_link", "i_full"}
    BY <1>1, <2>3, <2>4
  <2> QED
    BY <2>2, <2>10, <2>11, <2>12, <2>13, <2>14, <2>15, <2>16, SameKeeps
<1> QED
  BY <1>1, <1>4, <1>6, <1>7

-----------------------------------------------------------------------------
(* Steps that change the lists *)

\* A step of t keeps the invariant if it keeps what the others rely on.
LEMMA StepKeeps ==
  ASSUME Inv, NEW t \in Threads, NEW M, l' = [l EXCEPT ![t] = M], ClientInv', MakersInv',
         NodesOK(node', l'), Lists(node', l'),
         \A s \in Threads \ {t} : Keeps(node, l, node', l', s, l[s]),
         CallOK(node', l', t, M),
         \A n \in DOMAIN node' : n \in Nodes \/ node'[n].lock = Nobody,
         \A n \in Nodes : node'[n].lock = node[n].lock,
         HeldNodes(l[t]) \subseteq HeldNodes(M),
         ~Again(M),
         \A s \in Threads \ {t} : \A W : Again(l[s]) /\ Within(node, l, l[s], W) => \E V : Within(node', l', l[s], V)
  PROVE  Inv'
<1>1. DOMAIN l = Threads /\ l'[t] = M /\ \A s \in Threads \ {t} : l'[s] = l[s]
  BY DEF Inv, ClientInv
<1>2. CallsInv'
  <2> SUFFICES ASSUME NEW s \in Threads \ {t} PROVE CallOK(node', l', s, l[s])
    BY <1>1 DEF CallsInv
  <2> QED
    BY CallKeeps, Levelled DEF Inv, CallsInv
<1>3. LockInv'
  BY <1>1 DEF Inv, LockInv
<1>4. AgainInv'
  <2> SUFFICES ASSUME NEW s \in Threads \ {t}, Again(l[s]) PROVE \E V : Within(node', l', l[s], V)
    BY <1>1 DEF AgainInv
  <2> QED
    BY DEF Inv, AgainInv
<1> QED
  BY <1>2, <1>3, <1>4 DEF Inv

\* The new node gets a number of its own.
LEMMA NewNode ==
  ASSUME Inv
  PROVE  /\ Cardinality(Nodes) \in Nat /\ Cardinality(Nodes) > 1 /\ Cardinality(Nodes) \notin Nodes
         /\ Nodes = 0 .. Cardinality(Nodes) - 1
         /\ Nodes \cup {Cardinality(Nodes)} = 0 .. Cardinality(Nodes)
<1>1. PICK k \in Nat : k > 1 /\ Nodes = 0 .. k - 1
  BY DEF Inv, NodesOK
<1>2. Cardinality(0 .. k - 1) = k
  <2>1. 0 \in Int /\ k - 1 \in Int
    OBVIOUS
  <2>2. Cardinality(0 .. k - 1) = IF 0 > k - 1 THEN 0 ELSE k - 1 - 0 + 1
    BY <2>1, FS_Interval
  <2> QED
    BY <1>1, <2>2
<1> QED
  BY <1>1, <1>2

\* The new node is not on a level yet.
LEMMA InsertCreateKeeps ==
  ASSUME Inv, NEW t \in Threads, InsertCreate(t), UNCHANGED list
  PROVE  Inv'
<1> DEFINE L == l[t]
           c == Cardinality(Nodes)
           M == [L EXCEPT !.pc = "i_link", !.curr = c, !.level = 0]
<1>1. /\ L.pc = "i_create" /\ LocalsOK(L) /\ SearchOK(node, l, L) /\ UpdateOK(node, t, L) /\ EraseOK(node, l, t, L)
      /\ L.level = L.topLevel /\ L.topLevel \in Levels /\ L.op = "insertIfAbsent" /\ ~L.isMarked
      /\ L.flevel = -1 /\ Found(node, l, L, 0) /\ L.key \in Keys
  BY CallFacts DEF InsertCreate, At, UpdateOK, LockPlaces, EraseOK, SearchOK
<1>2. realMaxLvl \in Levels /\ DOMAIN l = Threads
  BY DEF Inv, ClientInv
<1>3. node' = Created(node, L.topLevel, L.key, t, L.succs) /\ l' = [l EXCEPT ![t] = M] /\ UNCHANGED <<realMaxLvl, plan>>
  BY DEF InsertCreate, Do, client
<1>4. /\ LocalsOK(M) /\ M.pc = "i_link" /\ M.op = L.op /\ M.key = L.key /\ M.topLevel = L.topLevel
      /\ M.level = 0 /\ M.preds = L.preds /\ M.succs = L.succs /\ M.curr = c
      /\ M.flevel = L.flevel /\ M.victim = L.victim /\ M.isMarked = L.isMarked
  BY <1>1 DEF LocalsOK, Fields
<1> HIDE DEF M
<1>5. c \in Nat /\ c > 1 /\ c \notin Nodes /\ Nodes \cup {c} = 0 .. c
  BY NewNode
<1>6. /\ DOMAIN node' = Nodes \cup {c} /\ \A n \in Nodes : node'[n] = node[n]
      /\ node'[c] = [createNode(L.topLevel, L.key, t) EXCEPT !.next =
                       [i \in Levels |-> IF i <= L.topLevel THEN L.succs[i] ELSE NULL]]
  BY <1>3, <1>5 DEF Created
<1> HIDE DEF c
<1>7. /\ node'[c].key = L.key /\ node'[c].topLevel = L.topLevel /\ node'[c].value = t /\ ~node'[c].mark
      /\ node'[c].lock = Nobody /\ AttrsOK(node', c)
      /\ \A i \in 0 .. L.topLevel : node'[c].next[i] = L.succs[i]
  <2>1. L.topLevel \in Levels /\ L.key \in Int
    BY <1>1, KeysInt
  <2> QED
    BY <1>6, <2>1 DEF createNode, AttrsOK, NodeFields
<1>8. l'[t] = M /\ \A s \in Threads \ {t} : l'[s] = l[s]
  BY <1>2, <1>3
<1>9. \A n \in Nodes : \A i \in Levels : NotYet(l', n, i) <=> NotYet(l, n, i)
  BY <1>1, <1>4, <1>5, <1>8 DEF NotYet
<1>10. \A i \in Levels : NotYet(l', c, i)
  <2>1. l'[t].pc = "i_link" /\ l'[t].curr = c /\ l'[t].level = 0
    BY <1>4, <1>8
  <2>2. \A i \in Levels : 0 <= i
    OBVIOUS
  <2> HIDE DEF L
  <2> QED
    BY <2>1, <2>2 DEF NotYet
<1>11. \A n, i : Erasing(l', n, i) <=> Erasing(l, n, i)
  BY <1>1, <1>4, <1>8 DEF Erasing, Erases
<1>12. \A n \in Nodes, i \in Levels : /\ Linked(node', l', n, i) <=> Linked(node, l, n, i)
                                      /\ On(node', l', n, i) <=> On(node, l, n, i)
  BY <1>6, <1>9, <1>11 DEF Linked, On
<1>13. \A i : ~Linked(node', l', c, i)
  BY <1>1, <1>7, <1>10 DEF Linked
<1>14. ASSUME NEW n \in Nodes \ {tail} PROVE NextOK(node', l', n)
  <2>1. NextOK(node, l, n) /\ node[n].topLevel \in Levels
    BY Levelled DEF Inv, NodesOK, NodeOK
  <2> SUFFICES ASSUME NEW i \in 0 .. node[n].topLevel
               PROVE  LET m == node[n].next[i] IN Linked(node', l', m, i) /\ node[n].key < node'[m].key
    BY <1>6 DEF NextOK
  <2> DEFINE m == node[n].next[i]
  <2>2. Linked(node, l, m, i) /\ node[n].key < node[m].key
    BY <2>1 DEF NextOK
  <2> HIDE DEF m
  <2>3. m \in Nodes /\ i \in Levels
    BY <2>1, <2>2 DEF Linked
  <2> QED
    BY <1>6, <1>12, <2>2, <2>3 DEF m
<1>15. ASSUME NEW i \in Levels
       PROVE  /\ L.preds[i] \in Nodes /\ L.succs[i] \in Nodes
              /\ Linked(node, l, L.succs[i], i) /\ L.key < node[L.succs[i]].key
  <2>1. Neighbours(node, l, L, i) /\ L.preds[i] \in Nodes /\ L.succs[i] \in Nodes
    BY <1>1, FoundAt, Levelled DEF LockPlaces
  <2>2. node[L.succs[i]].key # L.key
    BY <1>1 DEF Found
  <2>3. node[L.succs[i]].key \in Int
    BY <2>1 DEF Inv, NodesOK, NodeOK, AttrsOK
  <2>4. L.key \in Int
    BY <1>1, KeysInt
  <2> QED
    BY <2>1, <2>2, <2>3, <2>4 DEF Neighbours
<1>16. NextOK(node', l', c)
  BY <1>1, <1>6, <1>7, <1>12, <1>15 DEF NextOK
<1>17. NodesOK(node', l')
  <2>1. \A n \in Nodes : NodeOK(node', l', n)
    <3> SUFFICES ASSUME NEW n \in Nodes PROVE NodeOK(node', l', n)
      OBVIOUS
    <3>1. NodeOK(node, l, n) /\ AttrsOK(node, n) /\ node[n].topLevel \in Levels /\ node'[n] = node[n]
      BY <1>6, Levelled DEF Inv, NodesOK, NodeOK
    <3>2. AttrsOK(node', n)
      BY <3>1 DEF AttrsOK
    <3> QED
      BY <1>12, <1>14, <3>1, <3>2 DEF NodeOK
  <2>2. NodeOK(node', l', c)
    BY <1>7, <1>16 DEF NodeOK
  <2>3. 0 \in Nodes /\ 1 \in Nodes /\ c + 1 \in Nat /\ c + 1 > 1 /\ DOMAIN node' = 0 .. (c + 1) - 1
    BY <1>5, <1>6, SMTT(30) DEF Inv, NodesOK
  <2>4. /\ node'[head].key = minKey - 1 /\ node'[tail].key = maxKey + 1
        /\ \A n \in {head, tail} :
            node'[n].topLevel = MAX_LEVEL /\ ~node'[n].mark /\ \A i \in Levels : ~NotYet(l', n, i)
    BY <1>6, <1>9, <2>3, Zenon DEF Inv, NodesOK
  <2>5. \A n \in DOMAIN node' \ {head, tail} : node'[n].key \in Keys
    BY <1>1, <1>6, <1>7, ZenonT(60) DEF Inv, NodesOK
  <2> HIDE DEF L
  <2> QED
    BY <1>6, <2>1, <2>2, <2>3, <2>4, <2>5 DEF NodesOK
<1>18. Lists(node', l')
  <2>1. \A n, i : On(node', l', n, i) => n \in Nodes
    BY <1>6, <1>13 DEF On, Linked
  <2>2. ASSUME NEW i \in Levels, NEW n \in DOMAIN node' \ {tail}, On(node', l', n, i)
        PROVE  Follows(node', l', n, node'[n].next[i], i)
    <3>1. n \in Nodes /\ On(node, l, n, i) /\ node'[n] = node[n]
      BY <1>6, <1>12, <2>1, <2>2
    <3> DEFINE m == node[n].next[i]
    <3>2. Follows(node, l, n, m, i)
      BY <2>2, <3>1 DEF Inv, Lists
    <3> HIDE DEF m
    <3>3. m \in Nodes /\ On(node', l', m, i)
      BY <1>12, <3>2 DEF Follows, On, Linked
    <3>4. ASSUME NEW x \in DOMAIN node', On(node', l', x, i)
          PROVE  node'[x].key <= node'[n].key \/ node'[m].key <= node'[x].key
      BY <1>6, <1>12, <2>1, <3>1, <3>2, <3>3, <3>4 DEF Follows
    <3> QED
      BY <1>6, <3>1, <3>2, <3>3, <3>4 DEF Follows, m
  <2>3. ASSUME NEW n \in DOMAIN node', NEW m \in DOMAIN node', On(node', l', n, 0), On(node', l', m, 0), node'[n].key = node'[m].key
        PROVE  n = m
    BY <1>6, <1>12, <2>1, <2>3 DEF Inv, Lists
  <2> QED
    BY <2>2, <2>3 DEF Lists
<1>19. ASSUME NEW s \in (Threads \ {t}) \cup {NULL}, NEW K, K.pc = "i_link" => K.curr \in Nodes
       PROVE  Keeps(node, l, node', l', s, K)
  BY <1>6, <1>12, <1>19 DEF Keeps
<1>20. \A s \in Threads \ {t} : Keeps(node, l, node', l', s, l[s])
  <2>1. \A s \in Threads : l[s].pc = "i_link" => l[s].curr \in Nodes
    BY DEF Inv, CallsInv, CallOK, UpdateOK
  <2> QED
    BY <1>19, <2>1
<1>21. CallOK(node', l', t, M)
  <2>1. Keeps(node, l, node', l', NULL, L)
    BY <1>1, <1>19
  <2>2. Found(node', l', M, 0)
    BY <1>1, <1>4, <2>1, FoundKeeps, FoundSame, Levelled, SMTT(30)
  <2>3. SearchOK(node', l', M)
    BY <1>4, <2>2 DEF SearchOK
  <2>4. \A i \in 0 .. L.topLevel : Guarded(node', t, M, i) /\ Locked(node', t, M, i)
    BY <1>1, <1>4, <1>6, <1>15, SMTT(30) DEF UpdateOK, Guarded, Locked, Target
  <2>5. UpdateOK(node', t, M)
    BY <1>1, <1>4, <1>5, <1>6, <1>7, <2>4 DEF UpdateOK, LockPlaces
  <2>6. EraseOK(node', l', t, M)
    BY <1>1, <1>4 DEF EraseOK
  <2> QED
    BY <1>4, <2>3, <2>5, <2>6 DEF CallOK
<1>22. MakersInv'
  <2>1. \A s \in Threads : l[s].pc = "i_link" => l[s].curr \in Nodes
    BY DEF Inv, CallsInv, CallOK, UpdateOK
  <2>2. ASSUME NEW r \in Threads, NEW s \in Threads, l'[r].pc = "i_link", l'[s].pc = "i_link", l'[r].curr = l'[s].curr
        PROVE  r = s
    BY <1>4, <1>5, <1>8, <2>1, <2>2 DEF Inv, MakersInv
  <2>3. ASSUME NEW n \in DOMAIN node' \ {head, tail}, ~node'[n].fullyLinked
        PROVE  \E s \in Threads : l'[s].pc \in {"i_link", "i_full"} /\ l'[s].curr = n
    <3>1. CASE n = c
      BY <1>4, <1>8, <3>1
    <3>2. CASE n # c
      <4>1. n \in Nodes \ {head, tail} /\ ~node[n].fullyLinked
        BY <1>6, <2>3, <3>2
      <4>2. PICK s \in Threads : l[s].pc \in {"i_link", "i_full"} /\ l[s].curr = n
        BY <4>1 DEF Inv, MakersInv
      <4> QED
        BY <1>1, <1>8, <4>2
    <3> QED
      BY <3>1, <3>2
  <2> QED
    BY <2>2, <2>3 DEF MakersInv
<1>23. ASSUME NEW s \in Threads \ {t}, NEW W, Within(node, l, l[s], W) PROVE Within(node', l', l[s], W)
  <2>1. \A n, i : On(node', l', n, i) => n \in Nodes
    BY <1>6, <1>13 DEF On, Linked
  <2>2. W \subseteq (DOMAIN node) \X Levels
    BY <1>23 DEF Within
  <2> HIDE DEF L
  <2> QED
    BY <1>6, <1>12, <1>23, <2>1, <2>2 DEF Within
<1>24. ClientInv'
  BY <1>2, <1>3, <1>4, LocalClient
<1>25. HeldNodes(L) \subseteq HeldNodes(M)
  BY <1>1, <1>4 DEF HeldNodes, LockPlaces
<1>26. ~Again(M)
  BY <1>1, <1>4 DEF Again
<1> QED
  BY <1>3, <1>6, <1>7, <1>17, <1>18, <1>20, <1>21, <1>22, <1>23, <1>24, <1>25, <1>26, StepKeeps, Zenon

\* A predecessor that is locked and validated is on its level, and the target follows it.
LEMMA GuardedOn ==
  ASSUME Inv, NEW t \in Threads, NEW i \in Levels, l[t].pc \in LockPlaces, Guarded(node, t, l[t], i)
  PROVE  LET p == l[t].preds[i] IN
         /\ p \in Nodes \ {tail} /\ On(node, l, p, i) /\ node[p].key < l[t].key /\ node[p].key \in Int
         /\ node[p].lock = t /\ ~node[p].mark /\ l[t].key \in Int
         /\ Follows(node, l, p, Target(l[t], i), i) /\ Target(l[t], i) \in Nodes
         /\ node[p].next[i] = Target(l[t], i)
<1> DEFINE L == l[t]
           p == L.preds[i]
<1>1. Linked(node, l, p, i) /\ p \in Nodes /\ node[p].key < L.key
  BY CallFacts, FoundAt, Levelled DEF LockPlaces, Neighbours
<1>2. L.key \in Keys /\ L.key \in Int
  BY CallFacts, KeysInt DEF LockPlaces
<1>3. p \in Nodes \ {tail} /\ node[p].key \in Int
  <2>1. node[p].key \in Int
    BY <1>1 DEF Inv, NodesOK, NodeOK, AttrsOK
  <2>2. node[tail].key = maxKey + 1
    BY DEF Inv, NodesOK
  <2> QED
    BY <1>1, <1>2, <2>1, <2>2, KeysInt
<1>4. On(node, l, p, i) /\ node[p].lock = t /\ ~node[p].mark /\ node[p].next[i] = Target(L, i)
  BY <1>1 DEF On, Guarded, Locked
<1>5. Follows(node, l, p, node[p].next[i], i)
  BY <1>3, <1>4 DEF Inv, Lists
<1>6. Target(L, i) \in Nodes
  BY <1>4, <1>5 DEF Follows, On, Linked
<1> QED
  BY <1>1, <1>2, <1>3, <1>4, <1>5, <1>6

\* The nodes of a level have different keys.
LEMMA OneNode ==
  ASSUME Inv, NEW i \in Levels, NEW n \in Nodes, NEW m \in Nodes, On(node, l, n, i), On(node, l, m, i),
         node[n].key = node[m].key
  PROVE  n = m
<1>1. 0 \in 0 .. i
  OBVIOUS
<1>2. On(node, l, n, 0) /\ On(node, l, m, 0)
  BY <1>1, LinkedDown
<1> QED
  BY <1>2 DEF Inv, Lists

\* The keys of nodes are integers.
LEMMA KeyInt ==
  ASSUME Inv
  PROVE  \A n \in Nodes : node[n].key \in Int
  BY DEF Inv, NodesOK, NodeOK, AttrsOK

\* A node goes between p and s, which were neighbours on level i.
LEMMA AddedLists ==
  ASSUME Inv, NEW i \in Levels, NEW p \in Nodes \ {tail}, NEW c \in Nodes \ {head, tail}, NEW s \in Nodes,
         On(node, l, p, i), Follows(node, l, p, s, i), node[p].key < node[c].key, node[c].key < node[s].key,
         node[c].next[i] = s, ~On(node, l, c, i),
         DOMAIN node' = Nodes, node'[p].next[i] = c, \A j \in Levels \ {i} : node'[p].next[j] = node[p].next[j],
         \A n \in Nodes \ {p} : node'[n].next = node[n].next, \A n \in Nodes : node'[n].key = node[n].key,
         \A n \in Nodes, j \in Levels : On(node', l', n, j) <=> (On(node, l, n, j) \/ (n = c /\ j = i))
  PROVE  Lists(node', l')
<1>1. \A n \in Nodes : node[n].key \in Int
  BY KeyInt
<1>2. ASSUME NEW j \in Levels, NEW n \in Nodes \ {tail}, On(node', l', n, j)
      PROVE  Follows(node', l', n, node'[n].next[j], j)
  <2>1. CASE j # i
    <3> DEFINE m == node[n].next[j]
    <3>1. On(node, l, n, j) /\ node'[n].next[j] = m
      BY <1>2, <2>1
    <3>2. Follows(node, l, n, m, j)
      BY <1>2, <3>1 DEF Inv, Lists
    <3> HIDE DEF m
    <3>3. m \in Nodes
      BY <3>2 DEF Follows, On, Linked
    <3> QED
      BY <2>1, <3>1, <3>2, <3>3 DEF Follows
  <2>2. CASE j = i /\ n = p
    <3>1. ASSUME NEW x \in Nodes, On(node', l', x, i) PROVE node[x].key <= node[p].key \/ node[c].key <= node[x].key
      BY <1>1, <3>1 DEF Follows
    <3> QED
      BY <2>2, <3>1 DEF Follows
  <2>3. CASE j = i /\ n = c
    <3>1. ASSUME NEW x \in Nodes, On(node', l', x, i) PROVE node[x].key <= node[c].key \/ node[s].key <= node[x].key
      BY <1>1, <3>1 DEF Follows
    <3>2. node'[c].next[i] = s
      BY <1>1
    <3>3. On(node', l', s, i)
      BY DEF Follows
    <3> QED
      BY <2>3, <3>1, <3>2, <3>3 DEF Follows
  <2>4. CASE j = i /\ n # p /\ n # c
    <3> DEFINE m == node[n].next[i]
    <3>1. On(node, l, n, i) /\ node'[n].next[i] = m
      BY <1>2, <2>4
    <3>2. Follows(node, l, n, m, i)
      BY <1>2, <3>1 DEF Inv, Lists
    <3> HIDE DEF m
    <3>3. m \in Nodes /\ On(node', l', m, i)
      BY <3>2 DEF Follows, On, Linked
    <3>4. node[c].key <= node[n].key \/ node[m].key <= node[c].key
      <4>1. node[n].key # node[p].key
        BY <2>4, <3>1, OneNode
      <4>2. node[p].key <= node[n].key \/ node[m].key <= node[p].key
        BY <3>2 DEF Follows
      <4>3. node[n].key <= node[p].key \/ node[s].key <= node[n].key
        BY <3>1 DEF Follows
      <4> QED
        BY <1>1, <3>3, <4>1, <4>2, <4>3
    <3>5. ASSUME NEW x \in Nodes, On(node', l', x, i) PROVE node[x].key <= node[n].key \/ node[m].key <= node[x].key
      BY <3>2, <3>4, <3>5 DEF Follows
    <3> QED
      BY <2>4, <3>1, <3>2, <3>3, <3>5 DEF Follows
  <2> QED
    BY <2>1, <2>2, <2>3, <2>4
<1>3. ASSUME NEW n \in Nodes, NEW m \in Nodes, On(node', l', n, 0), On(node', l', m, 0), node[n].key = node[m].key
      PROVE  n = m
  <2>1. \A x \in Nodes : On(node, l, x, i) => node[x].key # node[c].key
    BY <1>1 DEF Follows
  <2>2. 0 \in Levels
    OBVIOUS
  <2> QED
    BY <1>3, <2>1, <2>2 DEF Inv, Lists
<1> QED
  BY <1>2, <1>3 DEF Lists

\* The new node is linked on one more level.
LEMMA InsertLinkKeeps ==
  ASSUME Inv, NEW t \in Threads, InsertLink(t), UNCHANGED list
  PROVE  Inv'
<1> DEFINE L == l[t]
           i == L.level
           p == L.preds[i]
           c == L.curr
           s == L.succs[i]
           M == IF i < L.topLevel THEN [L EXCEPT !.level = @ + 1] ELSE [L EXCEPT !.pc = "i_full"]
<1>1. /\ L.pc = "i_link" /\ LocalsOK(L) /\ SearchOK(node, l, L) /\ UpdateOK(node, t, L) /\ EraseOK(node, l, t, L)
      /\ i \in Levels /\ i <= L.topLevel /\ L.topLevel \in Levels /\ L.op = "insertIfAbsent" /\ ~L.isMarked
      /\ L.flevel = -1 /\ Found(node, l, L, 0) /\ L.key \in Keys /\ L.key \in Int
      /\ c \in Nodes \ {head, tail} /\ node[c].key = L.key /\ node[c].topLevel = L.topLevel
      /\ \A j \in i .. L.topLevel : node[c].next[j] = L.succs[j]
  BY CallFacts, KeysInt, Zenon DEF InsertLink, At, UpdateOK, LockPlaces, EraseOK, SearchOK
<1>2. realMaxLvl \in Levels /\ DOMAIN l = Threads
  BY DEF Inv, ClientInv
<1>3. node' = [node EXCEPT ![p].next[i] = c] /\ l' = [l EXCEPT ![t] = M] /\ UNCHANGED <<realMaxLvl, plan>>
  BY Zenon DEF InsertLink, Do, client
<1>4. /\ LocalsOK(M) /\ M.op = L.op /\ M.key = L.key /\ M.topLevel = L.topLevel
      /\ M.preds = L.preds /\ M.succs = L.succs /\ M.curr = c
      /\ M.flevel = L.flevel /\ M.victim = L.victim /\ M.isMarked = L.isMarked
      /\ IF i < L.topLevel THEN M.pc = "i_link" /\ M.level = i + 1 ELSE M.pc = "i_full" /\ M.level = i
  <2>1. CASE i < L.topLevel
    BY <1>1, <2>1, SMTT(30) DEF LocalsOK, Fields
  <2>2. CASE ~(i < L.topLevel)
    BY <1>1, <2>2 DEF LocalsOK, Fields
  <2> QED
    BY <2>1, <2>2
<1> HIDE DEF M
<1>5. \A j \in i .. L.topLevel : Guarded(node, t, L, j)
  BY <1>1 DEF UpdateOK
<1>6. /\ p \in Nodes \ {tail} /\ On(node, l, p, i) /\ node[p].key < L.key /\ node[p].lock = t
      /\ Follows(node, l, p, s, i) /\ s \in Nodes
  <2>1. Target(L, i) = s /\ L.pc \in LockPlaces /\ i \in i .. L.topLevel
    BY <1>1 DEF Target, LockPlaces
  <2> QED
    BY <1>1, <1>5, <2>1, GuardedOn
<1>7. L.key < node[s].key
  <2>1. L.key <= node[s].key /\ node[s].key # L.key
    BY <1>1 DEF Found, Neighbours
  <2> QED
    BY <1>1, <1>6, <2>1, KeyInt
<1>8. p # c /\ node[c].next[i] = s
  BY <1>1, <1>6, KeyInt
<1>9. \A n \in Nodes : AttrsOK(node, n) /\ DOMAIN node[n] = NodeFields /\ DOMAIN node[n].next = Levels
  BY DEF Inv, NodesOK, NodeOK, AttrsOK
<1> HIDE DEF p, s
<1>10. /\ DOMAIN node' = Nodes /\ \A n \in Nodes \ {p} : node'[n] = node[n]
       /\ \A n \in Nodes : /\ node'[n].key = node[n].key /\ node'[n].topLevel = node[n].topLevel
                           /\ node'[n].lock = node[n].lock /\ node'[n].mark = node[n].mark
                           /\ node'[n].fullyLinked = node[n].fullyLinked /\ node'[n].value = node[n].value
                           /\ DOMAIN node'[n] = NodeFields /\ DOMAIN node'[n].next = Levels
       /\ node'[p].next = [node[p].next EXCEPT ![i] = c]
  BY <1>3, <1>6, <1>9 DEF NodeFields
<1>11. node'[p].next[i] = c /\ \A j \in Levels \ {i} : node'[p].next[j] = node[p].next[j]
  BY <1>1, <1>6, <1>9, <1>10
<1>12. l'[t] = M /\ \A r \in Threads \ {t} : l'[r] = l[r]
  BY <1>2, <1>3
<1>13. \A r \in Threads : l[r].pc = "i_link" /\ l[r].curr = c => r = t
  BY <1>1 DEF Inv, MakersInv
<1>14. \A j \in 0 .. L.topLevel : (NotYet(l, c, j) <=> i <= j) /\ (NotYet(l', c, j) <=> i < j)
  BY <1>1, <1>4, <1>12, <1>13 DEF NotYet
<1>15. \A n \in Nodes \ {c}, j \in Levels : NotYet(l', n, j) <=> NotYet(l, n, j)
  BY <1>1, <1>4, <1>12 DEF NotYet
<1>16. \A n, j : Erasing(l', n, j) <=> Erasing(l, n, j)
  BY <1>1, <1>4, <1>12 DEF Erasing, Erases
<1>17. \A n \in Nodes, j \in Levels : Linked(node', l', n, j) <=> (Linked(node, l, n, j) \/ (n = c /\ j = i))
  <2>1. \A j \in Levels : Linked(node', l', c, j) <=> (Linked(node, l, c, j) \/ j = i)
    BY <1>1, <1>10, <1>14, SMTT(30) DEF Linked
  <2>2. \A n \in Nodes \ {c}, j \in Levels : Linked(node', l', n, j) <=> Linked(node, l, n, j)
    BY <1>10, <1>15 DEF Linked
  <2> QED
    BY <2>1, <2>2
<1>18. ~node[c].mark /\ ~Linked(node, l, c, i)
  <2>1. ~Linked(node, l, c, i) /\ ~Linked(node, l, c, L.topLevel)
    BY <1>1, <1>14 DEF Linked
  <2> QED
    BY <1>1, <2>1 DEF Inv, NodesOK, NodeOK
<1>19. \A n \in Nodes, j \in Levels : On(node', l', n, j) <=> (On(node, l, n, j) \/ (n = c /\ j = i))
  BY <1>10, <1>16, <1>17, <1>18 DEF On
<1>20. Lists(node', l')
  <2>1. ~On(node, l, c, i)
    BY <1>18 DEF On
  <2>2. \A n \in Nodes \ {p} : node'[n].next = node[n].next
    BY <1>10
  <2>3. node[p].key < node[c].key /\ node[c].key < node[s].key /\ \A n \in Nodes : node'[n].key = node[n].key
    BY <1>1, <1>6, <1>7, <1>10
  <2> HIDE DEF L, i, c
  <2> QED
    BY <1>1, <1>6, <1>8, <1>10, <1>11, <1>19, <2>1, <2>2, <2>3, AddedLists, SMTT(60)
<1>21. NodesOK(node', l')
  <2>1. ASSUME NEW n \in Nodes \ {tail}, NEW j \in 0 .. node[n].topLevel
        PROVE  LET m == node'[n].next[j] IN Linked(node', l', m, j) /\ node[n].key < node'[m].key
    <3> DEFINE m == node[n].next[j]
    <3>1. j \in Levels /\ Linked(node, l, m, j) /\ node[n].key < node[m].key
      BY Levelled, SMTT(60) DEF Inv, NodesOK, NodeOK, NextOK
    <3> HIDE DEF m
    <3>2. m \in Nodes
      BY <3>1 DEF Linked
    <3>3. CASE n = p /\ j = i
      BY <1>1, <1>6, <1>10, <1>11, <1>17, <3>3
    <3>4. CASE ~(n = p /\ j = i)
      <4>1. node'[n].next[j] = m
        BY <1>10, <1>11, <3>1, <3>4 DEF m
      <4> QED
        BY <1>10, <1>17, <3>1, <3>2, <4>1
    <3> QED
      BY <3>3, <3>4
  <2>2. ASSUME NEW n \in Nodes PROVE NodeOK(node', l', n)
    <3>1. AttrsOK(node', n)
      BY <1>9, <1>10 DEF AttrsOK
    <3>2. n # tail => NextOK(node', l', n)
      BY <1>10, <2>1 DEF NextOK
    <3>3. node'[n].mark => Linked(node', l', n, node'[n].topLevel)
      BY <1>10, <1>17, Levelled DEF Inv, NodesOK, NodeOK
    <3> QED
      BY <3>1, <3>2, <3>3 DEF NodeOK
  <2>3. head \in Nodes /\ tail \in Nodes
    BY DEF Inv, NodesOK
  <2>4. /\ node'[head].key = minKey - 1 /\ node'[tail].key = maxKey + 1
        /\ \A n \in {head, tail} :
            node'[n].topLevel = MAX_LEVEL /\ ~node'[n].mark /\ \A j \in Levels : ~NotYet(l', n, j)
    BY <1>1, <1>10, <1>15, <2>3, SMTT(60) DEF Inv, NodesOK
  <2>5. /\ \A n \in DOMAIN node' \ {head, tail} : node'[n].key \in Keys
        /\ \E k \in Nat : k > 1 /\ DOMAIN node' = 0 .. k - 1
    BY <1>10 DEF Inv, NodesOK
  <2> HIDE DEF L
  <2> QED
    BY <1>10, <2>2, <2>4, <2>5 DEF NodesOK
<1>22. ASSUME NEW r \in (Threads \ {t}) \cup {NULL}, NEW K,
              K.pc = "i_link" => /\ K.curr \in Nodes /\ K.topLevel \in Levels /\ K.level \in Levels
                                 /\ K.curr = p => i < K.level
       PROVE  Keeps(node, l, node', l', r, K)
  <2>1. \A n \in Nodes, j \in Levels : Linked(node, l, n, j) => Linked(node', l', n, j)
    BY <1>17
  <2>2. \A n \in Nodes : node[n].lock = r => n # p
    BY <1>6
  <2>3. ASSUME K.pc = "i_link", NEW j \in K.level .. K.topLevel PROVE node'[K.curr].next[j] = node[K.curr].next[j]
    BY <1>1, <1>10, <1>11, <1>22, <2>3, SMTT(30)
  <2> QED
    BY <1>10, <2>1, <2>2, <2>3 DEF Keeps
<1>23. ASSUME NEW r \in Threads \ {t} PROVE Keeps(node, l, node', l', r, l[r])
  <2>1. ASSUME l[r].pc = "i_link"
        PROVE  /\ l[r].curr \in Nodes /\ l[r].topLevel \in Levels /\ l[r].level \in Levels
               /\ l[r].curr = p => i < l[r].level
    <3>1. l[r].curr \in Nodes /\ l[r].topLevel \in Levels /\ l[r].level \in Levels
      BY <2>1, CallFacts DEF UpdateOK
    <3>2. ~NotYet(l, p, i)
      BY <1>6 DEF On, Linked
    <3> QED
      BY <1>1, <2>1, <3>1, <3>2 DEF NotYet
  <2> QED
    BY <1>22, <2>1
<1>24. CallOK(node', l', t, M)
  <2>1. Keeps(node, l, node', l', NULL, L)
    BY <1>1, <1>8, <1>22
  <2>2. Found(node', l', M, 0)
    BY <1>1, <1>4, <2>1, FoundKeeps, FoundSame, Levelled
  <2>3. SearchOK(node', l', M)
    BY <1>1, <1>4, <2>2 DEF SearchOK
  <2>4. \A j \in 0 .. L.topLevel : L.preds[j] \in Nodes /\ Locked(node, t, L, j)
    BY <1>1, FoundAt, Levelled DEF UpdateOK, LockPlaces
  <2>5. \A j \in 0 .. L.topLevel : Locked(node', t, M, j)
    BY <1>4, <1>10, <2>4 DEF Locked
  <2>6. ASSUME NEW j \in i + 1 .. L.topLevel PROVE Guarded(node', t, M, j)
    <3>1. j \in i .. L.topLevel /\ j \in Levels \ {i} /\ j \in 0 .. L.topLevel
      BY <1>1
    <3>2. Guarded(node, t, L, j)
      BY <1>5, <3>1
    <3>3. node'[L.preds[j]].next[j] = node[L.preds[j]].next[j]
      BY <1>10, <1>11, <2>4, <3>1
    <3> QED
      BY <1>4, <1>10, <2>4, <2>5, <3>1, <3>2, <3>3 DEF Guarded, Target
  <2>7. node'[c] = node[c]
    BY <1>1, <1>8, <1>10
  <2>8. UpdateOK(node', t, M)
    BY <1>1, <1>4, <1>10, <2>5, <2>6, <2>7, SMTT(60) DEF UpdateOK, LockPlaces
  <2>9. EraseOK(node', l', t, M)
    BY <1>1, <1>4 DEF EraseOK
  <2> QED
    BY <1>4, <2>3, <2>8, <2>9 DEF CallOK
<1>25. MakersInv'
  <2>1. \A r \in Threads : l'[r].curr = l[r].curr /\ (l'[r].pc = "i_link" => l[r].pc = "i_link")
                           /\ (l[r].pc \in {"i_link", "i_full"} => l'[r].pc \in {"i_link", "i_full"})
    BY <1>1, <1>4, <1>12
  <2> HIDE DEF L
  <2> QED
    BY <1>10, <2>1, SMTT(60) DEF Inv, MakersInv
<1>26. ASSUME NEW r \in Threads \ {t}, NEW W, Again(l[r]), Within(node, l, l[r], W)
       PROVE  Within(node', l', l[r], W \cup {<<c, i>>})
  <2> DEFINE v == l[r].victim
             V == W \cup {<<c, i>>}
  <2>1. W \subseteq (DOMAIN node) \X Levels
    BY <1>26 DEF Within
  <2>2. L.key # l[r].key
    <3>1. /\ v \in Nodes /\ node[v].key = l[r].key /\ node[v].mark /\ Linked(node, l, v, node[v].topLevel)
          /\ node[v].topLevel \in Levels
      BY <1>26, CallFacts, Levelled DEF Again, EraseOK
    <3>2. \A j : Erasing(l, v, j)
      BY <1>26 DEF Again, Erasing, Erases
    <3>3. On(node, l, v, node[v].topLevel)
      BY <3>1, <3>2 DEF On
    <3>4. 0 \in 0 .. node[v].topLevel
      BY <3>1
    <3>5. On(node, l, v, 0)
      BY <3>3, <3>4, LinkedDown
    <3>6. CASE i = 0
      BY <1>1, <1>6, <1>7, <3>1, <3>5, <3>6, KeyInt DEF Follows
    <3>7. CASE i # 0
      <4>1. On(node, l, c, 0)
        BY <1>1, <1>14, <1>18, <3>7 DEF On, Linked
      <4> QED
        BY <1>1, <1>18, <3>1, <3>5, <4>1 DEF Inv, Lists
    <3> QED
      BY <3>6, <3>7
  <2>3. V \subseteq (DOMAIN node') \X Levels
    BY <1>1, <1>10, <2>1
  <2>4. \A n \in Nodes, j \in Levels : On(node', l', n, j) => <<n, j>> \in V
    BY <1>19, <1>26 DEF Within
  <2>5. ASSUME NEW n \in Nodes, NEW j \in Levels, <<n, j>> \in V
        PROVE  /\ n # tail /\ j <= node[n].topLevel => <<node'[n].next[j], j>> \in V
               /\ j > 0 => <<n, j - 1>> \in V
               /\ node[n].key = l[r].key => n = v
    <3>1. CASE n = c /\ j = i
      <4>1. <<s, i>> \in W
        BY <1>1, <1>6, <1>26 DEF Follows, Within
      <4>2. i > 0 => <<c, i - 1>> \in W
        <5>1. i > 0 => i - 1 \in Levels /\ On(node, l, c, i - 1)
          BY <1>1, <1>14, <1>18 DEF On, Linked
        <5> QED
          BY <1>1, <1>26, <5>1 DEF Within
      <4>3. node'[c].next[i] = s
        BY <1>1, <1>8, <1>10
      <4> QED
        BY <1>1, <2>2, <3>1, <4>1, <4>2, <4>3
    <3>2. CASE ~(n = c /\ j = i)
      <4>1. <<n, j>> \in W
        BY <2>5, <3>2
      <4>2. /\ n # tail /\ j <= node[n].topLevel => <<node[n].next[j], j>> \in W
            /\ j > 0 => <<n, j - 1>> \in W
            /\ node[n].key = l[r].key => n = v
        BY <1>26, <4>1 DEF Within
      <4>3. node'[n].next[j] = node[n].next[j] \/ (j = i /\ node'[n].next[j] = c)
        BY <1>10, <1>11
      <4> QED
        BY <4>2, <4>3
    <3> QED
      BY <3>1, <3>2
  <2>6. l[r].pc = "f_next" => <<l[r].pred, l[r].level>> \in V
    BY <1>26 DEF Within
  <2> HIDE DEF V, L, i, c
  <2> QED
    BY <1>10, <2>3, <2>4, <2>5, <2>6, SMTT(30) DEF Within, V
<1>27. ClientInv'
  BY <1>2, <1>3, <1>4, LocalClient
<1>28. HeldNodes(L) \subseteq HeldNodes(M)
  BY <1>1, <1>4 DEF HeldNodes, LockPlaces
<1>29. ~Again(M)
  BY <1>1, <1>4 DEF Again
<1>30. \A n \in Nodes : node'[n].lock = node[n].lock
  BY <1>10
<1> QED
  BY <1>3, <1>10, <1>20, <1>21, <1>23, <1>24, <1>25, <1>26, <1>27, <1>28, <1>29, <1>30, StepKeeps, Zenon

\* The victim v goes from between p and w, its neighbours on level i.
LEMMA UnlinkedLists ==
  ASSUME Inv, NEW i \in Levels, NEW p \in Nodes \ {tail}, NEW v \in Nodes \ {head, tail}, NEW w \in Nodes,
         On(node, l, p, i), Follows(node, l, p, v, i), Follows(node, l, v, w, i),
         DOMAIN node' = Nodes, node'[p].next[i] = w, \A j \in Levels \ {i} : node'[p].next[j] = node[p].next[j],
         \A n \in Nodes \ {p} : node'[n].next = node[n].next, \A n \in Nodes : node'[n].key = node[n].key,
         \A n \in Nodes, j \in Levels : On(node', l', n, j) <=> (On(node, l, n, j) /\ ~(n = v /\ j = i))
  PROVE  Lists(node', l')
<1>1. \A n \in Nodes : node[n].key \in Int
  BY KeyInt
<1>2. On(node, l, v, i) /\ node[p].key < node[v].key /\ On(node, l, w, i) /\ node[v].key < node[w].key
  BY DEF Follows
<1>3. w # v
  BY <1>1, <1>2
<1>4. ASSUME NEW j \in Levels, NEW n \in Nodes \ {tail}, On(node', l', n, j)
      PROVE  Follows(node', l', n, node'[n].next[j], j)
  <2>1. CASE j # i
    <3> DEFINE m == node[n].next[j]
    <3>1. On(node, l, n, j) /\ node'[n].next[j] = m
      BY <1>4, <2>1
    <3>2. Follows(node, l, n, m, j)
      BY <1>4, <3>1 DEF Inv, Lists
    <3> HIDE DEF m
    <3>3. m \in Nodes
      BY <3>2 DEF Follows, On, Linked
    <3> QED
      BY <2>1, <3>1, <3>2, <3>3 DEF Follows
  <2>2. CASE j = i /\ n = p
    <3>1. ASSUME NEW x \in Nodes, On(node', l', x, i) PROVE node[x].key <= node[p].key \/ node[w].key <= node[x].key
      <4>1. On(node, l, x, i) /\ x # v
        BY <3>1
      <4>2. node[x].key # node[v].key
        BY <1>2, <4>1, OneNode
      <4>3. node[x].key <= node[p].key \/ node[v].key <= node[x].key
        BY <4>1 DEF Follows
      <4>4. node[x].key <= node[v].key \/ node[w].key <= node[x].key
        BY <4>1 DEF Follows
      <4> QED
        BY <1>1, <4>2, <4>3, <4>4
    <3>2. On(node', l', w, i) /\ node[p].key < node[w].key
      BY <1>1, <1>2, <1>3
    <3> QED
      BY <2>2, <3>1, <3>2 DEF Follows
  <2>3. CASE j = i /\ n # p
    <3> DEFINE m == node[n].next[i]
    <3>1. On(node, l, n, i) /\ node'[n].next[i] = m
      BY <1>4, <2>3
    <3>2. Follows(node, l, n, m, i)
      BY <1>4, <3>1 DEF Inv, Lists
    <3> HIDE DEF m
    <3>3. m \in Nodes
      BY <3>2 DEF Follows, On, Linked
    <3>4. m # v
      <4>1. node[n].key # node[p].key
        BY <2>3, <3>1, OneNode
      <4>2. node[p].key <= node[n].key \/ node[m].key <= node[p].key
        BY <3>2 DEF Follows
      <4>3. node[n].key <= node[p].key \/ node[v].key <= node[n].key
        BY <3>1 DEF Follows
      <4>4. node[n].key < node[m].key
        BY <3>2 DEF Follows
      <4> QED
        BY <1>1, <1>2, <3>3, <4>1, <4>2, <4>3, <4>4
    <3>5. On(node', l', m, i)
      BY <3>2, <3>3, <3>4 DEF Follows
    <3> QED
      BY <2>3, <3>1, <3>2, <3>3, <3>5 DEF Follows
  <2> QED
    BY <2>1, <2>2, <2>3
<1>5. ASSUME NEW n \in Nodes, NEW m \in Nodes, On(node', l', n, 0), On(node', l', m, 0), node[n].key = node[m].key
      PROVE  n = m
  <2>1. 0 \in Levels
    OBVIOUS
  <2> QED
    BY <1>5, <2>1 DEF Inv, Lists
<1> QED
  BY <1>4, <1>5 DEF Lists

-----------------------------------------------------------------------------
(* The removal under locks *)

\* What the actions of SkipListLocks are made of.
LEMMA LocksWords ==
  ASSUME NEW t \in Threads
  PROVE  /\ \A p : Locks!At(t, p) <=> At(t, p)
         /\ \A n : Locks!Free(n) <=> Free(n)
         /\ \A L : Locks!Unlocked(L) = Unlocked(L)
         /\ \A M : Locks!Local(t, M) => Local(t, M)
         /\ \A nd, M : Locks!Do(t, nd, M) => Do(t, nd, M)
         /\ \A r : Locks!Return(t, r) => Return(t, r)
         /\ Locks!NoValue = NoValue /\ Locks!Nobody = Nobody
<1> USE DEF Locks!Levels, Locks!NULL, Locks!NoValue, Locks!Nobody
<1>1. /\ \A p : Locks!At(t, p) <=> At(t, p)
      /\ \A n : Locks!Free(n) <=> Free(n)
      /\ \A L : Locks!Unlocked(L) = Unlocked(L)
  BY DEF Locks!At, At, Locks!Free, Free, Locks!Unlocked, Unlocked
<1>2. /\ \A M : Locks!Local(t, M) => Local(t, M)
      /\ \A nd, M : Locks!Do(t, nd, M) => Do(t, nd, M)
  BY DEF Locks!Local, Local, Locks!Do, Do, Locks!client, client
<1>3. \A r : Locks!Return(t, r) => Return(t, r)
  BY DEF Locks!Return, Return, Locks!Locals, Locals, Locks!D!Answered, D!Answered
<1> QED
  BY <1>1, <1>2, <1>3

\* The victim is unlinked from one more level.
LEMMA EraseUnlinkKeeps ==
  ASSUME Inv, NEW t \in Threads, Locks!EraseUnlink(t), UNCHANGED list
  PROVE  Inv'
<1> DEFINE L == l[t]
           i == L.level
           p == L.preds[i]
           v == L.victim
           w == node[v].next[i]
           M == IF i > 0 THEN [L EXCEPT !.level = @ - 1] ELSE [L EXCEPT !.pc = "e_leave", !.level = L.topLevel]
<1>1. /\ L.pc = "e_unlink" /\ LocalsOK(L) /\ SearchOK(node, l, L) /\ UpdateOK(node, t, L) /\ EraseOK(node, l, t, L)
      /\ i \in Levels /\ i <= L.topLevel /\ L.topLevel \in Levels /\ L.op = "erase" /\ L.isMarked
      /\ Found(node, l, L, 0) /\ L.key \in Keys /\ L.key \in Int
      /\ v \in Nodes \ {head, tail} /\ node[v].key = L.key /\ node[v].topLevel = L.topLevel
      /\ Linked(node, l, v, L.topLevel) /\ node[v].mark /\ node[v].lock = t
  BY CallFacts, KeysInt, LocksWords, ZenonT(40) DEF Locks!EraseUnlink, At, UpdateOK, LockPlaces, EraseOK, SearchOK
<1>2. realMaxLvl \in Levels /\ DOMAIN l = Threads
  BY DEF Inv, ClientInv
<1>3. node' = [node EXCEPT ![p].next[i] = w] /\ l' = [l EXCEPT ![t] = M] /\ UNCHANGED <<realMaxLvl, plan>>
  BY Zenon DEF Locks!EraseUnlink, Locks!Do, Locks!client
<1>4. /\ LocalsOK(M) /\ M.op = L.op /\ M.key = L.key /\ M.topLevel = L.topLevel
      /\ M.preds = L.preds /\ M.succs = L.succs /\ M.curr = L.curr
      /\ M.flevel = L.flevel /\ M.victim = v /\ M.isMarked = L.isMarked
      /\ IF i > 0 THEN M.pc = "e_unlink" /\ M.level = i - 1 ELSE M.pc = "e_leave" /\ M.level = L.topLevel
  <2>1. CASE i > 0
    <3>1. M = [L EXCEPT !.level = i - 1]
      BY <2>1
    <3>2. /\ DOMAIN M = Fields /\ M.op = L.op /\ M.key = L.key /\ M.topLevel = L.topLevel
          /\ M.preds = L.preds /\ M.succs = L.succs /\ M.curr = L.curr
          /\ M.flevel = L.flevel /\ M.victim = v /\ M.isMarked = L.isMarked
          /\ M.pc = "e_unlink" /\ M.level = i - 1
      <4> HIDE DEF M
      <4> QED
        BY <1>1, <3>1 DEF LocalsOK, Fields
    <3>3. i - 1 \in Levels
      BY <1>1, <2>1
    <3> HIDE DEF M
    <3>4. LocalsOK(M)
      BY <1>1, <3>2, <3>3 DEF LocalsOK
    <3> QED
      BY <2>1, <3>2, <3>4
  <2>2. CASE ~(i > 0)
    <3>1. M = [L EXCEPT !.pc = "e_leave", !.level = L.topLevel]
      BY <2>2
    <3>2. /\ DOMAIN M = Fields /\ M.op = L.op /\ M.key = L.key /\ M.topLevel = L.topLevel
          /\ M.preds = L.preds /\ M.succs = L.succs /\ M.curr = L.curr
          /\ M.flevel = L.flevel /\ M.victim = v /\ M.isMarked = L.isMarked
          /\ M.pc = "e_leave" /\ M.level = L.topLevel
      <4> HIDE DEF M
      <4> QED
        BY <1>1, <3>1 DEF LocalsOK, Fields
    <3> HIDE DEF M
    <3>3. LocalsOK(M)
      BY <1>1, <3>2 DEF LocalsOK
    <3> QED
      BY <2>2, <3>2, <3>3
  <2> QED
    BY <2>1, <2>2
<1> HIDE DEF M
<1>5. \A j \in 0 .. i : Guarded(node, t, L, j)
  BY <1>1 DEF UpdateOK
<1>6. /\ p \in Nodes \ {tail} /\ On(node, l, p, i) /\ node[p].key < L.key /\ node[p].lock = t
      /\ Follows(node, l, p, v, i)
  <2>1. Target(L, i) = v /\ L.pc \in LockPlaces /\ i \in 0 .. i
    BY <1>1 DEF Target, LockPlaces
  <2> QED
    BY <1>1, <1>5, <2>1, GuardedOn
<1>7. Follows(node, l, v, w, i)
  <2>1. On(node, l, v, i)
    BY <1>6 DEF Follows
  <2> QED
    BY <1>1, <2>1 DEF Inv, Lists
<1>8. p # v /\ w \in Nodes /\ Linked(node, l, w, i) /\ node[p].key < node[w].key /\ On(node, l, v, i)
  <2>1. w \in Nodes /\ Linked(node, l, w, i) /\ node[v].key < node[w].key /\ On(node, l, v, i)
    BY <1>6, <1>7, Zenon DEF Follows, On, Linked
  <2>2. node[p].key \in Int /\ node[v].key \in Int /\ node[w].key \in Int
    BY <1>1, <1>6, <2>1, KeyInt, Zenon
  <2>3. node[v].key = L.key /\ node[p].key < L.key
    BY <1>1, <1>6
  <2> HIDE DEF L, p, w, v
  <2>4. node[p].key < node[v].key
    BY <2>3
  <2>5. p # v /\ node[p].key < node[w].key
    BY <2>1, <2>2, <2>4
  <2> QED
    BY <2>1, <2>5
<1>9. \A n \in Nodes : AttrsOK(node, n) /\ DOMAIN node[n] = NodeFields /\ DOMAIN node[n].next = Levels
  BY DEF Inv, NodesOK, NodeOK, AttrsOK
<1> HIDE DEF p, w
<1>10. /\ DOMAIN node' = Nodes /\ \A n \in Nodes \ {p} : node'[n] = node[n]
       /\ \A n \in Nodes : /\ node'[n].key = node[n].key /\ node'[n].topLevel = node[n].topLevel
                           /\ node'[n].lock = node[n].lock /\ node'[n].mark = node[n].mark
                           /\ node'[n].fullyLinked = node[n].fullyLinked /\ node'[n].value = node[n].value
                           /\ DOMAIN node'[n] = NodeFields /\ DOMAIN node'[n].next = Levels
       /\ node'[p].next = [node[p].next EXCEPT ![i] = w]
  BY <1>3, <1>6, <1>9 DEF NodeFields
<1>11. node'[p].next[i] = w /\ \A j \in Levels \ {i} : node'[p].next[j] = node[p].next[j]
  BY <1>1, <1>6, <1>9, <1>10
<1>12. l'[t] = M /\ \A r \in Threads \ {t} : l'[r] = l[r]
  BY <1>2, <1>3
<1>13. \A r \in Threads : l[r].isMarked /\ l[r].victim = v => r = t
  BY <1>1, CallFacts DEF EraseOK
<1>14. \A j \in Levels : (Erasing(l, v, j) <=> j <= i) /\ (Erasing(l', v, j) <=> j < i)
  <2>1. \A j \in Levels : Erasing(l, v, j) <=> Erases(l[t], v, j)
    BY <1>13 DEF Erasing, Erases
  <2>2. \A j \in Levels : Erasing(l', v, j) <=> Erases(M, v, j)
    BY <1>12, <1>13 DEF Erasing, Erases
  <2>3. \A j \in Levels : (Erases(l[t], v, j) <=> j <= i) /\ (Erases(M, v, j) <=> j < i)
    BY <1>1, <1>4 DEF Erases
  <2> QED
    BY <2>1, <2>2, <2>3
<1>15. \A n \in Nodes \ {v}, j \in Levels : Erasing(l', n, j) <=> Erasing(l, n, j)
  BY <1>4, <1>12 DEF Erasing, Erases
<1>16. \A n, j : NotYet(l', n, j) <=> NotYet(l, n, j)
  BY <1>1, <1>4, <1>12 DEF NotYet
<1>17. \A n \in Nodes, j \in Levels : Linked(node', l', n, j) <=> Linked(node, l, n, j)
  BY <1>10, <1>16 DEF Linked
<1>18. \A n \in Nodes, j \in Levels : On(node', l', n, j) <=> (On(node, l, n, j) /\ ~(n = v /\ j = i))
  <2>1. \A j \in Levels : On(node', l', v, j) <=> (On(node, l, v, j) /\ j # i)
    BY <1>1, <1>10, <1>14, <1>17 DEF On
  <2>2. \A n \in Nodes \ {v}, j \in Levels : On(node', l', n, j) <=> On(node, l, n, j)
    BY <1>10, <1>15, <1>17 DEF On
  <2> QED
    BY <2>1, <2>2
<1>19. Lists(node', l')
  <2>1. (\A n \in Nodes \ {p} : node'[n].next = node[n].next) /\ \A n \in Nodes : node'[n].key = node[n].key
    BY <1>10
  <2> HIDE DEF L, i, v
  <2> QED
    BY <1>1, <1>6, <1>7, <1>8, <1>10, <1>11, <1>18, <2>1, UnlinkedLists, SMTT(30)
<1>20. NodesOK(node', l')
  <2>1. ASSUME NEW n \in Nodes \ {tail}, NEW j \in 0 .. node[n].topLevel
        PROVE  LET m == node'[n].next[j] IN Linked(node', l', m, j) /\ node[n].key < node'[m].key
    <3> DEFINE m == node[n].next[j]
    <3>1. j \in Levels /\ Linked(node, l, m, j) /\ node[n].key < node[m].key
      BY Levelled, SMTT(60) DEF Inv, NodesOK, NodeOK, NextOK
    <3> HIDE DEF m
    <3>2. m \in Nodes
      BY <3>1 DEF Linked
    <3>3. CASE n = p /\ j = i
      BY <1>1, <1>8, <1>10, <1>11, <1>17, <3>3
    <3>4. CASE ~(n = p /\ j = i)
      <4>1. node'[n].next[j] = m
        BY <1>10, <1>11, <3>1, <3>4 DEF m
      <4> QED
        BY <1>10, <1>17, <3>1, <3>2, <4>1
    <3> QED
      BY <3>3, <3>4
  <2>2. ASSUME NEW n \in Nodes PROVE NodeOK(node', l', n)
    <3>1. AttrsOK(node', n)
      BY <1>9, <1>10 DEF AttrsOK
    <3>2. n # tail => NextOK(node', l', n)
      BY <1>10, <2>1 DEF NextOK
    <3>3. node'[n].mark => Linked(node', l', n, node'[n].topLevel)
      BY <1>10, <1>17, Levelled DEF Inv, NodesOK, NodeOK
    <3> QED
      BY <3>1, <3>2, <3>3 DEF NodeOK
  <2>3. head \in Nodes /\ tail \in Nodes
    BY DEF Inv, NodesOK
  <2>4. /\ node'[head].key = minKey - 1 /\ node'[tail].key = maxKey + 1
        /\ \A n \in {head, tail} :
            node'[n].topLevel = MAX_LEVEL /\ ~node'[n].mark /\ \A j \in Levels : ~NotYet(l', n, j)
    BY <1>10, <1>16, <2>3, SMTT(30) DEF Inv, NodesOK
  <2>5. /\ \A n \in DOMAIN node' \ {head, tail} : node'[n].key \in Keys
        /\ \E k \in Nat : k > 1 /\ DOMAIN node' = 0 .. k - 1
    BY <1>10 DEF Inv, NodesOK
  <2> HIDE DEF L
  <2> QED
    BY <1>10, <2>2, <2>4, <2>5 DEF NodesOK
<1>21. ASSUME NEW r \in (Threads \ {t}) \cup {NULL}, NEW K,
              K.pc = "i_link" => /\ K.curr \in Nodes /\ K.topLevel \in Levels /\ K.level \in Levels
                                 /\ K.curr = p => i < K.level
       PROVE  Keeps(node, l, node', l', r, K)
  <2>1. \A n \in Nodes, j \in Levels : Linked(node, l, n, j) => Linked(node', l', n, j)
    BY <1>17
  <2>2. \A n \in Nodes : node[n].lock = r => n # p
    BY <1>6
  <2>3. ASSUME K.pc = "i_link", NEW j \in K.level .. K.topLevel PROVE node'[K.curr].next[j] = node[K.curr].next[j]
    BY <1>1, <1>10, <1>11, <1>21, <2>3, SMTT(30)
  <2> QED
    BY <1>10, <2>1, <2>2, <2>3 DEF Keeps
<1>22. ASSUME NEW r \in Threads \ {t} PROVE Keeps(node, l, node', l', r, l[r])
  <2>1. ASSUME l[r].pc = "i_link"
        PROVE  /\ l[r].curr \in Nodes /\ l[r].topLevel \in Levels /\ l[r].level \in Levels
               /\ l[r].curr = p => i < l[r].level
    <3>1. l[r].curr \in Nodes /\ l[r].topLevel \in Levels /\ l[r].level \in Levels
      BY <2>1, CallFacts DEF UpdateOK
    <3>2. ~NotYet(l, p, i)
      BY <1>6 DEF On, Linked
    <3> QED
      BY <1>1, <2>1, <3>1, <3>2 DEF NotYet
  <2> QED
    BY <1>21, <2>1
<1>23. CallOK(node', l', t, M)
  <2>1. Keeps(node, l, node', l', NULL, L)
    BY <1>1, <1>21
  <2>2. Found(node', l', M, 0)
    BY <1>1, <1>4, <2>1, FoundKeeps, FoundSame, Levelled
  <2>3. SearchOK(node', l', M)
    BY <1>1, <1>4, <2>2 DEF SearchOK
  <2>4. \A j \in 0 .. L.topLevel : L.preds[j] \in Nodes /\ Locked(node, t, L, j)
    BY <1>1, FoundAt, Levelled DEF UpdateOK, LockPlaces
  <2>5. \A j \in 0 .. L.topLevel : Locked(node', t, M, j)
    BY <1>4, <1>10, <2>4 DEF Locked
  <2>6. ASSUME NEW j \in 0 .. i - 1 PROVE Guarded(node', t, M, j)
    <3>1. j \in 0 .. i /\ j \in Levels \ {i} /\ j \in 0 .. L.topLevel
      BY <1>1
    <3>2. Guarded(node, t, L, j)
      BY <1>5, <3>1
    <3>3. node'[L.preds[j]].next[j] = node[L.preds[j]].next[j]
      BY <1>10, <1>11, <2>4, <3>1
    <3> QED
      BY <1>4, <1>10, <2>4, <2>5, <3>1, <3>2, <3>3 DEF Guarded, Target
  <2>7. node'[v] = node[v]
    BY <1>1, <1>8, <1>10
  <2>8. UpdateOK(node', t, M)
    BY <1>1, <1>4, <2>5, <2>6 DEF UpdateOK, LockPlaces
  <2>9. EraseOK(node', l', t, M)
    BY <1>1, <1>4, <1>10, <1>17, <2>7 DEF EraseOK
  <2> QED
    BY <1>4, <2>3, <2>8, <2>9 DEF CallOK
<1>24. MakersInv'
  <2>1. \A r \in Threads : l'[r].curr = l[r].curr /\ (l'[r].pc = "i_link" => l[r].pc = "i_link")
                           /\ (l[r].pc \in {"i_link", "i_full"} => l'[r].pc \in {"i_link", "i_full"})
    BY <1>1, <1>4, <1>12
  <2>2. MakersInv
    BY DEF Inv
  <2>3. DOMAIN node' = Nodes /\ \A n \in Nodes : node'[n].fullyLinked = node[n].fullyLinked
    BY <1>10
  <2> HIDE DEF L
  <2>4. ASSUME NEW r \in Threads, NEW s \in Threads, l'[r].pc = "i_link", l'[s].pc = "i_link", l'[r].curr = l'[s].curr
        PROVE  r = s
    <3>1. l[r].pc = "i_link" /\ l[s].pc = "i_link" /\ l[r].curr = l[s].curr
      BY <2>1, <2>4
    <3> QED
      BY <2>2, <3>1 DEF MakersInv
  <2>5. ASSUME NEW n \in Nodes \ {head, tail}, ~node'[n].fullyLinked
        PROVE  \E r \in Threads : l'[r].pc \in {"i_link", "i_full"} /\ l'[r].curr = n
    <3>1. PICK r \in Threads : l[r].pc \in {"i_link", "i_full"} /\ l[r].curr = n
      BY <2>2, <2>3, <2>5 DEF MakersInv
    <3>2. l'[r].pc \in {"i_link", "i_full"} /\ l'[r].curr = n
      BY <2>1, <3>1
    <3> QED
      BY <3>2
  <2> QED
    BY <2>3, <2>4, <2>5 DEF MakersInv
<1>25. ASSUME NEW r \in Threads \ {t}, NEW W, Again(l[r]), Within(node, l, l[r], W)
       PROVE  Within(node', l', l[r], W)
  <2>1. W \subseteq (DOMAIN node') \X Levels
    BY <1>10, <1>25 DEF Within
  <2>2. \A n \in Nodes, j \in Levels : On(node', l', n, j) => <<n, j>> \in W
    BY <1>18, <1>25 DEF Within
  <2>3. <<w, i>> \in W
    <3>1. <<v, i>> \in W /\ i <= node[v].topLevel
      BY <1>1, <1>8, <1>25 DEF Within
    <3> QED
      BY <1>1, <1>25, <3>1 DEF Within, w
  <2>4. ASSUME NEW n \in Nodes, NEW j \in Levels, <<n, j>> \in W
        PROVE  /\ n # tail /\ j <= node[n].topLevel => <<node'[n].next[j], j>> \in W
               /\ j > 0 => <<n, j - 1>> \in W
               /\ node[n].key = l[r].key => n = l[r].victim
    <3>1. /\ n # tail /\ j <= node[n].topLevel => <<node[n].next[j], j>> \in W
          /\ j > 0 => <<n, j - 1>> \in W
          /\ node[n].key = l[r].key => n = l[r].victim
      BY <1>25, <2>4 DEF Within
    <3>2. node'[n].next[j] = node[n].next[j] \/ (j = i /\ node'[n].next[j] = w)
      BY <1>10, <1>11
    <3> QED
      BY <2>3, <3>1, <3>2
  <2>5. l[r].pc = "f_next" => <<l[r].pred, l[r].level>> \in W
    BY <1>25 DEF Within
  <2> HIDE DEF L, i, v
  <2> QED
    BY <1>10, <2>1, <2>2, <2>4, <2>5 DEF Within
<1>26. ClientInv'
  BY <1>1, <1>2, <1>3, <1>4, LocalClient
<1>27. HeldNodes(L) \subseteq HeldNodes(M)
  BY <1>1, <1>4 DEF HeldNodes, LockPlaces
<1>28. ~Again(M)
  BY <1>1, <1>4 DEF Again
<1>29. \A n \in Nodes : node'[n].lock = node[n].lock
  BY <1>10
<1> QED
  BY <1>3, <1>10, <1>19, <1>20, <1>22, <1>23, <1>24, <1>25, <1>26, <1>27, <1>28, <1>29, StepKeeps

\* The new node is fully linked.
LEMMA InsertFullKeeps ==
  ASSUME Inv, NEW t \in Threads, InsertFull(t), UNCHANGED list
  PROVE  Inv'
<1> DEFINE L == l[t]
           c == L.curr
           M == [L EXCEPT !.pc = "i_leave"]
<1>1. /\ L.pc = "i_full" /\ LocalsOK(L) /\ SearchOK(node, l, L) /\ UpdateOK(node, t, L) /\ EraseOK(node, l, t, L)
      /\ L.level = L.topLevel /\ L.topLevel \in Levels /\ L.op = "insertIfAbsent" /\ ~L.isMarked
      /\ L.flevel = -1 /\ Found(node, l, L, 0) /\ c \in Nodes
  BY CallFacts DEF InsertFull, At, UpdateOK, LockPlaces, EraseOK, SearchOK
<1>2. realMaxLvl \in Levels /\ DOMAIN l = Threads
  BY DEF Inv, ClientInv
<1>3. node' = [node EXCEPT ![c].fullyLinked = TRUE] /\ l' = [l EXCEPT ![t] = M] /\ UNCHANGED <<realMaxLvl, plan>>
  BY DEF InsertFull
<1>4. /\ LocalsOK(M) /\ M.pc = "i_leave" /\ M.op = L.op /\ M.key = L.key /\ M.topLevel = L.topLevel
      /\ M.level = L.level /\ M.preds = L.preds /\ M.succs = L.succs /\ M.curr = c
      /\ M.flevel = L.flevel /\ M.victim = L.victim /\ M.isMarked = L.isMarked
  BY <1>1, GotoFacts
<1> HIDE DEF M
<1>5. \A n \in Nodes : AttrsOK(node, n) /\ DOMAIN node[n] = NodeFields
  BY DEF Inv, NodesOK, NodeOK, AttrsOK
<1>6. /\ DOMAIN node' = Nodes /\ node'[c].fullyLinked /\ \A n \in Nodes \ {c} : node'[n] = node[n]
      /\ \A n \in Nodes : /\ node'[n].key = node[n].key /\ node'[n].topLevel = node[n].topLevel
                          /\ node'[n].next = node[n].next /\ node'[n].mark = node[n].mark
                          /\ node'[n].lock = node[n].lock /\ node'[n].value = node[n].value
                          /\ DOMAIN node'[n] = NodeFields /\ node'[n].fullyLinked \in BOOLEAN
  BY <1>1, <1>3, <1>5, ZenonT(40) DEF NodeFields, AttrsOK
<1>7. \A n \in Nodes : AttrsOK(node', n)
  BY <1>5, <1>6 DEF AttrsOK
<1>8. \A n \in Nodes : \A i \in 0 .. node[n].topLevel : Erases(M, n, i) <=> Erases(l[t], n, i)
  BY <1>1, <1>4 DEF Erases
<1>9. Alike(node, l, node', l')
  BY <1>1, <1>3, <1>4, <1>6, <1>8, SameAlike, Zenon
<1>10. Apart(node, node', t)
  BY <1>6 DEF Apart
<1>11. \A n \in Nodes : node'[n].mark => Linked(node', l', n, node[n].topLevel)
  BY <1>6, <1>9, Levelled DEF Alike, Inv, NodesOK, NodeOK
<1>12. ~node'[head].mark /\ ~node'[tail].mark
  BY <1>6 DEF Inv, NodesOK
<1>13. CallOK(node', l', t, M)
  <2>1. Found(node, l, M, 0)
    BY <1>1, <1>4, FoundSame
  <2>2. SearchOK(node, l, M) /\ M.pc # "i_link"
    BY <1>4, <2>1 DEF SearchOK
  <2>3. SearchOK(node', l', M)
    BY <1>4, <1>9, <2>2, AlikeSearch
  <2>4. \A i \in 0 .. L.topLevel : L.preds[i] \in Nodes /\ Locked(node, t, L, i)
    BY <1>1, FoundAt, Levelled DEF UpdateOK, LockPlaces
  <2>5. \A i \in 0 .. L.topLevel : Locked(node', t, M, i)
    BY <1>4, <1>6, <2>4 DEF Locked
  <2>6. UpdateOK(node', t, M) /\ EraseOK(node', l', t, M)
    BY <1>1, <1>4, <2>5 DEF UpdateOK, EraseOK, LockPlaces
  <2> QED
    BY <1>4, <2>3, <2>6 DEF CallOK
<1>14. MakersInv'
  <2>1. l'[t] = M /\ \A r \in Threads \ {t} : l'[r] = l[r]
    BY <1>2, <1>3
  <2>2. MakersInv
    BY DEF Inv
  <2> QED
    BY <1>4, <1>6, <2>1, <2>2 DEF MakersInv
<1>15. \A n \in Nodes : node'[n].lock = t => n \in HeldNodes(M)
  <2>1. HeldNodes(L) \subseteq HeldNodes(M)
    BY <1>1, <1>4 DEF HeldNodes, LockPlaces
  <2> QED
    BY <1>6, <2>1, ZenonT(40) DEF Inv, LockInv
<1>16. ~Again(M) /\ ClientInv'
  BY <1>1, <1>2, <1>3, <1>4, LocalClient DEF Again
<1> QED
  BY <1>3, <1>7, <1>9, <1>10, <1>11, <1>12, <1>13, <1>14, <1>15, <1>16, AlikeKeeps, Zenon

\* A call that had locks releases them and returns.
LEMMA LeaveKeeps ==
  ASSUME Inv, NEW t \in Threads, NEW r, Return(t, r), UNCHANGED list, l[t].pc \in {"i_leave", "e_leave"},
         DOMAIN node' = Nodes,
         \A n \in Nodes : /\ node'[n].key = node[n].key /\ node'[n].topLevel = node[n].topLevel
                          /\ node'[n].next = node[n].next /\ node'[n].mark = node[n].mark
                          /\ node'[n].fullyLinked = node[n].fullyLinked,
         \A n \in Nodes : AttrsOK(node', n), Apart(node, node', t), \A n \in Nodes : node'[n].lock # t
  PROVE  Inv'
<1>1. l' = [l EXCEPT ![t] = Locals]
  BY DEF Return
<1>2. ClientInv'
  BY <1>1, LocalsFacts DEF Inv, ClientInv, Return
<1>3. \A n \in Nodes : \A i \in 0 .. node[n].topLevel : Erases(Locals, n, i) <=> Erases(l[t], n, i)
  BY LocalsFacts, CallFacts DEF Erases, EraseOK
<1>4. ~Again(Locals) /\ CallOK(node', l', t, Locals)
  BY LocalsFacts DEF Again
<1>5. l[t].pc \notin {"i_link", "i_full"} /\ Locals.pc \notin {"i_link", "i_full"}
  BY LocalsFacts
<1> QED
  BY <1>1, <1>2, <1>3, <1>4, <1>5, SameKeeps

\* The insertion returns.
LEMMA InsertLeaveKeeps ==
  ASSUME Inv, NEW t \in Threads, InsertLeave(t), UNCHANGED list
  PROVE  Inv'
<1>1. l[t].pc = "i_leave" /\ node' = Unlocked(l[t]) /\ Return(t, NoValue)
  BY DEF InsertLeave, At
<1>2. ~l[t].isMarked
  BY <1>1, CallFacts DEF EraseOK
<1>3. /\ DOMAIN node' = Nodes
      /\ \A n \in Nodes : /\ node'[n].key = node[n].key /\ node'[n].topLevel = node[n].topLevel
                          /\ node'[n].next = node[n].next /\ node'[n].mark = node[n].mark
                          /\ node'[n].fullyLinked = node[n].fullyLinked
      /\ \A n \in Nodes : AttrsOK(node', n)
      /\ Apart(node, node', t)
      /\ \A n \in Nodes : node'[n].lock # t
  BY <1>1, <1>2, Unlocking
<1> QED
  BY <1>1, <1>3, LeaveKeeps

\* The removal returns.
LEMMA EraseLeaveKeeps ==
  ASSUME Inv, NEW t \in Threads, Locks!EraseLeave(t), UNCHANGED list
  PROVE  Inv'
<1> DEFINE L == l[t]
           v == L.victim
           nd == Unlocked(L)
<1>1. L.pc = "e_leave" /\ node' = [nd EXCEPT ![v].lock = Nobody] /\ Return(t, node[v].value)
  BY LocksWords DEF Locks!EraseLeave, At
<1>2. L.isMarked /\ v \in Nodes /\ node[v].lock = t
  BY <1>1, CallFacts DEF EraseOK, UpdateOK, LockPlaces
<1> HIDE DEF nd
<1>3. /\ DOMAIN nd = Nodes
      /\ \A n \in Nodes : /\ nd[n].key = node[n].key /\ nd[n].topLevel = node[n].topLevel
                          /\ nd[n].next = node[n].next /\ nd[n].mark = node[n].mark
                          /\ nd[n].fullyLinked = node[n].fullyLinked /\ nd[n].value = node[n].value
                          /\ DOMAIN nd[n] = NodeFields
      /\ \A n \in Nodes : AttrsOK(nd, n)
      /\ Apart(node, nd, t)
      /\ \A n \in Nodes : nd[n].lock = t => n = v
  BY <1>1, <1>2, Unlocking DEF nd
<1>4. /\ DOMAIN node' = Nodes /\ node'[v].lock = Nobody /\ \A n \in Nodes \ {v} : node'[n] = nd[n]
      /\ \A n \in Nodes : /\ node'[n].key = nd[n].key /\ node'[n].topLevel = nd[n].topLevel
                          /\ node'[n].next = nd[n].next /\ node'[n].mark = nd[n].mark
                          /\ node'[n].fullyLinked = nd[n].fullyLinked /\ node'[n].value = nd[n].value
                          /\ DOMAIN node'[n] = NodeFields
  BY <1>1, <1>2, <1>3 DEF NodeFields
<1>5. \A n \in Nodes : AttrsOK(node', n)
  BY <1>3, <1>4 DEF AttrsOK
<1>6. Apart(node, node', t)
  <2> SUFFICES ASSUME NEW s \in Threads \ {t}, NEW n \in Nodes
               PROVE  /\ node[n].lock = s => node'[n].lock = s /\ node'[n].mark = node[n].mark /\ node'[n].next = node[n].next
                      /\ node'[n].lock = s => node[n].lock = s
    BY DEF Apart
  <2>1. CASE n = v
    BY <1>2, <1>4, <2>1
  <2>2. CASE n # v
    BY <1>3, <1>4, <2>2 DEF Apart
  <2> QED
    BY <2>1, <2>2
<1>7. \A n \in Nodes : node'[n].lock # t
  BY <1>3, <1>4
<1>8. \A n \in Nodes : /\ node'[n].key = node[n].key /\ node'[n].topLevel = node[n].topLevel
                       /\ node'[n].next = node[n].next /\ node'[n].mark = node[n].mark
                       /\ node'[n].fullyLinked = node[n].fullyLinked
  BY <1>3, <1>4
<1>9. DOMAIN node' = Nodes /\ l[t].pc \in {"i_leave", "e_leave"}
  BY <1>1, <1>4
<1> QED
  BY <1>1, <1>5, <1>6, <1>7, <1>8, <1>9, LeaveKeeps, Zenon

\* The insertion returns the value it has read.
LEMMA LocksFoundKeeps ==
  ASSUME Inv, NEW t \in Threads, Locks!InsertFound(t), UNCHANGED list
  PROVE  Inv'
<1>1. l[t].pc = "i_found" /\ Return(t, l[t].v) /\ node' = node
  BY LocksWords DEF Locks!InsertFound, At
<1>2. ~l[t].isMarked
  BY <1>1, CallFacts DEF EraseOK
<1> QED
  BY <1>1, <1>2, ReturnKeeps DEF LockPlaces

\* A removal that searched again has found its victim or nothing; another chooses one.
LEMMA EraseTestKeeps ==
  ASSUME Inv, NEW t \in Threads, Locks!EraseTest(t), UNCHANGED list
  PROVE  Inv'
<1> DEFINE L == l[t]
           v == IF L.flevel # -1 THEN L.succs[L.flevel] ELSE L.victim
           toMark == L.flevel # -1 /\ L.flevel = node[v].topLevel /\ ~node[v].mark
<1>1. /\ L.pc = "e_test" /\ LocalsOK(L) /\ SearchOK(node, l, L) /\ EraseOK(node, l, t, L)
      /\ L.level = 0 /\ L.topLevel \in Levels /\ L.op = "erase" /\ L.isMarked \in BOOLEAN
      /\ Found(node, l, L, 0) /\ L.key \in Keys /\ L.flevel \in Levels \cup {-1}
  BY CallFacts, LocksWords, Zenon DEF Locks!EraseTest, At, UpdateOK, LockPlaces, SearchOK
<1>2. realMaxLvl \in Levels
  BY DEF Inv, ClientInv
<1>3. CASE L.isMarked
  <2> DEFINE M == [L EXCEPT !.pc = "lock", !.victim = v]
  <2>1. v = L.victim
    BY <1>1, <1>3 DEF Found
  <2>2. Local(t, M)
    <3>1. Locks!Local(t, M)
      BY <1>3, Zenon DEF Locks!EraseTest
    <3> QED
      BY <3>1, LocksWords
  <2>3. node' = node /\ l' = [l EXCEPT ![t] = M] /\ UNCHANGED <<realMaxLvl, plan>>
    BY <2>2, LocalStep
  <2> HIDE DEF v
  <2>4. /\ LocalsOK(M) /\ M.pc = "lock" /\ M.op = L.op /\ M.key = L.key /\ M.topLevel = L.topLevel
        /\ M.level = L.level /\ M.preds = L.preds /\ M.succs = L.succs
        /\ M.flevel = L.flevel /\ M.victim = L.victim /\ M.isMarked = L.isMarked
    BY <1>1, <2>1 DEF LocalsOK, Fields
  <2> HIDE DEF M
  <2>5. Found(node, l, M, 0)
    BY <1>1, <2>4, FoundSame
  <2>6. SearchOK(node, l, M) /\ UpdateOK(node, t, M)
    BY <1>1, <1>3, <2>4, <2>5 DEF SearchOK, UpdateOK, LockPlaces
  <2>7. EraseOK(node, l, t, M)
    BY <1>1, <2>4 DEF EraseOK
  <2>8. HeldNodes(L) \subseteq HeldNodes(M)
    BY <1>1, <2>4 DEF HeldNodes, LockPlaces
  <2>9. Again(L) /\ Again(M)
    BY <1>1, <1>3, <2>4 DEF Again
  <2>10. ClientInv'
    BY <1>2, <2>3, <2>4, LocalClient
  <2> QED
    BY <1>1, <2>3, <2>4, <2>6, <2>7, <2>8, <2>9, <2>10, LocalKeeps DEF CallOK
<1>4. CASE ~L.isMarked /\ toMark
  <2> DEFINE M == [L EXCEPT !.pc = "e_lock", !.victim = v, !.topLevel = node[v].topLevel]
  <2>1. Local(t, M)
    <3>1. Locks!Local(t, M)
      BY <1>4, Zenon DEF Locks!EraseTest
    <3> QED
      BY <3>1, LocksWords
  <2>2. node' = node /\ l' = [l EXCEPT ![t] = M] /\ UNCHANGED <<realMaxLvl, plan>>
    BY <2>1, LocalStep
  <2>3. /\ v = L.succs[L.flevel] /\ L.flevel \in Levels /\ Linked(node, l, v, L.flevel) /\ node[v].key = L.key
        /\ L.flevel = node[v].topLevel
    BY <1>1, <1>4 DEF Found, Neighbours
  <2>4. v \in Nodes \ {head, tail} /\ node[v].topLevel \in Levels
    <3>1. v \in Nodes /\ node[head].key = minKey - 1 /\ node[tail].key = maxKey + 1
      BY <2>3 DEF Linked, Inv, NodesOK
    <3> QED
      BY <1>1, <2>3, <3>1, KeysInt
  <2> HIDE DEF v
  <2>5. /\ LocalsOK(M) /\ M.pc = "e_lock" /\ M.op = L.op /\ M.key = L.key /\ M.topLevel = node[v].topLevel
        /\ M.level = L.level /\ M.preds = L.preds /\ M.succs = L.succs
        /\ M.flevel = L.flevel /\ M.victim = v /\ M.isMarked = L.isMarked
    BY <1>1, <2>4 DEF LocalsOK, Fields
  <2> HIDE DEF M
  <2>6. Found(node, l, M, 0)
    BY <1>1, <1>4, <2>5 DEF Found, Neighbours
  <2>7. SearchOK(node, l, M) /\ UpdateOK(node, t, M)
    BY <1>1, <2>5, <2>6 DEF SearchOK, UpdateOK, LockPlaces
  <2>8. EraseOK(node, l, t, M)
    BY <1>1, <1>4, <2>3, <2>4, <2>5, Zenon DEF EraseOK
  <2>9. ClientInv'
    BY <1>2, <2>2, <2>5, LocalClient
  <2> QED
    BY <1>1, <1>4, <2>2, <2>5, <2>7, <2>8, <2>9, IdleKeeps DEF CallOK, LockPlaces
<1>5. CASE ~L.isMarked /\ ~toMark
  <2>1. Return(t, NoValue) /\ node' = node
    <3>1. Locks!Return(t, Locks!NoValue) /\ UNCHANGED node
      BY <1>5, Zenon DEF Locks!EraseTest
    <3> QED
      BY <3>1, LocksWords
  <2> QED
    BY <1>1, <1>5, <2>1, ReturnKeeps DEF LockPlaces
<1> QED
  BY <1>1, <1>3, <1>4, <1>5

\* The removal takes effect: the node is marked, and stays on its levels for now.
LEMMA EraseMarkKeeps ==
  ASSUME Inv, NEW t \in Threads, list = "locks", Locks!EraseMark(t), UNCHANGED list
  PROVE  Inv'
<1> DEFINE L == l[t]
           v == L.victim
<1>1. /\ L.pc = "e_lock" /\ LocalsOK(L) /\ SearchOK(node, l, L) /\ EraseOK(node, l, t, L)
      /\ L.level = 0 /\ L.topLevel \in Levels /\ L.op = "erase" /\ ~L.isMarked
      /\ Found(node, l, L, 0) /\ L.key \in Keys /\ L.flevel \in Levels \cup {-1}
      /\ v \in Nodes \ {head, tail} /\ node[v].key = L.key /\ node[v].topLevel = L.topLevel
      /\ Linked(node, l, v, L.topLevel) /\ L.flevel # -1 /\ L.succs[L.flevel] = v
  BY CallFacts, LocksWords, Zenon DEF Locks!EraseMark, At, UpdateOK, LockPlaces, SearchOK, EraseOK
<1>2. realMaxLvl \in Levels /\ DOMAIN l = Threads
  BY DEF Inv, ClientInv
<1>3. node[v].lock = Nobody
  BY LocksWords DEF Locks!EraseMark, Free
<1>4. CASE node[v].mark
  <2>1. Return(t, NoValue) /\ node' = node
    <3>1. Locks!Return(t, Locks!NoValue) /\ UNCHANGED node
      BY <1>4, Zenon DEF Locks!EraseMark
    <3> QED
      BY <3>1, LocksWords
  <2> QED
    BY <1>1, <2>1, ReturnKeeps DEF LockPlaces
<1>5. CASE ~node[v].mark
  <2> DEFINE M == [L EXCEPT !.pc = "lock", !.isMarked = TRUE]
  <2>1. /\ node' = [node EXCEPT ![v].lock = t, ![v].mark = TRUE] /\ UNCHANGED <<realMaxLvl, plan>>
        /\ l' = [l EXCEPT ![t].pc = "lock", ![t].isMarked = TRUE]
    BY <1>5, Zenon DEF Locks!EraseMark
  <2>2. l' = [l EXCEPT ![t] = M]
    BY <1>2, <2>1
  <2>3. /\ LocalsOK(M) /\ M.pc = "lock" /\ M.op = L.op /\ M.key = L.key /\ M.topLevel = L.topLevel
        /\ M.level = L.level /\ M.preds = L.preds /\ M.succs = L.succs
        /\ M.flevel = L.flevel /\ M.victim = v /\ M.isMarked = TRUE
    BY <1>1 DEF LocalsOK, Fields
  <2> HIDE DEF M
  <2>4. \A n \in Nodes : AttrsOK(node, n) /\ DOMAIN node[n] = NodeFields
    BY DEF Inv, NodesOK, NodeOK, AttrsOK
  <2>5. /\ DOMAIN node' = Nodes /\ node'[v].lock = t /\ node'[v].mark = TRUE
        /\ \A n \in Nodes \ {v} : node'[n] = node[n]
        /\ \A n \in Nodes : /\ node'[n].key = node[n].key /\ node'[n].topLevel = node[n].topLevel
                            /\ node'[n].next = node[n].next /\ node'[n].fullyLinked = node[n].fullyLinked
                            /\ node'[n].value = node[n].value /\ DOMAIN node'[n] = NodeFields
    BY <1>1, <2>1, <2>4, ZenonT(40) DEF NodeFields
  <2>6. \A n \in Nodes : AttrsOK(node', n)
    <3> SUFFICES ASSUME NEW n \in Nodes PROVE AttrsOK(node', n)
      OBVIOUS
    <3>1. CASE n = v
      BY <1>1, <2>4, <2>5, <3>1, ZenonT(60) DEF AttrsOK
    <3>2. CASE n # v
      BY <2>4, <2>5, <3>2 DEF AttrsOK
    <3> QED
      BY <3>1, <3>2
  <2>7. l'[t] = M /\ \A s \in Threads \ {t} : l'[s] = l[s]
    BY <1>2, <2>2
  <2>8. \A n, i : NotYet(l', n, i) <=> NotYet(l, n, i)
    BY <1>1, <2>3, <2>7 DEF NotYet
  <2>9. \A n \in Nodes \ {v} : \A i : Erasing(l', n, i) <=> Erasing(l, n, i)
    BY <1>1, <2>3, <2>7 DEF Erasing, Erases
  <2>10. \A i : Erasing(l', v, i)
    BY <2>3, <2>7 DEF Erasing, Erases
  <2>11. \A n \in Nodes, i \in Levels : Linked(node', l', n, i) <=> Linked(node, l, n, i)
    BY <2>5, <2>8 DEF Linked
  <2>12. \A n \in Nodes, i \in Levels : On(node', l', n, i) <=> On(node, l, n, i)
    BY <1>5, <2>5, <2>9, <2>10, <2>11 DEF On
  <2>13. Alike(node, l, node', l')
    BY <2>5, <2>11, <2>12 DEF Alike
  <2>14. Apart(node, node', t)
    BY <1>3, <2>5 DEF Apart
  <2>15. \A n \in Nodes : node'[n].mark => Linked(node', l', n, node[n].topLevel)
    BY <1>1, <2>5, <2>11, Levelled, ZenonT(60) DEF Inv, NodesOK, NodeOK
  <2>16. ~node'[head].mark /\ ~node'[tail].mark
    BY <1>1, <2>5, SMTT(60) DEF Inv, NodesOK
  <2>17. CallOK(node', l', t, M)
    <3>1. Found(node, l, M, 0)
      BY <1>1, <2>3 DEF Found, Neighbours
    <3>2. SearchOK(node, l, M)
      BY <2>3, <3>1 DEF SearchOK
    <3>3. SearchOK(node', l', M)
      BY <2>3, <2>13, <3>2, AlikeSearch
    <3>4. UpdateOK(node', t, M)
      BY <1>1, <2>3 DEF UpdateOK, LockPlaces
    <3>5. EraseOK(node', l', t, M)
      BY <1>1, <2>3, <2>5, <2>11 DEF EraseOK
    <3> QED
      BY <2>3, <3>3, <3>4, <3>5 DEF CallOK
  <2>18. MakersInv'
    <3>1. MakersInv
      BY DEF Inv
    <3> QED
      BY <1>1, <2>3, <2>5, <2>7, <3>1 DEF MakersInv
  <2>19. \A n \in Nodes : node'[n].lock = t => n \in HeldNodes(M)
    <3>1. HeldNodes(L) = {} /\ v \in HeldNodes(M)
      BY <1>1, <2>3 DEF HeldNodes, LockPlaces
    <3> QED
      BY <2>5, <3>1 DEF Inv, LockInv
  <2>20. ClientInv'
    BY <2>1, <2>2 DEF Inv, ClientInv
  <2>21. \E W : Within(node', l', M, W)
    <3> DEFINE W == {p \in Nodes \X Levels : On(node, l, p[1], p[2])}
    <3>1. \A n \in Nodes, i \in Levels : <<n, i>> \in W <=> On(node, l, n, i)
      OBVIOUS
    <3>2. W \subseteq (DOMAIN node) \X Levels
      OBVIOUS
    <3> HIDE DEF W
    <3>3. ASSUME NEW n \in Nodes, NEW i \in Levels, On(node, l, n, i)
          PROVE  /\ n # tail /\ i <= node[n].topLevel => <<node[n].next[i], i>> \in W
                 /\ i > 0 => <<n, i - 1>> \in W
                 /\ node[n].key = M.key => n = v
      <4>1. ASSUME n # tail PROVE <<node[n].next[i], i>> \in W
        <5>1. Follows(node, l, n, node[n].next[i], i)
          BY <3>3, <4>1 DEF Inv, Lists
        <5>2. On(node, l, node[n].next[i], i) /\ node[n].next[i] \in Nodes
          BY <5>1 DEF Follows, On, Linked
        <5> QED
          BY <3>1, <5>2
      <4>2. ASSUME i > 0 PROVE <<n, i - 1>> \in W
        <5>1. i - 1 \in 0 .. i /\ i - 1 \in Levels
          BY <4>2
        <5>2. On(node, l, n, i - 1)
          BY <3>3, <5>1, LinkedDown
        <5> QED
          BY <3>1, <5>1, <5>2
      <4>3. ASSUME node[n].key = M.key PROVE n = v
        <5>1. 0 \in 0 .. i /\ 0 \in 0 .. L.topLevel /\ 0 \in Levels
          BY <1>1
        <5>2. On(node, l, v, L.topLevel)
          BY <1>1, <1>5 DEF On
        <5>3. On(node, l, n, 0) /\ On(node, l, v, 0)
          BY <3>3, <5>1, <5>2, LinkedDown
        <5> QED
          BY <1>1, <2>3, <4>3, <5>1, <5>3, OneNode
      <4> QED
        BY <4>1, <4>2, <4>3
    <3>4. Within(node, l, M, W)
      BY <2>3, <3>1, <3>2, <3>3 DEF Within
    <3>5. Within(node', l', M, W)
      BY <2>3, <2>13, <3>4, AlikeWithin
    <3> QED
      BY <3>5
  <2> QED
    BY <2>2, <2>6, <2>13, <2>14, <2>15, <2>16, <2>17, <2>18, <2>19, <2>20, <2>21, AlikeKeeps
<1> QED
  BY <1>4, <1>5

-----------------------------------------------------------------------------
(* The removal of the lazy list *)

\* What the actions of SkipListLazy are made of.
LEMMA LazyWords ==
  ASSUME NEW t \in Threads
  PROVE  /\ \A p : Lazy!At(t, p) <=> At(t, p)
         /\ \A M : Lazy!Local(t, M) => Local(t, M)
         /\ \A p : Lazy!Goto(t, p) => Local(t, [l[t] EXCEPT !.pc = p])
         /\ \A r : Lazy!Return(t, r) => Return(t, r)
         /\ Lazy!NoValue = NoValue
<1> USE DEF Lazy!Levels, Lazy!NULL, Lazy!NoValue
<1>1. /\ \A p : Lazy!At(t, p) <=> At(t, p)
      /\ \A M : Lazy!Local(t, M) => Local(t, M)
      /\ \A p : Lazy!Goto(t, p) => Local(t, [l[t] EXCEPT !.pc = p])
  BY DEF Lazy!At, At, Lazy!Goto, Lazy!Local, Local, Lazy!Do, Do, Lazy!client, client
<1>2. \A r : Lazy!Return(t, r) => Return(t, r)
  BY DEF Lazy!Return, Return, Lazy!Locals, Locals, Lazy!D!Answered, D!Answered
<1> QED
  BY <1>1, <1>2

\* The insertion returns the value of the node, or gives it one.
LEMMA LazyFoundKeeps ==
  ASSUME Inv, NEW t \in Threads, Lazy!InsertFound(t), UNCHANGED list
  PROVE  Inv'
<1> DEFINE L == l[t]
           v == node[L.curr].value
           M == [L EXCEPT !.pc = "swap"]
<1>1. /\ L.pc = "i_found" /\ LocalsOK(L) /\ SearchOK(node, l, L) /\ ~L.isMarked /\ L.op = "insertIfAbsent"
      /\ realMaxLvl \in Levels
  BY CallFacts, LazyWords DEF Lazy!InsertFound, At, EraseOK, UpdateOK, Inv, ClientInv
<1>2. CASE v = NoValue
  <2>1. node' = node /\ l' = [l EXCEPT ![t] = M] /\ UNCHANGED <<realMaxLvl, plan>>
    <3>1. v = Lazy!NoValue
      BY <1>2, LazyWords
    <3>2. Lazy!Goto(t, "swap")
      BY <3>1, Zenon DEF Lazy!InsertFound
    <3> QED
      BY <3>2, LazyWords, LocalStep
  <2>2. LocalsOK(M) /\ M.pc = "swap" /\ M.op = L.op /\ M.key = L.key /\ M.curr = L.curr /\ M.isMarked = L.isMarked
    BY <1>1, GotoFacts
  <2> HIDE DEF M
  <2>3. CallOK(node, l, t, M)
    BY <1>1, <2>2 DEF CallOK, SearchOK, UpdateOK, EraseOK, LockPlaces
  <2> QED
    BY <1>1, <2>1, <2>2, <2>3, LocalClient, IdleKeeps DEF LockPlaces
<1>3. CASE v # NoValue
  <2>1. Return(t, v) /\ node' = node
    <3>1. v # Lazy!NoValue
      BY <1>3, LazyWords
    <3>2. Lazy!Return(t, v) /\ UNCHANGED node
      BY <3>1, Zenon DEF Lazy!InsertFound
    <3> QED
      BY <3>2, LazyWords
  <2> QED
    BY <1>1, <2>1, ReturnKeeps DEF LockPlaces
<1> QED
  BY <1>2, <1>3

\* A step of a call without locks that changes a value.
LEMMA ValueKeeps ==
  ASSUME Inv, NEW t \in Threads, UNCHANGED <<realMaxLvl, plan, list>>, ~l[t].isMarked, l[t].pc = "swap",
         NEW n, NEW u \in Threads \cup {NoValue},
         node' = [node EXCEPT ![n].value = u], l' = [l EXCEPT ![t].pc = "swapped"]
  PROVE  Inv'
<1> DEFINE L == l[t]
           M == [L EXCEPT !.pc = "swapped"]
<1>1. LocalsOK(L) /\ realMaxLvl \in Levels
  BY CallFacts DEF Inv, ClientInv
<1>2. LocalsOK(M) /\ M.pc = "swapped" /\ M.op = L.op /\ M.isMarked = L.isMarked
  BY <1>1, GotoFacts
<1>3. l' = [l EXCEPT ![t] = M]
  OBVIOUS
<1> HIDE DEF M
<1>4. \A m \in Nodes : AttrsOK(node, m) /\ DOMAIN node[m] = NodeFields
  BY DEF Inv, NodesOK, NodeOK, AttrsOK
<1>5. /\ DOMAIN node' = Nodes
      /\ \A m \in Nodes : /\ node'[m].key = node[m].key /\ node'[m].topLevel = node[m].topLevel
                          /\ node'[m].next = node[m].next /\ node'[m].mark = node[m].mark
                          /\ node'[m].fullyLinked = node[m].fullyLinked /\ node'[m].lock = node[m].lock
                          /\ DOMAIN node'[m] = NodeFields /\ node'[m].value \in {u, node[m].value}
  BY <1>4 DEF NodeFields
<1>6. \A m \in Nodes : AttrsOK(node', m)
  BY <1>4, <1>5 DEF AttrsOK
<1>7. CallOK(node', l', t, M)
  BY <1>2 DEF CallOK, SearchOK, UpdateOK, EraseOK, LockPlaces
<1>8. \A m \in Nodes : \A i \in 0 .. node[m].topLevel : Erases(M, m, i) <=> Erases(l[t], m, i)
  BY <1>2 DEF Erases
<1>9. \A m \in Nodes : node'[m].lock = t => m \in HeldNodes(M)
  <2>1. HeldNodes(L) = {}
    BY DEF HeldNodes, LockPlaces
  <2> QED
    BY <1>5, <2>1 DEF Inv, LockInv
<1>10. Apart(node, node', t) /\ ~Again(M)
  BY <1>2, <1>5 DEF Apart, Again
<1>11. ClientInv'
  BY <1>1, <1>2, <1>3, LocalClient
<1>12. l[t].pc \notin {"i_link", "i_full"} /\ M.pc \notin {"i_link", "i_full"}
  BY <1>2
<1> QED
  BY <1>3, <1>5, <1>6, <1>7, <1>8, <1>9, <1>10, <1>11, <1>12, SameKeeps, ZenonT(60)

\* The insertion gives the node a value, unless another one came first.
LEMMA ReviveKeeps ==
  ASSUME Inv, NEW t \in Threads, list = "lazy", Lazy!Revive(t), UNCHANGED list
  PROVE  Inv'
<1> DEFINE L == l[t]
           M == [L EXCEPT !.pc = "i_found"]
<1>1. /\ L.pc = "swap" /\ LocalsOK(L) /\ SearchOK(node, l, L) /\ ~L.isMarked /\ L.op = "insertIfAbsent"
      /\ realMaxLvl \in Levels
  BY CallFacts, LazyWords DEF Lazy!Revive, At, Inv, ClientInv
<1>2. CASE node[L.curr].value = Lazy!NoValue
  <2>1. /\ node' = [node EXCEPT ![L.curr].value = t] /\ l' = [l EXCEPT ![t].pc = "swapped"]
        /\ UNCHANGED <<realMaxLvl, plan>>
    BY <1>2, Zenon DEF Lazy!Revive
  <2> QED
    BY <1>1, <2>1, ValueKeeps
<1>3. CASE node[L.curr].value # Lazy!NoValue
  <2>1. node' = node /\ l' = [l EXCEPT ![t] = M] /\ UNCHANGED <<realMaxLvl, plan>>
    <3>1. Lazy!Goto(t, "i_found")
      BY <1>3, Zenon DEF Lazy!Revive
    <3> QED
      BY <3>1, LazyWords, LocalStep
  <2>2. LocalsOK(M) /\ M.pc = "i_found" /\ M.op = L.op /\ M.key = L.key /\ M.curr = L.curr /\ M.isMarked = L.isMarked
    BY <1>1, GotoFacts
  <2> HIDE DEF M
  <2>3. CallOK(node, l, t, M)
    BY <1>1, <2>2 DEF CallOK, SearchOK, UpdateOK, EraseOK, LockPlaces
  <2> QED
    BY <1>1, <2>1, <2>2, <2>3, LocalClient, IdleKeeps DEF LockPlaces
<1> QED
  BY <1>2, <1>3

\* An update of the lazy list returns.
LEMMA SwappedKeeps ==
  ASSUME Inv, NEW t \in Threads, list = "lazy", Lazy!Revived(t) \/ Lazy!Removed(t), UNCHANGED list
  PROVE  Inv'
<1>1. l[t].pc = "swapped" /\ ~l[t].isMarked /\ node' = node
  BY LazyWords DEF Lazy!Revived, Lazy!Removed, At, Inv, ClientInv
<1>2. PICK r : Return(t, r)
  BY LazyWords DEF Lazy!Revived, Lazy!Removed
<1> QED
  BY <1>1, <1>2, ReturnKeeps DEF LockPlaces

\* The removal returns, or goes on to take the value of the node.
LEMMA LazyTestKeeps ==
  ASSUME Inv, NEW t \in Threads, list = "lazy", Lazy!EraseTest(t), UNCHANGED list
  PROVE  Inv'
<1> DEFINE L == l[t]
           c == L.succs[L.flevel]
           v == node[c].value
           M == [L EXCEPT !.pc = "swap", !.victim = c, !.v = v]
<1>1. /\ L.pc = "e_test" /\ LocalsOK(L) /\ SearchOK(node, l, L) /\ ~L.isMarked /\ L.op = "erase"
      /\ realMaxLvl \in Levels /\ Found(node, l, L, 0) /\ L.level = 0
  BY CallFacts, LazyWords DEF Lazy!EraseTest, At, Inv, ClientInv, UpdateOK, SearchOK
<1>2. CASE L.flevel = -1 \/ v = Lazy!NoValue
  <2>1. Return(t, NoValue) /\ node' = node
    <3>1. Lazy!Return(t, Lazy!NoValue) /\ UNCHANGED node
      BY <1>2, Zenon DEF Lazy!EraseTest
    <3> QED
      BY <3>1, LazyWords
  <2> QED
    BY <1>1, <2>1, ReturnKeeps DEF LockPlaces
<1>3. CASE ~(L.flevel = -1 \/ v = Lazy!NoValue)
  <2>1. node' = node /\ l' = [l EXCEPT ![t] = M] /\ UNCHANGED <<realMaxLvl, plan>>
    <3>1. Lazy!Local(t, M)
      BY <1>3, Zenon DEF Lazy!EraseTest
    <3> QED
      BY <3>1, LazyWords, LocalStep
  <2> HIDE DEF c, v
  <2>2. /\ LocalsOK(M) /\ M.pc = "swap" /\ M.op = L.op /\ M.key = L.key /\ M.isMarked = L.isMarked
        /\ M.level = L.level /\ M.preds = L.preds /\ M.succs = L.succs /\ M.flevel = L.flevel
    BY <1>1 DEF LocalsOK, Fields
  <2> HIDE DEF M
  <2>3. Found(node, l, M, 0)
    BY <1>1, <2>2 DEF Found, Neighbours
  <2>4. CallOK(node, l, t, M)
    BY <1>1, <2>2, <2>3 DEF CallOK, SearchOK, UpdateOK, EraseOK, LockPlaces
  <2> QED
    BY <1>1, <2>1, <2>2, <2>4, LocalClient, IdleKeeps DEF LockPlaces
<1> QED
  BY <1>2, <1>3

\* The removal takes the value it has read, or reads it again.
LEMMA RemoveKeeps ==
  ASSUME Inv, NEW t \in Threads, list = "lazy", Lazy!Remove(t), UNCHANGED list
  PROVE  Inv'
<1> DEFINE L == l[t]
           M == [L EXCEPT !.pc = "e_test"]
<1>1. /\ L.pc = "swap" /\ LocalsOK(L) /\ SearchOK(node, l, L) /\ ~L.isMarked /\ L.op = "erase"
      /\ realMaxLvl \in Levels /\ Found(node, l, L, 0) /\ L.level = 0
  BY CallFacts, LazyWords DEF Lazy!Remove, At, Inv, ClientInv, SearchOK
<1>2. CASE node[L.victim].value = L.v
  <2>1. /\ node' = [node EXCEPT ![L.victim].value = Lazy!NoValue] /\ l' = [l EXCEPT ![t].pc = "swapped"]
        /\ UNCHANGED <<realMaxLvl, plan>>
    BY <1>2, Zenon DEF Lazy!Remove
  <2> QED
    BY <1>1, <2>1, LazyWords, ValueKeeps
<1>3. CASE node[L.victim].value # L.v
  <2>1. node' = node /\ l' = [l EXCEPT ![t] = M] /\ UNCHANGED <<realMaxLvl, plan>>
    <3>1. Lazy!Goto(t, "e_test")
      BY <1>3, Zenon DEF Lazy!Remove
    <3> QED
      BY <3>1, LazyWords, LocalStep
  <2>2. /\ LocalsOK(M) /\ M.pc = "e_test" /\ M.op = L.op /\ M.key = L.key /\ M.isMarked = L.isMarked
        /\ M.level = L.level /\ M.preds = L.preds /\ M.succs = L.succs /\ M.flevel = L.flevel /\ M.victim = L.victim
    BY <1>1, GotoFacts
  <2> HIDE DEF M
  <2>3. Found(node, l, M, 0)
    BY <1>1, <2>2, FoundSame
  <2>4. CallOK(node, l, t, M)
    BY <1>1, <2>2, <2>3 DEF CallOK, SearchOK, UpdateOK, EraseOK, LockPlaces
  <2> QED
    BY <1>1, <2>1, <2>2, <2>4, LocalClient, IdleKeeps DEF LockPlaces
<1> QED
  BY <1>2, <1>3

-----------------------------------------------------------------------------
(* The initial states, and the theorem *)

\* The list of main, with no call under way.
LEMMA IdleInit ==
  ASSUME NEW s \in Scripts, plan = s.plan, realMaxLvl \in Levels, l = [t \in Threads |-> Locals],
         DOMAIN node \in {0 .. 1, 0 .. 2},
         node[head].key = minKey - 1, node[tail].key = maxKey + 1,
         node[head].topLevel = MAX_LEVEL, node[tail].topLevel = MAX_LEVEL,
         \A n \in Nodes : AttrsOK(node, n) /\ ~node[n].mark /\ node[n].lock = Nobody,
         \A n \in Nodes \ {head, tail} : /\ node[n].key \in Keys /\ node[n].fullyLinked
                                         /\ \A i \in 0 .. node[n].topLevel : node[n].next[i] = tail,
         \A i \in Levels : node[head].next[i] = IF 2 \in Nodes /\ i <= node[2].topLevel THEN 2 ELSE tail
  PROVE  Inv
<1>1. \A t \in Threads : l[t] = Locals /\ l[t].pc = "idle" /\ ~l[t].isMarked
  BY LocalsFacts
<1>2. \A n, i : ~NotYet(l, n, i) /\ ~Erasing(l, n, i)
  BY <1>1 DEF NotYet, Erasing, Erases
<1>3. /\ \A n, i : Linked(node, l, n, i) <=> (n \in Nodes /\ i \in 0 .. node[n].topLevel)
      /\ \A n, i : On(node, l, n, i) <=> Linked(node, l, n, i)
  BY <1>2 DEF On, Linked
<1>4. /\ 0 \in Nodes /\ 1 \in Nodes /\ \A n \in Nodes : n \in {0, 1, 2} /\ node[n].topLevel \in Levels
      /\ \A n \in Nodes : node[n].key \in Int
      /\ node[0].key < node[1].key
      /\ 2 \in Nodes => node[0].key < node[2].key /\ node[2].key < node[1].key
  <2>1. 0 \in Nodes /\ 1 \in Nodes /\ \A n \in Nodes : n \in {0, 1, 2}
    OBVIOUS
  <2>2. \A n \in Nodes : node[n].topLevel \in Levels /\ node[n].key \in Int
    BY DEF AttrsOK
  <2>3. ASSUME 2 \in Nodes PROVE minKey <= node[2].key /\ node[2].key <= maxKey
    <3>1. node[2].key \in Keys
      BY <2>3
    <3> QED
      BY <3>1, KeysInt
  <2> QED
    BY <2>1, <2>2, <2>3, OrderAssumption
<1>5. ASSUME NEW n \in Nodes \ {tail}, NEW i \in 0 .. node[n].topLevel
      PROVE  /\ Linked(node, l, node[n].next[i], i) /\ node[n].key < node[node[n].next[i]].key
             /\ \A x \in Nodes : On(node, l, x, i) => node[x].key <= node[n].key \/ node[node[n].next[i]].key <= node[x].key
  <2>1. i \in Levels /\ i \in 0 .. MAX_LEVEL
    BY <1>4
  <2>2. Linked(node, l, 1, i)
    BY <1>3, <1>4, <2>1
  <2>3. \A x \in Nodes : x = 0 \/ x = 1 \/ x = 2
    BY <1>4
  <2>4. \A x \in Nodes : node[x].key <= node[1].key
    BY <1>4, <2>3
  <2>5. CASE n = 2
    <3>1. node[n].next[i] = 1
      BY <2>5
    <3>2. \A x \in Nodes : node[x].key <= node[2].key \/ node[1].key <= node[x].key
      BY <1>4, <2>3, <2>5
    <3> QED
      BY <1>4, <2>2, <2>5, <3>1, <3>2
  <2>6. CASE n = 0 /\ 2 \in Nodes /\ i <= node[2].topLevel
    <3>1. node[n].next[i] = 2
      BY <2>1, <2>6
    <3>2. Linked(node, l, 2, i)
      <4>1. 2 \in Nodes /\ i \in 0 .. node[2].topLevel
        BY <1>4, <2>1, <2>6
      <4> QED
        BY <1>3, <4>1, Zenon
    <3>3. \A x \in Nodes : node[x].key <= node[0].key \/ node[2].key <= node[x].key
      BY <1>4, <2>3, <2>6
    <3> QED
      BY <1>4, <2>6, <3>1, <3>2, <3>3
  <2>7. CASE n = 0 /\ ~(2 \in Nodes /\ i <= node[2].topLevel)
    <3>1. node[n].next[i] = 1
      BY <2>1, <2>7
    <3>2. ASSUME NEW x \in Nodes, On(node, l, x, i) PROVE x = 0 \/ x = 1
      <4>1. i \in 0 .. node[x].topLevel
        BY <1>3, <3>2, Zenon
      <4>2. x = 2 => i <= node[2].topLevel
        BY <1>4, <2>1, <4>1
      <4> QED
        BY <2>3, <2>7, <4>2
    <3>3. \A x \in Nodes : On(node, l, x, i) => node[x].key <= node[0].key \/ node[1].key <= node[x].key
      BY <1>4, <3>2
    <3> QED
      BY <1>4, <2>2, <2>7, <3>1, <3>3
  <2> QED
    BY <2>3, <2>5, <2>6, <2>7
<1>6. NodesOK(node, l)
  <2>1. ASSUME NEW n \in Nodes PROVE NodeOK(node, l, n)
    BY <1>5 DEF NodeOK, NextOK
  <2>2. \E k \in Nat : k > 1 /\ DOMAIN node = 0 .. k - 1
    <3>1. CASE DOMAIN node = 0 .. 1
      <4>1. 2 \in Nat /\ 2 > 1 /\ DOMAIN node = 0 .. 2 - 1
        BY <3>1
      <4> QED
        BY <4>1
    <3>2. CASE DOMAIN node = 0 .. 2
      <4>1. 3 \in Nat /\ 3 > 1 /\ DOMAIN node = 0 .. 3 - 1
        BY <3>2
      <4> QED
        BY <4>1
    <3> QED
      BY <3>1, <3>2
  <2> QED
    BY <1>2, <1>4, <2>1, <2>2 DEF NodesOK
<1>7. Lists(node, l)
  <2>1. ASSUME NEW i \in Levels, NEW n \in Nodes \ {tail}, On(node, l, n, i)
        PROVE  Follows(node, l, n, node[n].next[i], i)
    BY <1>3, <1>5, <2>1 DEF Follows
  <2>2. ASSUME NEW n \in Nodes, NEW m \in Nodes, node[n].key = node[m].key PROVE n = m
    BY <1>4, <2>2
  <2> QED
    BY <2>1, <2>2 DEF Lists
<1>8. CallsInv /\ AgainInv
  BY <1>1, LocalsFacts DEF CallsInv, AgainInv, Again
<1>9. LockInv /\ MakersInv
  BY <1>1 DEF LockInv, MakersInv
<1>10. ClientInv
  BY <1>1, ScriptsAssumption DEF ClientInv
<1> QED
  BY <1>6, <1>7, <1>8, <1>9, <1>10 DEF Inv

\* A list has its two sentinels.
LEMMA EmptyFacts ==
  /\ DOMAIN EmptyList = 0 .. 1 /\ Cardinality(DOMAIN EmptyList) = 2
  /\ EmptyList[0].key = minKey - 1 /\ EmptyList[1].key = maxKey + 1
  /\ EmptyList[0].topLevel = MAX_LEVEL /\ EmptyList[1].topLevel = MAX_LEVEL
  /\ \A n \in 0 .. 1 : AttrsOK(EmptyList, n) /\ ~EmptyList[n].mark /\ EmptyList[n].lock = Nobody
  /\ EmptyList[0].next = [i \in Levels |-> tail]
<1>1. DOMAIN EmptyList = {0, 1} /\ {0, 1} = 0 .. 1
  BY DEF EmptyList
<1>2. Cardinality(0 .. 1) = 2
  <2>1. 0 \in Int /\ 1 \in Int
    OBVIOUS
  <2>2. Cardinality(0 .. 1) = IF 0 > 1 THEN 0 ELSE 1 - 0 + 1
    BY <2>1, FS_Interval
  <2> QED
    BY <2>2
<1>3. /\ EmptyList[0] = [createNode(MAX_LEVEL, minKey - 1, NoValue) EXCEPT !.next = [i \in Levels |-> tail]]
      /\ EmptyList[1] = [createNode(MAX_LEVEL, maxKey + 1, NoValue) EXCEPT !.next = [i \in Levels |-> NULL]]
  BY DEF EmptyList
<1>4. /\ EmptyList[0].key = minKey - 1 /\ EmptyList[0].topLevel = MAX_LEVEL /\ ~EmptyList[0].mark
      /\ EmptyList[0].lock = Nobody /\ EmptyList[0].next = [i \in Levels |-> tail] /\ AttrsOK(EmptyList, 0)
  BY <1>3 DEF createNode, AttrsOK, NodeFields
<1>5. /\ EmptyList[1].key = maxKey + 1 /\ EmptyList[1].topLevel = MAX_LEVEL /\ ~EmptyList[1].mark
      /\ EmptyList[1].lock = Nobody /\ AttrsOK(EmptyList, 1)
  BY <1>3 DEF createNode, AttrsOK, NodeFields
<1> QED
  BY <1>1, <1>2, <1>4, <1>5

\* The node that main has inserted is on the levels up to h.
LEMMA FilledFacts ==
  ASSUME NEW k \in Keys, NEW h \in 0 .. MAX_LEVEL - 1, NEW nd, nd = Filled(k, h)
  PROVE  /\ DOMAIN nd = 0 .. 2
         /\ nd[0].key = minKey - 1 /\ nd[1].key = maxKey + 1
         /\ nd[0].topLevel = MAX_LEVEL /\ nd[1].topLevel = MAX_LEVEL
         /\ \A n \in 0 .. 2 : AttrsOK(nd, n) /\ ~nd[n].mark /\ nd[n].lock = Nobody
         /\ nd[2].key = k /\ nd[2].fullyLinked /\ nd[2].topLevel = h /\ nd[2].value = 1
         /\ \A i \in 0 .. h : nd[2].next[i] = tail
         /\ \A i \in Levels : nd[0].next[i] = IF i <= h THEN 2 ELSE tail
<1> DEFINE C == Created(EmptyList, h, k, 1, [i \in Levels |-> tail])
<1>1. /\ DOMAIN C = 0 .. 2 /\ C[0] = EmptyList[0] /\ C[1] = EmptyList[1]
      /\ C[2] = [createNode(h, k, 1) EXCEPT !.next = [i \in Levels |-> IF i <= h THEN [j \in Levels |-> tail][i] ELSE NULL]]
  <2>1. (0 .. 1) \cup {2} = 0 .. 2
    OBVIOUS
  <2> QED
    BY <2>1, EmptyFacts DEF Created
<1>2. /\ DOMAIN C[2] = NodeFields /\ C[2].key = k /\ C[2].topLevel = h /\ C[2].value = 1 /\ C[2].fullyLinked = FALSE
      /\ C[2].mark = FALSE /\ C[2].lock = Nobody
      /\ C[2].next = [i \in Levels |-> IF i <= h THEN [j \in Levels |-> tail][i] ELSE NULL]
  <2> HIDE DEF C
  <2> QED
    BY <1>1 DEF createNode, NodeFields
<1>3. nd = [C EXCEPT ![0].next = [i \in Levels |-> IF i <= h THEN 2 ELSE tail], ![2].fullyLinked = TRUE]
  BY DEF Filled
<1>4. DOMAIN C[0] = NodeFields /\ DOMAIN C[1] = NodeFields
  BY <1>1, EmptyFacts, SMTT(30) DEF AttrsOK
<1> HIDE DEF C
<1>5. /\ DOMAIN nd = 0 .. 2 /\ nd[1] = C[1]
      /\ nd[0] = [C[0] EXCEPT !.next = [i \in Levels |-> IF i <= h THEN 2 ELSE tail]]
      /\ nd[2] = [C[2] EXCEPT !.fullyLinked = TRUE]
  <2> DEFINE N0 == [i \in Levels |-> IF i <= h THEN 2 ELSE tail]
  <2> HIDE DEF N0
  <2>1. nd = [C EXCEPT ![0].next = N0, ![2].fullyLinked = TRUE]
    BY <1>3 DEF N0
  <2> DEFINE B == [C EXCEPT ![0].next = N0]
  <2>2. nd = [B EXCEPT ![2].fullyLinked = TRUE]
    BY <2>1
  <2>3. DOMAIN B = 0 .. 2 /\ B[1] = C[1] /\ B[2] = C[2] /\ B[0] = [C[0] EXCEPT !.next = N0]
    BY <1>1
  <2> HIDE DEF B
  <2>4. /\ DOMAIN nd = 0 .. 2 /\ nd[1] = C[1] /\ nd[0] = [C[0] EXCEPT !.next = N0]
        /\ nd[2] = [C[2] EXCEPT !.fullyLinked = TRUE]
    BY <2>2, <2>3
  <2> QED
    BY <2>4 DEF N0
<1>6. /\ DOMAIN nd[0] = NodeFields /\ nd[0].key = C[0].key /\ nd[0].topLevel = C[0].topLevel /\ nd[0].mark = C[0].mark
      /\ nd[0].lock = C[0].lock /\ nd[0].value = C[0].value /\ nd[0].fullyLinked = C[0].fullyLinked
      /\ nd[0].next = [i \in Levels |-> IF i <= h THEN 2 ELSE tail]
  BY <1>4, <1>5 DEF NodeFields
<1>7. /\ DOMAIN nd[2] = NodeFields /\ nd[2].key = k /\ nd[2].topLevel = h /\ nd[2].mark = FALSE
      /\ nd[2].lock = Nobody /\ nd[2].value = 1 /\ nd[2].fullyLinked = TRUE /\ nd[2].next = C[2].next
  BY <1>2, <1>5 DEF NodeFields
<1>8. h \in Levels /\ k \in Int
  BY KeysInt
<1>9. AttrsOK(nd, 0)
  BY <1>1, <1>6, EmptyFacts DEF AttrsOK
<1>10. AttrsOK(nd, 1)
  BY <1>1, <1>5, EmptyFacts DEF AttrsOK
<1>11. AttrsOK(nd, 2)
  BY <1>2, <1>7, <1>8 DEF AttrsOK
<1>12. \A i \in 0 .. h : nd[2].next[i] = tail
  BY <1>2, <1>7, <1>8
<1>13. \A n \in 0 .. 2 : n = 0 \/ n = 1 \/ n = 2
  OBVIOUS
<1>14. /\ nd[0].key = minKey - 1 /\ nd[1].key = maxKey + 1 /\ ~nd[0].mark /\ ~nd[1].mark
       /\ nd[0].lock = Nobody /\ nd[1].lock = Nobody
       /\ nd[0].topLevel = MAX_LEVEL /\ nd[1].topLevel = MAX_LEVEL
  BY <1>1, <1>5, <1>6, EmptyFacts
<1> QED
  BY <1>5, <1>6, <1>7, <1>9, <1>10, <1>11, <1>12, <1>13, <1>14, ZenonT(60)

\* The invariant holds when the threads start.
LEMMA InitInv == Init1 => Inv
<1> SUFFICES ASSUME NEW s \in Scripts, Init(s) PROVE Inv
  BY DEF Init1
<1>1. plan = s.plan /\ l = [t \in Threads |-> Locals] /\ s.prefill \subseteq Keys
  BY ScriptsAssumption DEF Init
<1>2. CASE node = EmptyList /\ realMaxLvl = 1
  <2>1. 1 \in Levels /\ 2 \notin Nodes /\ DOMAIN node \in {0 .. 1, 0 .. 2} /\ Nodes = {0, 1}
    BY <1>2, EmptyFacts
  <2>2. \A i \in Levels : node[head].next[i] = IF 2 \in Nodes /\ i <= node[2].topLevel THEN 2 ELSE tail
    BY <1>2, <2>1, EmptyFacts
  <2>3. \A n \in Nodes \ {head, tail} : /\ node[n].key \in Keys /\ node[n].fullyLinked
                                        /\ \A i \in 0 .. node[n].topLevel : node[n].next[i] = tail
    BY <2>1
  <2> QED
    BY <1>1, <1>2, <2>1, <2>2, <2>3, EmptyFacts, IdleInit
<1>3. ASSUME NEW k \in s.prefill, NEW h \in 0 .. MAX_LEVEL - 1, node = Filled(k, h), realMaxLvl = IF h <= 1 THEN 1 ELSE h
      PROVE  Inv
  <2>0. k \in Keys /\ realMaxLvl \in Levels
    BY <1>1, <1>3
  <2>1. k \in Keys /\ realMaxLvl \in Levels /\ DOMAIN Filled(k, h) = 0 .. 2
    BY <2>0, FilledFacts
  <2>2. \A n \in Nodes \ {head, tail} : n = 2
    BY <1>3, <2>1
  <2>3. \A n \in Nodes \ {head, tail} : /\ node[n].key \in Keys /\ node[n].fullyLinked
                                        /\ \A i \in 0 .. node[n].topLevel : node[n].next[i] = tail
    BY <1>3, <2>1, <2>2, FilledFacts
  <2>4. \A i \in Levels : node[head].next[i] = IF 2 \in Nodes /\ i <= node[2].topLevel THEN 2 ELSE tail
    BY <1>3, <2>1, FilledFacts
  <2>5. /\ node[head].key = minKey - 1 /\ node[tail].key = maxKey + 1
        /\ node[head].topLevel = MAX_LEVEL /\ node[tail].topLevel = MAX_LEVEL
        /\ \A n \in Nodes : AttrsOK(node, n) /\ ~node[n].mark /\ node[n].lock = Nobody
        /\ DOMAIN node \in {0 .. 1, 0 .. 2}
    BY <1>3, <2>1, FilledFacts
  <2> QED
    BY <1>1, <2>1, <2>3, <2>4, <2>5, IdleInit
<1> QED
  BY <1>2, <1>3 DEF Init

\* A step of either list keeps the invariant.
LEMMA NextInv == Inv /\ [Next1]_allVars => Inv'
<1> SUFFICES ASSUME Inv, [Next1]_allVars PROVE Inv'
  OBVIOUS
<1>1. ASSUME NEW t \in Threads, Search(t) \/ Insert(t) \/ Invoke(t), UNCHANGED list PROVE Inv'
  BY <1>1, SearchFromKeeps, SearchNextKeeps, SearchTestKeeps, FindStartKeeps, FindNextKeeps, RaiseMaxKeeps,
     InsertTestKeeps, WaitLinkedKeeps, LockPredKeeps, ValidateKeeps, InsertCreateKeeps, InsertLinkKeeps,
     InsertFullKeeps, InsertLeaveKeeps, InvokeKeeps
     DEF Search, Insert
<1>2. CASE UNCHANGED <<vars, list>>
  <2>1. node' = node /\ l' = l /\ plan' = plan /\ realMaxLvl' = realMaxLvl /\ list' = list
    BY <1>2 DEF vars
  <2>2. ClientInv' /\ LockInv' /\ MakersInv'
    BY <2>1 DEF Inv, ClientInv, LockInv, MakersInv
  <2>3. NodesOK(node, l)' /\ Lists(node, l)'
    BY <2>1 DEF Inv
  <2>4. CallsInv' /\ AgainInv'
    BY <2>1 DEF Inv, CallsInv, AgainInv
  <2> QED
    BY <2>2, <2>3, <2>4 DEF Inv
<1>3. CASE list = "locks" /\ Locks!Next /\ UNCHANGED list
  <2>1. ASSUME NEW t \in Threads, Locks!Invoke(t) \/ Locks!Step(t) PROVE Inv'
    BY <1>1, <1>3, <2>1, LocksActions, LocksFoundKeeps, EraseTestKeeps, EraseMarkKeeps, EraseUnlinkKeeps,
       EraseLeaveKeeps
       DEF Locks!Step
  <2>2. ASSUME Locks!Joined PROVE UNCHANGED <<vars, list>>
    BY <1>3, <2>2 DEF Locks!Joined, Locks!vars, vars
  <2> QED
    BY <1>2, <1>3, <2>1, <2>2 DEF Locks!Next
<1>4. CASE list = "lazy" /\ Lazy!Next /\ UNCHANGED list
  <2>1. ASSUME NEW t \in Threads, Lazy!Invoke(t) \/ Lazy!Step(t) PROVE Inv'
    BY <1>1, <1>4, <2>1, LazyActions, LazyFoundKeeps, ReviveKeeps, SwappedKeeps, LazyTestKeeps, RemoveKeeps
       DEF Lazy!Step
  <2>2. ASSUME Lazy!Joined PROVE UNCHANGED <<vars, list>>
    BY <1>4, <2>2 DEF Lazy!Joined, Lazy!vars, vars
  <2> QED
    BY <1>2, <1>4, <2>1, <2>2 DEF Lazy!Next
<1> QED
  BY <1>2, <1>3, <1>4 DEF Next1, allVars

\* Both lists keep what the calls rely on: the levels stay sorted lists, searches stay on
\* nodes that were linked, and what an update has validated holds when it writes.
THEOREM ListsKept == Spec => []Inv
  BY InitInv, NextInv, PTL DEF Spec

-----------------------------------------------------------------------------
(* What a level leads to *)

\* A set of numbers that is not empty has a least element.
LEMMA LeastElement ==
  ASSUME NEW S \in SUBSET Nat, S # {}
  PROVE  \E n \in S : \A m \in S : n <= m
<1>1. \E Less : IsWellFoundedOn(Less, Nat) /\ \A m, n \in Nat : <<m, n>> \in Less <=> m < n
  <2>1. \A m, n \in Nat : <<m, n>> \in OpToRel(<, Nat) <=> m < n
    BY DEF OpToRel
  <2> QED
    BY <2>1, NatLessThanWellFounded, Zenon
<1>2. PICK Less : IsWellFoundedOn(Less, Nat) /\ \A m, n \in Nat : <<m, n>> \in Less <=> m < n
  BY <1>1, Zenon
<1>3. S \subseteq Nat /\ IsWellFoundedOn(Less, Nat)
  BY <1>2, Zenon
<1>4. PICK n \in S : \A m \in S : ~(<<m, n>> \in Less)
  BY <1>3, WFMin
<1>5. \A m \in S : ~(m < n)
  BY <1>2, <1>3, <1>4, Zenon
<1> QED
  BY <1>3, <1>4, <1>5, SMT

\* Induction up to a number: what holds of 0, and of a number if of the one before.
LEMMA UpTo ==
  ASSUME NEW N \in Nat, NEW S, 0 \in S, \A i \in 1 .. N : i - 1 \in S => i \in S
  PROVE  \A i \in 0 .. N : i \in S
<1> DEFINE Out == {i \in 0 .. N : i \notin S}
<1> SUFFICES ASSUME Out # {} PROVE FALSE
  OBVIOUS
<1>1. Out \in SUBSET Nat
  OBVIOUS
<1> HIDE DEF Out
<1>2. PICK m \in Out : \A i \in Out : m <= i
  BY <1>1, LeastElement
<1>3. m \in 1 .. N /\ m \notin S
  BY <1>2 DEF Out
<1>4. m - 1 \in 0 .. N /\ ~(m <= m - 1)
  BY <1>3
<1>5. m - 1 \notin Out
  BY <1>2, <1>4
<1>6. m - 1 \in S
  BY <1>4, <1>5 DEF Out
<1> QED
  BY <1>3, <1>6

\* The nodes reached on level h in up to m steps.
Grown(nd, h, S) == S \cup {nd[n].next[h] : n \in S \ {tail}}
Reach(nd, h, m, f) == f = [i \in 0 .. m |-> IF i = 0 THEN {head} ELSE Grown(nd, h, f[i - 1])]

\* They can be counted up for any number of steps.
LEMMA ReachExists ==
  ASSUME NEW nd, NEW h, NEW N \in Nat
  PROVE  \E f : Reach(nd, h, N, f)
<1> DEFINE S == {m \in Nat : \E f : Reach(nd, h, m, f)}
<1>1. 0 \in S
  <2> DEFINE f == [i \in 0 .. 0 |-> {head}]
  <2>1. Reach(nd, h, 0, f)
    BY DEF Reach
  <2> QED
    BY <2>1
<1>2. ASSUME NEW m \in 1 .. N, m - 1 \in S PROVE m \in S
  <2>1. PICK g : Reach(nd, h, m - 1, g)
    BY <1>2
  <2> DEFINE f == [i \in 0 .. m |-> IF i = m THEN Grown(nd, h, g[m - 1]) ELSE g[i]]
  <2>2. \A i \in 0 .. m - 1 : f[i] = g[i] /\ g[i] = IF i = 0 THEN {head} ELSE Grown(nd, h, g[i - 1])
    <3> SUFFICES ASSUME NEW i \in 0 .. m - 1
                 PROVE  f[i] = g[i] /\ g[i] = IF i = 0 THEN {head} ELSE Grown(nd, h, g[i - 1])
      OBVIOUS
    <3>1. g[i] = IF i = 0 THEN {head} ELSE Grown(nd, h, g[i - 1])
      <4> HIDE DEF f
      <4> QED
        BY <2>1 DEF Reach
    <3>2. f[i] = g[i]
      <4>1. i # m /\ i \in 0 .. m
        OBVIOUS
      <4> QED
        BY <4>1
    <3> QED
      BY <3>1, <3>2
  <2>3. ASSUME NEW i \in 0 .. m PROVE f[i] = IF i = 0 THEN {head} ELSE Grown(nd, h, f[i - 1])
    <3>1. CASE i = m
      <4>1. f[i] = Grown(nd, h, g[m - 1]) /\ m - 1 \in 0 .. m - 1
        BY <3>1
      <4>2. f[m - 1] = g[m - 1]
        BY <2>2, <4>1
      <4> QED
        BY <3>1, <4>1, <4>2
    <3>2. CASE i # m /\ i # 0
      <4>1. i \in 0 .. m - 1 /\ i - 1 \in 0 .. m - 1
        BY <3>2
      <4> QED
        BY <2>2, <3>2, <4>1
    <3>3. CASE i = 0 /\ i # m
      <4>1. i \in 0 .. m - 1
        BY <3>3
      <4> QED
        BY <2>2, <3>3, <4>1
    <3> QED
      BY <3>1, <3>2, <3>3
  <2>4. f = [i \in 0 .. m |-> f[i]]
    OBVIOUS
  <2> HIDE DEF f
  <2>5. Reach(nd, h, m, f)
    BY <2>3, <2>4 DEF Reach
  <2> QED
    BY <2>5
<1> HIDE DEF S
<1>3. N \in 0 .. N /\ \A i \in 0 .. N : i \in S
  BY <1>1, <1>2, UpTo
<1> QED
  BY <1>3 DEF S

\* The nodes of a level are in order, so every node but the head has one before it.
LEMMA Before ==
  ASSUME Inv, NEW h \in Levels, NEW n \in Nodes, On(node, l, n, h), n # head
  PROVE  \E p \in Nodes \ {tail} : On(node, l, p, h) /\ node[p].key < node[n].key /\ node[p].next[h] = n
<1>1. /\ \A x \in Nodes : node[x].key \in Int
      /\ node[head].key = minKey - 1 /\ node[tail].key = maxKey + 1 /\ head \in Nodes /\ tail \in Nodes
      /\ \A x \in Nodes \ {head, tail} : node[x].key \in Keys
      /\ Lists(node, l)
  BY DEF Inv, NodesOK, NodeOK, AttrsOK
<1>2. \A x \in Nodes : /\ x # tail => node[x].key < node[tail].key
                       /\ x # head => node[head].key < node[x].key
  BY <1>1, KeysInt, OrderAssumption
<1>3. On(node, l, head, h)
  BY HeadLinked DEF On
<1> DEFINE P == {x \in Nodes : On(node, l, x, h) /\ node[x].key < node[n].key}
           G == {node[n].key - node[x].key : x \in P}
<1>4. head \in P /\ G \in SUBSET Nat /\ G # {}
  BY <1>1, <1>2, <1>3
<1>5. PICK g \in G : \A m \in G : g <= m
  <2> HIDE DEF G
  <2> QED
    BY <1>4, LeastElement
<1>6. PICK p \in P : g = node[n].key - node[p].key
  BY <1>5
<1>7. p \in Nodes /\ On(node, l, p, h) /\ node[p].key < node[n].key
  BY <1>6
<1>8. p # tail
  BY <1>1, <1>2, <1>7
<1> DEFINE m == node[p].next[h]
<1>9. Follows(node, l, p, m, h)
  BY <1>1, <1>7, <1>8 DEF Lists
<1> HIDE DEF m
<1>10. m \in Nodes /\ On(node, l, m, h) /\ node[p].key < node[m].key /\ node[m].key <= node[n].key
  <2>1. m \in Nodes
    BY <1>9 DEF Follows, On, Linked
  <2> QED
    BY <1>1, <1>7, <1>9, <2>1 DEF Follows
<1>11. ~(node[m].key < node[n].key)
  <2> SUFFICES ASSUME node[m].key < node[n].key PROVE FALSE
    OBVIOUS
  <2>1. node[n].key - node[m].key \in G
    BY <1>10
  <2>2. node[n].key - node[p].key <= node[n].key - node[m].key
    <3> HIDE DEF G
    <3> QED
      BY <1>5, <1>6, <2>1
  <2> HIDE DEF G
  <2> QED
    BY <1>1, <1>7, <1>10, <2>2
<1>12. m = n
  <2>1. node[m].key = node[n].key
    BY <1>1, <1>10, <1>11
  <2> QED
    BY <1>10, <2>1, OneNode
<1> QED
  BY <1>7, <1>8, <1>12 DEF m

\* As many steps as there are nodes reach the nodes of the level, and nothing else.
LEMMA ReachEnds ==
  ASSUME Inv, NEW h \in Levels, NEW f, Reach(node, h, Cardinality(Nodes), f)
  PROVE  f[Cardinality(Nodes)] = {n \in Nodes : On(node, l, n, h)}
<1> DEFINE N == Cardinality(Nodes)
           A == {n \in Nodes : On(node, l, n, h)}
           Less(n) == {x \in A : node[x].key < node[n].key}
<1>1. N \in Nat /\ Nodes = 0 .. N - 1 /\ IsFiniteSet(Nodes)
  <2>1. N \in Nat /\ Nodes = 0 .. N - 1
    BY NewNode
  <2>2. 0 \in Int /\ N - 1 \in Int
    BY <2>1
  <2>3. IsFiniteSet(0 .. N - 1)
    BY <2>2, FS_Interval
  <2> QED
    BY <2>1, <2>3
<1>2. IsFiniteSet(A) /\ Cardinality(A) <= N /\ Cardinality(A) \in Nat
  <2>1. IsFiniteSet(A) /\ Cardinality(A) <= N
    BY <1>1, FS_Subset
  <2> QED
    BY <2>1, FS_CardinalityType
<1>3. \A n : IsFiniteSet(Less(n)) /\ Cardinality(Less(n)) \in Nat /\ Cardinality(Less(n)) <= N
  <2> SUFFICES ASSUME NEW n PROVE IsFiniteSet(Less(n)) /\ Cardinality(Less(n)) \in Nat /\ Cardinality(Less(n)) <= N
    OBVIOUS
  <2>1. Less(n) \in SUBSET A
    OBVIOUS
  <2> HIDE DEF Less, A, N
  <2>2. IsFiniteSet(Less(n)) /\ Cardinality(Less(n)) <= Cardinality(A)
    BY <1>2, <2>1, FS_Subset
  <2>3. Cardinality(Less(n)) \in Nat
    BY <2>2, FS_CardinalityType
  <2> QED
    BY <1>1, <1>2, <2>2, <2>3
<1>4. \A n \in Nodes : node[n].key \in Int
  BY DEF Inv, NodesOK, NodeOK, AttrsOK
<1> HIDE DEF N
<1>5. \A i \in 0 .. N : f[i] = IF i = 0 THEN {head} ELSE Grown(node, h, f[i - 1])
  BY DEF Reach, N
<1>6. head \in A
  BY HeadLinked DEF On
<1>7. ASSUME NEW i \in 0 .. N PROVE f[i] \subseteq A
  <2> DEFINE S == {j \in 0 .. N : f[j] \subseteq A}
  <2>1. 0 \in S
    BY <1>1, <1>5, <1>6
  <2>2. ASSUME NEW j \in 1 .. N, j - 1 \in S PROVE j \in S
    <3>1. f[j] = Grown(node, h, f[j - 1]) /\ j \in 0 .. N /\ f[j - 1] \subseteq A
      BY <1>5, <2>2
    <3>2. ASSUME NEW n \in A, n # tail PROVE node[n].next[h] \in A
      <4>1. Follows(node, l, n, node[n].next[h], h)
        BY <3>2 DEF Inv, Lists
      <4> QED
        BY <4>1 DEF Follows, On, Linked
    <3> QED
      BY <3>1, <3>2 DEF Grown
  <2> HIDE DEF S
  <2>3. \A j \in 0 .. N : j \in S
    BY <1>1, <2>1, <2>2, UpTo
  <2> QED
    BY <2>3 DEF S
<1>8. ASSUME NEW n \in A PROVE n \in f[N]
  <2> DEFINE S == {j \in 0 .. N : \A x \in A : Cardinality(Less(x)) <= j => x \in f[j]}
  <2>1. 0 \in S
    <3> SUFFICES ASSUME NEW x \in A, Cardinality(Less(x)) <= 0 PROVE x = head
      BY <1>1, <1>5
    <3>1. Less(x) = {}
      <4>1. IsFiniteSet(Less(x)) /\ Cardinality(Less(x)) = 0
        BY <1>3
      <4> HIDE DEF Less
      <4> QED
        BY <4>1, FS_EmptySet
    <3>2. ~(node[head].key < node[x].key)
      BY <1>6, <3>1
    <3>3. x # head => \E p \in A : node[p].key < node[x].key
      BY Before
    <3> QED
      BY <3>1, <3>3
  <2>2. ASSUME NEW j \in 1 .. N, j - 1 \in S PROVE j \in S
    <3> SUFFICES ASSUME NEW x \in A, Cardinality(Less(x)) <= j PROVE x \in f[j]
      OBVIOUS
    <3>1. f[j] = Grown(node, h, f[j - 1]) /\ \A y \in A : Cardinality(Less(y)) <= j - 1 => y \in f[j - 1]
      BY <1>5, <2>2
    <3>2. CASE x = head
      <4>1. Less(x) = {}
        <5>1. \A y \in Nodes : ~(node[y].key < node[head].key)
          BY <1>4, HeadLinked, KeysInt, OrderAssumption DEF Inv, NodesOK
        <5> QED
          BY <3>2, <5>1
      <4>2. Cardinality(Less(x)) = 0
        <5> HIDE DEF Less
        <5> QED
          BY <4>1, FS_EmptySet
      <4> HIDE DEF Less, A
      <4> QED
        BY <3>1, <4>2 DEF Grown
    <3>3. CASE x # head
      <4>1. PICK p \in Nodes \ {tail} : On(node, l, p, h) /\ node[p].key < node[x].key /\ node[p].next[h] = x
        BY <3>3, Before
      <4>2. p \in Less(x) /\ Less(p) \subseteq Less(x) \ {p}
        BY <1>4, <4>1
      <4> HIDE DEF Less
      <4>3. IsFiniteSet(Less(x) \ {p}) /\ Cardinality(Less(x) \ {p}) = Cardinality(Less(x)) - 1
        BY <1>3, <4>2, FS_RemoveElement
      <4>4. Cardinality(Less(p)) <= Cardinality(Less(x)) - 1
        BY <4>2, <4>3, FS_Subset
      <4>5. Cardinality(Less(p)) <= j - 1
        BY <1>3, <4>4
      <4>6. p \in f[j - 1]
        BY <3>1, <4>1, <4>5
      <4> HIDE DEF A
      <4> QED
        BY <3>1, <4>1, <4>6 DEF Grown
    <3> QED
      BY <3>2, <3>3
  <2> HIDE DEF S
  <2>3. \A j \in 0 .. N : j \in S
    BY <1>1, <2>1, <2>2, UpTo
  <2>4. N \in 0 .. N
    BY <1>1
  <2> QED
    BY <1>3, <2>3, <2>4 DEF S
<1>9. f[N] = A
  <2> HIDE DEF A
  <2>1. N \in 0 .. N
    BY <1>1
  <2>2. f[N] \subseteq A
    BY <1>7, <2>1
  <2>3. \A n \in A : n \in f[N]
    BY <1>8
  <2> QED
    BY <2>2, <2>3
<1> QED
  BY <1>9 DEF N

\* A walk from the head along a level meets the nodes of the level, all and only them.
LEMMA Reached ==
  ASSUME Inv, NEW h \in Levels
  PROVE  ReachedAt(h) = {n \in Nodes : On(node, l, n, h)}
<1> DEFINE N == Cardinality(Nodes)
           R[i \in 0 .. N] == IF i = 0 THEN {head}
                              ELSE R[i - 1] \cup {node[n].next[h] : n \in R[i - 1] \ {tail}}
<1>1. N \in Nat
  BY NewNode
<1>2. PICK f : Reach(node, h, N, f)
  BY <1>1, ReachExists
<1>3. f = [i \in 0 .. N |-> IF i = 0 THEN {head}
                            ELSE f[i - 1] \cup {node[n].next[h] : n \in f[i - 1] \ {tail}}]
  BY <1>2 DEF Reach, Grown
<1>4. R = [i \in 0 .. N |-> IF i = 0 THEN {head}
                            ELSE R[i - 1] \cup {node[n].next[h] : n \in R[i - 1] \ {tail}}]
  <2> HIDE DEF N
  <2> QED
    BY <1>3
<1>5. Reach(node, h, N, R)
  <2> HIDE DEF N, R
  <2> QED
    BY <1>4 DEF Reach, Grown
<1>6. R[N] = {n \in Nodes : On(node, l, n, h)}
  <2> HIDE DEF R
  <2> QED
    BY <1>5, ReachEnds
<1>7. ReachedAt(h) = R[N]
  BY DEF ReachedAt
<1> QED
  BY <1>6, <1>7

\* A node that is fully linked and not marked is on its levels, which have one node of a
\* key each.
LEMMA InvReached == Inv /\ FreshInv => LiveNodesReached
<1> SUFFICES ASSUME Inv, FreshInv, NEW h \in Levels
             PROVE  /\ \A n \in Nodes : node[n].fullyLinked /\ ~node[n].mark /\ h <= node[n].topLevel => n \in ReachedAt(h)
                    /\ \A m, n \in ReachedAt(h) : node[m].key = node[n].key => m = n
  BY DEF LiveNodesReached
<1>1. ReachedAt(h) = {n \in Nodes : On(node, l, n, h)}
  BY Reached
<1>2. ASSUME NEW n \in Nodes, node[n].fullyLinked, ~node[n].mark, h <= node[n].topLevel PROVE On(node, l, n, h)
  <2>1. ~NotYet(l, n, h)
    BY <1>2 DEF NotYet, FreshInv, Makes
  <2>2. h \in 0 .. node[n].topLevel
    BY <1>2, Levelled
  <2> QED
    BY <1>2, <2>1, <2>2 DEF On, Linked
<1> QED
  BY <1>1, <1>2, OneNode

\* When no call is under way, no lock has an owner, every insertion is complete and what is
\* on a level is not marked.
LEMMA InvQuiet == Inv => CleanWhenQuiet
<1> SUFFICES ASSUME Inv, Quiescent
             PROVE  /\ \A n \in Nodes : Free(n)
                    /\ \A h \in Levels : \A n \in ReachedAt(h) \ {head, tail} :
                         node[n].fullyLinked /\ ~node[n].mark /\ h <= node[n].topLevel
  BY DEF CleanWhenQuiet
<1>1. \A t \in Threads : l[t].pc = "idle"
  BY DEF Quiescent, At
<1>2. \A t \in Threads : ~l[t].isMarked
  BY <1>1, CallFacts DEF EraseOK
<1>3. \A t \in Threads : HeldNodes(l[t]) = {}
  BY <1>1, <1>2 DEF HeldNodes, LockPlaces
<1>4. \A n \in Nodes : node[n].lock \in Threads \cup {Nobody}
  BY DEF Inv, NodesOK, NodeOK, AttrsOK
<1>5. \A n \in Nodes : Free(n)
  BY <1>3, <1>4 DEF Inv, LockInv, Free
<1>6. ASSUME NEW h \in Levels, NEW n \in ReachedAt(h) \ {head, tail}
      PROVE  node[n].fullyLinked /\ ~node[n].mark /\ h <= node[n].topLevel
  <2>1. n \in Nodes /\ On(node, l, n, h)
    BY Reached
  <2>2. ~node[n].mark
    BY <1>2, <2>1 DEF On, Erasing, Erases
  <2>3. h <= node[n].topLevel
    BY <2>1, Levelled DEF On, Linked
  <2>4. node[n].fullyLinked
    <3>1. node[n].fullyLinked \in BOOLEAN
      BY <2>1 DEF Inv, NodesOK, NodeOK, AttrsOK
    <3> QED
      BY <1>1, <2>1, <3>1 DEF Inv, MakersInv
  <2> QED
    BY <2>2, <2>3, <2>4
<1> QED
  BY <1>5, <1>6

-----------------------------------------------------------------------------
(* Steps and the count *)

\* The keys that are present and the calls that are not counted can be counted.
LEMMA PresentFinite ==
  ASSUME Inv
  PROVE  /\ IsFiniteSet(Nodes) /\ IsFiniteSet(Present) /\ Cardinality(Present) \in Nat
         /\ \A n \in Nodes : node[n].key \in Keys => n \notin {head, tail}
<1>1. Nodes = 0 .. Cardinality(Nodes) - 1 /\ Cardinality(Nodes) \in Nat
  BY NewNode
<1>2. IsFiniteSet(Nodes)
  <2>1. 0 \in Int /\ Cardinality(Nodes) - 1 \in Int
    BY <1>1
  <2>2. IsFiniteSet(0 .. Cardinality(Nodes) - 1)
    BY <2>1, FS_Interval
  <2> QED
    BY <1>1, <2>2
<1>3. Present \in SUBSET Nodes
  BY DEF Present
<1>4. IsFiniteSet(Present)
  BY <1>2, <1>3, FS_Subset
<1>5. Cardinality(Present) \in Nat
  BY <1>4, FS_CardinalityType
<1>6. \A n \in Nodes : node[n].key \in Keys => n \notin {head, tail}
  BY KeysInt DEF Inv, NodesOK
<1> QED
  BY <1>2, <1>4, <1>5, <1>6

Digit(p) == IF p THEN 1 ELSE 0

\* A set of threads that may gain or lose t.
LEMMA SetStep ==
  ASSUME NEW S, NEW T, NEW x, IsFiniteSet(S), T \ {x} = S \ {x}
  PROVE  /\ IsFiniteSet(T) /\ Cardinality(S) \in Nat /\ Cardinality(T) \in Nat
         /\ Cardinality(T) = Cardinality(S) + Digit(x \in T) - Digit(x \in S)
<1>1. Cardinality(S) \in Nat
  BY FS_CardinalityType
<1>2. CASE x \in T /\ x \notin S
  <2>1. T = S \cup {x}
    BY <1>2
  <2>2. IsFiniteSet(T) /\ Cardinality(T) = Cardinality(S) + 1
    BY <1>2, <2>1, FS_AddElement
  <2> QED
    BY <1>1, <1>2, <2>2 DEF Digit
<1>3. CASE x \notin T /\ x \in S
  <2>1. T = S \ {x}
    BY <1>3
  <2>2. IsFiniteSet(T) /\ Cardinality(T) = Cardinality(S) - 1
    BY <1>3, <2>1, FS_RemoveElement
  <2>3. Cardinality(T) \in Nat
    BY <2>2, FS_CardinalityType
  <2> QED
    BY <1>1, <1>3, <2>2, <2>3 DEF Digit
<1>4. CASE x \in T <=> x \in S
  <2>1. T = S
    BY <1>4
  <2> QED
    BY <1>1, <2>1 DEF Digit
<1> QED
  BY <1>2, <1>3, <1>4

\* A step of t changes by t alone what is still to be counted.
LEMMA CountStep ==
  ASSUME Inv, CountInv, NEW t \in Threads, NEW M, l' = [l EXCEPT ![t] = M], NEW n, Present' \ {n} = Present \ {n},
         NEW e \in Int, skipListSize' = skipListSize + e,
         Digit(n \in Present') - Digit(n \in Present)
           = e + Digit(Adds(M)) - Digit(Adds(l[t])) - Digit(Takes(M)) + Digit(Takes(l[t]))
  PROVE  CountInv'
<1>1. DOMAIN l = Threads /\ l'[t] = M /\ \A s \in Threads \ {t} : l'[s] = l[s]
  BY DEF Inv, ClientInv
<1>2. /\ Adding' \ {t} = Adding \ {t} /\ (t \in Adding <=> Adds(l[t])) /\ (t \in Adding' <=> Adds(M))
      /\ Taking' \ {t} = Taking \ {t} /\ (t \in Taking <=> Takes(l[t])) /\ (t \in Taking' <=> Takes(M))
  BY <1>1, Zenon DEF Adding, Taking
<1> DEFINE A == Adding
           A2 == Adding'
           B == Taking
           B2 == Taking'
           P == Present
           P2 == Present'
<1>3. /\ IsFiniteSet(A) /\ IsFiniteSet(B) /\ IsFiniteSet(P)
      /\ A2 \ {t} = A \ {t} /\ B2 \ {t} = B \ {t} /\ P2 \ {n} = P \ {n}
      /\ skipListSize \in Int /\ Cardinality(P) = skipListSize + Cardinality(A) - Cardinality(B)
  BY <1>2, PresentFinite DEF CountInv
<1>4. /\ Digit(t \in A) = Digit(Adds(l[t])) /\ Digit(t \in A2) = Digit(Adds(M))
      /\ Digit(t \in B) = Digit(Takes(l[t])) /\ Digit(t \in B2) = Digit(Takes(M))
  BY <1>2, Zenon DEF Digit
<1>5. \A p : Digit(p) \in Int
  BY DEF Digit
<1>6. Digit(n \in P2) - Digit(n \in P) = e + Digit(t \in A2) - Digit(t \in A) - Digit(t \in B2) + Digit(t \in B)
  BY <1>4
<1> HIDE DEF A, A2, B, B2, P, P2
<1>7. /\ IsFiniteSet(A2) /\ Cardinality(A) \in Nat /\ Cardinality(A2) \in Nat
      /\ Cardinality(A2) = Cardinality(A) + Digit(t \in A2) - Digit(t \in A)
  BY <1>3, SetStep
<1>8. /\ IsFiniteSet(B2) /\ Cardinality(B) \in Nat /\ Cardinality(B2) \in Nat
      /\ Cardinality(B2) = Cardinality(B) + Digit(t \in B2) - Digit(t \in B)
  BY <1>3, SetStep
<1>9. /\ Cardinality(P) \in Nat /\ Cardinality(P2) \in Nat
      /\ Cardinality(P2) = Cardinality(P) + Digit(n \in P2) - Digit(n \in P)
  BY <1>3, SetStep
<1>10. Cardinality(P2) = skipListSize' + Cardinality(A2) - Cardinality(B2) /\ skipListSize' \in Int
  BY <1>3, <1>5, <1>6, <1>7, <1>8, <1>9
<1> QED
  BY <1>7, <1>8, <1>10 DEF CountInv, A2, B2, P2

\* What calls know of values is about nodes that exist, and which stay.
LEMMA ValueStep ==
  ASSUME Inv, ValueInv, NEW t \in Threads, NEW M, l' = [l EXCEPT ![t] = M], list' = list,
         Nodes \subseteq DOMAIN node', ValueOK(node', M),
         list = "locks" => \A n \in DOMAIN node' \ {head, tail} : node'[n].value # NoValue,
         list = "lazy" => \A n \in DOMAIN node' : ~node'[n].mark
  PROVE  ValueInv'
<1>1. DOMAIN l = Threads /\ l'[t] = M /\ \A s \in Threads \ {t} : l'[s] = l[s]
  BY DEF Inv, ClientInv
<1>2. ASSUME NEW s \in Threads \ {t} PROVE ValueOK(node', l[s])
  BY DEF ValueInv, ValueOK
<1>3. \A s \in Threads : ValueOK(node, l[s])'
  BY <1>1, <1>2, ZenonT(60) DEF ValueOK
<1> QED
  BY <1>3 DEF ValueInv

\* A step of t that neither makes nor completes a node.
LEMMA FreshStep ==
  ASSUME Inv, FreshInv, NEW t \in Threads, NEW M, l' = [l EXCEPT ![t] = M],
         Makes(M) => Makes(l[t]) /\ M.curr = l[t].curr,
         \A n \in Nodes : node'[n].fullyLinked = node[n].fullyLinked
  PROVE  FreshInv'
<1>1. DOMAIN l = Threads /\ l'[t] = M /\ \A s \in Threads \ {t} : l'[s] = l[s]
  BY DEF Inv, ClientInv
<1>2. \A s \in Threads : Makes(l'[s]) => Makes(l[s]) /\ l'[s].curr = l[s].curr
  BY <1>1
<1>3. \A s \in Threads : Makes(l[s]) => l[s].curr \in Nodes
  BY CallFacts DEF Makes, UpdateOK
<1> QED
  BY <1>2, <1>3 DEF FreshInv

\* The marks, the values and the links that are complete.
Unmoved(nd, nd2) ==
  /\ DOMAIN nd2 = DOMAIN nd
  /\ \A n \in DOMAIN nd : /\ nd2[n].mark = nd[n].mark /\ nd2[n].value = nd[n].value
                          /\ nd2[n].fullyLinked = nd[n].fullyLinked

\* A step of t that leaves them, and does not change whether t is to be counted.
LEMMA CalmKeeps ==
  ASSUME Inv, SizeInv, NEW t \in Threads, NEW M, l' = [l EXCEPT ![t] = M], UNCHANGED <<list, skipListSize>>,
         Unmoved(node, node'), Adds(M) <=> Adds(l[t]), Takes(M) <=> Takes(l[t]),
         Makes(M) => Makes(l[t]) /\ M.curr = l[t].curr, ValueOK(node, M)
  PROVE  SizeInv'
<1>1. FreshInv'
  BY FreshStep DEF SizeInv, Unmoved
<1>2. ValueInv'
  <2>1. ValueOK(node', M)
    BY DEF ValueOK, Unmoved
  <2>2. list = "locks" => \A n \in DOMAIN node' \ {head, tail} : node'[n].value # NoValue
    BY DEF SizeInv, ValueInv, Unmoved
  <2>3. list = "lazy" => \A n \in DOMAIN node' : ~node'[n].mark
    BY DEF SizeInv, ValueInv, Unmoved
  <2> QED
    BY <2>1, <2>2, <2>3, ValueStep DEF SizeInv, Unmoved
<1>3. CountInv'
  <2>1. Present' = Present
    BY DEF Present, Unmoved
  <2>2. CountInv /\ skipListSize \in Int /\ skipListSize' = skipListSize + 0 /\ 0 \in Int
    BY DEF SizeInv, CountInv
  <2>3. Digit(t \in Present') - Digit(t \in Present)
           = 0 + Digit(Adds(M)) - Digit(Adds(l[t])) - Digit(Takes(M)) + Digit(Takes(l[t]))
    <3>1. Digit(Adds(M)) = Digit(Adds(l[t])) /\ Digit(Takes(M)) = Digit(Takes(l[t]))
      BY Zenon DEF Digit
    <3>2. \A p : Digit(p) \in Int
      BY DEF Digit
    <3> QED
      BY <2>1, <3>1, <3>2
  <2> QED
    BY <2>1, <2>2, <2>3, CountStep
<1> QED
  BY <1>1, <1>2, <1>3 DEF SizeInv

\* A call that is not to be counted returns.
LEMMA ReturnCalm ==
  ASSUME Inv, SizeInv, NEW t \in Threads, NEW r, Return(t, r), UNCHANGED <<list, node>>,
         ~Adds(l[t]), ~Takes(l[t]), l[t].op = "insertIfAbsent" => r # NoValue, l[t].op = "erase" => r = NoValue
  PROVE  SizeInv'
<1>1. l' = [l EXCEPT ![t] = Locals] /\ skipListSize' = skipListSize
  BY DEF Return
<1>2. Locals.pc = "idle" /\ Locals.isMarked = FALSE
  BY LocalsFacts
<1>3. ~Adds(Locals) /\ ~Takes(Locals) /\ ~Makes(Locals) /\ ValueOK(node, Locals)
  BY <1>2 DEF Adds, Takes, Makes, ValueOK
<1>4. Unmoved(node, node')
  BY DEF Unmoved
<1> QED
  BY <1>1, <1>3, <1>4, CalmKeeps

\* A local step.
LEMMA LocalCalm ==
  ASSUME Inv, SizeInv, NEW t \in Threads, NEW M, Local(t, M), list' = list,
         Adds(M) <=> Adds(l[t]), Takes(M) <=> Takes(l[t]), ~Makes(M), ValueOK(node, M)
  PROVE  SizeInv'
<1>1. node' = node /\ l' = [l EXCEPT ![t] = M] /\ skipListSize' = skipListSize
  BY DEF Local, Do, client
<1>2. Unmoved(node, node')
  BY <1>1 DEF Unmoved
<1> QED
  BY <1>1, <1>2, CalmKeeps

-----------------------------------------------------------------------------
(* The count is kept *)

\* Calls, and searches without locks.
LEMMA SearchSize ==
  ASSUME Inv, SizeInv, NEW t \in Threads, UNCHANGED list,
         Invoke(t) \/ SearchFrom(t) \/ SearchNext(t) \/ SearchTest(t)
  PROVE  SizeInv'
<1> DEFINE L == l[t]
<1>1. DOMAIN L = Fields /\ EraseOK(node, l, t, L) /\ ValueOK(node, L)
  BY CallFacts DEF SizeInv, ValueInv
<1>2. L.pc \in {"idle", "c_level", "c_next", "c_test"} /\ ~L.isMarked
  BY <1>1, Zenon DEF Invoke, SearchFrom, SearchNext, SearchTest, At, EraseOK
<1>3. ~Adds(L) /\ ~Takes(L) /\ ~Makes(L)
  BY <1>2 DEF Adds, Takes, Makes
<1>4. CASE Invoke(t)
  <2>1. PICK c \in Head(plan[t]), top \in 0 .. MAX_LEVEL - 1 :
          l' = [l EXCEPT ![t] = [Locals EXCEPT !.op = c[1], !.key = c[2], !.topLevel = top,
                             !.pc = CASE c[1] = "insertIfAbsent" -> "i_max"
                                      [] c[1] = "erase" -> "find"
                                      [] OTHER -> "c_level"]]
    BY <1>4 DEF Invoke
  <2> DEFINE pc == CASE c[1] = "insertIfAbsent" -> "i_max" [] c[1] = "erase" -> "find" [] OTHER -> "c_level"
             M == [Locals EXCEPT !.op = c[1], !.key = c[2], !.topLevel = top, !.pc = pc]
  <2>2. pc \in {"i_max", "find", "c_level"} /\ (pc = "c_level" => c[1] \notin {"insertIfAbsent", "erase"})
    OBVIOUS
  <2> HIDE DEF pc
  <2>3. M.op = c[1] /\ M.pc = pc /\ M.isMarked = FALSE
    BY DEF Locals
  <2>4. l' = [l EXCEPT ![t] = M]
    BY <2>1 DEF pc
  <2> HIDE DEF M
  <2>5. ~Adds(M) /\ ~Takes(M) /\ ~Makes(M) /\ ValueOK(node, M)
    BY <2>2, <2>3 DEF Adds, Takes, Makes, ValueOK
  <2>6. Unmoved(node, node') /\ skipListSize' = skipListSize
    BY <1>4 DEF Invoke, Unmoved
  <2> QED
    BY <1>3, <2>4, <2>5, <2>6, CalmKeeps
<1>5. CASE SearchFrom(t)
  <2> DEFINE M == [L EXCEPT !.pc = "c_next", !.pred = head, !.level = realMaxLvl]
  <2>1. Local(t, M) /\ L.pc = "c_level"
    BY <1>5 DEF SearchFrom, At
  <2>2. M.pc = "c_next" /\ M.op = L.op /\ M.isMarked = L.isMarked
    BY <1>1 DEF Fields
  <2> HIDE DEF M
  <2>3. ~Adds(M) /\ ~Takes(M) /\ ~Makes(M) /\ ValueOK(node, M)
    BY <1>1, <1>2, <2>1, <2>2 DEF Adds, Takes, Makes, ValueOK
  <2> QED
    BY <1>3, <2>1, <2>3, LocalCalm
<1>6. CASE SearchNext(t)
  <2> DEFINE c == node[L.pred].next[L.level]
             M1 == [L EXCEPT !.pred = c]
             M2 == [L EXCEPT !.pc = "c_test", !.curr = c]
             M3 == [L EXCEPT !.level = @ - 1]
  <2>1. L.pc = "c_next" /\ (Local(t, M1) \/ Local(t, M2) \/ Local(t, M3) \/ (Return(t, NoValue) /\ UNCHANGED node))
    <3>1. /\ L.key \in Keys /\ Linked(node, l, L.pred, L.level) /\ node[L.pred].key < L.key /\ L.level \in Levels
          /\ L.pc = "c_next"
      BY <1>6, CallFacts, Zenon DEF SearchNext, At, SearchOK
    <3>2. node[c].key \in Int /\ L.key \in Int
      BY <3>1, NextLinked, KeysInt
    <3>3. \/ L.key > node[c].key \/ L.key = node[c].key
          \/ (L.key < node[c].key /\ L.level > 0) \/ (L.key < node[c].key /\ L.level = 0)
      <4> DEFINE k == node[c].key
      <4>1. k \in Int /\ L.key \in Int /\ L.level \in Int /\ 0 <= L.level
        BY <3>1, <3>2 DEF Levels
      <4> HIDE DEF k, c, L
      <4>2. \/ L.key > k \/ L.key = k
            \/ (L.key < k /\ L.level > 0) \/ (L.key < k /\ L.level = 0)
        BY <4>1
      <4> QED
        BY <4>2 DEF k
    <3> HIDE DEF M1, M2, M3
    <3> QED
      BY <1>6, <3>1, <3>3, Zenon DEF SearchNext, M1, M2, M3
  <2>2. \A M \in {M1, M2, M3} : M.pc \in {"c_next", "c_test"} /\ M.op = L.op /\ M.isMarked = L.isMarked
    <3>1. M1.pc = L.pc /\ M1.op = L.op /\ M1.isMarked = L.isMarked
      BY <1>1 DEF Fields
    <3>2. M2.pc = "c_test" /\ M2.op = L.op /\ M2.isMarked = L.isMarked
      BY <1>1 DEF Fields
    <3>3. M3.pc = L.pc /\ M3.op = L.op /\ M3.isMarked = L.isMarked
      BY <1>1 DEF Fields
    <3> HIDE DEF M1, M2, M3
    <3> QED
      BY <2>1, <3>1, <3>2, <3>3
  <2> HIDE DEF M1, M2, M3
  <2>3. \A M \in {M1, M2, M3} : ~Adds(M) /\ ~Takes(M) /\ ~Makes(M) /\ ValueOK(node, M)
    BY <1>1, <1>2, <2>1, <2>2 DEF Adds, Takes, Makes, ValueOK
  <2>4. CASE Local(t, M1) \/ Local(t, M2) \/ Local(t, M3)
    <3>1. PICK M \in {M1, M2, M3} : Local(t, M)
      BY <2>4, Zenon
    <3> QED
      BY <1>3, <2>3, <3>1, LocalCalm
  <2>5. CASE Return(t, NoValue) /\ UNCHANGED node
    BY <1>1, <1>3, <2>1, <2>5, ReturnCalm DEF ValueOK
  <2> QED
    BY <2>1, <2>4, <2>5
<1>7. CASE SearchTest(t)
  <2> DEFINE n == node[L.curr]
             r == IF ~n.fullyLinked \/ n.mark THEN NoValue ELSE IF L.op = "contains" THEN t ELSE n.value
  <2>1. Return(t, r) /\ UNCHANGED node /\ L.pc = "c_test"
    BY <1>7 DEF SearchTest, At
  <2> HIDE DEF r
  <2> QED
    BY <1>1, <1>3, <2>1, ReturnCalm DEF ValueOK
<1> QED
  BY <1>4, <1>5, <1>6, <1>7

\* The search of an update.
LEMMA FindSize ==
  ASSUME Inv, SizeInv, NEW t \in Threads, UNCHANGED list, FindStart(t) \/ FindNext(t)
  PROVE  SizeInv'
<1> DEFINE L == l[t]
<1>1. DOMAIN L = Fields /\ ValueOK(node, L)
  BY CallFacts DEF SizeInv, ValueInv
<1>2. L.pc \in {"find", "f_next"} /\ ~Adds(L) /\ (Takes(L) <=> L.isMarked)
  BY Zenon DEF FindStart, FindNext, At, Adds, Takes
<1>3. CASE FindStart(t)
  <2> DEFINE M == [L EXCEPT !.pc = "f_next", !.pred = head, !.level = MAX_LEVEL, !.flevel = -1, !.v = NoValue]
  <2>1. Local(t, M)
    BY <1>3 DEF FindStart, Find
  <2>2. M.pc = "f_next" /\ M.isMarked = L.isMarked /\ M.flevel = -1
    BY <1>1 DEF Fields
  <2> HIDE DEF M
  <2>3. ~Adds(M) /\ (Takes(M) <=> L.isMarked) /\ ~Makes(M) /\ ValueOK(node, M)
    BY <2>2 DEF Adds, Takes, Makes, ValueOK
  <2> QED
    BY <1>2, <2>1, <2>3, LocalCalm
<1>4. CASE FindNext(t)
  <2> DEFINE c == node[L.pred].next[L.level]
             first == L.key = node[c].key /\ L.flevel = -1
  <2>1. L.pc = "f_next" /\ L.key \in Keys /\ Linked(node, l, L.pred, L.level) /\ node[L.pred].key < L.key
    BY <1>4, CallFacts, Zenon DEF FindNext, At, SearchOK
  <2>2. c \in Nodes
    BY <2>1, NextLinked
  <2>3. list = "locks" /\ node[c].key = L.key => node[c].value # NoValue
    BY <2>1, <2>2, PresentFinite DEF SizeInv, ValueInv
  <2> HIDE DEF c
  <2>4. CASE L.key > node[c].key
    <3> DEFINE M == [L EXCEPT !.pred = c]
    <3>1. Local(t, M)
      BY <1>4, <2>4, Zenon DEF FindNext, c
    <3>2. M.pc = L.pc /\ M.isMarked = L.isMarked /\ M.flevel = L.flevel /\ M.v = L.v /\ M.op = L.op
      BY <1>1 DEF Fields
    <3> HIDE DEF M
    <3>3. ~Adds(M) /\ (Takes(M) <=> L.isMarked) /\ ~Makes(M) /\ ValueOK(node, M)
      BY <1>1, <2>1, <3>2 DEF Adds, Takes, Makes, ValueOK
    <3> QED
      BY <1>2, <3>1, <3>3, LocalCalm
  <2>5. CASE ~(L.key > node[c].key)
    <3> DEFINE pc == IF L.level > 0 THEN "f_next" ELSE IF L.op = "erase" THEN "e_test" ELSE "i_test"
               level == IF L.level = 0 THEN 0 ELSE L.level - 1
               flevel == IF first THEN L.level ELSE L.flevel
               v == IF first THEN node[c].value ELSE L.v
               M == [L EXCEPT !.preds[L.level] = L.pred, !.succs[L.level] = c, !.flevel = flevel, !.v = v,
                              !.level = level, !.pc = pc]
    <3>1. Local(t, M)
      BY <1>4, <2>5, Zenon DEF FindNext, c
    <3>2. M.pc = pc /\ M.isMarked = L.isMarked /\ M.flevel = flevel /\ M.v = v
      BY <1>1, Zenon DEF Fields
    <3> HIDE DEF M
    <3>3. pc \in {"f_next", "e_test", "i_test"}
      OBVIOUS
    <3>4. list = "locks" /\ flevel # -1 => v # NoValue
      BY <1>1, <2>1, <2>3 DEF ValueOK
    <3> HIDE DEF pc, level, flevel, v
    <3>5. ~Adds(M) /\ (Takes(M) <=> L.isMarked) /\ ~Makes(M) /\ ValueOK(node, M)
      BY <3>2, <3>3, <3>4 DEF Adds, Takes, Makes, ValueOK
    <3> QED
      BY <1>2, <3>1, <3>5, LocalCalm
  <2> QED
    BY <2>4, <2>5
<1> QED
  BY <1>3, <1>4

\* An insertion before it takes locks.
LEMMA InsertTestSize ==
  ASSUME Inv, SizeInv, NEW t \in Threads, UNCHANGED list, RaiseMax(t) \/ InsertTest(t) \/ WaitLinked(t)
  PROVE  SizeInv'
<1> DEFINE L == l[t]
<1>1. LocalsOK(L) /\ DOMAIN L = Fields /\ ValueOK(node, L) /\ EraseOK(node, l, t, L) /\ DOMAIN l = Threads
  BY CallFacts DEF SizeInv, ValueInv
<1>2. L.pc \in {"i_max", "i_test", "i_wait"} /\ ~L.isMarked /\ L.pc # "idle"
  BY <1>1, Zenon DEF RaiseMax, InsertTest, WaitLinked, At, EraseOK
<1>3. ~Adds(L) /\ ~Takes(L)
  BY <1>2 DEF Adds, Takes
<1>4. CASE RaiseMax(t)
  <2> DEFINE M == [L EXCEPT !.pc = "find"]
  <2>1. l' = [l EXCEPT ![t] = M] /\ node' = node /\ skipListSize' = skipListSize
    BY <1>1, <1>4 DEF RaiseMax, client
  <2>2. M.pc = "find" /\ M.isMarked = L.isMarked
    BY <1>1, <1>2, GotoFacts
  <2> HIDE DEF M
  <2>3. ~Adds(M) /\ ~Takes(M) /\ ~Makes(M) /\ ValueOK(node, M) /\ Unmoved(node, node')
    BY <1>2, <2>1, <2>2 DEF Adds, Takes, Makes, ValueOK, Unmoved
  <2> QED
    BY <1>3, <2>1, <2>3, CalmKeeps
<1>5. CASE InsertTest(t)
  <2> DEFINE M1 == [L EXCEPT !.pc = "lock"]
             M2 == [L EXCEPT !.pc = "find"]
             M3 == [L EXCEPT !.pc = "i_wait", !.curr = L.succs[L.flevel]]
  <2>1. \/ Local(t, M1) \/ Local(t, M2)
        \/ L.flevel # -1 /\ Local(t, M3)
    BY <1>5, Zenon DEF InsertTest, Goto
  <2>2. L.pc = "i_test"
    BY <1>5, Zenon DEF InsertTest, At
  <2>3. \A M \in {M1, M2} : M.pc \in {"lock", "find"} /\ M.isMarked = L.isMarked
    BY <1>1, <1>2, GotoFacts
  <2>4. M3.pc = "i_wait" /\ M3.isMarked = L.isMarked /\ M3.v = L.v
    BY <1>1 DEF Fields
  <2> HIDE DEF M1, M2, M3
  <2>5. \A M \in {M1, M2} : ~Adds(M) /\ ~Takes(M) /\ ~Makes(M) /\ ValueOK(node, M)
    BY <1>2, <2>3 DEF Adds, Takes, Makes, ValueOK
  <2>6. ~Adds(M3) /\ ~Takes(M3) /\ ~Makes(M3) /\ (L.flevel # -1 => ValueOK(node, M3))
    BY <1>1, <1>2, <2>2, <2>4 DEF Adds, Takes, Makes, ValueOK
  <2>7. PICK M \in {M1, M2, M3} : Local(t, M) /\ (M = M3 => L.flevel # -1 \/ M \in {M1, M2})
    BY <2>1, Zenon
  <2> QED
    BY <1>3, <2>5, <2>6, <2>7, LocalCalm
<1>6. CASE WaitLinked(t)
  <2> DEFINE M == [L EXCEPT !.pc = "i_found"]
  <2>1. Local(t, M) /\ L.pc = "i_wait"
    BY <1>6 DEF WaitLinked, At, Goto
  <2>2. M.pc = "i_found" /\ M.isMarked = L.isMarked /\ M.v = L.v
    BY <1>1, <1>2, GotoFacts
  <2> HIDE DEF M
  <2>3. ~Adds(M) /\ ~Takes(M) /\ ~Makes(M) /\ ValueOK(node, M)
    BY <1>1, <1>2, <2>1, <2>2 DEF Adds, Takes, Makes, ValueOK
  <2> QED
    BY <1>3, <2>1, <2>3, LocalCalm
<1> QED
  BY <1>4, <1>5, <1>6

\* An update that takes locks and validates.
LEMMA LockSize ==
  ASSUME Inv, SizeInv, NEW t \in Threads, UNCHANGED list, LockPred(t) \/ Validate(t)
  PROVE  SizeInv'
<1> DEFINE L == l[t]
<1>1. LocalsOK(L) /\ DOMAIN L = Fields /\ L.pc \in {"lock", "valid"} /\ L.pc # "idle"
  BY CallFacts, Zenon DEF LockPred, Validate, At
<1>2. ~Adds(L) /\ (Takes(L) <=> L.isMarked)
  BY <1>1 DEF Adds, Takes
<1>3. \A n \in Nodes : DOMAIN node[n] = NodeFields
  BY DEF Inv, NodesOK, NodeOK, AttrsOK
<1>4. PICK M : /\ l' = [l EXCEPT ![t] = M] /\ skipListSize' = skipListSize /\ M.isMarked = L.isMarked
               /\ M.pc \in {"valid", "find", "lock", "e_unlink", "i_create"} /\ Unmoved(node, node')
  <2>1. CASE LockPred(t)
    <3> DEFINE M == [L EXCEPT !.pc = "valid"]
               p == L.preds[L.level]
    <3>1. l' = [l EXCEPT ![t] = M] /\ skipListSize' = skipListSize
      BY <2>1 DEF LockPred, Do, Goto, Local, client
    <3>2. M.pc = "valid" /\ M.isMarked = L.isMarked
      BY <1>1, GotoFacts
    <3> HIDE DEF M, p
    <3>3. node' = node \/ node' = [node EXCEPT ![p].lock = t]
      BY <2>1 DEF LockPred, Do, Goto, Local, p
    <3>4. Unmoved(node, node')
      <4>1. CASE node' = node
        BY <4>1 DEF Unmoved
      <4>2. CASE node' = [node EXCEPT ![p].lock = t]
        BY <1>3, <4>2 DEF Unmoved, NodeFields
      <4> QED
        BY <3>3, <4>1, <4>2
    <3> QED
      BY <3>1, <3>2, <3>4
  <2>2. CASE Validate(t)
    <3>1. CASE ~Valid(L)
      <4> DEFINE M == [L EXCEPT !.pc = "find"]
      <4>1. Do(t, Unlocked(L), M)
        BY <2>2, <3>1, Zenon DEF Validate
      <4>2. l' = [l EXCEPT ![t] = M] /\ skipListSize' = skipListSize /\ node' = Unlocked(L) /\ L.pc = "valid"
        BY <2>2, <4>1 DEF Do, client, Validate, At
      <4>3. M.pc = "find" /\ M.isMarked = L.isMarked
        BY <1>1, GotoFacts
      <4> HIDE DEF M
      <4>4. Unmoved(node, node')
        BY <4>2, Unlocking DEF Unmoved
      <4> QED
        BY <4>2, <4>3, <4>4
    <3>2. CASE Valid(L)
      <4> DEFINE q == IF L.op = "erase" THEN "e_unlink" ELSE "i_create"
                 M1 == [L EXCEPT !.pc = "lock", !.level = @ + 1]
                 M2 == [L EXCEPT !.pc = q]
      <4>1. Local(t, M1) \/ Local(t, M2)
        <5>1. L.level < L.topLevel \/ L.level = L.topLevel
          BY <1>1, CallFacts DEF UpdateOK, LockPlaces
        <5> HIDE DEF M1, M2, q
        <5> QED
          BY <2>2, <3>2, <5>1, Zenon DEF Validate, Goto, M1, M2, q
      <4>2. M1.pc = "lock" /\ M1.isMarked = L.isMarked
        BY <1>1 DEF Fields
      <4>3. q \in {"e_unlink", "i_create"}
        OBVIOUS
      <4>4. M2.pc = q /\ M2.isMarked = L.isMarked
        <5> HIDE DEF q
        <5> QED
          BY <1>1, GotoFacts
      <4> HIDE DEF M1, M2, q
      <4>5. PICK M \in {M1, M2} : Local(t, M)
        BY <4>1
      <4>6. l' = [l EXCEPT ![t] = M] /\ skipListSize' = skipListSize /\ Unmoved(node, node')
        BY <4>5 DEF Local, Do, client, Unmoved
      <4> QED
        BY <4>2, <4>3, <4>4, <4>5, <4>6
    <3> QED
      BY <3>1, <3>2
  <2> QED
    BY <2>1, <2>2
<1>5. ~Adds(M) /\ (Takes(M) <=> L.isMarked) /\ ~Makes(M) /\ ValueOK(node, M)
  BY <1>4 DEF Adds, Takes, Makes, ValueOK
<1> QED
  BY <1>2, <1>4, <1>5, CalmKeeps

\* An insertion that links its node.
LEMMA LinkSize ==
  ASSUME Inv, SizeInv, NEW t \in Threads, UNCHANGED list, InsertLink(t)
  PROVE  SizeInv'
<1> DEFINE L == l[t]
           p == L.preds[L.level]
           M == IF L.level < L.topLevel THEN [L EXCEPT !.level = @ + 1] ELSE [L EXCEPT !.pc = "i_full"]
<1>1. LocalsOK(L) /\ DOMAIN L = Fields /\ L.pc = "i_link"
  BY CallFacts, Zenon DEF InsertLink, At
<1>2. \A n \in Nodes : DOMAIN node[n] = NodeFields
  BY DEF Inv, NodesOK, NodeOK, AttrsOK
<1>3. /\ node' = [node EXCEPT ![p].next[L.level] = L.curr] /\ l' = [l EXCEPT ![t] = M]
      /\ skipListSize' = skipListSize
  BY Zenon DEF InsertLink, Do, client
<1>4. M.pc \in {"i_link", "i_full"} /\ M.isMarked = L.isMarked /\ M.curr = L.curr
  <2>1. LET N == [L EXCEPT !.level = @ + 1] IN N.pc = "i_link" /\ N.isMarked = L.isMarked /\ N.curr = L.curr
    BY <1>1 DEF Fields
  <2>2. LET N == [L EXCEPT !.pc = "i_full"] IN N.pc = "i_full" /\ N.isMarked = L.isMarked /\ N.curr = L.curr
    BY <1>1 DEF Fields
  <2> QED
    BY <2>1, <2>2
<1> HIDE DEF M, p
<1>5. Unmoved(node, node')
  BY <1>2, <1>3 DEF Unmoved, NodeFields
<1>6. /\ Adds(M) /\ Adds(L) /\ (Takes(M) <=> Takes(L)) /\ (Makes(M) => Makes(L)) /\ ValueOK(node, M)
  BY <1>1, <1>4 DEF Adds, Takes, Makes, ValueOK
<1> QED
  BY <1>3, <1>4, <1>5, <1>6, CalmKeeps

\* An insertion makes its node, which holds a key at once.
LEMMA CreateSize ==
  ASSUME Inv, SizeInv, NEW t \in Threads, UNCHANGED list, InsertCreate(t)
  PROVE  SizeInv'
<1> DEFINE L == l[t]
           c == Cardinality(Nodes)
           M == [L EXCEPT !.pc = "i_link", !.curr = c, !.level = 0]
           N == [createNode(L.topLevel, L.key, t) EXCEPT
                   !.next = [i \in Levels |-> IF i <= L.topLevel THEN L.succs[i] ELSE NULL]]
<1>1. /\ LocalsOK(L) /\ DOMAIN L = Fields /\ L.pc = "i_create" /\ EraseOK(node, l, t, L) /\ ~L.isMarked
      /\ DOMAIN l = Threads
  BY CallFacts DEF InsertCreate, At, EraseOK
<1>2. c \notin Nodes /\ c # head /\ c # tail /\ c \in Nat
  <2>1. head \in Nodes /\ tail \in Nodes
    BY DEF Inv, NodesOK
  <2> QED
    BY <2>1, NewNode
<1>3. node' = Created(node, L.topLevel, L.key, t, L.succs) /\ l' = [l EXCEPT ![t] = M] /\ skipListSize' = skipListSize
  BY DEF InsertCreate, Do, client
<1>4. DOMAIN node' = Nodes \cup {c} /\ node'[c] = N /\ \A n \in Nodes : node'[n] = node[n]
  BY <1>2, <1>3 DEF Created
<1>5. N.value = t /\ N.mark = FALSE /\ N.fullyLinked = FALSE
  BY DEF createNode
<1>6. M.pc = "i_link" /\ M.isMarked = L.isMarked /\ M.curr = c
  BY <1>1 DEF Fields
<1> HIDE DEF M, N, c
<1>7. DOMAIN l = Threads /\ l'[t] = M /\ \A s \in Threads \ {t} : l'[s] = l[s]
  BY <1>1, <1>3
<1>8. FreshInv'
  <2>1. \A s \in Threads : Makes(l[s]) => l[s].curr \in Nodes
    BY CallFacts DEF Makes, UpdateOK
  <2>2. \A s \in Threads \ {t} : Makes(l'[s]) => l'[s].curr # c /\ l'[s].curr \in Nodes /\ ~node'[l'[s].curr].fullyLinked
    BY <1>2, <1>4, <1>7, <2>1 DEF SizeInv, FreshInv
  <2>3. l'[t].curr = c /\ ~node'[c].fullyLinked
    BY <1>4, <1>5, <1>6, <1>7
  <2>4. ASSUME NEW s \in Threads, NEW u \in Threads, Makes(l'[s]), Makes(l'[u]), l'[s].curr = l'[u].curr
        PROVE  s = u
    <3>1. CASE s # t /\ u # t
      BY <1>7, <2>4, <3>1 DEF SizeInv, FreshInv
    <3> QED
      BY <2>2, <2>3, <2>4, <3>1
  <2> QED
    BY <2>2, <2>3, <2>4 DEF FreshInv
<1>9. ValueInv'
  <2>1. ValueOK(node', M)
    BY <1>6 DEF ValueOK
  <2>2. list = "locks" => \A n \in DOMAIN node' \ {head, tail} : node'[n].value # NoValue
    BY <1>4, <1>5 DEF SizeInv, ValueInv
  <2>3. list = "lazy" => \A n \in DOMAIN node' : ~node'[n].mark
    BY <1>4, <1>5 DEF SizeInv, ValueInv
  <2> QED
    BY <1>3, <1>4, <2>1, <2>2, <2>3, ValueStep DEF SizeInv
<1>10. CountInv'
  <2>1. Present' = Present \cup {c}
    <3>1. t # NoValue
      OBVIOUS
    <3> QED
      BY <1>2, <1>4, <1>5, <3>1 DEF Present
  <2>2. c \notin Present
    BY <1>2 DEF Present
  <2>3. Adds(M) /\ ~Adds(L) /\ ~Takes(M) /\ ~Takes(L)
    BY <1>1, <1>6 DEF Adds, Takes
  <2>4. Digit(c \in Present') - Digit(c \in Present) = 0 + Digit(Adds(M)) - Digit(Adds(L)) - Digit(Takes(M)) + Digit(Takes(L))
    BY <2>1, <2>2, <2>3 DEF Digit
  <2>5. CountInv /\ skipListSize' = skipListSize + 0 /\ 0 \in Int /\ Present' \ {c} = Present \ {c}
    BY <1>3, <2>1 DEF SizeInv, CountInv
  <2> QED
    BY <1>3, <2>4, <2>5, CountStep
<1> QED
  BY <1>8, <1>9, <1>10 DEF SizeInv

\* Its node is complete, and no other insertion is about it.
LEMMA FullSize ==
  ASSUME Inv, SizeInv, NEW t \in Threads, UNCHANGED list, InsertFull(t)
  PROVE  SizeInv'
<1> DEFINE L == l[t]
           c == L.curr
           M == [L EXCEPT !.pc = "i_leave"]
<1>1. /\ LocalsOK(L) /\ DOMAIN L = Fields /\ L.pc = "i_full" /\ EraseOK(node, l, t, L) /\ ~L.isMarked
      /\ DOMAIN l = Threads /\ c \in Nodes
  BY CallFacts DEF InsertFull, At, EraseOK, UpdateOK
<1>2. node' = [node EXCEPT ![c].fullyLinked = TRUE] /\ l' = [l EXCEPT ![t] = M] /\ skipListSize' = skipListSize
  BY <1>1 DEF InsertFull
<1>3. \A n \in Nodes : DOMAIN node[n] = NodeFields
  BY DEF Inv, NodesOK, NodeOK, AttrsOK
<1>4. M.pc = "i_leave" /\ M.isMarked = L.isMarked
  BY <1>1, GotoFacts
<1> HIDE DEF M
<1>5. /\ DOMAIN node' = Nodes
      /\ \A n \in Nodes : /\ node'[n].mark = node[n].mark /\ node'[n].value = node[n].value
                          /\ n # c => node'[n].fullyLinked = node[n].fullyLinked
  BY <1>1, <1>2, <1>3 DEF NodeFields
<1>6. l'[t] = M /\ \A s \in Threads \ {t} : l'[s] = l[s]
  BY <1>1, <1>2
<1>7. FreshInv'
  <2>1. \A s \in Threads : Makes(l[s]) => l[s].curr \in Nodes
    BY CallFacts DEF Makes, UpdateOK
  <2>2. ~Makes(M) /\ Makes(L)
    BY <1>1, <1>4 DEF Makes
  <2>3. \A s \in Threads \ {t} : Makes(l[s]) => l[s].curr # c
    BY <2>2 DEF SizeInv, FreshInv
  <2> QED
    BY <1>5, <1>6, <2>1, <2>2, <2>3 DEF SizeInv, FreshInv
<1>8. ValueInv'
  <2>1. ValueOK(node', M)
    BY <1>4 DEF ValueOK
  <2>2. list = "locks" => \A n \in DOMAIN node' \ {head, tail} : node'[n].value # NoValue
    BY <1>5 DEF SizeInv, ValueInv
  <2>3. list = "lazy" => \A n \in DOMAIN node' : ~node'[n].mark
    BY <1>5 DEF SizeInv, ValueInv
  <2> QED
    BY <1>2, <1>5, <2>1, <2>2, <2>3, ValueStep DEF SizeInv
<1>9. CountInv'
  <2>1. Present' = Present
    BY <1>5 DEF Present
  <2>2. Adds(M) /\ Adds(L) /\ ~Takes(M) /\ ~Takes(L)
    BY <1>1, <1>4 DEF Adds, Takes
  <2>3. Digit(c \in Present') - Digit(c \in Present) = 0 + Digit(Adds(M)) - Digit(Adds(L)) - Digit(Takes(M)) + Digit(Takes(L))
    BY <2>1, <2>2 DEF Digit
  <2>4. CountInv /\ skipListSize' = skipListSize + 0 /\ 0 \in Int
    BY <1>2 DEF SizeInv, CountInv
  <2> QED
    BY <1>2, <2>1, <2>3, <2>4, CountStep
<1> QED
  BY <1>7, <1>8, <1>9 DEF SizeInv

\* A call that the client counts returns r, and changes no mark and no value.
LEMMA CountedReturn ==
  ASSUME Inv, SizeInv, NEW t \in Threads, NEW r, Return(t, r), UNCHANGED list, Unmoved(node, node'),
         \/ Adds(l[t]) /\ ~Takes(l[t]) /\ l[t].op = "insertIfAbsent" /\ r = NoValue
         \/ Takes(l[t]) /\ ~Adds(l[t]) /\ l[t].op = "erase" /\ r # NoValue
  PROVE  SizeInv'
<1> DEFINE L == l[t]
           e == IF L.op = "erase" THEN -1 ELSE 1
<1>1. l' = [l EXCEPT ![t] = Locals] /\ skipListSize' = skipListSize + e
  <2>1. skipListSize \in Int
    BY DEF SizeInv, CountInv
  <2> QED
    BY <2>1 DEF Return
<1>2. Locals.pc = "idle" /\ Locals.isMarked = FALSE
  BY LocalsFacts
<1>3. ~Adds(Locals) /\ ~Takes(Locals) /\ ~Makes(Locals) /\ ValueOK(node, Locals) /\ ValueOK(node', Locals)
  BY <1>2 DEF Adds, Takes, Makes, ValueOK
<1>4. FreshInv'
  BY <1>1, <1>3, FreshStep DEF SizeInv, Unmoved
<1>5. ValueInv'
  <2>1. list = "locks" => \A n \in DOMAIN node' \ {head, tail} : node'[n].value # NoValue
    BY DEF SizeInv, ValueInv, Unmoved
  <2>2. list = "lazy" => \A n \in DOMAIN node' : ~node'[n].mark
    BY DEF SizeInv, ValueInv, Unmoved
  <2> QED
    BY <1>1, <1>3, <2>1, <2>2, ValueStep DEF SizeInv, Unmoved
<1>6. CountInv'
  <2>1. Present' = Present /\ CountInv
    BY DEF Present, Unmoved, SizeInv
  <2>2. Digit(head \in Present') - Digit(head \in Present)
          = e + Digit(Adds(Locals)) - Digit(Adds(L)) - Digit(Takes(Locals)) + Digit(Takes(L))
    BY <1>3, <2>1 DEF Digit
  <2>3. e \in Int
    OBVIOUS
  <2> HIDE DEF e
  <2> QED
    BY <1>1, <2>1, <2>2, <2>3, CountStep
<1> QED
  BY <1>4, <1>5, <1>6 DEF SizeInv

\* The insertion is counted.
LEMMA LeaveSize ==
  ASSUME Inv, SizeInv, NEW t \in Threads, UNCHANGED list, InsertLeave(t)
  PROVE  SizeInv'
<1>1. l[t].pc = "i_leave" /\ node' = Unlocked(l[t]) /\ Return(t, NoValue)
  BY DEF InsertLeave, At
<1>2. ~l[t].isMarked /\ l[t].op = "insertIfAbsent"
  BY <1>1, CallFacts DEF EraseOK, UpdateOK
<1>3. Unmoved(node, node')
  BY <1>1, Unlocking, ZenonT(60) DEF Unmoved
<1>4. Adds(l[t]) /\ ~Takes(l[t])
  BY <1>1, <1>2 DEF Adds, Takes
<1> QED
  BY <1>1, <1>2, <1>3, <1>4, CountedReturn

\* The removal under locks, but for the instant it takes effect.
LEMMA LocksSize ==
  ASSUME Inv, SizeInv, NEW t \in Threads, list = "locks", UNCHANGED list,
         Locks!InsertFound(t) \/ Locks!EraseTest(t) \/ Locks!EraseUnlink(t) \/ Locks!EraseLeave(t)
  PROVE  SizeInv'
<1> DEFINE L == l[t]
<1>1. /\ LocalsOK(L) /\ DOMAIN L = Fields /\ ValueOK(node, L) /\ EraseOK(node, l, t, L) /\ UpdateOK(node, t, L)
  BY CallFacts DEF SizeInv, ValueInv
<1>2. CASE Locks!InsertFound(t)
  <2>1. L.pc = "i_found" /\ Return(t, L.v) /\ node' = node
    BY <1>2, LocksWords DEF Locks!InsertFound, At
  <2>2. ~L.isMarked /\ L.op = "insertIfAbsent" /\ L.v # NoValue
    BY <1>1, <2>1 DEF EraseOK, UpdateOK, ValueOK
  <2>3. ~Adds(L) /\ ~Takes(L)
    BY <2>1, <2>2 DEF Adds, Takes
  <2> QED
    BY <2>1, <2>2, <2>3, ReturnCalm
<1>3. CASE Locks!EraseTest(t)
  <2> DEFINE v == IF L.flevel # -1 THEN L.succs[L.flevel] ELSE L.victim
             toMark == L.flevel # -1 /\ L.flevel = node[v].topLevel /\ ~node[v].mark
             M1 == [L EXCEPT !.pc = "lock", !.victim = v]
             M2 == [L EXCEPT !.pc = "e_lock", !.victim = v, !.topLevel = node[v].topLevel]
  <2>1. L.pc = "e_test" /\ L.op = "erase"
    BY <1>1, <1>3, LocksWords, Zenon DEF Locks!EraseTest, At, UpdateOK
  <2>2. Local(t, M1) \/ Local(t, M2) \/ (Return(t, NoValue) /\ node' = node /\ ~L.isMarked)
    <3>1. Locks!Local(t, M1) \/ Locks!Local(t, M2) \/ (Locks!Return(t, Locks!NoValue) /\ UNCHANGED node /\ ~L.isMarked)
      <4> HIDE DEF M1, M2
      <4>1. CASE L.isMarked
        BY <1>3, <4>1, Zenon DEF Locks!EraseTest, M1, M2
      <4>2. CASE ~L.isMarked /\ toMark
        BY <1>3, <4>2, Zenon DEF Locks!EraseTest, M1, M2
      <4>3. CASE ~L.isMarked /\ ~toMark
        BY <1>3, <4>3, Zenon DEF Locks!EraseTest, M1, M2
      <4> QED
        BY <4>1, <4>2, <4>3
    <3> HIDE DEF M1, M2
    <3> QED
      BY <3>1, LocksWords
  <2> HIDE DEF v, toMark
  <2>3. \A M \in {M1, M2} : M.pc \in {"lock", "e_lock"} /\ M.isMarked = L.isMarked
    <3>1. M1.pc = "lock" /\ M1.isMarked = L.isMarked
      BY <1>1 DEF Fields
    <3>2. M2.pc = "e_lock" /\ M2.isMarked = L.isMarked
      BY <1>1 DEF Fields
    <3> HIDE DEF M1, M2
    <3> QED
      BY <3>1, <3>2
  <2> HIDE DEF M1, M2
  <2>4. \A M \in {M1, M2} : ~Adds(M) /\ (Takes(M) <=> L.isMarked) /\ ~Makes(M) /\ ValueOK(node, M)
    BY <2>3 DEF Adds, Takes, Makes, ValueOK
  <2>5. ~Adds(L) /\ (Takes(L) <=> L.isMarked)
    BY <2>1 DEF Adds, Takes
  <2>6. CASE Local(t, M1) \/ Local(t, M2)
    <3>1. PICK M \in {M1, M2} : Local(t, M)
      BY <2>6
    <3> QED
      BY <2>4, <2>5, <3>1, LocalCalm
  <2>7. CASE Return(t, NoValue) /\ node' = node /\ ~L.isMarked
    BY <2>1, <2>5, <2>7, ReturnCalm
  <2> QED
    BY <2>2, <2>6, <2>7
<1>4. CASE Locks!EraseUnlink(t)
  <2> DEFINE p == L.preds[L.level]
             w == node[L.victim].next[L.level]
             M1 == [L EXCEPT !.level = @ - 1]
             M2 == [L EXCEPT !.pc = "e_leave", !.level = L.topLevel]
             M == IF L.level > 0 THEN M1 ELSE M2
  <2>1. L.pc = "e_unlink" /\ Do(t, [node EXCEPT ![p].next[L.level] = w], M)
    BY <1>4, LocksWords, Zenon DEF Locks!EraseUnlink, At
  <2>2. M1.pc = L.pc /\ M1.isMarked = L.isMarked
    BY <1>1 DEF Fields
  <2>3. M2.pc = "e_leave" /\ M2.isMarked = L.isMarked
    BY <1>1 DEF Fields
  <2> HIDE DEF M1, M2
  <2>4. M.pc \in {"e_unlink", "e_leave"} /\ M.isMarked = L.isMarked
    BY <2>1, <2>2, <2>3, Zenon
  <2> HIDE DEF M, p, w
  <2>5. ~Adds(M) /\ (Takes(M) <=> Takes(L)) /\ ~Makes(M) /\ ValueOK(node, M) /\ ~Adds(L)
    BY <2>1, <2>4 DEF Adds, Takes, Makes, ValueOK
  <2>6. \A n \in Nodes : DOMAIN node[n] = NodeFields
    BY DEF Inv, NodesOK, NodeOK, AttrsOK
  <2>7. node' = [node EXCEPT ![p].next[L.level] = w] /\ l' = [l EXCEPT ![t] = M] /\ skipListSize' = skipListSize
    BY <2>1 DEF Do, client
  <2>8. Unmoved(node, node')
    BY <2>6, <2>7 DEF Unmoved, NodeFields
  <2> QED
    BY <2>5, <2>7, <2>8, CalmKeeps
<1>5. CASE Locks!EraseLeave(t)
  <2> DEFINE v == L.victim
             nd == Unlocked(L)
  <2>1. L.pc = "e_leave" /\ node' = [nd EXCEPT ![v].lock = Nobody] /\ Return(t, node[v].value)
    BY <1>5, LocksWords DEF Locks!EraseLeave, At
  <2>2. L.isMarked /\ v \in Nodes \ {head, tail} /\ L.op = "erase"
    BY <1>1, <2>1 DEF EraseOK, UpdateOK, LockPlaces
  <2> HIDE DEF nd
  <2>3. /\ DOMAIN nd = Nodes
        /\ \A n \in Nodes : /\ nd[n].mark = node[n].mark /\ nd[n].value = node[n].value
                            /\ nd[n].fullyLinked = node[n].fullyLinked /\ DOMAIN nd[n] = NodeFields
    BY <2>1, Unlocking DEF nd
  <2>4. Unmoved(node, node')
    BY <2>1, <2>3 DEF Unmoved, NodeFields
  <2>5. node[v].value # NoValue
    BY <2>2 DEF SizeInv, ValueInv
  <2>6. Takes(L) /\ ~Adds(L)
    BY <2>1, <2>2 DEF Adds, Takes
  <2> QED
    BY <2>1, <2>2, <2>4, <2>5, <2>6, CountedReturn
<1> QED
  BY <1>2, <1>3, <1>4, <1>5

\* A key is gone from the instant its node is marked.
LEMMA MarkSize ==
  ASSUME Inv, SizeInv, NEW t \in Threads, list = "locks", UNCHANGED list, Locks!EraseMark(t)
  PROVE  SizeInv'
<1> DEFINE L == l[t]
           v == L.victim
<1>1. /\ LocalsOK(L) /\ DOMAIN L = Fields /\ L.pc = "e_lock" /\ ~L.isMarked /\ v \in Nodes \ {head, tail} /\ L.op = "erase"
      /\ DOMAIN l = Threads
  BY CallFacts, LocksWords DEF Locks!EraseMark, At, EraseOK, UpdateOK
<1>2. ~Adds(L) /\ ~Takes(L)
  BY <1>1 DEF Adds, Takes
<1>3. CASE node[v].mark
  <2>1. Return(t, NoValue) /\ node' = node
    <3>1. Locks!Return(t, Locks!NoValue) /\ UNCHANGED node
      BY <1>3, Zenon DEF Locks!EraseMark
    <3> QED
      BY <3>1, LocksWords
  <2> QED
    BY <1>1, <1>2, <2>1, ReturnCalm
<1>4. CASE ~node[v].mark
  <2> DEFINE M == [L EXCEPT !.pc = "lock", !.isMarked = TRUE]
  <2>1. /\ node' = [node EXCEPT ![v].lock = t, ![v].mark = TRUE] /\ skipListSize' = skipListSize
        /\ l' = [l EXCEPT ![t].pc = "lock", ![t].isMarked = TRUE]
    BY <1>4, Zenon DEF Locks!EraseMark
  <2>2. l' = [l EXCEPT ![t] = M]
    BY <1>1, <2>1
  <2>3. M.pc = "lock" /\ M.isMarked = TRUE
    BY <1>1 DEF Fields
  <2> HIDE DEF M
  <2>4. \A n \in Nodes : DOMAIN node[n] = NodeFields
    BY DEF Inv, NodesOK, NodeOK, AttrsOK
  <2>5. /\ DOMAIN node' = Nodes
        /\ \A n \in Nodes : /\ node'[n].value = node[n].value /\ node'[n].fullyLinked = node[n].fullyLinked
                            /\ n # v => node'[n].mark = node[n].mark
        /\ node'[v].mark
    <3> DEFINE B == [node EXCEPT ![v].lock = t]
    <3>1. node' = [B EXCEPT ![v].mark = TRUE]
      BY <2>1
    <3>2. /\ DOMAIN B = Nodes
          /\ \A n \in Nodes : /\ B[n].value = node[n].value /\ B[n].fullyLinked = node[n].fullyLinked
                              /\ B[n].mark = node[n].mark /\ DOMAIN B[n] = NodeFields
      BY <2>4 DEF NodeFields
    <3> HIDE DEF B
    <3> QED
      BY <1>1, <3>1, <3>2 DEF NodeFields
  <2>6. ~Makes(M) /\ ~Adds(M) /\ Takes(M) /\ ValueOK(node', M)
    BY <2>3 DEF Makes, Adds, Takes, ValueOK
  <2>7. FreshInv'
    BY <2>2, <2>5, <2>6, FreshStep DEF SizeInv
  <2>8. ValueInv'
    <3>1. \A n \in DOMAIN node' \ {head, tail} : node'[n].value # NoValue
      BY <2>5 DEF SizeInv, ValueInv
    <3> QED
      BY <2>2, <2>5, <2>6, <3>1, ValueStep DEF SizeInv
  <2>9. CountInv'
    <3>1. v \in Present
      BY <1>1, <1>4 DEF SizeInv, ValueInv, Present
    <3>2. Present' = Present \ {v}
      BY <1>1, <2>5 DEF Present
    <3>3. Digit(v \in Present') - Digit(v \in Present) = 0 + Digit(Adds(M)) - Digit(Adds(L)) - Digit(Takes(M)) + Digit(Takes(L))
      BY <1>2, <2>6, <3>1, <3>2 DEF Digit
    <3>4. CountInv /\ skipListSize' = skipListSize + 0 /\ 0 \in Int /\ Present' \ {v} = Present \ {v}
      BY <2>1, <3>2 DEF SizeInv, CountInv
    <3> QED
      BY <2>2, <3>3, <3>4, CountStep
  <2> QED
    BY <2>7, <2>8, <2>9 DEF SizeInv
<1> QED
  BY <1>3, <1>4

\* A call of the lazy list changes the value of a node of its key.
LEMMA SwapSize ==
  ASSUME Inv, SizeInv, NEW t \in Threads, list = "lazy", UNCHANGED <<list, skipListSize>>, l[t].pc = "swap", ~l[t].isMarked,
         NEW n \in Nodes \ {head, tail}, NEW u,
         node' = [node EXCEPT ![n].value = u], l' = [l EXCEPT ![t].pc = "swapped"],
         \/ l[t].op = "insertIfAbsent" /\ node[n].value = NoValue /\ u # NoValue
         \/ l[t].op = "erase" /\ node[n].value # NoValue /\ u = NoValue
  PROVE  SizeInv'
<1> DEFINE L == l[t]
           M == [L EXCEPT !.pc = "swapped"]
<1>1. LocalsOK(L) /\ DOMAIN L = Fields /\ DOMAIN l = Threads /\ ValueOK(node, L)
  BY CallFacts DEF SizeInv, ValueInv
<1>2. M.pc = "swapped" /\ M.op = L.op /\ M.isMarked = L.isMarked /\ M.curr = L.curr /\ M.v = L.v /\ M.victim = L.victim
  BY <1>1, GotoFacts
<1>3. l' = [l EXCEPT ![t] = M]
  OBVIOUS
<1> HIDE DEF M
<1>4. \A m \in Nodes : DOMAIN node[m] = NodeFields
  BY DEF Inv, NodesOK, NodeOK, AttrsOK
<1>5. /\ DOMAIN node' = Nodes
      /\ \A m \in Nodes : /\ node'[m].mark = node[m].mark /\ node'[m].fullyLinked = node[m].fullyLinked
                          /\ m # n => node'[m].value = node[m].value
      /\ node'[n].value = u
  BY <1>4 DEF NodeFields
<1>6. ~Makes(M) /\ ~Adds(L) /\ ~Takes(L) /\ (Adds(M) <=> L.op = "insertIfAbsent") /\ (Takes(M) <=> L.op = "erase")
  BY <1>2 DEF Makes, Adds, Takes
<1>7. ValueOK(node', M)
  BY <1>1, <1>2, <1>5 DEF ValueOK
<1>8. FreshInv'
  BY <1>3, <1>5, <1>6, FreshStep, ZenonT(60) DEF SizeInv
<1>9. \A m \in Nodes : ~node[m].mark
  BY DEF SizeInv, ValueInv
<1>10. ValueInv'
  BY <1>3, <1>5, <1>7, <1>9, ValueStep DEF SizeInv
<1>11. CountInv'
  <2>1. Present' \ {n} = Present \ {n} /\ (n \in Present <=> node[n].value # NoValue) /\ (n \in Present' <=> u # NoValue)
    BY <1>5, <1>9 DEF Present
  <2>2. Digit(n \in Present') - Digit(n \in Present) = 0 + Digit(Adds(M)) - Digit(Adds(L)) - Digit(Takes(M)) + Digit(Takes(L))
    <3>1. CASE L.op = "insertIfAbsent" /\ node[n].value = NoValue /\ u # NoValue
      BY <1>6, <2>1, <3>1 DEF Digit
    <3>2. CASE L.op = "erase" /\ node[n].value # NoValue /\ u = NoValue
      BY <1>6, <2>1, <3>2 DEF Digit
    <3> QED
      BY <3>1, <3>2
  <2>3. CountInv /\ skipListSize' = skipListSize + 0 /\ 0 \in Int
    BY DEF SizeInv, CountInv
  <2> QED
    BY <1>3, <2>1, <2>2, <2>3, CountStep
<1> QED
  BY <1>8, <1>10, <1>11 DEF SizeInv

\* The updates of the lazy list.
LEMMA LazySize ==
  ASSUME Inv, SizeInv, NEW t \in Threads, list = "lazy", UNCHANGED list,
         \/ Lazy!InsertFound(t) \/ Lazy!Revive(t) \/ Lazy!Revived(t)
         \/ Lazy!EraseTest(t) \/ Lazy!Remove(t) \/ Lazy!Removed(t)
  PROVE  SizeInv'
<1> DEFINE L == l[t]
<1>1. /\ LocalsOK(L) /\ DOMAIN L = Fields /\ ValueOK(node, L) /\ UpdateOK(node, t, L) /\ SearchOK(node, l, L)
      /\ ~L.isMarked
  BY CallFacts DEF SizeInv, ValueInv, Inv, ClientInv
<1>2. L.pc \in {"i_found", "swap", "swapped", "e_test"}
  BY LazyWords DEF Lazy!InsertFound, Lazy!Revive, Lazy!Revived, Lazy!EraseTest, Lazy!Remove, Lazy!Removed, At
<1>3. L.pc # "swapped" => ~Adds(L) /\ ~Takes(L)
  BY <1>1, <1>2 DEF Adds, Takes
<1>4. CASE Lazy!InsertFound(t)
  <2> DEFINE M == [L EXCEPT !.pc = "swap"]
             v == node[L.curr].value
  <2>1. L.pc = "i_found"
    BY <1>4, LazyWords DEF Lazy!InsertFound, At
  <2>2. L.op = "insertIfAbsent" /\ L.curr \in Nodes \ {head, tail}
    BY <1>1, <2>1, CallFacts, PresentFinite DEF UpdateOK, SearchOK
  <2>3. CASE v = Lazy!NoValue
    <3>1. Local(t, M)
      <4>1. Lazy!Goto(t, "swap")
        BY <1>4, <2>3, Zenon DEF Lazy!InsertFound
      <4> QED
        BY <4>1, LazyWords
    <3>2. M.pc = "swap" /\ M.op = L.op /\ M.isMarked = L.isMarked /\ M.curr = L.curr
      BY <1>1, <1>2, GotoFacts
    <3> HIDE DEF M
    <3>3. ~Adds(M) /\ ~Takes(M) /\ ~Makes(M) /\ ValueOK(node, M)
      BY <1>1, <2>2, <3>2 DEF Adds, Takes, Makes, ValueOK
    <3> QED
      BY <1>3, <2>1, <3>1, <3>3, LocalCalm
  <2>4. CASE v # Lazy!NoValue
    <3>1. Return(t, v) /\ node' = node
      <4>1. Lazy!Return(t, v) /\ UNCHANGED node
        BY <1>4, <2>4, Zenon DEF Lazy!InsertFound
      <4> QED
        BY <4>1, LazyWords
    <3>2. v # NoValue
      BY <2>4, LazyWords
    <3> HIDE DEF v
    <3> QED
      BY <1>3, <2>1, <2>2, <3>1, <3>2, ReturnCalm
  <2> QED
    BY <2>3, <2>4
<1>5. CASE Lazy!Revive(t)
  <2> DEFINE M == [L EXCEPT !.pc = "i_found"]
  <2>1. L.pc = "swap" /\ L.op = "insertIfAbsent"
    BY <1>5, LazyWords DEF Lazy!Revive, At
  <2>2. L.curr \in Nodes \ {head, tail}
    BY <1>1, <2>1 DEF ValueOK
  <2>3. CASE node[L.curr].value = Lazy!NoValue
    <3>1. /\ node' = [node EXCEPT ![L.curr].value = t] /\ l' = [l EXCEPT ![t].pc = "swapped"]
          /\ skipListSize' = skipListSize
      BY <1>5, <2>3, Zenon DEF Lazy!Revive
    <3>2. node[L.curr].value = NoValue /\ t # NoValue
      BY <2>3, LazyWords
    <3> QED
      BY <1>1, <2>1, <2>2, <3>1, <3>2, SwapSize
  <2>4. CASE node[L.curr].value # Lazy!NoValue
    <3>1. Local(t, M)
      <4>1. Lazy!Goto(t, "i_found")
        BY <1>5, <2>4, Zenon DEF Lazy!Revive
      <4> QED
        BY <4>1, LazyWords
    <3>2. M.pc = "i_found" /\ M.isMarked = L.isMarked
      BY <1>1, <1>2, GotoFacts
    <3> HIDE DEF M
    <3>3. ~Adds(M) /\ ~Takes(M) /\ ~Makes(M) /\ ValueOK(node, M)
      BY <1>1, <3>2 DEF Adds, Takes, Makes, ValueOK
    <3> QED
      BY <1>3, <2>1, <3>1, <3>3, LocalCalm
  <2> QED
    BY <2>3, <2>4
<1>6. CASE Lazy!Revived(t)
  <2>1. L.pc = "swapped" /\ L.op = "insertIfAbsent" /\ Return(t, NoValue) /\ node' = node
    BY <1>6, LazyWords DEF Lazy!Revived, At
  <2>2. Adds(L) /\ ~Takes(L) /\ Unmoved(node, node')
    BY <1>1, <2>1 DEF Adds, Takes, Unmoved
  <2> QED
    BY <2>1, <2>2, CountedReturn
<1>7. CASE Lazy!EraseTest(t)
  <2> DEFINE c == L.succs[L.flevel]
             v == node[c].value
             M == [L EXCEPT !.pc = "swap", !.victim = c, !.v = v]
  <2>1. L.pc = "e_test"
    BY <1>7, LazyWords DEF Lazy!EraseTest, At
  <2>2. L.op = "erase" /\ Found(node, l, L, 0)
    BY <1>1, <2>1 DEF UpdateOK, SearchOK
  <2>3. CASE L.flevel = -1 \/ v = Lazy!NoValue
    <3>1. Return(t, NoValue) /\ node' = node
      <4>1. Lazy!Return(t, Lazy!NoValue) /\ UNCHANGED node
        BY <1>7, <2>3, Zenon DEF Lazy!EraseTest
      <4> QED
        BY <4>1, LazyWords
    <3> QED
      BY <1>3, <2>1, <2>2, <3>1, ReturnCalm
  <2>4. CASE ~(L.flevel = -1 \/ v = Lazy!NoValue)
    <3>1. Local(t, M)
      <4>1. Lazy!Local(t, M)
        BY <1>7, <2>4, Zenon DEF Lazy!EraseTest
      <4> QED
        BY <4>1, LazyWords
    <3>2. c \in Nodes \ {head, tail}
      <4>1. L.flevel \in 0 .. MAX_LEVEL /\ node[c].key = L.key /\ Neighbours(node, l, L, L.flevel)
        BY <2>2, <2>4 DEF Found
      <4>2. c \in Nodes
        BY <4>1 DEF Neighbours, Linked
      <4> QED
        BY <2>1, <4>1, <4>2, CallFacts, PresentFinite
    <3>3. v # NoValue
      BY <2>4, LazyWords
    <3> HIDE DEF c, v
    <3>4. M.pc = "swap" /\ M.op = L.op /\ M.isMarked = L.isMarked /\ M.victim = c /\ M.v = v
      BY <1>1 DEF Fields
    <3> HIDE DEF M
    <3>5. ~Adds(M) /\ ~Takes(M) /\ ~Makes(M) /\ ValueOK(node, M)
      BY <1>1, <2>2, <3>2, <3>3, <3>4 DEF Adds, Takes, Makes, ValueOK
    <3> QED
      BY <1>3, <2>1, <3>1, <3>5, LocalCalm
  <2> QED
    BY <2>3, <2>4
<1>8. CASE Lazy!Remove(t)
  <2> DEFINE M == [L EXCEPT !.pc = "e_test"]
  <2>1. L.pc = "swap" /\ L.op = "erase"
    BY <1>8, LazyWords DEF Lazy!Remove, At
  <2>2. L.victim \in Nodes \ {head, tail} /\ L.v # NoValue
    BY <1>1, <2>1 DEF ValueOK
  <2>3. CASE node[L.victim].value = L.v
    <3>1. /\ node' = [node EXCEPT ![L.victim].value = Lazy!NoValue] /\ l' = [l EXCEPT ![t].pc = "swapped"]
          /\ skipListSize' = skipListSize
      BY <1>8, <2>3, Zenon DEF Lazy!Remove
    <3>2. Lazy!NoValue = NoValue
      BY LazyWords
    <3> QED
      BY <1>1, <2>1, <2>2, <2>3, <3>1, <3>2, SwapSize
  <2>4. CASE node[L.victim].value # L.v
    <3>1. Local(t, M)
      <4>1. Lazy!Goto(t, "e_test")
        BY <1>8, <2>4, Zenon DEF Lazy!Remove
      <4> QED
        BY <4>1, LazyWords
    <3>2. M.pc = "e_test" /\ M.isMarked = L.isMarked
      BY <1>1, <1>2, GotoFacts
    <3> HIDE DEF M
    <3>3. ~Adds(M) /\ ~Takes(M) /\ ~Makes(M) /\ ValueOK(node, M)
      BY <1>1, <3>2 DEF Adds, Takes, Makes, ValueOK
    <3> QED
      BY <1>3, <2>1, <3>1, <3>3, LocalCalm
  <2> QED
    BY <2>3, <2>4
<1>9. CASE Lazy!Removed(t)
  <2>1. L.pc = "swapped" /\ L.op = "erase" /\ Return(t, L.v) /\ node' = node
    BY <1>9, LazyWords DEF Lazy!Removed, At
  <2>2. Takes(L) /\ ~Adds(L) /\ Unmoved(node, node') /\ L.v # NoValue
    BY <1>1, <2>1 DEF Adds, Takes, Unmoved, ValueOK
  <2> QED
    BY <2>1, <2>2, CountedReturn
<1> QED
  BY <1>4, <1>5, <1>6, <1>7, <1>8, <1>9

\* The count is right when the threads start.
LEMMA InitSize == Init1 => SizeInv
<1> SUFFICES ASSUME NEW s \in Scripts, Init(s), list \in {"locks", "lazy"} PROVE SizeInv
  BY ListsAssumption DEF Init1
<1>1. l = [t \in Threads |-> Locals] /\ s.prefill \subseteq Keys /\ skipListSize = Cardinality(s.prefill)
  BY ScriptsAssumption DEF Init
<1>2. \A t \in Threads : l[t] = Locals /\ l[t].pc = "idle" /\ ~l[t].isMarked
  BY <1>1, LocalsFacts
<1>3. FreshInv /\ Adding = {} /\ Taking = {}
  BY <1>2 DEF FreshInv, Makes, Adding, Taking, Adds, Takes
<1>4. IsFiniteSet(s.prefill) /\ Cardinality(s.prefill) \in Nat
  <2>1. IsFiniteSet(minKey .. maxKey) /\ s.prefill \in SUBSET (minKey .. maxKey)
    BY <1>1, FS_Interval
  <2>2. IsFiniteSet(s.prefill)
    BY <2>1, FS_Subset
  <2> QED
    BY <2>2, FS_CardinalityType
<1>5. /\ \A n \in Nodes : ~node[n].mark
      /\ \A n \in Nodes \ {head, tail} : node[n].value # NoValue
      /\ Cardinality(Present) = Cardinality(s.prefill)
  <2>1. CASE s.prefill = {} /\ node = EmptyList
    <3>1. Nodes = {0, 1} /\ \A n \in Nodes : ~node[n].mark
      BY <2>1, EmptyFacts
    <3>2. Present = {}
      BY <3>1 DEF Present
    <3> QED
      BY <2>1, <3>1, <3>2
  <2>2. ASSUME NEW k \in s.prefill, NEW h \in 0 .. MAX_LEVEL - 1, node = Filled(k, h)
        PROVE  /\ \A n \in Nodes : ~node[n].mark
               /\ \A n \in Nodes \ {head, tail} : node[n].value # NoValue
               /\ Cardinality(Present) = Cardinality(s.prefill)
    <3>0. k \in Keys
      BY <1>1
    <3>1. DOMAIN node = 0 .. 2 /\ node[2].value = 1 /\ \A n \in 0 .. 2 : ~node[n].mark
      <4>1. DOMAIN Filled(k, h) = 0 .. 2 /\ Filled(k, h)[2].value = 1
        BY <3>0, FilledFacts
      <4>2. \A n \in 0 .. 2 : ~Filled(k, h)[n].mark
        BY <3>0, FilledFacts
      <4> QED
        BY <2>2, <4>1, <4>2
    <3>2. Nodes \ {head, tail} = {2} /\ 1 # NoValue /\ 2 \in Nodes
      BY <3>1
    <3>3. Present = {2}
      BY <3>1, <3>2 DEF Present
    <3>4. Cardinality({2}) = 1
      <4>1. 2 \in Int /\ {2} = 2 .. 2
        OBVIOUS
      <4>2. Cardinality(2 .. 2) = IF 2 > 2 THEN 0 ELSE 2 - 2 + 1
        BY <4>1, FS_Interval
      <4> QED
        BY <4>1, <4>2
    <3>5. Cardinality(s.prefill) = 1
      <4>1. Cardinality(s.prefill) # 0
        BY <1>4, <2>2, FS_EmptySet
      <4>2. Cardinality(s.prefill) <= 1
        BY ScriptsAssumption
      <4> QED
        BY <1>4, <4>1, <4>2
    <3> QED
      <4>1. \A n \in Nodes \ {head, tail} : n = 2
        BY <3>2
      <4> QED
        BY <3>1, <3>2, <3>3, <3>4, <3>5, <4>1
  <2>3. (s.prefill = {} /\ node = EmptyList) \/ \E k \in s.prefill, h \in 0 .. MAX_LEVEL - 1 : node = Filled(k, h)
    BY DEF Init
  <2> QED
    BY <2>1, <2>2, <2>3, Zenon
<1>6. ValueInv
  <2>1. \A t \in Threads : ValueOK(node, l[t])
    BY <1>2 DEF ValueOK
  <2> QED
    BY <1>5, <2>1 DEF ValueInv
<1>7. CountInv
  BY <1>1, <1>3, <1>4, <1>5, FS_EmptySet DEF CountInv
<1> QED
  BY <1>3, <1>6, <1>7 DEF SizeInv

\* A step of either list keeps the count.
LEMMA NextSize == Inv /\ SizeInv /\ [Next1]_allVars => SizeInv'
<1> SUFFICES ASSUME Inv, SizeInv, [Next1]_allVars PROVE SizeInv'
  OBVIOUS
<1>1. ASSUME NEW t \in Threads, Search(t) \/ Insert(t) \/ Invoke(t), UNCHANGED list PROVE SizeInv'
  BY <1>1, SearchSize, FindSize, InsertTestSize, LockSize, CreateSize, LinkSize, FullSize, LeaveSize
     DEF Search, Insert
<1>2. CASE UNCHANGED <<vars, list>>
  <2>1. node' = node /\ l' = l /\ list' = list /\ skipListSize' = skipListSize
    BY <1>2 DEF vars
  <2>2. FreshInv'
    BY <2>1 DEF SizeInv, FreshInv
  <2>3. ValueInv'
    BY <2>1 DEF SizeInv, ValueInv, ValueOK
  <2>4. Present' = Present /\ Adding' = Adding /\ Taking' = Taking
    BY <2>1 DEF Present, Adding, Taking
  <2>5. CountInv'
    BY <2>1, <2>4 DEF SizeInv, CountInv
  <2> QED
    BY <2>2, <2>3, <2>5 DEF SizeInv
<1>3. CASE list = "locks" /\ Locks!Next /\ UNCHANGED list
  <2>1. ASSUME NEW t \in Threads, Locks!Invoke(t) \/ Locks!Step(t) PROVE SizeInv'
    BY <1>1, <1>3, <2>1, LocksActions, LocksSize, MarkSize DEF Locks!Step
  <2>2. ASSUME Locks!Joined PROVE UNCHANGED <<vars, list>>
    BY <1>3, <2>2 DEF Locks!Joined, Locks!vars, vars
  <2> QED
    BY <1>2, <1>3, <2>1, <2>2 DEF Locks!Next
<1>4. CASE list = "lazy" /\ Lazy!Next /\ UNCHANGED list
  <2>1. ASSUME NEW t \in Threads, Lazy!Invoke(t) \/ Lazy!Step(t) PROVE SizeInv'
    BY <1>1, <1>4, <2>1, LazyActions, LazySize DEF Lazy!Step
  <2>2. ASSUME Lazy!Joined PROVE UNCHANGED <<vars, list>>
    BY <1>4, <2>2 DEF Lazy!Joined, Lazy!vars, vars
  <2> QED
    BY <1>2, <1>4, <2>1, <2>2 DEF Lazy!Next
<1> QED
  BY <1>2, <1>3, <1>4 DEF Next1, allVars

\* When no call is under way, every present node is the one node of its key.
LEMMA InvSize == Inv /\ SizeInv => SizeMatches
<1> SUFFICES ASSUME Inv, SizeInv, Quiescent
             PROVE  skipListSize = Cardinality({k \in Keys : dict[k] # NoValue})
  BY DEF SizeMatches
<1> DEFINE K == {k \in Keys : dict[k] # NoValue}
           f == [n \in Present |-> node[n].key]
<1>1. \A t \in Threads : l[t].pc = "idle" /\ ~l[t].isMarked
  BY CallFacts DEF Quiescent, At, EraseOK
<1>2. \A n \in Nodes \ {head, tail} : node[n].fullyLinked /\ node[n].key \in Keys
  <2>1. \A n \in Nodes \ {head, tail} : node[n].fullyLinked \in BOOLEAN /\ node[n].key \in Keys
    BY DEF Inv, NodesOK, NodeOK, AttrsOK
  <2> QED
    BY <1>1, <2>1 DEF Inv, MakersInv
<1>3. ASSUME NEW n \in Nodes, ~node[n].mark PROVE On(node, l, n, 0)
  <2>1. ~NotYet(l, n, 0)
    BY <1>1 DEF NotYet
  <2>2. 0 \in 0 .. node[n].topLevel
    BY Levelled
  <2> QED
    BY <1>3, <2>1, <2>2 DEF On, Linked
<1>4. ASSUME NEW n \in Nodes, NEW m \in Nodes, ~node[n].mark, ~node[m].mark, node[n].key = node[m].key PROVE n = m
  <2>1. 0 \in Levels
    OBVIOUS
  <2> QED
    BY <1>3, <1>4, <2>1, OneNode
<1>5. ASSUME NEW n \in Present
      PROVE  node[n].key \in K
  <2>1. n \in Nodes \ {head, tail} /\ ~node[n].mark /\ node[n].value # NoValue
    BY DEF Present
  <2> DEFINE k == node[n].key
  <2>2. n \in Live(k) /\ k \in Keys
    BY <1>2, <2>1 DEF Live
  <2>3. \A m \in Live(k) : m = n
    BY <1>4, <2>1 DEF Live
  <2> HIDE DEF k
  <2>4. (CHOOSE m \in Live(k) : TRUE) = n
    BY <2>2, <2>3
  <2>5. dict[k] = node[n].value
    BY <2>2, <2>4 DEF dict
  <2> QED
    BY <2>1, <2>2, <2>5 DEF k
<1>6. ASSUME NEW k \in K PROVE \E n \in Present : node[n].key = k
  <2>1. k \in Keys /\ Live(k) # {} /\ node[CHOOSE m \in Live(k) : TRUE].value # NoValue
    BY DEF dict
  <2> DEFINE n == CHOOSE m \in Live(k) : TRUE
  <2>2. n \in Live(k)
    BY <2>1
  <2>3. node[n].value # NoValue
    BY <2>1
  <2> HIDE DEF n
  <2>4. n \in Nodes /\ node[n].key = k /\ ~node[n].mark
    BY <2>2 DEF Live
  <2>5. n \in Present
    BY <2>1, <2>3, <2>4, PresentFinite DEF Present
  <2> QED
    BY <2>4, <2>5
<1>7. f \in Bijection(Present, K)
  <2>1. f \in [Present -> K]
    BY <1>5
  <2>2. \A n, m \in Present : f[n] = f[m] => n = m
    BY <1>4 DEF Present
  <2>3. \A k \in K : \E n \in Present : f[n] = k
    BY <1>6
  <2> HIDE DEF f, K
  <2> QED
    BY <2>1, <2>2, <2>3, Fun_IsBij
<1>8. Cardinality(K) = Cardinality(Present)
  <2> HIDE DEF f, K
  <2>1. ExistsBijection(Present, K)
    BY <1>7 DEF ExistsBijection
  <2> QED
    BY <2>1, PresentFinite, FS_Bijection
<1>9. Adding = {} /\ Taking = {}
  BY <1>1 DEF Adding, Taking, Adds, Takes
<1>10. Cardinality(Present) = skipListSize /\ skipListSize \in Int
  BY <1>9, FS_EmptySet DEF SizeInv, CountInv
<1> QED
  BY <1>8, <1>10

-----------------------------------------------------------------------------
(* The theorems *)

\* The invariant of the lists and that of the client's count, in every reachable state.
LEMMA BothKept == Spec => [](Inv /\ SizeInv)
<1>1. Init1 => Inv /\ SizeInv
  BY InitInv, InitSize
<1>2. (Inv /\ SizeInv) /\ [Next1]_allVars => (Inv /\ SizeInv)'
  BY NextInv, NextSize
<1> QED
  BY <1>1, <1>2, PTL DEF Spec

\* No key is lost: a node that is fully linked and not marked is reached on each of its
\* levels, whatever insertions and removals are under way, and no level has a key twice.
THEOREM NodesReached == Spec => []LiveNodesReached
<1>1. Inv /\ SizeInv => LiveNodesReached
  BY InvReached DEF SizeInv
<1> QED
  BY <1>1, BothKept, PTL

\* Whenever no call is under way no lock is held, and every node that is reached is complete
\* and not marked: what was removed is gone from every level.
THEOREM QuietClean == Spec => []CleanWhenQuiet
<1>1. Inv /\ SizeInv => CleanWhenQuiet
  BY InvQuiet
<1> QED
  BY <1>1, BothKept, PTL

\* The check of test2.cpp: whenever no call is under way, the client's count of what it has
\* inserted and removed is the number of keys.
THEOREM SizesMatch == Spec => []SizeMatches
<1>1. Inv /\ SizeInv => SizeMatches
  BY InvSize
<1> QED
  BY <1>1, BothKept, PTL
=============================================================================
