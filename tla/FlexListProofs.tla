--------------------------- MODULE FlexListProofs ---------------------------
(***************************************************************************)
(* That the splay-list is well formed in every state, for any number of    *)
(* threads, keys and calls, and not higher than the logarithm of the       *)
(* number of accesses, as long as there are fewer than 2^(MAX_LEVEL - 1)   *)
(* of them: the arrays next and hits end where more could take the list.   *)
(*                                                                         *)
(* Every level is a sorted list of the nodes that reach it.  A walk on     *)
(* level h holds the lock of predpred, a node of level h + 1 whose next    *)
(* one there is beyond the key of the walk.  So the keys of level h        *)
(* between the two belong to that walk alone: other walks are on other     *)
(* levels there, and at most add nodes to level h from below.  This is     *)
(* why nodes that are walked over without a lock stay on the level.        *)
(*                                                                         *)
(* A new bottom level is opened by a walk that holds the locks of two      *)
(* neighbours on the old one.  Hits there are never negative, and a node   *)
(* has a hit of its own once its insertion has let go of its lock: so the  *)
(* share of a level that the test compares with is one access at least.    *)
(***************************************************************************)
EXTENDS FlexList, FiniteSetTheorems, TLAPS

\* The node n with its level i, read as After and getHits read the nodes.
NextIn(nd, n, i) == nd[n].next[IF nd[n].zeroLevel > i THEN nd[n].zeroLevel ELSE i]

\* Nodes that are being demoted are off the level they still have as their top.
Off == {<<l[t].cur, l[t].h>> : t \in {s \in Threads : l[s].pc \in {"d_null", "d_top"}}}
On(nd, off, n, i) == nd[n].topLevel >= i /\ <<n, i>> \notin off

\* m follows n on level i: no node of the level is between them.
Follows(nd, off, n, m, i) ==
  /\ m \in DOMAIN nd /\ On(nd, off, m, i) /\ nd[n].key < nd[m].key
  /\ \A x \in DOMAIN nd : On(nd, off, x, i) => nd[x].key <= nd[n].key \/ nd[m].key <= nd[x].key

\* Every level from z on is a sorted list.
Lists(nd, off, z) ==
  \A i \in z .. MAX_LEVEL : \A n \in DOMAIN nd \ {tail} :
    On(nd, off, n, i) => Follows(nd, off, n, NextIn(nd, n, i), i)

NodeFields == {"key", "value", "zeroLevel", "topLevel", "selfhits", "lock", "next", "hits"}
Fields == {"pc", "op", "key", "v", "succ", "h", "pred", "predpred", "cur", "curAccess",
           "curZeroLevel", "curZeroLevel2", "curh", "acquired", "ok", "inserting", "fix", "back"}

\* The types of the nodes and the range of their levels.
NodeOK(nd, z, n) ==
  /\ DOMAIN nd[n] = NodeFields
  /\ nd[n].key \in Int
  /\ nd[n].zeroLevel \in Int /\ nd[n].topLevel \in Int
  /\ z <= nd[n].zeroLevel /\ nd[n].zeroLevel <= nd[n].topLevel
  /\ IF n \in {head, tail} THEN nd[n].topLevel = MAX_LEVEL ELSE nd[n].topLevel < MAX_LEVEL
  /\ nd[n].selfhits \in Int
  /\ nd[n].lock \in Threads \cup {Nobody}
  /\ nd[n].next \in [Levels -> DOMAIN nd \cup {NULL}]
  /\ nd[n].hits \in [Levels -> Int]

NodesOK(nd, z) ==
  /\ \E k \in Nat : k > 1 /\ DOMAIN nd = 0 .. k - 1
  /\ nd[head].key = minKey /\ nd[tail].key = maxKey
  /\ \A n \in DOMAIN nd \ {head, tail} : nd[n].key \in Keys
  /\ \A n, m \in DOMAIN nd : nd[n].key = nd[m].key => n = m
  /\ \A n \in DOMAIN nd : NodeOK(nd, z, n)

-----------------------------------------------------------------------------
(* What a walk relies on, by where it is.  L are its locals.               *)

\* The place a call comes back to from the lowering of a node.
Place(L) == IF L.pc = "fix" THEN L.back ELSE L.pc

\* Ascends, about given nodes.
Rises(nd, p, h, a) ==
  /\ h + 1 < MAX_LEVEL
  /\ h < nd[p].topLevel
  /\ nd[p].hits[h + 1] - nd[p].hits[h] > a \div 2^(MAX_LEVEL - 1 - h - 1)

\* The keys of level h up to k that are behind a belong to the walk that has locked a.
Anchor(nd, off, z, t, a, h, k) ==
  /\ a \in DOMAIN nd \ {tail} /\ nd[a].lock = t
  /\ h \in Int /\ z <= h /\ h < MAX_LEVEL
  /\ On(nd, off, a, h + 1) /\ nd[a].zeroLevel <= h
  /\ k \in Keys /\ nd[a].key <= k /\ k < nd[nd[a].next[h + 1]].key

Zone(nd, off, z, t, L) == Anchor(nd, off, z, t, L.predpred, L.h, L.key)

\* pred, and cur behind it, are in that part.
PredOK(nd, off, L) ==
  /\ L.pred \in DOMAIN nd \ {tail}
  /\ On(nd, off, L.pred, L.h) /\ nd[L.pred].zeroLevel <= L.h
  /\ nd[L.predpred].key <= nd[L.pred].key /\ nd[L.pred].key <= L.key

CurOK(nd, off, L) ==
  /\ L.cur \in DOMAIN nd \ {head, tail}
  /\ On(nd, off, L.cur, L.h)
  /\ nd[L.pred].key < nd[L.cur].key /\ nd[L.cur].key <= L.key

\* cur is locked and the last node of the level that is not beyond the key, or it is not the last.
Reached(nd, t, L) ==
  LET m == nd[L.cur].next[L.h] IN
  IF L.acquired THEN /\ nd[L.cur].lock = t /\ L.key < nd[m].key
                     /\ L.ok <=> nd[L.cur].key = L.key
                ELSE nd[m].key <= L.key /\ ~L.ok

\* Walking, on the level of the zone.
Walking(nd, off, z, t, L) ==
  /\ Zone(nd, off, z, t, L) /\ PredOK(nd, off, L) /\ CurOK(nd, off, L)
  /\ nd[L.cur].zeroLevel <= L.h

\* About to lock pred and cur for a demotion, ...
Demoting(nd, off, z, t, L) ==
  /\ Walking(nd, off, z, t, L) /\ ~L.acquired /\ ~L.ok
  /\ nd[nd[L.cur].next[L.h]].key <= L.key
  /\ L.curZeroLevel2 \in Int /\ z <= L.curZeroLevel2 /\ L.curZeroLevel2 <= L.h

\* ... with both locks, ...
Demotable(nd, off, z, t, L) ==
  /\ Walking(nd, off, z, t, L) /\ ~L.acquired /\ ~L.ok
  /\ nd[nd[L.cur].next[L.h]].key <= L.key
  /\ nd[L.pred].lock = t /\ nd[L.cur].lock = t
  /\ nd[L.pred].next[L.h] = L.cur /\ nd[L.cur].topLevel = L.h

\* ... and with cur off the level.
Demoted(nd, off, z, t, L) ==
  /\ Zone(nd, off, z, t, L) /\ PredOK(nd, off, L) /\ ~L.acquired /\ ~L.ok
  /\ nd[nd[L.pred].next[L.h]].key <= L.key
  /\ L.cur \in DOMAIN nd \ {head, tail} /\ nd[L.cur].lock = t
  /\ nd[L.pred].key < nd[L.cur].key
  /\ nd[L.cur].topLevel = L.h /\ nd[L.cur].zeroLevel < L.h

\* A promotion of cur, the first node behind predpred on level h, to the level curh.
Promoting(nd, off, z, t, L) ==
  LET q == L.predpred
      c == L.cur
  IN
  /\ q \in DOMAIN nd \ {tail} /\ nd[q].lock = t /\ nd[q].zeroLevel <= L.h
  /\ L.h \in Int /\ z <= L.h /\ L.h < MAX_LEVEL /\ L.key \in Keys
  /\ On(nd, off, q, L.h) /\ On(nd, off, q, L.h + 1) /\ nd[q].next[L.h] = c
  /\ c \in DOMAIN nd \ {head, tail} /\ nd[c].lock = t /\ nd[c].zeroLevel <= L.h
  /\ On(nd, off, c, L.h) /\ nd[c].topLevel = L.curh

\* The places of update and updateWithInsert where the walk has not come to its end.
InUpdate == {"u_enter", "u_level", "u_cmp", "w_peek", "w_lock", "w_test", "w_step", "w_exit",
             "p_lock", "p_loop", "d_pred", "d_cur", "d_zero", "d_low", "d_unlink", "d_null",
             "d_top", "d_next", "i_link", "i_count"}

\* The places behind the head of the loop over the levels.
OnLevel == {"w_peek", "w_lock", "w_test", "w_step", "w_exit", "p_lock", "p_loop", "d_pred", "d_cur",
            "d_zero", "d_low", "d_unlink", "d_null", "d_top", "d_next"}

\* Searches, and the lowering of a node on the way.
FindOK(nd, z, L) ==
  /\ L.pc = "fix" =>
       /\ L.back \in {"f_read", "f_cmp", "u_cmp", "w_peek"}
       /\ L.fix \in DOMAIN nd /\ L.h \in Int /\ z <= L.h /\ L.h < MAX_LEVEL
       /\ L.back \in {"u_cmp", "w_peek"} => L.fix = L.cur
  /\ Place(L) \in {"f_level", "f_read", "f_cmp"} =>
       /\ L.key \in Keys /\ ~L.inserting /\ ~L.acquired /\ ~L.ok
       /\ L.pred \in DOMAIN nd /\ L.h \in Int /\ L.h < MAX_LEVEL
       /\ IF Place(L) = "f_level" THEN z <= L.h + 1 ELSE z <= L.h
       /\ Place(L) = "f_cmp" => L.succ \in DOMAIN nd
  /\ L.pc \in {"found", "miss", "u_enter"} => L.key \in Keys /\ ~L.acquired /\ ~L.ok
  /\ L.pc = "miss" => ~L.inserting
  /\ L.pc = "found" \/ (Place(L) \in InUpdate /\ ~L.inserting) =>
       L.succ \in DOMAIN nd /\ nd[L.succ].key = L.key
  /\ Place(L) \in OnLevel =>
       L.curZeroLevel \in Int /\ z <= L.curZeroLevel /\ L.h \in Int /\ L.curZeroLevel <= L.h

\* A walk that comes to a level, ...
LevelOK(nd, off, z, t, L) ==
  /\ L.pc = "u_level" =>
       /\ L.pred \in DOMAIN nd \ {tail} /\ nd[L.pred].lock = t
       /\ L.h \in Int /\ L.h < MAX_LEVEL /\ z <= L.h + 1 /\ (L.inserting => z <= L.h)
       /\ On(nd, off, L.pred, L.h + 1) /\ nd[L.pred].zeroLevel <= L.h + 1
       /\ L.key \in Keys /\ nd[L.pred].key < L.key /\ L.key < nd[nd[L.pred].next[L.h + 1]].key
       /\ ~L.acquired /\ ~L.ok
  /\ Place(L) = "u_cmp" =>
       /\ Zone(nd, off, z, t, L) /\ PredOK(nd, off, L) /\ L.pred = L.predpred /\ ~L.acquired
       /\ nd[L.pred].next[L.h] = L.cur /\ nd[L.pred].key < L.key
       /\ L.pc # "fix" => nd[L.cur].zeroLevel <= L.h
  /\ L.pc = "u_leave" => L.pred \in DOMAIN nd /\ nd[L.pred].lock = t

\* ... goes along it ...
StepsOK(nd, off, z, t, L) ==
  /\ Place(L) \in {"w_peek", "w_lock"} =>
       /\ Zone(nd, off, z, t, L) /\ PredOK(nd, off, L) /\ CurOK(nd, off, L) /\ ~L.acquired /\ ~L.ok
       /\ L.pc # "fix" => nd[L.cur].zeroLevel <= L.h
  /\ L.pc \in {"w_test", "w_step"} => Walking(nd, off, z, t, L) /\ Reached(nd, t, L)
  /\ L.pc = "w_exit" =>
       /\ Zone(nd, off, z, t, L) /\ PredOK(nd, off, L) /\ nd[L.pred].lock = t /\ ~L.acquired
       /\ L.key < nd[nd[L.pred].next[L.h]].key
       /\ L.ok <=> nd[L.pred].key = L.key

\* ... and promotes, ...
PromoteOK(nd, off, z, t, L) ==
  /\ L.pc = "p_lock" =>
       /\ Walking(nd, off, z, t, L) /\ Reached(nd, t, L) /\ ~L.acquired
       /\ nd[L.predpred].next[L.h] = L.cur /\ Rises(nd, L.predpred, L.h, L.curAccess)
  /\ L.pc = "p_loop" =>
       /\ Promoting(nd, off, z, t, L) /\ Reached(nd, t, L) /\ nd[L.cur].key <= L.key
       /\ IF L.curh = L.h THEN Rises(nd, L.predpred, L.h, L.curAccess) /\ Zone(nd, off, z, t, L)
                          ELSE Anchor(nd, off, z, t, L.cur, L.h, L.key)
  /\ L.pc = "i_loop" => Promoting(nd, off, z, t, L) /\ L.pred = L.predpred

\* ... demotes, ...
DemoteOK(nd, off, z, t, L) ==
  /\ L.pc = "d_pred" => Demoting(nd, off, z, t, L) /\ L.pred # L.predpred
  /\ L.pc = "d_cur" => Demoting(nd, off, z, t, L) /\ nd[L.pred].lock = t
  /\ L.pc = "d_zero" => Demotable(nd, off, z, t, L) /\ Demoting(nd, off, z, t, L)
  /\ L.pc \in {"d_low", "d_unlink"} => Demotable(nd, off, z, t, L) /\ z < L.h
  /\ L.pc = "d_unlink" => nd[L.pred].zeroLevel < L.h /\ nd[L.cur].zeroLevel < L.h
  /\ L.pc \in {"d_null", "d_top"} => Demoted(nd, off, z, t, L)
  /\ L.pc = "d_null" => nd[L.pred].lock = t
  /\ L.pc = "d_next" =>
       /\ Zone(nd, off, z, t, L) /\ PredOK(nd, off, L) /\ ~L.acquired /\ ~L.ok
       /\ nd[nd[L.pred].next[L.h]].key <= L.key

\* ... or inserts.
InsertOK(nd, off, z, t, L) ==
  /\ L.pc = "i_link" =>
       /\ Zone(nd, off, z, t, L) /\ PredOK(nd, off, L) /\ nd[L.pred].lock = t
       /\ L.key < nd[nd[L.pred].next[L.h]].key /\ nd[L.pred].key < L.key
       /\ nd[L.pred].zeroLevel = L.h
  /\ L.pc = "i_count" =>
       /\ Zone(nd, off, z, t, L) /\ PredOK(nd, off, L)
       /\ nd[L.pred].lock = t /\ nd[L.pred].next[L.h] = L.cur
       /\ L.cur \in DOMAIN nd \ {head, tail} /\ nd[L.cur].lock = t /\ nd[L.cur].key = L.key
       /\ nd[L.cur].zeroLevel = L.h /\ nd[L.cur].topLevel = L.h
       /\ nd[L.pred].key < L.key /\ On(nd, off, L.cur, L.h)
  /\ L.pc = "i_leave" =>
       /\ L.pred \in DOMAIN nd /\ nd[L.pred].lock = t
       /\ L.cur \in DOMAIN nd /\ nd[L.cur].lock = t /\ L.cur # L.pred

WalkOK(nd, off, z, t, L) ==
  /\ L.pc # "crash" /\ FindOK(nd, z, L)
  /\ LevelOK(nd, off, z, t, L) /\ StepsOK(nd, off, z, t, L)
  /\ PromoteOK(nd, off, z, t, L) /\ DemoteOK(nd, off, z, t, L) /\ InsertOK(nd, off, z, t, L)

-----------------------------------------------------------------------------
(* The inductive invariant *)

\* The calls that are still to come.
ClientInv ==
  /\ todo \in Seq(Keys)
  /\ plan \in [Workers -> Seq(SUBSET (Operations \X Keys))]
  /\ DOMAIN l = Threads /\ \A t \in Threads : DOMAIN l[t] = Fields

LockInv == \A t \in Threads, n \in Nodes : node[n].lock = t => n \in Held(l[t])

ListInv ==
  /\ zeroLevel \in Int /\ zeroLevel >= 0 /\ zeroLevel < MAX_LEVEL
  /\ NodesOK(node, zeroLevel) /\ Lists(node, Off, zeroLevel)

WalksInv == \A t \in Threads : WalkOK(node, Off, zeroLevel, t, l[t])

Inv == ClientInv /\ ListInv /\ LockInv /\ WalksInv

-----------------------------------------------------------------------------
(* What the steps do to the lists *)

\* The levels have the same nodes in the same order.
SameLists(nd, off, nd2, off2, z) ==
  /\ DOMAIN nd2 = DOMAIN nd /\ \A n \in DOMAIN nd : nd2[n].key = nd[n].key
  /\ \A i \in z .. MAX_LEVEL, n \in DOMAIN nd :
       /\ On(nd2, off2, n, i) <=> On(nd, off, n, i)
       /\ On(nd, off, n, i) /\ n # tail => NextIn(nd2, n, i) = NextIn(nd, n, i)

\* Such a step keeps the lists.
LEMMA SameListsKeep ==
  ASSUME NEW nd, NEW off, NEW nd2, NEW off2, NEW z, Lists(nd, off, z), SameLists(nd, off, nd2, off2, z)
  PROVE  Lists(nd2, off2, z)
<1> SUFFICES ASSUME NEW i \in z .. MAX_LEVEL, NEW n \in DOMAIN nd2 \ {tail}, On(nd2, off2, n, i)
             PROVE  Follows(nd2, off2, n, NextIn(nd2, n, i), i)
  BY DEF Lists
<1>1. n \in DOMAIN nd \ {tail} /\ On(nd, off, n, i) /\ NextIn(nd2, n, i) = NextIn(nd, n, i)
  BY DEF SameLists
<1> DEFINE m == NextIn(nd, n, i)
<1>2. Follows(nd, off, n, m, i)
  BY <1>1 DEF Lists
<1> HIDE DEF m
<1>3. Follows(nd2, off2, n, m, i)
  BY <1>1, <1>2 DEF Follows, SameLists
<1> QED
  BY <1>1, <1>3 DEF m

\* c, the node after p on level h, leaves the level.
Unlinked(nd, off, nd2, off2, z, p, c, h) ==
  /\ DOMAIN nd2 = DOMAIN nd /\ \A n \in DOMAIN nd : nd2[n].key = nd[n].key
  /\ h \in z .. MAX_LEVEL /\ p \in DOMAIN nd \ {tail} /\ c \in DOMAIN nd \ {tail}
  /\ On(nd, off, p, h) /\ On(nd, off, c, h) /\ NextIn(nd, p, h) = c
  /\ NextIn(nd2, p, h) = NextIn(nd, c, h)
  /\ \A i \in z .. MAX_LEVEL, n \in DOMAIN nd :
       /\ On(nd2, off2, n, i) <=> On(nd, off, n, i) /\ ~(n = c /\ i = h)
       /\ On(nd2, off2, n, i) /\ n # tail /\ ~(n = p /\ i = h) => NextIn(nd2, n, i) = NextIn(nd, n, i)

\* Keys are integers, and no two nodes have the same one.
KeysOK(nd) == /\ \A n \in DOMAIN nd : nd[n].key \in Int
              /\ \A n, m \in DOMAIN nd : nd[n].key = nd[m].key => n = m

\* Unlinking c from the level h leaves every level a sorted list.
LEMMA UnlinkedLists ==
  ASSUME NEW nd, NEW off, NEW nd2, NEW off2, NEW z, NEW p, NEW c, NEW h,
         KeysOK(nd), Lists(nd, off, z), Unlinked(nd, off, nd2, off2, z, p, c, h)
  PROVE  Lists(nd2, off2, z)
<1> DEFINE s == NextIn(nd, c, h)
<1>1. Follows(nd, off, p, c, h) /\ Follows(nd, off, c, s, h)
  BY DEF Lists, Unlinked
<1> SUFFICES ASSUME NEW i \in z .. MAX_LEVEL, NEW n \in DOMAIN nd2 \ {tail}, On(nd2, off2, n, i)
             PROVE  Follows(nd2, off2, n, NextIn(nd2, n, i), i)
  BY DEF Lists
<1>2. n \in DOMAIN nd \ {tail} /\ On(nd, off, n, i) /\ ~(n = c /\ i = h)
  BY DEF Unlinked
<1>3. Follows(nd, off, n, NextIn(nd, n, i), i)
  BY <1>2 DEF Lists
<1>4. NextIn(nd2, p, h) = s
  BY DEF Unlinked
<1> HIDE DEF s
<1>5. CASE n = p /\ i = h
  <2>1. nd[p].key \in Int /\ nd[c].key \in Int /\ nd[s].key \in Int
    BY <1>1 DEF KeysOK, Follows, Unlinked
  <2>2. s \in DOMAIN nd2 /\ On(nd2, off2, s, h) /\ nd[p].key < nd[s].key
    BY <1>1, <2>1 DEF Follows, Unlinked
  <2>3. ASSUME NEW x \in DOMAIN nd, On(nd2, off2, x, h)
        PROVE  nd[x].key <= nd[p].key \/ nd[s].key <= nd[x].key
    <3>1. On(nd, off, x, h) /\ x # c /\ c \in DOMAIN nd
      BY <2>3 DEF Unlinked
    <3>2. nd[x].key # nd[c].key /\ nd[x].key \in Int
      BY <3>1 DEF KeysOK
    <3>3. /\ nd[x].key <= nd[p].key \/ nd[c].key <= nd[x].key
          /\ nd[x].key <= nd[c].key \/ nd[s].key <= nd[x].key
      BY <1>1, <3>1 DEF Follows
    <3> QED
      BY <2>1, <3>2, <3>3
  <2>4. Follows(nd2, off2, p, s, h)
    BY <2>2, <2>3, <1>1, <1>5 DEF Follows, Unlinked
  <2> QED
    BY <1>4, <1>5, <2>4
<1>6. CASE ~(n = p /\ i = h)
  <2> DEFINE m == NextIn(nd, n, i)
  <2>1. NextIn(nd2, n, i) = m /\ Follows(nd, off, n, m, i)
    BY <1>3, <1>2, <1>6 DEF Unlinked
  <2> HIDE DEF m
  <2>2. ~(m = c /\ i = h)
    <3> SUFFICES ASSUME m = c, i = h PROVE FALSE
      OBVIOUS
    <3>1. n # p /\ p \in DOMAIN nd /\ On(nd, off, p, h) /\ On(nd, off, n, h)
      BY <1>2, <1>6 DEF Unlinked
    <3>2. nd[n].key # nd[p].key /\ nd[n].key \in Int /\ nd[p].key \in Int /\ nd[c].key \in Int
      BY <1>2, <3>1 DEF KeysOK, Unlinked
    <3>3. nd[p].key <= nd[n].key \/ nd[c].key <= nd[p].key
      BY <2>1, <3>1 DEF Follows
    <3>4. nd[n].key <= nd[p].key \/ nd[c].key <= nd[n].key
      BY <1>1, <1>2, <3>1 DEF Follows
    <3>5. nd[n].key < nd[c].key /\ nd[p].key < nd[c].key
      BY <1>1, <2>1 DEF Follows
    <3> QED
      BY <3>2, <3>3, <3>4, <3>5
  <2>3. Follows(nd2, off2, n, m, i)
    BY <1>2, <2>1, <2>2 DEF Follows, Unlinked
  <2> QED
    BY <2>1, <2>3
<1> QED
  BY <1>5, <1>6

\* c is put behind p on the levels of I: a node that is promoted, or a new one.
Added(nd, off, nd2, off2, z, p, c, I) ==
  /\ DOMAIN nd2 = DOMAIN nd \cup {c} /\ \A n \in DOMAIN nd : nd2[n].key = nd[n].key
  /\ I \subseteq z .. MAX_LEVEL /\ p \in DOMAIN nd \ {tail} /\ c # tail /\ nd2[c].key \in Int
  /\ \A i \in I : /\ On(nd, off, p, i) /\ ~(c \in DOMAIN nd /\ On(nd, off, c, i)) /\ On(nd2, off2, c, i)
                  /\ nd[p].key < nd2[c].key /\ nd2[c].key < nd[NextIn(nd, p, i)].key
                  /\ NextIn(nd2, p, i) = c /\ NextIn(nd2, c, i) = NextIn(nd, p, i)
  /\ \A i \in z .. MAX_LEVEL : On(nd2, off2, c, i) => i \in I \/ (c \in DOMAIN nd /\ On(nd, off, c, i))
  /\ \A i \in z .. MAX_LEVEL, n \in DOMAIN nd :
       /\ On(nd, off, n, i) => On(nd2, off2, n, i)
       /\ On(nd2, off2, n, i) /\ n # c => On(nd, off, n, i)
       /\ On(nd, off, n, i) /\ n # tail /\ ~(n = p /\ i \in I) => NextIn(nd2, n, i) = NextIn(nd, n, i)

\* Putting c behind p on the levels of I leaves every level a sorted list.
LEMMA AddedLists ==
  ASSUME NEW nd, NEW off, NEW nd2, NEW off2, NEW z, NEW p, NEW c, NEW I,
         KeysOK(nd), Lists(nd, off, z), Added(nd, off, nd2, off2, z, p, c, I)
  PROVE  Lists(nd2, off2, z)
<1> SUFFICES ASSUME NEW i \in z .. MAX_LEVEL, NEW n \in DOMAIN nd2 \ {tail}, On(nd2, off2, n, i)
             PROVE  Follows(nd2, off2, n, NextIn(nd2, n, i), i)
  BY DEF Lists
<1> DEFINE kc == nd2[c].key
<1>0. kc \in Int /\ p \in DOMAIN nd /\ nd[p].key \in Int
  BY DEF Added, KeysOK
<1>1. CASE i \in I
  <2> DEFINE s == NextIn(nd, p, i)
  <2>1. /\ Follows(nd, off, p, s, i) /\ NextIn(nd2, p, i) = c /\ NextIn(nd2, c, i) = s
        /\ nd[p].key < kc /\ kc < nd[s].key /\ On(nd2, off2, c, i) /\ On(nd, off, p, i)
        /\ ~(c \in DOMAIN nd /\ On(nd, off, c, i))
    BY <1>1 DEF Lists, Added
  <2> HIDE DEF s, kc
  <2>2. s \in DOMAIN nd /\ nd[s].key \in Int /\ On(nd, off, s, i)
    BY <2>1 DEF Follows, KeysOK
  <2>3. CASE n = p
    <3>1. ASSUME NEW x \in DOMAIN nd2, On(nd2, off2, x, i)
          PROVE  nd2[x].key <= nd2[p].key \/ kc <= nd2[x].key
      <4>1. CASE x = c
        BY <4>1, <1>0 DEF kc
      <4>2. CASE x # c
        <5>1. x \in DOMAIN nd /\ On(nd, off, x, i) /\ nd2[x].key = nd[x].key /\ nd2[p].key = nd[p].key
          BY <3>1, <4>2, <1>0 DEF Added
        <5>2. nd[x].key <= nd[p].key \/ nd[s].key <= nd[x].key
          BY <2>1, <5>1 DEF Follows
        <5>3. nd[x].key \in Int
          BY <5>1 DEF KeysOK
        <5> QED
          BY <5>1, <5>2, <5>3, <1>0, <2>1, <2>2
      <4> QED
        BY <4>1, <4>2
    <3>2. c \in DOMAIN nd2 /\ nd2[p].key = nd[p].key
      BY <1>0 DEF Added
    <3>3. Follows(nd2, off2, p, c, i)
      BY <2>1, <3>1, <3>2 DEF Follows, kc
    <3> QED
      BY <2>1, <2>3, <3>3
  <2>4. CASE n = c
    <3>1. ASSUME NEW x \in DOMAIN nd2, On(nd2, off2, x, i)
          PROVE  nd2[x].key <= kc \/ nd2[s].key <= nd2[x].key
      <4>1. CASE x = c
        BY <4>1, <1>0 DEF kc
      <4>2. CASE x # c
        <5>1. x \in DOMAIN nd /\ On(nd, off, x, i) /\ nd2[x].key = nd[x].key /\ nd2[s].key = nd[s].key
          BY <3>1, <4>2, <2>2 DEF Added
        <5>2. nd[x].key <= nd[p].key \/ nd[s].key <= nd[x].key
          BY <2>1, <5>1 DEF Follows
        <5>3. nd[x].key \in Int
          BY <5>1 DEF KeysOK
        <5> QED
          BY <5>1, <5>2, <5>3, <1>0, <2>1, <2>2
      <4> QED
        BY <4>1, <4>2
    <3>2. s \in DOMAIN nd2 /\ nd2[s].key = nd[s].key /\ On(nd2, off2, s, i)
      BY <2>2 DEF Added
    <3>3. Follows(nd2, off2, c, s, i)
      BY <2>1, <3>1, <3>2 DEF Follows, kc
    <3> QED
      BY <2>1, <2>4, <3>3
  <2>5. CASE n # p /\ n # c
    <3> DEFINE m == NextIn(nd, n, i)
    <3>1. n \in DOMAIN nd \ {tail} /\ On(nd, off, n, i) /\ nd[n].key \in Int
      BY <2>5 DEF Added, KeysOK
    <3>2. Follows(nd, off, n, m, i) /\ NextIn(nd2, n, i) = m
      BY <2>5, <3>1 DEF Lists, Added
    <3> HIDE DEF m
    <3>3. m \in DOMAIN nd /\ On(nd, off, m, i) /\ nd[m].key \in Int /\ nd[n].key < nd[m].key
      BY <3>2 DEF Follows, KeysOK
    <3>4. m \in DOMAIN nd2 /\ On(nd2, off2, m, i) /\ nd2[m].key = nd[m].key /\ nd2[n].key = nd[n].key
      BY <3>1, <3>3 DEF Added
    <3>5. kc <= nd[n].key \/ nd[m].key <= kc
      <4>1. nd[n].key # nd[p].key
        BY <1>0, <2>5, <3>1 DEF KeysOK
      <4>2. nd[p].key <= nd[n].key \/ nd[m].key <= nd[p].key
        BY <3>2, <1>0, <2>1 DEF Follows
      <4>3. nd[n].key <= nd[p].key \/ nd[s].key <= nd[n].key
        BY <2>1, <3>1 DEF Follows
      <4> QED
        BY <4>1, <4>2, <4>3, <1>0, <2>1, <2>2, <3>1, <3>3
    <3>6. ASSUME NEW x \in DOMAIN nd2, On(nd2, off2, x, i)
          PROVE  nd2[x].key <= nd2[n].key \/ nd2[m].key <= nd2[x].key
      <4>1. CASE x = c
        BY <4>1, <1>0, <3>1, <3>3, <3>4, <3>5 DEF kc
      <4>2. CASE x # c
        <5>1. x \in DOMAIN nd /\ On(nd, off, x, i) /\ nd2[x].key = nd[x].key
          BY <3>6, <4>2 DEF Added
        <5> QED
          BY <5>1, <3>2, <3>4 DEF Follows
      <4> QED
        BY <4>1, <4>2
    <3>7. Follows(nd2, off2, n, m, i)
      BY <3>3, <3>4, <3>6 DEF Follows
    <3> QED
      BY <3>2, <3>7
  <2> QED
    BY <2>3, <2>4, <2>5
<1>2. CASE i \notin I
  <2> DEFINE m == NextIn(nd, n, i)
  <2>1. n \in DOMAIN nd \ {tail} /\ On(nd, off, n, i)
    BY <1>2 DEF Added
  <2>2. Follows(nd, off, n, m, i) /\ NextIn(nd2, n, i) = m
    BY <1>2, <2>1 DEF Lists, Added
  <2> HIDE DEF m
  <2>3. m \in DOMAIN nd2 /\ On(nd2, off2, m, i) /\ nd2[m].key = nd[m].key /\ nd2[n].key = nd[n].key
    BY <2>1, <2>2 DEF Added, Follows
  <2>4. ASSUME NEW x \in DOMAIN nd2, On(nd2, off2, x, i)
        PROVE  nd2[x].key <= nd2[n].key \/ nd2[m].key <= nd2[x].key
    <3>1. x \in DOMAIN nd /\ On(nd, off, x, i) /\ nd2[x].key = nd[x].key
      BY <1>2, <2>4 DEF Added
    <3> QED
      BY <2>2, <2>3, <3>1 DEF Follows
  <2>5. Follows(nd2, off2, n, m, i)
    BY <2>2, <2>3, <2>4 DEF Follows
  <2> QED
    BY <2>2, <2>5
<1> QED
  BY <1>1, <1>2

\* A new bottom level has all nodes in the order of the one above.
LEMMA OpenedLists ==
  ASSUME NEW nd, NEW off, NEW z \in Int, z < MAX_LEVEL, Lists(nd, off, z),
         \A n \in DOMAIN nd : /\ nd[n].zeroLevel \in Int /\ z <= nd[n].zeroLevel
                              /\ On(nd, off, n, z) /\ On(nd, off, n, z - 1)
  PROVE  Lists(nd, off, z - 1)
<1> SUFFICES ASSUME NEW i \in z - 1 .. MAX_LEVEL, NEW n \in DOMAIN nd \ {tail}, On(nd, off, n, i)
             PROVE  Follows(nd, off, n, NextIn(nd, n, i), i)
  BY DEF Lists
<1>0. MAX_LEVEL \in Int
  BY SizeAssumption
<1>1. CASE i \in z .. MAX_LEVEL
  BY <1>1 DEF Lists
<1>2. CASE i = z - 1
  <2>1. z \in z .. MAX_LEVEL
    BY <1>0
  <2>2. NextIn(nd, n, z - 1) = NextIn(nd, n, z)
    BY DEF NextIn
  <2> DEFINE m == NextIn(nd, n, z)
  <2>3. Follows(nd, off, n, m, z)
    BY <2>1 DEF Lists
  <2> HIDE DEF m
  <2>4. Follows(nd, off, n, m, z - 1)
    BY <2>3 DEF Follows
  <2> QED
    BY <1>2, <2>2, <2>4 DEF m
<1> QED
  BY <1>0, <1>1, <1>2

-----------------------------------------------------------------------------
(* What the steps of one thread leave of the invariants of the others *)

\* n, which u has locked, is in the part of level i that belongs to u.
Owned(nd, off, u, n, i) ==
  /\ nd[n].lock = u
  /\ \E q \in DOMAIN nd \ {tail} : /\ On(nd, off, q, i + 1) /\ nd[q].lock = u
                                   /\ nd[q].key < nd[n].key /\ nd[n].key < nd[NextIn(nd, q, i + 1)].key

\* A step of u changes nodes that are free or locked by u, and takes nothing off a level but
\* what belongs to u.
StepOf(nd, off, z, nd2, off2, z2, u) ==
  /\ NodesOK(nd, z) /\ NodesOK(nd2, z2) /\ Lists(nd, off, z) /\ Lists(nd2, off2, z2)
  /\ z \in Int /\ z2 \in Int /\ 0 <= z2 /\ z2 <= z
  /\ DOMAIN nd \subseteq DOMAIN nd2
  /\ \A n \in DOMAIN nd :
       /\ nd2[n].key = nd[n].key /\ nd2[n].zeroLevel <= nd[n].zeroLevel
       /\ nd[n].lock \notin {u, Nobody} =>
            /\ nd2[n].lock = nd[n].lock /\ nd2[n].next = nd[n].next /\ nd2[n].hits = nd[n].hits
            /\ nd2[n].zeroLevel = nd[n].zeroLevel /\ nd2[n].topLevel = nd[n].topLevel
  /\ \A i \in z .. MAX_LEVEL, n \in DOMAIN nd :
       On(nd, off, n, i) => On(nd2, off2, n, i) \/ Owned(nd, off, u, n, i)

\* The nodes and levels are what the arithmetic needs.
LEMMA NodeTypes ==
  ASSUME NEW nd, NEW z \in Int, NodesOK(nd, z)
  PROVE  /\ KeysOK(nd) /\ head \in DOMAIN nd /\ tail \in DOMAIN nd /\ head # tail
         /\ NULL \notin DOMAIN nd
         /\ \A n \in DOMAIN nd :
              /\ nd[n].key \in Int /\ nd[n].zeroLevel \in Int /\ nd[n].topLevel \in Int
              /\ z <= nd[n].zeroLevel /\ nd[n].zeroLevel <= nd[n].topLevel
              /\ nd[n].next \in [Levels -> DOMAIN nd \cup {NULL}] /\ nd[n].hits \in [Levels -> Int]
              /\ nd[n].topLevel <= MAX_LEVEL
         /\ \A n \in DOMAIN nd : DOMAIN nd[n] = NodeFields /\ nd[n].lock \in Threads \cup {Nobody}
         /\ MAX_LEVEL \in Int /\ MAX_LEVEL > 1
  BY SizeAssumption, SMTT(30) DEF NodesOK, NodeOK, KeysOK, head, tail, NULL

\* The next node on a level that a node has reached is read from the node.
LEMMA NextOn ==
  ASSUME NEW nd, NEW off, NEW z \in Int, NodesOK(nd, z), Lists(nd, off, z), 0 <= z,
         NEW n \in DOMAIN nd \ {tail}, NEW i \in Int, z <= i, i <= MAX_LEVEL,
         On(nd, off, n, i), nd[n].zeroLevel <= i
  PROVE  /\ NextIn(nd, n, i) = nd[n].next[i] /\ Follows(nd, off, n, nd[n].next[i], i)
         /\ nd[n].next[i] \in DOMAIN nd /\ nd[n].next[i] # NULL /\ i \in Levels
<1>1. i \in z .. MAX_LEVEL /\ i \in Levels
  BY SizeAssumption DEF Levels
<1>2. NextIn(nd, n, i) = nd[n].next[i]
  BY NodeTypes DEF NextIn
<1>3. Follows(nd, off, n, nd[n].next[i], i)
  BY <1>1, <1>2 DEF Lists
<1> QED
  BY <1>1, <1>2, <1>3, NodeTypes DEF Follows

\* What belongs to one walk does not belong to another.
LEMMA Exclusive ==
  ASSUME NEW nd, NEW off, NEW z \in Int, NodesOK(nd, z), Lists(nd, off, z), 0 <= z,
         NEW t, NEW a, NEW h, NEW k, Anchor(nd, off, z, t, a, h, k), NEW u, u # t,
         NEW y \in DOMAIN nd, nd[a].key <= nd[y].key, nd[y].key <= k
  PROVE  ~Owned(nd, off, u, y, h)
<1> SUFFICES ASSUME Owned(nd, off, u, y, h) PROVE FALSE
  OBVIOUS
<1>1. PICK q \in DOMAIN nd \ {tail} : /\ On(nd, off, q, h + 1) /\ nd[q].lock = u
                                      /\ nd[q].key < nd[y].key /\ nd[y].key < nd[NextIn(nd, q, h + 1)].key
  BY DEF Owned
<1>2. /\ a \in DOMAIN nd \ {tail} /\ nd[a].lock = t /\ h \in Int /\ z <= h /\ h < MAX_LEVEL
      /\ On(nd, off, a, h + 1) /\ nd[a].zeroLevel <= h /\ k \in Int /\ k < nd[nd[a].next[h + 1]].key
  BY KeysAssumption DEF Anchor
<1>3. /\ h + 1 \in z .. MAX_LEVEL /\ nd[a].zeroLevel <= h + 1
      /\ nd[a].key \in Int /\ nd[q].key \in Int /\ nd[y].key \in Int
  BY <1>1, <1>2, NodeTypes
<1> DEFINE m == nd[a].next[h + 1]
           s == NextIn(nd, q, h + 1)
<1>4. Follows(nd, off, a, m, h + 1) /\ nd[m].key \in Int
  BY <1>2, <1>3, NextOn, NodeTypes
<1>5. Follows(nd, off, q, s, h + 1)
  BY <1>1, <1>3 DEF Lists
<1>6. nd[s].key \in Int
  BY <1>5, NodeTypes DEF Follows
<1>7. q # a /\ nd[q].key # nd[a].key
  BY <1>1, <1>2, NodeTypes DEF KeysOK
<1>8. nd[q].key <= nd[a].key \/ nd[m].key <= nd[q].key
  BY <1>1, <1>4 DEF Follows
<1>9. nd[a].key <= nd[q].key \/ nd[s].key <= nd[a].key
  BY <1>2, <1>5 DEF Follows
<1>10. nd[q].key < nd[y].key /\ nd[y].key < nd[s].key /\ k < nd[m].key
  BY <1>1, <1>2
<1> HIDE DEF m, s
<1> QED
  BY <1>2, <1>3, <1>4, <1>6, <1>7, <1>8, <1>9, <1>10

\* What t has locked stays as it is.
LEMMA LockedKept ==
  ASSUME NEW nd, NEW off, NEW z, NEW nd2, NEW off2, NEW z2, NEW u, StepOf(nd, off, z, nd2, off2, z2, u),
         NEW t \in Threads, t # u, NEW n \in DOMAIN nd, nd[n].lock = t
  PROVE  /\ n \in DOMAIN nd2 /\ nd2[n].lock = t /\ nd2[n].key = nd[n].key
         /\ nd2[n].next = nd[n].next /\ nd2[n].hits = nd[n].hits
         /\ nd2[n].zeroLevel = nd[n].zeroLevel /\ nd2[n].topLevel = nd[n].topLevel
         /\ \A i \in z .. MAX_LEVEL : On(nd, off, n, i) => On(nd2, off2, n, i)
<1>1. t # Nobody
  BY SizeAssumption DEF Threads, Workers, Main, Nobody
<1>2. nd[n].lock \notin {u, Nobody} /\ ~\E i \in z .. MAX_LEVEL : Owned(nd, off, u, n, i)
  BY <1>1 DEF Owned
<1> QED
  BY <1>2 DEF StepOf

\* So does its part of a level, ...
LEMMA AnchorKept ==
  ASSUME NEW nd, NEW off, NEW z, NEW nd2, NEW off2, NEW z2, NEW u, StepOf(nd, off, z, nd2, off2, z2, u),
         NEW t \in Threads, t # u, NEW a, NEW h, NEW k, Anchor(nd, off, z, t, a, h, k)
  PROVE  Anchor(nd2, off2, z2, t, a, h, k)
<1>1. /\ a \in DOMAIN nd \ {tail} /\ nd[a].lock = t /\ h \in Int /\ z <= h /\ h < MAX_LEVEL
      /\ On(nd, off, a, h + 1) /\ nd[a].zeroLevel <= h /\ k \in Keys /\ k < nd[nd[a].next[h + 1]].key
      /\ nd[a].key <= k
  BY DEF Anchor
<1>2. z \in Int /\ z2 \in Int /\ 0 <= z2 /\ z2 <= z /\ NodesOK(nd, z) /\ Lists(nd, off, z)
  BY DEF StepOf
<1>3. h + 1 \in z .. MAX_LEVEL /\ nd[a].zeroLevel <= h + 1 /\ 0 <= z
  BY <1>1, <1>2, NodeTypes
<1>4. nd[a].next[h + 1] \in DOMAIN nd
  BY <1>1, <1>2, <1>3, NextOn
<1>5. nd2[nd[a].next[h + 1]].key = nd[nd[a].next[h + 1]].key
  BY <1>4 DEF StepOf
<1>6. /\ a \in DOMAIN nd2 /\ nd2[a].lock = t /\ nd2[a].key = nd[a].key /\ nd2[a].next = nd[a].next
      /\ nd2[a].zeroLevel = nd[a].zeroLevel /\ On(nd2, off2, a, h + 1)
  BY <1>1, <1>3, LockedKept
<1> QED
  BY <1>1, <1>2, <1>5, <1>6 DEF Anchor

\* ... the nodes there, ...
LEMMA InsideKept ==
  ASSUME NEW nd, NEW off, NEW z, NEW nd2, NEW off2, NEW z2, NEW u, StepOf(nd, off, z, nd2, off2, z2, u),
         NEW t \in Threads, t # u, NEW a, NEW h, NEW k, Anchor(nd, off, z, t, a, h, k),
         NEW y \in DOMAIN nd, On(nd, off, y, h), nd[a].key <= nd[y].key, nd[y].key <= k
  PROVE  y \in DOMAIN nd2 /\ On(nd2, off2, y, h) /\ nd2[y].key = nd[y].key /\ nd2[y].zeroLevel <= nd[y].zeroLevel
<1>1. z \in Int /\ 0 <= z /\ NodesOK(nd, z) /\ Lists(nd, off, z)
  BY DEF StepOf
<1>2. ~Owned(nd, off, u, y, h)
  BY <1>1, Exclusive
<1>3. h \in z .. MAX_LEVEL
  BY <1>1, SizeAssumption DEF Anchor
<1> QED
  BY <1>2, <1>3 DEF StepOf

\* ... and that a node is not the last one there.
LEMMA NotLastKept ==
  ASSUME NEW nd, NEW off, NEW z, NEW nd2, NEW off2, NEW z2, NEW u, StepOf(nd, off, z, nd2, off2, z2, u),
         NEW t \in Threads, t # u, NEW a, NEW h, NEW k, Anchor(nd, off, z, t, a, h, k),
         NEW x \in DOMAIN nd \ {tail}, On(nd, off, x, h), nd[a].key <= nd[x].key, nd[x].key <= k,
         nd[x].zeroLevel <= h, nd[nd[x].next[h]].key <= k
  PROVE  nd2[nd2[x].next[h]].key <= k
<1> DEFINE y == nd[x].next[h]
<1>1. /\ z \in Int /\ z2 \in Int /\ 0 <= z /\ 0 <= z2 /\ z2 <= z
      /\ NodesOK(nd, z) /\ Lists(nd, off, z) /\ NodesOK(nd2, z2) /\ Lists(nd2, off2, z2)
  BY DEF StepOf
<1>2. h \in Int /\ z <= h /\ h <= MAX_LEVEL /\ k \in Int /\ a \in DOMAIN nd
  BY SizeAssumption, KeysAssumption DEF Anchor
<1>3. y \in DOMAIN nd /\ Follows(nd, off, x, y, h)
  BY <1>1, <1>2, NextOn
<1>4. nd[y].key <= k
  OBVIOUS
<1> HIDE DEF y
<1>5. nd[a].key \in Int /\ nd[x].key \in Int /\ nd[y].key \in Int
  BY <1>1, <1>2, <1>3, NodeTypes
<1>6. On(nd, off, y, h) /\ nd[a].key <= nd[y].key /\ nd[x].key < nd[y].key
  BY <1>3, <1>5 DEF Follows
<1>7. y \in DOMAIN nd2 /\ On(nd2, off2, y, h) /\ nd2[y].key = nd[y].key
  BY <1>3, <1>4, <1>6, InsideKept
<1>8. /\ x \in DOMAIN nd2 /\ On(nd2, off2, x, h) /\ nd2[x].key = nd[x].key
      /\ nd2[x].zeroLevel <= nd[x].zeroLevel
  BY InsideKept
<1>9. nd2[x].zeroLevel <= h /\ z2 <= h
  BY <1>1, <1>2, <1>8, NodeTypes
<1>10. nd2[x].next[h] \in DOMAIN nd2 /\ Follows(nd2, off2, x, nd2[x].next[h], h)
  BY <1>1, <1>2, <1>8, <1>9, NextOn
<1>11. nd2[y].key <= nd2[x].key \/ nd2[nd2[x].next[h]].key <= nd2[y].key
  BY <1>7, <1>10 DEF Follows
<1>12. nd2[nd2[x].next[h]].key \in Int
  BY <1>1, <1>10, NodeTypes
<1> QED
  BY <1>2, <1>4, <1>5, <1>6, <1>7, <1>8, <1>11, <1>12

\* The hypotheses of the lemmas that follow.
Other(nd, off, z, nd2, off2, z2, u, t) ==
  StepOf(nd, off, z, nd2, off2, z2, u) /\ t \in Threads /\ t # u

\* The place of pred is kept.
LEMMA PredKept ==
  ASSUME NEW nd, NEW off, NEW z, NEW nd2, NEW off2, NEW z2, NEW u, NEW t, NEW L,
         Other(nd, off, z, nd2, off2, z2, u, t), Zone(nd, off, z, t, L), PredOK(nd, off, L)
  PROVE  /\ Zone(nd2, off2, z2, t, L) /\ PredOK(nd2, off2, L)
         /\ nd[nd[L.pred].next[L.h]].key <= L.key => nd2[nd2[L.pred].next[L.h]].key <= L.key
<1>1. /\ L.pred \in DOMAIN nd \ {tail} /\ On(nd, off, L.pred, L.h) /\ nd[L.pred].zeroLevel <= L.h
      /\ nd[L.predpred].key <= nd[L.pred].key /\ nd[L.pred].key <= L.key
  BY DEF PredOK
<1>2. Anchor(nd, off, z, t, L.predpred, L.h, L.key) /\ L.predpred \in DOMAIN nd /\ L.h \in Int
  BY DEF Zone, Anchor
<1>3. t \in Threads /\ t # u /\ StepOf(nd, off, z, nd2, off2, z2, u)
  BY DEF Other
<1>4. Anchor(nd2, off2, z2, t, L.predpred, L.h, L.key)
  BY <1>2, <1>3, AnchorKept
<1>5. /\ L.pred \in DOMAIN nd2 /\ On(nd2, off2, L.pred, L.h) /\ nd2[L.pred].key = nd[L.pred].key
      /\ nd2[L.pred].zeroLevel <= nd[L.pred].zeroLevel
  BY <1>1, <1>2, <1>3, InsideKept
<1>6. nd2[L.predpred].key = nd[L.predpred].key
  BY <1>2, <1>3 DEF StepOf
<1>7. nd2[L.pred].zeroLevel <= L.h
  BY <1>1, <1>2, <1>3, <1>5, NodeTypes DEF StepOf
<1>8. nd[nd[L.pred].next[L.h]].key <= L.key => nd2[nd2[L.pred].next[L.h]].key <= L.key
  BY <1>1, <1>2, <1>3, NotLastKept
<1> QED
  BY <1>1, <1>4, <1>5, <1>6, <1>7, <1>8 DEF Zone, PredOK

\* So is the place of cur.
LEMMA CurKept ==
  ASSUME NEW nd, NEW off, NEW z, NEW nd2, NEW off2, NEW z2, NEW u, NEW t, NEW L,
         Other(nd, off, z, nd2, off2, z2, u, t), Zone(nd, off, z, t, L), PredOK(nd, off, L), CurOK(nd, off, L)
  PROVE  /\ Zone(nd2, off2, z2, t, L) /\ PredOK(nd2, off2, L) /\ CurOK(nd2, off2, L)
         /\ nd[L.cur].zeroLevel <= L.h =>
              /\ nd2[L.cur].zeroLevel <= L.h
              /\ nd[nd[L.cur].next[L.h]].key <= L.key => nd2[nd2[L.cur].next[L.h]].key <= L.key
<1>1. Zone(nd2, off2, z2, t, L) /\ PredOK(nd2, off2, L)
  BY PredKept
<1>2. /\ L.cur \in DOMAIN nd \ {head, tail} /\ On(nd, off, L.cur, L.h)
      /\ nd[L.pred].key < nd[L.cur].key /\ nd[L.cur].key <= L.key
      /\ L.pred \in DOMAIN nd /\ nd[L.predpred].key <= nd[L.pred].key
  BY DEF CurOK, PredOK
<1>3. Anchor(nd, off, z, t, L.predpred, L.h, L.key) /\ L.predpred \in DOMAIN nd /\ L.h \in Int
  BY DEF Zone, Anchor
<1>4. t \in Threads /\ t # u /\ StepOf(nd, off, z, nd2, off2, z2, u)
  BY DEF Other
<1>5. nd[L.predpred].key \in Int /\ nd[L.pred].key \in Int /\ nd[L.cur].key \in Int /\ nd[L.cur].zeroLevel \in Int
  BY <1>2, <1>3, <1>4, NodeTypes DEF StepOf
<1>6. nd[L.predpred].key <= nd[L.cur].key
  BY <1>2, <1>5
<1>7. /\ L.cur \in DOMAIN nd2 /\ On(nd2, off2, L.cur, L.h) /\ nd2[L.cur].key = nd[L.cur].key
      /\ nd2[L.cur].zeroLevel <= nd[L.cur].zeroLevel
  BY <1>2, <1>3, <1>4, <1>6, InsideKept
<1>8. nd2[L.pred].key = nd[L.pred].key
  BY <1>2, <1>4 DEF StepOf
<1>9. nd[L.cur].zeroLevel <= L.h => nd2[L.cur].zeroLevel <= L.h
  BY <1>3, <1>4, <1>5, <1>7, NodeTypes DEF StepOf
<1>10. nd[L.cur].zeroLevel <= L.h /\ nd[nd[L.cur].next[L.h]].key <= L.key =>
         nd2[nd2[L.cur].next[L.h]].key <= L.key
  BY <1>2, <1>3, <1>4, <1>6, NotLastKept
<1> QED
  BY <1>1, <1>2, <1>7, <1>8, <1>9, <1>10 DEF CurOK

\* What a locked node has on a level it has reached.
LEMMA LockedNext ==
  ASSUME NEW nd, NEW off, NEW z, NEW nd2, NEW off2, NEW z2, NEW u, NEW t,
         Other(nd, off, z, nd2, off2, z2, u, t),
         NEW n \in DOMAIN nd \ {tail}, nd[n].lock = t, NEW i \in Int, z <= i, i <= MAX_LEVEL,
         On(nd, off, n, i), nd[n].zeroLevel <= i
  PROVE  /\ nd2[n].next[i] = nd[n].next[i] /\ nd2[nd2[n].next[i]].key = nd[nd[n].next[i]].key
         /\ On(nd2, off2, n, i) /\ nd[n].next[i] \in DOMAIN nd
<1>1. t \in Threads /\ t # u /\ StepOf(nd, off, z, nd2, off2, z2, u)
  BY DEF Other
<1>2. z \in Int /\ 0 <= z /\ NodesOK(nd, z) /\ Lists(nd, off, z)
  BY <1>1 DEF StepOf
<1>3. i \in z .. MAX_LEVEL
  BY <1>2, SizeAssumption
<1>4. nd[n].next[i] \in DOMAIN nd
  BY <1>2, NextOn
<1>5. nd2[n].next = nd[n].next /\ On(nd2, off2, n, i)
  BY <1>1, <1>3, LockedKept
<1>6. nd2[nd[n].next[i]].key = nd[nd[n].next[i]].key
  BY <1>1, <1>4 DEF StepOf
<1> QED
  BY <1>4, <1>5, <1>6

\* Walking and Reached are kept.
LEMMA WalkingKept ==
  ASSUME NEW nd, NEW off, NEW z, NEW nd2, NEW off2, NEW z2, NEW u, NEW t, NEW L,
         Other(nd, off, z, nd2, off2, z2, u, t), Walking(nd, off, z, t, L)
  PROVE  /\ Walking(nd2, off2, z2, t, L)
         /\ nd[nd[L.cur].next[L.h]].key <= L.key => nd2[nd2[L.cur].next[L.h]].key <= L.key
         /\ Reached(nd, t, L) => Reached(nd2, t, L)
<1>1. Zone(nd, off, z, t, L) /\ PredOK(nd, off, L) /\ CurOK(nd, off, L) /\ nd[L.cur].zeroLevel <= L.h
  BY DEF Walking
<1>2. /\ Walking(nd2, off2, z2, t, L)
      /\ nd[nd[L.cur].next[L.h]].key <= L.key => nd2[nd2[L.cur].next[L.h]].key <= L.key
  BY <1>1, CurKept DEF Walking
<1>3. ASSUME Reached(nd, t, L), L.acquired PROVE Reached(nd2, t, L)
  <2>1. nd[L.cur].lock = t /\ L.key < nd[nd[L.cur].next[L.h]].key /\ (L.ok <=> nd[L.cur].key = L.key)
    BY <1>3 DEF Reached
  <2>2. L.cur \in DOMAIN nd \ {tail} /\ On(nd, off, L.cur, L.h)
    BY <1>1 DEF CurOK
  <2>3. L.h \in Int /\ z <= L.h /\ L.h <= MAX_LEVEL
    BY <1>1, SizeAssumption DEF Zone, Anchor
  <2>4. nd2[nd2[L.cur].next[L.h]].key = nd[nd[L.cur].next[L.h]].key
    BY <1>1, <2>1, <2>2, <2>3, LockedNext
  <2>5. nd2[L.cur].lock = t /\ nd2[L.cur].key = nd[L.cur].key
    BY <2>1, <2>2, LockedKept DEF Other
  <2> QED
    BY <1>3, <2>1, <2>4, <2>5 DEF Reached
<1> QED
  BY <1>2, <1>3, Zenon DEF Reached

\* What a walk relies on is kept: searches, ...
LEMMA FindKept ==
  ASSUME NEW nd, NEW off, NEW z, NEW nd2, NEW off2, NEW z2, NEW u, NEW t, NEW L,
         Other(nd, off, z, nd2, off2, z2, u, t), FindOK(nd, z, L)
  PROVE  FindOK(nd2, z2, L)
<1>1. z \in Int /\ z2 \in Int /\ z2 <= z /\ \A n \in DOMAIN nd : n \in DOMAIN nd2 /\ nd2[n].key = nd[n].key
  BY DEF Other, StepOf
<1> QED
  BY <1>1 DEF FindOK

\* ... walks that come to a level, ...
LEMMA LevelKept ==
  ASSUME NEW nd, NEW off, NEW z, NEW nd2, NEW off2, NEW z2, NEW u, NEW t, NEW L,
         Other(nd, off, z, nd2, off2, z2, u, t), LevelOK(nd, off, z, t, L)
  PROVE  LevelOK(nd2, off2, z2, t, L)
<1>0. /\ z \in Int /\ z2 \in Int /\ z2 <= z /\ t \in Threads /\ t # u /\ StepOf(nd, off, z, nd2, off2, z2, u)
      /\ NodesOK(nd, z) /\ NodesOK(nd2, z2)
  BY DEF Other, StepOf
<1>1. ASSUME L.pc = "u_level"
      PROVE  /\ L.pred \in DOMAIN nd2 \ {tail} /\ nd2[L.pred].lock = t
             /\ L.h \in Int /\ L.h < MAX_LEVEL /\ z2 <= L.h + 1 /\ (L.inserting => z2 <= L.h)
             /\ On(nd2, off2, L.pred, L.h + 1) /\ nd2[L.pred].zeroLevel <= L.h + 1
             /\ L.key \in Keys /\ nd2[L.pred].key < L.key /\ L.key < nd2[nd2[L.pred].next[L.h + 1]].key
             /\ ~L.acquired /\ ~L.ok
  <2>1. /\ L.pred \in DOMAIN nd \ {tail} /\ nd[L.pred].lock = t
        /\ L.h \in Int /\ L.h < MAX_LEVEL /\ z <= L.h + 1 /\ (L.inserting => z <= L.h)
        /\ On(nd, off, L.pred, L.h + 1) /\ nd[L.pred].zeroLevel <= L.h + 1
        /\ L.key \in Keys /\ nd[L.pred].key < L.key /\ L.key < nd[nd[L.pred].next[L.h + 1]].key
        /\ ~L.acquired /\ ~L.ok
    BY <1>1 DEF LevelOK
  <2>2. L.h + 1 \in Int /\ L.h + 1 <= MAX_LEVEL
    BY <2>1, SizeAssumption
  <2>3. nd2[nd2[L.pred].next[L.h + 1]].key = nd[nd[L.pred].next[L.h + 1]].key /\ On(nd2, off2, L.pred, L.h + 1)
    BY <2>1, <2>2, LockedNext
  <2>4. /\ L.pred \in DOMAIN nd2 /\ nd2[L.pred].lock = t /\ nd2[L.pred].key = nd[L.pred].key
        /\ nd2[L.pred].zeroLevel = nd[L.pred].zeroLevel
    BY <1>0, <2>1, LockedKept
  <2> QED
    BY <1>0, <2>1, <2>3, <2>4
<1>2. ASSUME Place(L) = "u_cmp"
      PROVE  /\ Zone(nd2, off2, z2, t, L) /\ PredOK(nd2, off2, L) /\ L.pred = L.predpred /\ ~L.acquired
             /\ nd2[L.pred].next[L.h] = L.cur /\ nd2[L.pred].key < L.key
             /\ L.pc # "fix" => nd2[L.cur].zeroLevel <= L.h
  <2>1. /\ Zone(nd, off, z, t, L) /\ PredOK(nd, off, L) /\ L.pred = L.predpred /\ ~L.acquired
        /\ nd[L.pred].next[L.h] = L.cur /\ nd[L.pred].key < L.key
        /\ L.pc # "fix" => nd[L.cur].zeroLevel <= L.h
    BY <1>2 DEF LevelOK
  <2>2. /\ L.pred \in DOMAIN nd \ {tail} /\ nd[L.pred].lock = t /\ On(nd, off, L.pred, L.h)
        /\ nd[L.pred].zeroLevel <= L.h /\ L.h \in Int /\ z <= L.h /\ L.h <= MAX_LEVEL
    BY <2>1, SizeAssumption DEF Zone, Anchor, PredOK
  <2>3. nd2[L.pred].next[L.h] = L.cur /\ L.cur \in DOMAIN nd
    BY <2>1, <2>2, LockedNext
  <2>4. nd2[L.cur].zeroLevel <= nd[L.cur].zeroLevel /\ nd[L.cur].zeroLevel \in Int /\ nd2[L.cur].zeroLevel \in Int
    BY <1>0, <2>3, NodeTypes DEF StepOf
  <2>5. nd2[L.pred].key = nd[L.pred].key
    BY <1>0, <2>2 DEF StepOf
  <2>6. Zone(nd2, off2, z2, t, L) /\ PredOK(nd2, off2, L)
    BY <2>1, PredKept, Zenon
  <2>7. L.pc # "fix" => nd2[L.cur].zeroLevel <= L.h
    BY <2>1, <2>2, <2>4
  <2> QED
    BY <2>1, <2>3, <2>5, <2>6, <2>7, Zenon
<1>3. ASSUME L.pc = "u_leave" PROVE L.pred \in DOMAIN nd2 /\ nd2[L.pred].lock = t
  BY <1>0, <1>3, LockedKept DEF LevelOK
<1> QED
  BY <1>1, <1>2, <1>3 DEF LevelOK

\* ... go along it, ...
LEMMA StepsKept ==
  ASSUME NEW nd, NEW off, NEW z, NEW nd2, NEW off2, NEW z2, NEW u, NEW t, NEW L,
         Other(nd, off, z, nd2, off2, z2, u, t), StepsOK(nd, off, z, t, L)
  PROVE  StepsOK(nd2, off2, z2, t, L)
<1>0. t \in Threads /\ t # u /\ StepOf(nd, off, z, nd2, off2, z2, u)
  BY DEF Other
<1>1. ASSUME Place(L) \in {"w_peek", "w_lock"}
      PROVE  /\ Zone(nd2, off2, z2, t, L) /\ PredOK(nd2, off2, L) /\ CurOK(nd2, off2, L) /\ ~L.acquired /\ ~L.ok
             /\ L.pc # "fix" => nd2[L.cur].zeroLevel <= L.h
  BY <1>1, CurKept DEF StepsOK
<1>2. ASSUME L.pc \in {"w_test", "w_step"} PROVE Walking(nd2, off2, z2, t, L) /\ Reached(nd2, t, L)
  BY <1>2, WalkingKept, SMTT(30) DEF StepsOK
<1>3. ASSUME L.pc = "w_exit"
      PROVE  /\ Zone(nd2, off2, z2, t, L) /\ PredOK(nd2, off2, L) /\ nd2[L.pred].lock = t /\ ~L.acquired
             /\ L.key < nd2[nd2[L.pred].next[L.h]].key
             /\ L.ok <=> nd2[L.pred].key = L.key
  <2>1. /\ Zone(nd, off, z, t, L) /\ PredOK(nd, off, L) /\ nd[L.pred].lock = t /\ ~L.acquired
        /\ L.key < nd[nd[L.pred].next[L.h]].key
        /\ L.ok <=> nd[L.pred].key = L.key
    BY <1>3 DEF StepsOK
  <2>2. /\ L.pred \in DOMAIN nd \ {tail} /\ On(nd, off, L.pred, L.h)
        /\ nd[L.pred].zeroLevel <= L.h /\ L.h \in Int /\ z <= L.h /\ L.h <= MAX_LEVEL
    BY <2>1, SizeAssumption DEF Zone, Anchor, PredOK
  <2>3. nd2[nd2[L.pred].next[L.h]].key = nd[nd[L.pred].next[L.h]].key
    BY <2>1, <2>2, LockedNext
  <2>4. nd2[L.pred].key = nd[L.pred].key /\ nd2[L.pred].lock = t
    BY <1>0, <2>1, <2>2, LockedKept
  <2> QED
    BY <2>1, <2>3, <2>4, PredKept, Zenon
<1> QED
  BY <1>1, <1>2, <1>3 DEF StepsOK

\* ... promote, ...
LEMMA PromotingKept ==
  ASSUME NEW nd, NEW off, NEW z, NEW nd2, NEW off2, NEW z2, NEW u, NEW t, NEW L,
         Other(nd, off, z, nd2, off2, z2, u, t), Promoting(nd, off, z, t, L)
  PROVE  Promoting(nd2, off2, z2, t, L)
<1>0. /\ z \in Int /\ z2 \in Int /\ z2 <= z /\ t \in Threads /\ t # u /\ StepOf(nd, off, z, nd2, off2, z2, u)
  BY DEF Other, StepOf
<1>1. /\ L.predpred \in DOMAIN nd \ {tail} /\ nd[L.predpred].lock = t /\ nd[L.predpred].zeroLevel <= L.h
      /\ L.h \in Int /\ z <= L.h /\ L.h < MAX_LEVEL /\ L.key \in Keys
      /\ On(nd, off, L.predpred, L.h) /\ On(nd, off, L.predpred, L.h + 1) /\ nd[L.predpred].next[L.h] = L.cur
      /\ L.cur \in DOMAIN nd \ {head, tail} /\ nd[L.cur].lock = t /\ nd[L.cur].zeroLevel <= L.h
      /\ On(nd, off, L.cur, L.h) /\ nd[L.cur].topLevel = L.curh
  BY DEF Promoting
<1>2. L.h \in z .. MAX_LEVEL /\ L.h + 1 \in z .. MAX_LEVEL /\ z2 <= L.h
  BY <1>0, <1>1, SizeAssumption
<1>3. /\ L.predpred \in DOMAIN nd2 /\ nd2[L.predpred].lock = t /\ nd2[L.predpred].zeroLevel = nd[L.predpred].zeroLevel
      /\ nd2[L.predpred].next = nd[L.predpred].next
      /\ On(nd2, off2, L.predpred, L.h) /\ On(nd2, off2, L.predpred, L.h + 1)
  BY <1>0, <1>1, <1>2, LockedKept
<1>4. /\ L.cur \in DOMAIN nd2 /\ nd2[L.cur].lock = t /\ nd2[L.cur].zeroLevel = nd[L.cur].zeroLevel
      /\ nd2[L.cur].topLevel = nd[L.cur].topLevel /\ On(nd2, off2, L.cur, L.h)
  BY <1>0, <1>1, <1>2, LockedKept
<1> QED
  BY <1>1, <1>2, <1>3, <1>4 DEF Promoting

\* A step of u keeps the hits that a promotion of another thread has looked at.
LEMMA RisesKept ==
  ASSUME NEW nd, NEW off, NEW z, NEW nd2, NEW off2, NEW z2, NEW u, NEW t, NEW L,
         Other(nd, off, z, nd2, off2, z2, u, t), L.predpred \in DOMAIN nd, nd[L.predpred].lock = t,
         Rises(nd, L.predpred, L.h, L.curAccess)
  PROVE  Rises(nd2, L.predpred, L.h, L.curAccess) /\ nd2[L.predpred].next = nd[L.predpred].next
<1>1. t \in Threads /\ t # u /\ StepOf(nd, off, z, nd2, off2, z2, u)
  BY DEF Other
<1>2. /\ nd2[L.predpred].hits = nd[L.predpred].hits /\ nd2[L.predpred].topLevel = nd[L.predpred].topLevel
      /\ nd2[L.predpred].next = nd[L.predpred].next
  BY <1>1, LockedKept
<1> QED
  BY <1>2 DEF Rises

\* What the places of a promotion rely on is kept by the steps of other threads.
LEMMA PromoteKept ==
  ASSUME NEW nd, NEW off, NEW z, NEW nd2, NEW off2, NEW z2, NEW u, NEW t, NEW L,
         Other(nd, off, z, nd2, off2, z2, u, t), PromoteOK(nd, off, z, t, L)
  PROVE  PromoteOK(nd2, off2, z2, t, L)
<1>0. t \in Threads /\ t # u /\ StepOf(nd, off, z, nd2, off2, z2, u)
  BY DEF Other
<1>1. ASSUME L.pc = "p_lock"
      PROVE  /\ Walking(nd2, off2, z2, t, L) /\ Reached(nd2, t, L) /\ ~L.acquired
             /\ nd2[L.predpred].next[L.h] = L.cur /\ Rises(nd2, L.predpred, L.h, L.curAccess)
  <2>1. /\ Walking(nd, off, z, t, L) /\ Reached(nd, t, L) /\ ~L.acquired
        /\ nd[L.predpred].next[L.h] = L.cur /\ Rises(nd, L.predpred, L.h, L.curAccess)
    BY <1>1 DEF PromoteOK
  <2>2. L.predpred \in DOMAIN nd /\ nd[L.predpred].lock = t
    BY <2>1 DEF Walking, Zone, Anchor
  <2>3. Rises(nd2, L.predpred, L.h, L.curAccess) /\ nd2[L.predpred].next = nd[L.predpred].next
    BY <2>1, <2>2, RisesKept
  <2> QED
    BY <2>1, <2>3, WalkingKept
<1>2. ASSUME L.pc = "p_loop"
      PROVE  /\ Promoting(nd2, off2, z2, t, L) /\ Reached(nd2, t, L) /\ nd2[L.cur].key <= L.key
             /\ IF L.curh = L.h THEN Rises(nd2, L.predpred, L.h, L.curAccess) /\ Zone(nd2, off2, z2, t, L)
                                ELSE Anchor(nd2, off2, z2, t, L.cur, L.h, L.key)
  <2>1. /\ Promoting(nd, off, z, t, L) /\ Reached(nd, t, L) /\ nd[L.cur].key <= L.key
        /\ IF L.curh = L.h THEN Rises(nd, L.predpred, L.h, L.curAccess) /\ Zone(nd, off, z, t, L)
                           ELSE Anchor(nd, off, z, t, L.cur, L.h, L.key)
    BY <1>2 DEF PromoteOK
  <2>2. /\ L.predpred \in DOMAIN nd \ {tail} /\ nd[L.predpred].lock = t /\ nd[L.predpred].zeroLevel <= L.h
        /\ L.h \in Int /\ z <= L.h /\ L.h <= MAX_LEVEL
        /\ On(nd, off, L.predpred, L.h) /\ nd[L.predpred].next[L.h] = L.cur
        /\ L.cur \in DOMAIN nd \ {tail} /\ nd[L.cur].lock = t /\ nd[L.cur].zeroLevel <= L.h
        /\ On(nd, off, L.cur, L.h)
    BY <2>1, SizeAssumption DEF Promoting
  <2>3. L.curh = L.h => Rises(nd2, L.predpred, L.h, L.curAccess) /\ Zone(nd2, off2, z2, t, L)
    BY <1>0, <2>1, <2>2, RisesKept, AnchorKept DEF Zone
  <2>4. L.curh # L.h => Anchor(nd2, off2, z2, t, L.cur, L.h, L.key)
    BY <1>0, <2>1, AnchorKept
  <2>5. nd2[L.cur].lock = t /\ nd2[L.cur].key = nd[L.cur].key
    BY <1>0, <2>2, LockedKept
  <2>6. nd2[nd2[L.cur].next[L.h]].key = nd[nd[L.cur].next[L.h]].key
    BY <2>2, LockedNext
  <2>7. Reached(nd2, t, L)
    BY <2>1, <2>5, <2>6 DEF Reached
  <2> QED
    BY <2>1, <2>3, <2>4, <2>5, <2>7, PromotingKept
<1>3. ASSUME L.pc = "i_loop" PROVE Promoting(nd2, off2, z2, t, L) /\ L.pred = L.predpred
  BY <1>3, PromotingKept DEF PromoteOK
<1> QED
  BY <1>1, <1>2, <1>3 DEF PromoteOK

\* ... demote, ...
LEMMA DemotingKept ==
  ASSUME NEW nd, NEW off, NEW z, NEW nd2, NEW off2, NEW z2, NEW u, NEW t, NEW L,
         Other(nd, off, z, nd2, off2, z2, u, t)
  PROVE  /\ Demoting(nd, off, z, t, L) => Demoting(nd2, off2, z2, t, L)
         /\ Demotable(nd, off, z, t, L) => Demotable(nd2, off2, z2, t, L)
         /\ Demoted(nd, off, z, t, L) => Demoted(nd2, off2, z2, t, L)
<1>0. /\ z \in Int /\ z2 \in Int /\ z2 <= z /\ t \in Threads /\ t # u /\ StepOf(nd, off, z, nd2, off2, z2, u)
  BY DEF Other, StepOf
<1>1. ASSUME Demoting(nd, off, z, t, L) PROVE Demoting(nd2, off2, z2, t, L)
  <2>1. /\ Walking(nd, off, z, t, L) /\ ~L.acquired /\ ~L.ok
        /\ nd[nd[L.cur].next[L.h]].key <= L.key
        /\ L.curZeroLevel2 \in Int /\ z <= L.curZeroLevel2 /\ L.curZeroLevel2 <= L.h
    BY <1>1, Zenon DEF Demoting
  <2>2. Walking(nd2, off2, z2, t, L) /\ nd2[nd2[L.cur].next[L.h]].key <= L.key
    BY <2>1, WalkingKept, Zenon
  <2>3. z2 <= L.curZeroLevel2
    BY <1>0, <2>1
  <2> QED
    BY <2>1, <2>2, <2>3, Zenon DEF Demoting
<1>2. ASSUME Demotable(nd, off, z, t, L) PROVE Demotable(nd2, off2, z2, t, L)
  <2>1. /\ Walking(nd, off, z, t, L) /\ ~L.acquired /\ ~L.ok
        /\ nd[nd[L.cur].next[L.h]].key <= L.key
        /\ nd[L.pred].lock = t /\ nd[L.cur].lock = t
        /\ nd[L.pred].next[L.h] = L.cur /\ nd[L.cur].topLevel = L.h
    BY <1>2 DEF Demotable
  <2>2. L.pred \in DOMAIN nd /\ L.cur \in DOMAIN nd
    BY <2>1 DEF Walking, PredOK, CurOK
  <2>3. nd2[L.pred].lock = t /\ nd2[L.pred].next = nd[L.pred].next
    BY <1>0, <2>1, <2>2, LockedKept
  <2>4. nd2[L.cur].lock = t /\ nd2[L.cur].topLevel = nd[L.cur].topLevel
    BY <1>0, <2>1, <2>2, LockedKept, SMTT(30)
  <2> QED
    BY <2>1, <2>3, <2>4, WalkingKept, Zenon DEF Demotable
<1>3. ASSUME Demoted(nd, off, z, t, L) PROVE Demoted(nd2, off2, z2, t, L)
  <2>1. /\ Zone(nd, off, z, t, L) /\ PredOK(nd, off, L) /\ ~L.acquired /\ ~L.ok
        /\ nd[nd[L.pred].next[L.h]].key <= L.key
        /\ L.cur \in DOMAIN nd \ {head, tail} /\ nd[L.cur].lock = t
        /\ nd[L.pred].key < nd[L.cur].key
        /\ nd[L.cur].topLevel = L.h /\ nd[L.cur].zeroLevel < L.h
    BY <1>3 DEF Demoted
  <2>2. /\ L.cur \in DOMAIN nd2 /\ nd2[L.cur].lock = t /\ nd2[L.cur].topLevel = nd[L.cur].topLevel
        /\ nd2[L.cur].zeroLevel = nd[L.cur].zeroLevel /\ nd2[L.cur].key = nd[L.cur].key
    BY <1>0, <2>1, LockedKept
  <2>3. nd2[L.pred].key = nd[L.pred].key
    BY <1>0, <2>1 DEF PredOK, StepOf
  <2> QED
    BY <2>1, <2>2, <2>3, PredKept, Zenon DEF Demoted
<1> QED
  BY <1>1, <1>2, <1>3

\* What the places of a demotion rely on is kept by the steps of other threads.
LEMMA DemoteKept ==
  ASSUME NEW nd, NEW off, NEW z, NEW nd2, NEW off2, NEW z2, NEW u, NEW t, NEW L,
         Other(nd, off, z, nd2, off2, z2, u, t), DemoteOK(nd, off, z, t, L)
  PROVE  DemoteOK(nd2, off2, z2, t, L)
<1>0. /\ z \in Int /\ z2 \in Int /\ z2 <= z /\ t \in Threads /\ t # u /\ StepOf(nd, off, z, nd2, off2, z2, u)
  BY DEF Other, StepOf
<1>1. ASSUME L.pc = "d_pred" PROVE Demoting(nd2, off2, z2, t, L) /\ L.pred # L.predpred
  BY <1>1, DemotingKept DEF DemoteOK
<1>2. ASSUME L.pc = "d_cur" PROVE Demoting(nd2, off2, z2, t, L) /\ nd2[L.pred].lock = t
  <2>1. Demoting(nd, off, z, t, L) /\ nd[L.pred].lock = t /\ L.pred \in DOMAIN nd
    BY <1>2 DEF DemoteOK, Demoting, Walking, PredOK
  <2> QED
    BY <1>0, <2>1, LockedKept, DemotingKept
<1>3. ASSUME L.pc = "d_zero" PROVE Demotable(nd2, off2, z2, t, L) /\ Demoting(nd2, off2, z2, t, L)
  BY <1>3, DemotingKept DEF DemoteOK
<1>4. ASSUME L.pc \in {"d_low", "d_unlink"}
      PROVE  /\ Demotable(nd2, off2, z2, t, L) /\ z2 < L.h
             /\ L.pc = "d_unlink" => nd2[L.pred].zeroLevel < L.h /\ nd2[L.cur].zeroLevel < L.h
  <2>1. /\ Demotable(nd, off, z, t, L) /\ z < L.h
        /\ L.pc = "d_unlink" => nd[L.pred].zeroLevel < L.h /\ nd[L.cur].zeroLevel < L.h
    BY <1>4 DEF DemoteOK
  <2>2. /\ L.pred \in DOMAIN nd /\ L.cur \in DOMAIN nd /\ nd[L.pred].lock = t /\ nd[L.cur].lock = t
        /\ L.h \in Int
    BY <2>1 DEF Demotable, Walking, Zone, Anchor, PredOK, CurOK
  <2>3. nd2[L.pred].zeroLevel = nd[L.pred].zeroLevel
    BY <1>0, <2>2, LockedKept
  <2>4. nd2[L.cur].zeroLevel = nd[L.cur].zeroLevel
    BY <1>0, <2>2, LockedKept
  <2> QED
    BY <1>0, <2>1, <2>2, <2>3, <2>4, DemotingKept
<1>5. ASSUME L.pc \in {"d_null", "d_top"}
      PROVE  Demoted(nd2, off2, z2, t, L) /\ (L.pc = "d_null" => nd2[L.pred].lock = t)
  <2>1. Demoted(nd, off, z, t, L) /\ (L.pc = "d_null" => nd[L.pred].lock = t) /\ L.pred \in DOMAIN nd
    BY <1>5, SMTT(30) DEF DemoteOK, Demoted, PredOK
  <2> QED
    BY <1>0, <2>1, LockedKept, DemotingKept
<1>6. ASSUME L.pc = "d_next"
      PROVE  /\ Zone(nd2, off2, z2, t, L) /\ PredOK(nd2, off2, L) /\ ~L.acquired /\ ~L.ok
             /\ nd2[nd2[L.pred].next[L.h]].key <= L.key
  BY <1>6, PredKept, Zenon DEF DemoteOK
<1> QED
  BY <1>1, <1>2, <1>3, <1>4, <1>5, <1>6 DEF DemoteOK

\* ... and insert.
LEMMA InsertKept ==
  ASSUME NEW nd, NEW off, NEW z, NEW nd2, NEW off2, NEW z2, NEW u, NEW t, NEW L,
         Other(nd, off, z, nd2, off2, z2, u, t), InsertOK(nd, off, z, t, L)
  PROVE  InsertOK(nd2, off2, z2, t, L)
<1>0. t \in Threads /\ t # u /\ StepOf(nd, off, z, nd2, off2, z2, u)
  BY DEF Other
<1>1. ASSUME L.pc = "i_link"
      PROVE  /\ Zone(nd2, off2, z2, t, L) /\ PredOK(nd2, off2, L) /\ nd2[L.pred].lock = t
             /\ L.key < nd2[nd2[L.pred].next[L.h]].key /\ nd2[L.pred].key < L.key
             /\ nd2[L.pred].zeroLevel = L.h
  <2>1. /\ Zone(nd, off, z, t, L) /\ PredOK(nd, off, L) /\ nd[L.pred].lock = t
        /\ L.key < nd[nd[L.pred].next[L.h]].key /\ nd[L.pred].key < L.key
        /\ nd[L.pred].zeroLevel = L.h
    BY <1>1 DEF InsertOK
  <2>2. /\ L.pred \in DOMAIN nd \ {tail} /\ On(nd, off, L.pred, L.h)
        /\ nd[L.pred].zeroLevel <= L.h /\ L.h \in Int /\ z <= L.h /\ L.h <= MAX_LEVEL
    BY <2>1, SizeAssumption DEF Zone, Anchor, PredOK
  <2>3. nd2[nd2[L.pred].next[L.h]].key = nd[nd[L.pred].next[L.h]].key
    BY <2>1, <2>2, LockedNext
  <2>4. nd2[L.pred].key = nd[L.pred].key /\ nd2[L.pred].lock = t /\ nd2[L.pred].zeroLevel = nd[L.pred].zeroLevel
    BY <1>0, <2>1, <2>2, LockedKept
  <2> QED
    BY <2>1, <2>3, <2>4, PredKept, Zenon
<1>2. ASSUME L.pc = "i_count"
      PROVE  /\ Zone(nd2, off2, z2, t, L) /\ PredOK(nd2, off2, L)
             /\ nd2[L.pred].lock = t /\ nd2[L.pred].next[L.h] = L.cur
             /\ L.cur \in DOMAIN nd2 \ {head, tail} /\ nd2[L.cur].lock = t /\ nd2[L.cur].key = L.key
             /\ nd2[L.cur].zeroLevel = L.h /\ nd2[L.cur].topLevel = L.h
             /\ nd2[L.pred].key < L.key /\ On(nd2, off2, L.cur, L.h)
  <2>1. /\ Zone(nd, off, z, t, L) /\ PredOK(nd, off, L)
        /\ nd[L.pred].lock = t /\ nd[L.pred].next[L.h] = L.cur
        /\ L.cur \in DOMAIN nd \ {head, tail} /\ nd[L.cur].lock = t /\ nd[L.cur].key = L.key
        /\ nd[L.cur].zeroLevel = L.h /\ nd[L.cur].topLevel = L.h
        /\ nd[L.pred].key < L.key /\ On(nd, off, L.cur, L.h)
    BY <1>2 DEF InsertOK
  <2>2. L.pred \in DOMAIN nd /\ L.h \in z .. MAX_LEVEL
    BY <1>0, <2>1, SizeAssumption DEF Zone, Anchor, PredOK, StepOf
  <2>3. /\ nd2[L.pred].lock = t /\ nd2[L.pred].key = nd[L.pred].key /\ nd2[L.pred].next = nd[L.pred].next
    BY <1>0, <2>1, <2>2, LockedKept
  <2>4. /\ L.cur \in DOMAIN nd2 /\ nd2[L.cur].lock = t /\ nd2[L.cur].topLevel = nd[L.cur].topLevel
        /\ nd2[L.cur].zeroLevel = nd[L.cur].zeroLevel /\ nd2[L.cur].key = nd[L.cur].key
        /\ On(nd2, off2, L.cur, L.h)
    BY <1>0, <2>1, <2>2, LockedKept
  <2>5. Zone(nd2, off2, z2, t, L) /\ PredOK(nd2, off2, L)
    BY <2>1, PredKept, Zenon
  <2> QED
    BY <2>1, <2>3, <2>4, <2>5, Zenon
<1>3. ASSUME L.pc = "i_leave"
      PROVE  /\ L.pred \in DOMAIN nd2 /\ nd2[L.pred].lock = t
             /\ L.cur \in DOMAIN nd2 /\ nd2[L.cur].lock = t /\ L.cur # L.pred
  BY <1>0, <1>3, LockedKept DEF InsertOK
<1> QED
  BY <1>1, <1>2, <1>3, SMTT(30) DEF InsertOK

\* Together: a step of u keeps what the walk of another thread relies on.
LEMMA OthersKept ==
  ASSUME NEW nd, NEW off, NEW z, NEW nd2, NEW off2, NEW z2, NEW u, NEW t \in Threads, NEW L, t # u,
         StepOf(nd, off, z, nd2, off2, z2, u), WalkOK(nd, off, z, t, L)
  PROVE  WalkOK(nd2, off2, z2, t, L)
<1>1. Other(nd, off, z, nd2, off2, z2, u, t)
  BY DEF Other
<1> QED
  BY <1>1, FindKept, LevelKept, StepsKept, PromoteKept, DemoteKept, InsertKept DEF WalkOK

-----------------------------------------------------------------------------
(* One step of a thread *)

\* A step of u leaves u with the locals L2.
Moves(u, L2) ==
  /\ l' = [l EXCEPT ![u] = L2] /\ DOMAIN L2 = Fields
  /\ todo' \in Seq(Keys) /\ plan' \in [Workers -> Seq(SUBSET (Operations \X Keys))]

\* Every lock has an owner that holds it, and u takes none from another thread.
LocksMove(nd, nd2, u, L2) ==
  /\ \A n \in DOMAIN nd2 : nd2[n].lock = u => n \in Held(L2)
  /\ \A n \in DOMAIN nd2 : nd2[n].lock \in {u, Nobody} \/ (n \in DOMAIN nd /\ nd2[n].lock = nd[n].lock)

\* So a step keeps the invariant.
LEMMA StepInv ==
  ASSUME Inv, NEW u \in Threads, NEW L2, Moves(u, L2), LocksMove(node, node', u, L2),
         StepOf(node, Off, zeroLevel, node', Off', zeroLevel', u),
         WalkOK(node', Off', zeroLevel', u, L2)
  PROVE  Inv'
<1>1. DOMAIN l = Threads /\ \A t \in Threads : DOMAIN l[t] = Fields
  BY DEF Inv, ClientInv
<1>2. DOMAIN l' = Threads /\ l'[u] = L2 /\ \A t \in Threads \ {u} : l'[t] = l[t]
  BY <1>1 DEF Moves
<1>3. ClientInv'
  BY <1>1, <1>2 DEF Moves, ClientInv
<1>4. ListInv'
  BY SizeAssumption DEF StepOf, ListInv, Inv
<1>5. LockInv'
  <2> SUFFICES ASSUME NEW t \in Threads, NEW n \in DOMAIN node', node'[n].lock = t
               PROVE  n \in Held(l'[t])
    BY DEF LockInv, Nodes
  <2>1. CASE t = u
    BY <1>2, <2>1 DEF LocksMove
  <2>2. CASE t # u
    <3>1. t # Nobody
      BY SizeAssumption DEF Threads, Workers, Main, Nobody
    <3>2. n \in DOMAIN node /\ node[n].lock = t
      BY <2>2, <3>1 DEF LocksMove
    <3> QED
      BY <1>2, <2>2, <3>2 DEF Inv, LockInv, Nodes
  <2> QED
    BY <2>1, <2>2
<1>6. WalksInv'
  <2> SUFFICES ASSUME NEW t \in Threads PROVE WalkOK(node', Off', zeroLevel', t, l'[t])
    BY DEF WalksInv
  <2>1. CASE t = u
    BY <1>2, <2>1
  <2>2. CASE t # u
    <3>1. WalkOK(node, Off, zeroLevel, t, l[t])
      BY DEF Inv, WalksInv
    <3> QED
      BY <1>2, <2>2, <3>1, OthersKept
  <2> QED
    BY <2>1, <2>2
<1> QED
  BY <1>3, <1>4, <1>5, <1>6 DEF Inv

\* Only the end of a demotion changes what is off a level.
LEMMA OffSame ==
  ASSUME NEW u \in Threads, NEW L2, DOMAIN l = Threads, Moves(u, L2),
         l[u].pc \notin {"d_null", "d_top"}, L2.pc \notin {"d_null", "d_top"}
  PROVE  Off' = Off
<1>1. l'[u] = L2 /\ \A t \in Threads \ {u} : l'[t] = l[t]
  BY DEF Moves
<1>2. {s \in Threads : l'[s].pc \in {"d_null", "d_top"}} = {s \in Threads : l[s].pc \in {"d_null", "d_top"}}
  BY <1>1
<1>3. \A t \in {s \in Threads : l[s].pc \in {"d_null", "d_top"}} : l'[t] = l[t]
  BY <1>1
<1> QED
  BY <1>2, <1>3 DEF Off

\* Nodes whose place in the list does not change.
Touched(nd, nd2, u) ==
  /\ DOMAIN nd2 = DOMAIN nd
  /\ \A n \in DOMAIN nd :
       /\ DOMAIN nd2[n] = NodeFields
       /\ nd2[n].key = nd[n].key /\ nd2[n].zeroLevel = nd[n].zeroLevel
       /\ nd2[n].topLevel = nd[n].topLevel /\ nd2[n].next = nd[n].next
       /\ nd2[n].selfhits \in Int /\ nd2[n].hits \in [Levels -> Int]
       /\ nd2[n].lock \in {nd[n].lock, u, Nobody}
       /\ nd[n].lock \notin {u, Nobody} => nd2[n].lock = nd[n].lock /\ nd2[n].hits = nd[n].hits

\* Changing locks and counters of nodes changes no list.
LEMMA TouchedStep ==
  ASSUME NEW nd, NEW nd2, NEW off, NEW z \in Int, 0 <= z, NEW u \in Threads,
         NodesOK(nd, z), Lists(nd, off, z), Touched(nd, nd2, u)
  PROVE  StepOf(nd, off, z, nd2, off, z, u)
<1>1. \A n \in DOMAIN nd, i \in z .. MAX_LEVEL :
        (On(nd2, off, n, i) <=> On(nd, off, n, i)) /\ NextIn(nd2, n, i) = NextIn(nd, n, i)
  BY DEF Touched, On, NextIn
<1>2. SameLists(nd, off, nd2, off, z)
  BY <1>1 DEF SameLists, Touched
<1>3. Lists(nd2, off, z)
  BY <1>2, SameListsKeep
<1>4. ASSUME NEW n \in DOMAIN nd2 PROVE NodeOK(nd2, z, n)
  BY ZenonT(40) DEF Touched, NodesOK, NodeOK
<1>5. /\ \E k \in Nat : k > 1 /\ DOMAIN nd2 = 0 .. k - 1
      /\ head \in DOMAIN nd /\ tail \in DOMAIN nd
  BY NodeTypes DEF NodesOK, Touched
<1>6. NodesOK(nd2, z)
  BY <1>4, <1>5, Zenon DEF NodesOK, Touched
<1>7. \A n \in DOMAIN nd : nd[n].zeroLevel \in Int
  BY NodeTypes
<1> QED
  BY <1>1, <1>3, <1>6, <1>7 DEF StepOf, Touched

\* The step of a thread that only touches nodes.
LEMMA TouchInv ==
  ASSUME Inv, NEW u \in Threads, NEW L2, Moves(u, L2), zeroLevel' = zeroLevel,
         l[u].pc \notin {"d_null", "d_top"}, L2.pc \notin {"d_null", "d_top"},
         Touched(node, node', u), \A n \in DOMAIN node : node'[n].lock = u => n \in Held(L2),
         WalkOK(node', Off, zeroLevel, u, L2)
  PROVE  Inv'
<1>1. Off' = Off
  BY OffSame DEF Inv, ClientInv
<1>2. StepOf(node, Off, zeroLevel, node', Off, zeroLevel, u)
  BY TouchedStep DEF Inv, ListInv
<1>3. LocksMove(node, node', u, L2)
  BY DEF LocksMove, Touched
<1> QED
  BY <1>1, <1>2, <1>3, StepInv

\* The step of a thread that touches none.
LEMMA QuietInv ==
  ASSUME Inv, NEW u \in Threads, NEW L2, Moves(u, L2), zeroLevel' = zeroLevel, node' = node,
         l[u].pc \notin {"d_null", "d_top"}, L2.pc \notin {"d_null", "d_top"},
         Held(l[u]) \subseteq Held(L2), WalkOK(node, Off, zeroLevel, u, L2)
  PROVE  Inv'
<1>1. \A n \in DOMAIN node : NodeOK(node, zeroLevel, n)
  BY DEF Inv, ListInv, NodesOK
<1>2. Touched(node, node, u)
  BY <1>1 DEF Touched, NodeOK
<1>3. \A n \in DOMAIN node : node[n].lock = u => n \in Held(L2)
  BY DEF Inv, LockInv, Nodes
<1> QED
  BY <1>2, <1>3, TouchInv

\* The locks that are held at a place.
LEMMA HeldAt ==
  ASSUME NEW L
  PROVE  /\ Place(L) \in {"u_level", "u_cmp", "u_leave"} => Held(L) = {L.pred}
         /\ Place(L) \in {"w_peek", "w_lock", "p_lock", "d_pred", "d_next"} => Held(L) = {L.predpred}
         /\ Place(L) \in {"w_test", "w_step"} =>
              Held(L) = {L.predpred} \cup (IF L.acquired THEN {L.cur} ELSE {})
         /\ Place(L) \in {"d_cur", "w_exit", "i_link"} => Held(L) = {L.predpred, L.pred}
         /\ Place(L) \in {"d_zero", "d_low", "d_unlink", "d_null", "i_count"} =>
              Held(L) = {L.predpred, L.pred, L.cur}
         /\ Place(L) \in {"p_loop", "d_top"} => Held(L) = {L.predpred, L.cur}
         /\ Place(L) \in {"i_loop", "i_leave"} => Held(L) = {L.pred, L.cur}
         /\ Place(L) \in {"idle", "f_level", "f_read", "f_cmp", "found", "miss", "after", "swapped",
                          "reread", "u_enter", "u_return"} => Held(L) = {}
  BY DEF Held, Place

\* What the steps of a thread start from.
LEMMA Start ==
  ASSUME Inv, NEW u \in Threads
  PROVE  /\ DOMAIN l = Threads /\ DOMAIN l[u] = Fields
         /\ todo \in Seq(Keys) /\ plan \in [Workers -> Seq(SUBSET (Operations \X Keys))]
         /\ zeroLevel \in Int /\ 0 <= zeroLevel /\ zeroLevel < MAX_LEVEL
         /\ MAX_LEVEL \in Int /\ MAX_LEVEL > 1
         /\ NodesOK(node, zeroLevel) /\ Lists(node, Off, zeroLevel)
         /\ WalkOK(node, Off, zeroLevel, u, l[u])
         /\ u # Nobody
  BY SizeAssumption DEF Inv, ClientInv, ListInv, WalksInv, Threads, Workers, Main, Nobody

\* At each place only a part of WalkOK says something.
Searching == {"idle", "f_level", "f_read", "f_cmp", "found", "miss", "after", "swapped", "reread",
              "u_enter", "u_return"}
\* A call relies on FindOK and on the part of WalkOK that speaks of its place.
LEMMA WalkAt ==
  ASSUME NEW nd, NEW off, NEW z, NEW u, NEW L, FindOK(nd, z, L)
  PROVE  /\ Place(L) \in Searching => WalkOK(nd, off, z, u, L)
         /\ Place(L) \in {"u_level", "u_cmp", "u_leave"} /\ LevelOK(nd, off, z, u, L) => WalkOK(nd, off, z, u, L)
         /\ Place(L) \in {"w_peek", "w_lock", "w_test", "w_step", "w_exit"} /\ StepsOK(nd, off, z, u, L)
              => WalkOK(nd, off, z, u, L)
         /\ Place(L) \in {"p_lock", "p_loop", "i_loop"} /\ PromoteOK(nd, off, z, u, L) => WalkOK(nd, off, z, u, L)
         /\ Place(L) \in {"d_pred", "d_cur", "d_zero", "d_low", "d_unlink", "d_null", "d_top", "d_next"}
              /\ DemoteOK(nd, off, z, u, L) => WalkOK(nd, off, z, u, L)
         /\ Place(L) \in {"i_link", "i_count", "i_leave"} /\ InsertOK(nd, off, z, u, L) => WalkOK(nd, off, z, u, L)
<1>1. Place(L) \in Searching => WalkOK(nd, off, z, u, L)
  BY DEF Searching, WalkOK, LevelOK, StepsOK, PromoteOK, DemoteOK, InsertOK, Place
<1>2. Place(L) \in {"u_level", "u_cmp", "u_leave"} /\ LevelOK(nd, off, z, u, L) => WalkOK(nd, off, z, u, L)
  BY DEF WalkOK, StepsOK, PromoteOK, DemoteOK, InsertOK, Place
<1>3. Place(L) \in {"w_peek", "w_lock", "w_test", "w_step", "w_exit"} /\ StepsOK(nd, off, z, u, L)
        => WalkOK(nd, off, z, u, L)
  BY DEF WalkOK, LevelOK, PromoteOK, DemoteOK, InsertOK, Place
<1>4. Place(L) \in {"p_lock", "p_loop", "i_loop"} /\ PromoteOK(nd, off, z, u, L) => WalkOK(nd, off, z, u, L)
  BY DEF WalkOK, LevelOK, StepsOK, DemoteOK, InsertOK, Place
<1>5. Place(L) \in {"d_pred", "d_cur", "d_zero", "d_low", "d_unlink", "d_null", "d_top", "d_next"}
        /\ DemoteOK(nd, off, z, u, L) => WalkOK(nd, off, z, u, L)
  BY DEF WalkOK, LevelOK, StepsOK, PromoteOK, InsertOK, Place
<1>6. Place(L) \in {"i_link", "i_count", "i_leave"} /\ InsertOK(nd, off, z, u, L) => WalkOK(nd, off, z, u, L)
  BY DEF WalkOK, LevelOK, StepsOK, PromoteOK, DemoteOK, Place
<1> QED
  BY <1>1, <1>2, <1>3, <1>4, <1>5, <1>6

\* L and M agree in everything but the place and what goes with the lowering of a node.
Alike(L, M) ==
  /\ DOMAIN M = Fields
  /\ M.op = L.op /\ M.key = L.key /\ M.v = L.v /\ M.succ = L.succ /\ M.h = L.h /\ M.pred = L.pred
  /\ M.predpred = L.predpred /\ M.cur = L.cur /\ M.curAccess = L.curAccess
  /\ M.curZeroLevel = L.curZeroLevel /\ M.curZeroLevel2 = L.curZeroLevel2 /\ M.curh = L.curh
  /\ M.acquired = L.acquired /\ M.ok = L.ok /\ M.inserting = L.inserting

\* Via changes the place and nothing that a walk relies on.
LEMMA ViaAlike ==
  ASSUME NEW L, DOMAIN L = Fields, NEW n, NEW to \in {"f_read", "f_cmp", "u_cmp", "w_peek"},
         node[n].zeroLevel \in Int, L.h \in Int
  PROVE  /\ Alike(L, Via(L, n, to)) /\ Place(Via(L, n, to)) = to
         /\ Via(L, n, to).pc = "fix" => Via(L, n, to).fix = n /\ Via(L, n, to).back = to
         /\ Via(L, n, to).pc # "fix" => Via(L, n, to).pc = to /\ node[n].zeroLevel <= L.h
<1>1. CASE node[n].zeroLevel > L.h
  BY <1>1 DEF Alike, Via, Place, Fields
<1>2. CASE ~(node[n].zeroLevel > L.h)
  BY <1>2 DEF Alike, Via, Place, Fields
<1> QED
  BY <1>1, <1>2

\* Going to another place changes nothing else.
LEMMA GotoAlike ==
  ASSUME NEW L, DOMAIN L = Fields, NEW p
  PROVE  Alike(L, [L EXCEPT !.pc = p]) /\ [L EXCEPT !.pc = p].pc = p
  BY DEF Alike, Fields

\* The step of a search, and of the call around it.
LocalStep(u, M) ==
  /\ node' = node /\ zeroLevel' = zeroLevel /\ l' = [l EXCEPT ![u] = M] /\ DOMAIN M = Fields
  /\ todo' \in Seq(Keys) /\ plan' \in [Workers -> Seq(SUBSET (Operations \X Keys))]

\* A step of a search, which changes no node, keeps the invariant.
LEMMA SearchInv ==
  ASSUME Inv, NEW u \in Threads, NEW M, LocalStep(u, M), Place(l[u]) \in Searching,
         Place(M) \in Searching, FindOK(node, zeroLevel, M)
  PROVE  Inv'
<1>1. WalkOK(node, Off, zeroLevel, u, M) /\ Held(l[u]) = {}
  BY WalkAt, HeldAt DEF Searching
<1>2. Moves(u, M) /\ node' = node /\ zeroLevel' = zeroLevel
  BY DEF Moves, LocalStep
<1>3. l[u].pc \notin {"d_null", "d_top"} /\ M.pc \notin {"d_null", "d_top"}
  BY DEF Place, Searching
<1> QED
  BY <1>1, <1>2, <1>3, QuietInv

\* A call that returns.
LEMMA ReturnInv ==
  ASSUME Inv, NEW u \in Threads, NEW r, Return(u, r), Place(l[u]) \in Searching
  PROVE  Inv'
<1> DEFINE M == Locals
<1>1. DOMAIN M = Fields /\ M.pc = "idle"
  BY DEF Locals, Fields
<1>2. l' = [l EXCEPT ![u] = M] /\ node' = node /\ zeroLevel' = zeroLevel /\ UNCHANGED <<todo, plan>>
  BY DEF Return
<1> HIDE DEF M
<1>3. LocalStep(u, M)
  BY <1>1, <1>2, Start DEF LocalStep
<1>4. FindOK(node, zeroLevel, M) /\ Place(M) \in Searching
  BY <1>1 DEF FindOK, Place, InUpdate, OnLevel, Searching
<1> QED
  BY <1>3, <1>4, SearchInv

\* The client calls an operation.
LEMMA EnterInv ==
  ASSUME Inv, NEW u \in Threads, NEW op, NEW k \in Keys, Enter(u, op, k),
         todo' \in Seq(Keys), plan' \in [Workers -> Seq(SUBSET (Operations \X Keys))]
  PROVE  Inv'
<1> DEFINE M == [Locals EXCEPT !.pc = "f_level", !.op = op, !.key = k, !.h = MAX_LEVEL - 1, !.pred = head]
<1>1. /\ DOMAIN M = Fields /\ M.pc = "f_level" /\ M.key = k /\ M.h = MAX_LEVEL - 1 /\ M.pred = head
      /\ ~M.inserting /\ ~M.acquired /\ ~M.ok
  BY DEF Locals, Fields
<1>2. /\ l' = [l EXCEPT ![u] = M] /\ node' = node /\ zeroLevel' = zeroLevel /\ l[u].pc = "idle"
  BY DEF Enter, list, At
<1> HIDE DEF M
<1>3. LocalStep(u, M) /\ Place(l[u]) \in Searching
  BY <1>1, <1>2 DEF LocalStep, Place, Searching
<1>4. head \in DOMAIN node /\ zeroLevel \in Int /\ zeroLevel < MAX_LEVEL /\ MAX_LEVEL \in Int
  BY Start, NodeTypes
<1>5. FindOK(node, zeroLevel, M) /\ Place(M) \in Searching
  BY <1>1, <1>4 DEF FindOK, Place, InUpdate, OnLevel, Searching
<1> QED
  BY <1>3, <1>5, SearchInv

\* The calls that the clients make keep the invariant.
LEMMA ClientSteps ==
  ASSUME Inv, PrefillNext \/ \E t \in Workers : Invoke(t)
  PROVE  Inv'
<1>0. Main \in Threads /\ Workers \subseteq Threads
  BY DEF Threads
<1>1. ASSUME PrefillNext PROVE Inv'
  <2>1. /\ todo # <<>> /\ Enter(Main, "insertIfAbsent", todo[1]) /\ todo' = Tail(todo) /\ plan' = plan
    BY <1>1 DEF PrefillNext
  <2>2. todo \in Seq(Keys) /\ plan \in [Workers -> Seq(SUBSET (Operations \X Keys))]
    BY DEF Inv, ClientInv
  <2>3. todo[1] \in Keys /\ todo' \in Seq(Keys)
    BY <2>1, <2>2
  <2> QED
    BY <1>0, <2>1, <2>2, <2>3, EnterInv
<1>2. ASSUME NEW t \in Workers, Invoke(t) PROVE Inv'
  <2>1. todo \in Seq(Keys) /\ plan \in [Workers -> Seq(SUBSET (Operations \X Keys))]
    BY DEF Inv, ClientInv
  <2>2. /\ plan[t] # <<>> /\ plan' = [plan EXCEPT ![t] = Tail(@)] /\ todo' = todo
    BY <1>2 DEF Invoke
  <2>3. plan[t] \in Seq(SUBSET (Operations \X Keys))
    BY <2>1
  <2>4. Head(plan[t]) \in SUBSET (Operations \X Keys) /\ Tail(plan[t]) \in Seq(SUBSET (Operations \X Keys))
    BY <2>2, <2>3
  <2>5. plan' \in [Workers -> Seq(SUBSET (Operations \X Keys))]
    BY <2>1, <2>2, <2>4
  <2>6. PICK c \in Head(plan[t]) : Enter(t, c[1], c[2])
    BY <1>2 DEF Invoke
  <2>7. c[2] \in Keys
    BY <2>4, <2>6
  <2> QED
    BY <1>0, <2>1, <2>2, <2>5, <2>6, <2>7, EnterInv
<1> QED
  BY <1>1, <1>2

\* find: the nodes and levels a search comes to.
LEMMA FollowOK ==
  ASSUME Inv, NEW u \in Threads, NEW L, DOMAIN L = Fields, NEW p \in DOMAIN node,
         L.key \in Keys, ~L.inserting, ~L.acquired, ~L.ok, L.h \in Int, L.h < MAX_LEVEL, zeroLevel <= L.h
  PROVE  /\ DOMAIN Follow(L, p) = Fields /\ Place(Follow(L, p)) \in Searching
         /\ FindOK(node, zeroLevel, Follow(L, p))
<1> DEFINE s == node[p].next[L.h]
           M == [L EXCEPT !.pred = p, !.succ = s]
<1>0. zeroLevel \in Int /\ 0 <= zeroLevel /\ NodesOK(node, zeroLevel) /\ MAX_LEVEL \in Int
  BY Start
<1>1. /\ DOMAIN M = Fields /\ M.pred = p /\ M.succ = s /\ M.key = L.key /\ M.inserting = L.inserting
      /\ M.acquired = L.acquired /\ M.ok = L.ok /\ M.h = L.h
  BY DEF Fields
<1>2. s \in DOMAIN node \cup {NULL}
  BY <1>0, NodeTypes DEF Levels
<1>3. CASE s = NULL
  <2> DEFINE N == [M EXCEPT !.pc = "f_level", !.h = L.h - 1]
  <2>1. Follow(L, p) = N
    BY <1>3 DEF Follow
  <2> HIDE DEF s, M
  <2>2. /\ DOMAIN N = Fields /\ N.pc = "f_level" /\ N.pred = p /\ N.key = L.key /\ N.inserting = L.inserting
        /\ N.acquired = L.acquired /\ N.ok = L.ok /\ N.h = L.h - 1
    BY <1>1 DEF Fields
  <2> HIDE DEF N
  <2>3. FindOK(node, zeroLevel, N) /\ Place(N) \in Searching
    BY <1>0, <2>2 DEF FindOK, Place, Searching, InUpdate, OnLevel
  <2> QED
    BY <2>1, <2>2, <2>3
<1>4. CASE s # NULL
  <2> DEFINE N == Via(M, s, "f_cmp")
  <2>1. Follow(L, p) = N
    BY <1>4 DEF Follow
  <2> HIDE DEF s, M
  <2>2. s \in DOMAIN node /\ node[s].zeroLevel \in Int
    BY <1>0, <1>2, <1>4, NodeTypes
  <2>3. /\ Alike(M, N) /\ Place(N) = "f_cmp" /\ (N.pc = "fix" => N.fix = s /\ N.back = "f_cmp")
        /\ N.pc # "fix" => N.pc = "f_cmp"
    BY <1>1, <2>2, ViaAlike
  <2> HIDE DEF N
  <2>4. FindOK(node, zeroLevel, N)
    BY <1>0, <1>1, <2>2, <2>3 DEF FindOK, Alike, InUpdate, OnLevel
  <2> QED
    BY <2>1, <2>3, <2>4 DEF Alike, Searching
<1> QED
  BY <1>3, <1>4

\* find keeps the invariant.
LEMMA FindInv ==
  ASSUME Inv, NEW u \in Threads, FindLevel(u) \/ FindRead(u) \/ FindCompare(u)
  PROVE  Inv'
<1> DEFINE L == l[u]
<1>0. /\ DOMAIN L = Fields /\ FindOK(node, zeroLevel, L) /\ L.pc \in {"f_level", "f_read", "f_cmp"}
      /\ NodesOK(node, zeroLevel) /\ zeroLevel \in Int
      /\ todo \in Seq(Keys) /\ plan \in [Workers -> Seq(SUBSET (Operations \X Keys))]
  BY Start DEF WalkOK, FindLevel, FindRead, FindCompare, At
<1>1. /\ L.key \in Keys /\ ~L.inserting /\ ~L.acquired /\ ~L.ok
      /\ L.pred \in DOMAIN node /\ L.h \in Int /\ L.h < MAX_LEVEL /\ Place(L) \in Searching
      /\ L.pc # "f_level" => zeroLevel <= L.h
      /\ L.pc = "f_cmp" => L.succ \in DOMAIN node
  BY <1>0 DEF FindOK, Place, Searching
<1>2. CASE FindLevel(u) /\ L.h >= zeroLevel
  <2> DEFINE M == Via(L, L.pred, "f_read")
  <2>1. node' = node /\ zeroLevel' = zeroLevel /\ l' = [l EXCEPT ![u] = M] /\ UNCHANGED <<todo, plan>>
    BY <1>2 DEF FindLevel, Local, Do, client
  <2>2. node[L.pred].zeroLevel \in Int
    BY <1>0, <1>1, NodeTypes
  <2>3. /\ Alike(L, M) /\ Place(M) = "f_read" /\ (M.pc = "fix" => M.fix = L.pred /\ M.back = "f_read")
        /\ M.pc # "fix" => M.pc = "f_read"
    BY <1>0, <1>1, <2>2, ViaAlike
  <2> HIDE DEF M
  <2>4. LocalStep(u, M)
    BY <1>0, <2>1, <2>3 DEF LocalStep, Alike
  <2> HIDE DEF L
  <2>5. FindOK(node, zeroLevel, M)
    BY <1>0, <1>1, <1>2, <2>3 DEF FindOK, Alike, InUpdate, OnLevel
  <2> QED
    BY <1>1, <2>3, <2>4, <2>5, SearchInv DEF L, Searching
<1>3. CASE FindLevel(u) /\ ~(L.h >= zeroLevel)
  <2> DEFINE M == [L EXCEPT !.pc = "miss"]
  <2>1. node' = node /\ zeroLevel' = zeroLevel /\ l' = [l EXCEPT ![u] = M] /\ UNCHANGED <<todo, plan>>
    BY <1>3 DEF FindLevel, Goto, Local, Do, client
  <2>2. Alike(L, M) /\ M.pc = "miss" /\ Place(M) = "miss"
    BY <1>0, GotoAlike DEF Place
  <2> HIDE DEF M
  <2>3. LocalStep(u, M)
    BY <1>0, <2>1, <2>2 DEF LocalStep, Alike
  <2> HIDE DEF L
  <2>4. FindOK(node, zeroLevel, M)
    BY <1>0, <1>1, <2>2 DEF FindOK, Alike, InUpdate, OnLevel
  <2> QED
    BY <1>1, <2>2, <2>3, <2>4, SearchInv DEF L, Searching
<1>4. ASSUME NEW p \in DOMAIN node, Local(u, Follow(L, p)), zeroLevel <= L.h PROVE Inv'
  <2> DEFINE M == Follow(L, p)
  <2>1. node' = node /\ zeroLevel' = zeroLevel /\ l' = [l EXCEPT ![u] = M] /\ UNCHANGED <<todo, plan>>
    BY <1>4 DEF Local, Do, client
  <2>2. DOMAIN M = Fields /\ Place(M) \in Searching /\ FindOK(node, zeroLevel, M)
    BY <1>0, <1>1, <1>4, FollowOK
  <2> HIDE DEF M
  <2>3. LocalStep(u, M)
    BY <1>0, <2>1, <2>2 DEF LocalStep
  <2> QED
    BY <1>1, <2>2, <2>3, SearchInv
<1>5. CASE FindRead(u)
  BY <1>1, <1>4, <1>5 DEF FindRead, At
<1>6. CASE FindCompare(u)
  <2>0. L.pc = "f_cmp" /\ node[L.succ].key \in Int /\ L.key \in Int /\ L.succ \in DOMAIN node /\ zeroLevel <= L.h
    BY <1>0, <1>1, <1>6, NodeTypes, KeysAssumption DEF FindCompare, At
  <2>1. CASE L.key > node[L.succ].key
    <3>1. Local(u, Follow(L, L.succ))
      BY <1>6, <2>0, <2>1 DEF FindCompare
    <3> QED
      BY <1>4, <2>0, <3>1
  <2>2. CASE L.key = node[L.succ].key
    <3> DEFINE M == [L EXCEPT !.pc = "found"]
    <3>1. Local(u, M)
      BY <1>6, <2>0, <2>2 DEF FindCompare
    <3>2. Alike(L, M) /\ M.pc = "found" /\ Place(M) = "found"
      BY <1>0, GotoAlike DEF Place
    <3> HIDE DEF M
    <3>3. LocalStep(u, M)
      BY <1>0, <3>1, <3>2 DEF LocalStep, Alike, Local, Do, client
    <3> HIDE DEF L
    <3>4. FindOK(node, zeroLevel, M)
      BY <1>0, <1>1, <2>0, <2>2, <3>2 DEF FindOK, Alike, InUpdate, OnLevel
    <3> QED
      BY <1>1, <3>2, <3>3, <3>4, SearchInv DEF L, Searching
  <2>3. CASE L.key < node[L.succ].key
    <3> DEFINE M == [L EXCEPT !.pc = "f_level", !.h = L.h - 1]
    <3>1. Local(u, M)
      BY <1>6, <2>0, <2>3 DEF FindCompare
    <3>2. /\ DOMAIN M = Fields /\ M.pc = "f_level" /\ M.h = L.h - 1 /\ M.key = L.key /\ M.pred = L.pred
          /\ M.inserting = L.inserting /\ M.acquired = L.acquired /\ M.ok = L.ok
      BY <1>0 DEF Fields
    <3> HIDE DEF M
    <3>3. LocalStep(u, M)
      BY <1>0, <3>1, <3>2 DEF LocalStep, Local, Do, client
    <3> HIDE DEF L
    <3>4. FindOK(node, zeroLevel, M) /\ Place(M) \in Searching
      BY <1>0, <1>1, <2>0, <3>2, SizeAssumption DEF FindOK, InUpdate, OnLevel, Place, Searching
    <3> QED
      BY <1>1, <3>3, <3>4, SearchInv DEF L
  <2> QED
    BY <2>0, <2>1, <2>2, <2>3
<1> QED
  BY <1>2, <1>3, <1>5, <1>6

\* A store of a value keeps the invariant: no walk looks at it.
LEMMA StoreInv ==
  ASSUME Inv, NEW u \in Threads, NEW v, NEW r, Store(u, v, r), l[u].pc = "after"
  PROVE  Inv'
<1> DEFINE M == [l[u] EXCEPT !.pc = "swapped"]
           s == l[u].succ
<1>1. /\ DOMAIN l = Threads /\ DOMAIN l[u] = Fields /\ zeroLevel' = zeroLevel /\ UNCHANGED <<todo, plan>>
      /\ l' = [l EXCEPT ![u] = M] /\ node' = [node EXCEPT ![s].value = v]
  BY Start DEF Store
<1>2. DOMAIN M = Fields /\ M.pc = "swapped" /\ Place(M) = "swapped" /\ Place(l[u]) = "after"
  BY <1>1 DEF Fields, Place
<1> HIDE DEF M, s
<1>3. Moves(u, M)
  BY <1>1, <1>2, Start DEF Moves
<1>4. FindOK(node', zeroLevel, M)
  BY <1>2 DEF FindOK, InUpdate, OnLevel
<1>5. \A n \in DOMAIN node : NodeOK(node, zeroLevel, n)
  BY DEF Inv, ListInv, NodesOK
<1>6. \A n \in DOMAIN node : \A f \in NodeFields \ {"value"} : node'[n][f] = node[n][f]
  BY <1>1, <1>5 DEF NodeOK
<1>7. DOMAIN node' = DOMAIN node /\ \A n \in DOMAIN node : DOMAIN node'[n] = NodeFields
  BY <1>1, <1>5 DEF NodeOK
<1>8. Touched(node, node', u)
  BY <1>5, <1>6, <1>7 DEF Touched, NodeOK, NodeFields
<1>9. \A n \in DOMAIN node : node'[n].lock # u
  <2>1. \A n \in DOMAIN node : node'[n].lock = node[n].lock
    BY <1>6 DEF NodeFields
  <2> QED
    BY <1>2, <2>1, HeldAt DEF Inv, LockInv, Nodes
<1> QED
  BY <1>1, <1>2, <1>3, <1>4, <1>8, <1>9, TouchInv, WalkAt DEF Searching

\* The calls after their search keep the invariant.
LEMMA CallInv ==
  ASSUME Inv, NEW u \in Threads,
         \/ Found(u) \/ Miss(u) \/ Answer(u) \/ Revive(u) \/ Remove(u) \/ Swapped(u) \/ Reread(u)
         \/ UpdateReturn(u)
  PROVE  Inv'
<1> DEFINE L == l[u]
<1>0. /\ DOMAIN L = Fields /\ FindOK(node, zeroLevel, L)
      /\ L.pc \in {"found", "miss", "after", "swapped", "reread", "u_return"}
      /\ todo \in Seq(Keys) /\ plan \in [Workers -> Seq(SUBSET (Operations \X Keys))]
  BY Start DEF WalkOK, Found, Miss, Answer, Revive, Remove, Swapped, Reread, UpdateReturn, At
<1>1. Place(L) \in Searching
  BY <1>0 DEF Place, Searching
<1>2. ASSUME NEW M, l' = [l EXCEPT ![u] = M], UNCHANGED <<node, zeroLevel, todo, plan>>, DOMAIN M = Fields,
             M.pc \in {"after", "reread"}
      PROVE  Inv'
  <2>1. LocalStep(u, M)
    BY <1>0, <1>2 DEF LocalStep
  <2>2. FindOK(node, zeroLevel, M) /\ Place(M) \in Searching
    BY <1>2 DEF FindOK, InUpdate, OnLevel, Place, Searching
  <2> QED
    BY <1>1, <2>1, <2>2, SearchInv
<1>3. ASSUME NEW r, Return(u, r) PROVE Inv'
  BY <1>1, <1>3, ReturnInv
<1>4. ASSUME Goto(u, "reread") PROVE Inv'
  <2>1. l' = [l EXCEPT ![u] = [L EXCEPT !.pc = "reread"]] /\ UNCHANGED <<node, zeroLevel, todo, plan>>
    BY <1>4 DEF Goto, Local, Do, client
  <2>2. DOMAIN [L EXCEPT !.pc = "reread"] = Fields /\ [L EXCEPT !.pc = "reread"].pc = "reread"
    BY <1>0 DEF Fields
  <2> QED
    BY <1>2, <2>1, <2>2
<1>5. CASE Found(u)
  <2> DEFINE p == IF update_counter[u] + 1 = UPDATE_NUM THEN "u_enter" ELSE "after"
             w == node[L.succ].value
             M == [L EXCEPT !.v = w, !.pc = p]
  <2>1. /\ l' = [l EXCEPT ![u] = M] /\ UNCHANGED <<node, zeroLevel, todo, plan>> /\ L.pc = "found"
    BY <1>5 DEF Found, list, client, At
  <2>2. p \in {"u_enter", "after"}
    OBVIOUS
  <2> HIDE DEF p, w
  <2>3. /\ DOMAIN M = Fields /\ M.pc = p /\ M.succ = L.succ /\ M.key = L.key
        /\ M.acquired = L.acquired /\ M.ok = L.ok
    BY <1>0 DEF Fields
  <2>4. L.succ \in DOMAIN node /\ node[L.succ].key = L.key /\ L.key \in Keys /\ ~L.acquired /\ ~L.ok
    BY <1>0, <2>1 DEF FindOK
  <2> HIDE DEF M
  <2>5. FindOK(node, zeroLevel, M) /\ Place(M) \in Searching
    BY <2>2, <2>3, <2>4 DEF FindOK, InUpdate, OnLevel, Place, Searching
  <2>6. LocalStep(u, M)
    BY <1>0, <2>1, <2>3 DEF LocalStep
  <2> QED
    BY <1>1, <2>5, <2>6, SearchInv
<1>6. CASE Miss(u)
  <2>1. CASE L.op = "insertIfAbsent"
    <3> DEFINE M == [L EXCEPT !.pc = "u_enter", !.inserting = TRUE]
    <3>1. /\ l' = [l EXCEPT ![u] = M] /\ UNCHANGED <<node, zeroLevel, todo, plan>> /\ L.pc = "miss"
      BY <1>6, <2>1 DEF Miss, Local, Do, client, At
    <3>2. /\ DOMAIN M = Fields /\ M.pc = "u_enter" /\ M.inserting /\ M.key = L.key
          /\ M.acquired = L.acquired /\ M.ok = L.ok
      BY <1>0 DEF Fields
    <3>3. L.key \in Keys /\ ~L.acquired /\ ~L.ok
      BY <1>0, <3>1 DEF FindOK
    <3> HIDE DEF M
    <3>4. FindOK(node, zeroLevel, M) /\ Place(M) \in Searching
      BY <3>2, <3>3 DEF FindOK, InUpdate, OnLevel, Place, Searching
    <3>5. LocalStep(u, M)
      BY <1>0, <3>1, <3>2 DEF LocalStep
    <3> QED
      BY <1>1, <3>4, <3>5, SearchInv
  <2>2. CASE L.op # "insertIfAbsent"
    BY <1>3, <1>6, <2>2 DEF Miss
  <2> QED
    BY <2>1, <2>2
<1>7. CASE Answer(u)
  BY <1>3, <1>7 DEF Answer
<1>8. CASE Revive(u)
  BY <1>3, <1>4, <1>8, StoreInv DEF Revive, At
<1>9. CASE Remove(u)
  BY <1>3, <1>4, <1>9, StoreInv DEF Remove, At
<1>10. CASE Swapped(u)
  BY <1>3, <1>10 DEF Swapped
<1>11. CASE Reread(u)
  <2> DEFINE w == node[L.succ].value
  <2>1. l' = [l EXCEPT ![u] = [L EXCEPT !.v = w, !.pc = "after"]] /\ UNCHANGED <<node, zeroLevel, todo, plan>>
    BY <1>11 DEF Reread, Local, Do, client
  <2> HIDE DEF w
  <2>2. DOMAIN [L EXCEPT !.v = w, !.pc = "after"] = Fields /\ [L EXCEPT !.v = w, !.pc = "after"].pc = "after"
    BY <1>0 DEF Fields
  <2> QED
    BY <1>2, <2>1, <2>2
<1>12. CASE UpdateReturn(u)
  <2>1. CASE L.inserting
    BY <1>3, <1>12, <2>1 DEF UpdateReturn
  <2>2. CASE ~L.inserting
    <3> DEFINE M == [Locals EXCEPT !.pc = "after", !.op = L.op, !.key = L.key, !.v = L.v, !.succ = L.succ]
    <3>1. l' = [l EXCEPT ![u] = M] /\ UNCHANGED <<node, zeroLevel, todo, plan>>
      BY <1>12, <2>2 DEF UpdateReturn, list, client
    <3>2. DOMAIN M = Fields /\ M.pc = "after"
      BY DEF Locals, Fields
    <3> QED
      BY <1>2, <3>1, <3>2
  <2> QED
    BY <2>1, <2>2
<1> QED
  BY <1>5, <1>6, <1>7, <1>8, <1>9, <1>10, <1>11, <1>12

-----------------------------------------------------------------------------
(* What a walk relies on, after a step of its own *)

\* The lists are as before, but for columns that reach further down.
Calm(nd, nd2) ==
  /\ DOMAIN nd2 = DOMAIN nd
  /\ \A n \in DOMAIN nd :
       /\ nd2[n].key = nd[n].key /\ nd2[n].topLevel = nd[n].topLevel
       /\ nd2[n].zeroLevel \in Int /\ nd2[n].zeroLevel <= nd[n].zeroLevel
       /\ \A i \in Levels : nd[n].zeroLevel <= i => nd2[n].next[i] = nd[n].next[i]

\* A node has the same next node, with the same key, on a level.
SameNext(nd, nd2, n, i) == nd2[n].next[i] = nd[n].next[i] /\ nd2[nd[n].next[i]].key = nd[nd[n].next[i]].key

\* The locks a walk gives up apart, what it relies on is as before.
LEMMA CalmKept ==
  ASSUME NEW nd, NEW nd2, NEW off, NEW z \in Int, 0 <= z, NEW u, NEW L,
         NodesOK(nd, z), Lists(nd, off, z), Calm(nd, nd2), Zone(nd, off, z, u, L)
  PROVE  /\ nd2[L.predpred].lock = u => Zone(nd2, off, z, u, L)
         /\ PredOK(nd, off, L) => PredOK(nd2, off, L) /\ SameNext(nd, nd2, L.pred, L.h)
         /\ PredOK(nd, off, L) /\ CurOK(nd, off, L) =>
              /\ CurOK(nd2, off, L)
              /\ nd[L.cur].zeroLevel <= L.h => nd2[L.cur].zeroLevel <= L.h /\ SameNext(nd, nd2, L.cur, L.h)
<1>0. /\ L.predpred \in DOMAIN nd \ {tail} /\ nd[L.predpred].lock = u
      /\ L.h \in Int /\ z <= L.h /\ L.h < MAX_LEVEL
      /\ On(nd, off, L.predpred, L.h + 1) /\ nd[L.predpred].zeroLevel <= L.h
      /\ L.key \in Keys /\ nd[L.predpred].key <= L.key /\ L.key < nd[nd[L.predpred].next[L.h + 1]].key
  BY DEF Zone, Anchor
<1>1. \A n \in DOMAIN nd : nd[n].zeroLevel \in Int /\ nd2[n].zeroLevel \in Int
  BY NodeTypes DEF Calm
<1>2. L.h + 1 \in Int /\ L.h + 1 <= MAX_LEVEL /\ z <= L.h + 1 /\ nd[L.predpred].zeroLevel <= L.h + 1
  BY <1>0, <1>1, SizeAssumption
<1>3. nd[L.predpred].next[L.h + 1] \in DOMAIN nd /\ L.h + 1 \in Levels
  BY <1>0, <1>2, NextOn
<1>4. nd2[L.predpred].next[L.h + 1] = nd[L.predpred].next[L.h + 1]
  BY <1>0, <1>2, <1>3 DEF Calm
<1>5. ASSUME nd2[L.predpred].lock = u PROVE Zone(nd2, off, z, u, L)
  <2>1. nd2[nd2[L.predpred].next[L.h + 1]].key = nd[nd[L.predpred].next[L.h + 1]].key
    BY <1>3, <1>4 DEF Calm
  <2>2. nd2[L.predpred].key = nd[L.predpred].key /\ nd2[L.predpred].zeroLevel <= L.h
    BY <1>0, <1>1 DEF Calm
  <2>3. On(nd2, off, L.predpred, L.h + 1) /\ L.predpred \in DOMAIN nd2
    BY <1>0 DEF Calm, On
  <2> QED
    BY <1>0, <1>5, <2>1, <2>2, <2>3 DEF Zone, Anchor
<1>6. ASSUME NEW n \in DOMAIN nd \ {tail}, On(nd, off, n, L.h)
      PROVE  /\ On(nd2, off, n, L.h) /\ n \in DOMAIN nd2 /\ nd2[n].key = nd[n].key
             /\ nd[n].zeroLevel <= L.h =>
                  /\ nd2[n].zeroLevel <= L.h /\ nd2[n].next[L.h] = nd[n].next[L.h]
                  /\ nd2[nd[n].next[L.h]].key = nd[nd[n].next[L.h]].key
  <2>1. On(nd2, off, n, L.h) /\ n \in DOMAIN nd2 /\ nd2[n].key = nd[n].key
    BY <1>6 DEF On, Calm
  <2>2. ASSUME nd[n].zeroLevel <= L.h
        PROVE  /\ nd2[n].zeroLevel <= L.h /\ nd2[n].next[L.h] = nd[n].next[L.h]
               /\ nd2[nd[n].next[L.h]].key = nd[nd[n].next[L.h]].key
    <3>1. L.h <= MAX_LEVEL
      BY <1>0, SizeAssumption
    <3>2. nd[n].next[L.h] \in DOMAIN nd /\ L.h \in Levels
      BY <1>0, <1>6, <2>2, <3>1, NextOn
    <3> QED
      BY <1>0, <1>1, <2>2, <3>2 DEF Calm
  <2> QED
    BY <2>1, <2>2
<1>7. nd2[L.predpred].key = nd[L.predpred].key
  BY <1>0 DEF Calm
<1>8. ASSUME PredOK(nd, off, L)
      PROVE  /\ PredOK(nd2, off, L) /\ SameNext(nd, nd2, L.pred, L.h)
             /\ nd2[L.pred].key = nd[L.pred].key
  BY <1>6, <1>7, <1>8, Zenon DEF PredOK, SameNext
<1>9. ASSUME PredOK(nd, off, L), CurOK(nd, off, L)
      PROVE  /\ CurOK(nd2, off, L)
             /\ nd[L.cur].zeroLevel <= L.h => nd2[L.cur].zeroLevel <= L.h /\ SameNext(nd, nd2, L.cur, L.h)
  BY <1>6, <1>8, <1>9, Zenon DEF CurOK, SameNext
<1> QED
  BY <1>5, <1>8, <1>9, Zenon

\* A walk is as far as it was, whatever else changes.
LEMMA ReachedKept ==
  ASSUME NEW nd, NEW nd2, NEW t, NEW L, NEW M, Reached(nd, t, L), SameNext(nd, nd2, L.cur, L.h),
         nd2[L.cur].lock = nd[L.cur].lock, nd2[L.cur].key = nd[L.cur].key,
         M.cur = L.cur, M.h = L.h, M.key = L.key, M.acquired = L.acquired, M.ok = L.ok
  PROVE  Reached(nd2, t, M)
  BY Zenon DEF Reached, SameNext

\* A walk that keeps the lock of its zone goes on from where it is.
LEMMA PredCalm ==
  ASSUME NEW nd, NEW nd2, NEW off, NEW z \in Int, 0 <= z, NEW u, NEW L,
         NodesOK(nd, z), Lists(nd, off, z), Calm(nd, nd2), Zone(nd, off, z, u, L), PredOK(nd, off, L),
         nd2[L.predpred].lock = u
  PROVE  /\ Zone(nd2, off, z, u, L) /\ PredOK(nd2, off, L) /\ SameNext(nd, nd2, L.pred, L.h)
         /\ CurOK(nd, off, L) =>
              CurOK(nd2, off, L) /\ (nd[L.cur].zeroLevel <= L.h => nd2[L.cur].zeroLevel <= L.h)
  BY CalmKept, Zenon
LEMMA WalkingCalm ==
  ASSUME NEW nd, NEW nd2, NEW off, NEW z \in Int, 0 <= z, NEW u, NEW L,
         NodesOK(nd, z), Lists(nd, off, z), Calm(nd, nd2), Walking(nd, off, z, u, L),
         nd2[L.predpred].lock = u
  PROVE  /\ Walking(nd2, off, z, u, L)
         /\ SameNext(nd, nd2, L.pred, L.h) /\ SameNext(nd, nd2, L.cur, L.h)
<1>1. /\ Zone(nd, off, z, u, L) /\ PredOK(nd, off, L) /\ CurOK(nd, off, L)
      /\ nd[L.cur].zeroLevel <= L.h
  BY Zenon DEF Walking
<1>2. /\ Zone(nd2, off, z, u, L) /\ PredOK(nd2, off, L) /\ SameNext(nd, nd2, L.pred, L.h)
      /\ CurOK(nd2, off, L) /\ nd2[L.cur].zeroLevel <= L.h
  BY <1>1, PredCalm, Zenon
<1>3. SameNext(nd, nd2, L.cur, L.h)
  BY <1>1, CalmKept, Zenon
<1> QED
  BY <1>2, <1>3, Zenon DEF Walking

\* Nodes whose locks and counters have changed are in such lists.
LEMMA TouchedCalm ==
  ASSUME NEW nd, NEW nd2, NEW z \in Int, NEW u, NodesOK(nd, z), Touched(nd, nd2, u)
  PROVE  Calm(nd, nd2)
  BY NodeTypes DEF Touched, Calm

\* A node that is off its top level is locked, and neither head nor tail.
LEMMA OffFacts ==
  ASSUME Inv, NEW n, NEW i, <<n, i>> \in Off
  PROVE  /\ n \in DOMAIN node \ {head, tail} /\ node[n].topLevel = i /\ node[n].zeroLevel < i
         /\ i \in Int /\ zeroLevel <= i /\ i < MAX_LEVEL
         /\ \E t \in Threads : /\ node[n].lock = t /\ l[t].pc \in {"d_null", "d_top"}
                               /\ l[t].cur = n /\ l[t].h = i
<1>1. PICK t \in Threads : l[t].pc \in {"d_null", "d_top"} /\ <<n, i>> = <<l[t].cur, l[t].h>>
  BY DEF Off
<1>2. l[t].cur = n /\ l[t].h = i
  BY <1>1
<1>3. Demoted(node, Off, zeroLevel, t, l[t])
  BY <1>1, Start DEF WalkOK, DemoteOK
<1> QED
  BY <1>1, <1>2, <1>3, Zenon DEF Demoted, Zone, Anchor

\* Every node is on the bottom level and below its top.
LEMMA OnLevels ==
  ASSUME Inv, NEW n \in DOMAIN node
  PROVE  /\ On(node, Off, n, zeroLevel) /\ <<n, zeroLevel - 1>> \notin Off
         /\ \A i \in Int : i < node[n].topLevel => On(node, Off, n, i)
         /\ \A i \in Int : i <= node[n].topLevel /\ node[n].lock = Nobody => On(node, Off, n, i)
         /\ \A u \in Threads, i \in Int :
              i <= node[n].topLevel /\ node[n].lock = u /\ l[u].pc \notin {"d_null", "d_top"} => On(node, Off, n, i)
         /\ minKey <= node[n].key /\ node[n].key <= maxKey
<1>0. /\ zeroLevel \in Int /\ NodesOK(node, zeroLevel) /\ node[n].topLevel \in Int /\ node[n].zeroLevel \in Int
      /\ zeroLevel <= node[n].zeroLevel /\ node[n].zeroLevel <= node[n].topLevel
  BY Start, NodeTypes DEF Inv, ListInv
<1>1. On(node, Off, n, zeroLevel) /\ <<n, zeroLevel - 1>> \notin Off
  <2>1. <<n, zeroLevel>> \notin Off
    BY <1>0, OffFacts
  <2>2. <<n, zeroLevel - 1>> \notin Off
    BY <1>0, OffFacts
  <2> QED
    BY <1>0, <2>1, <2>2 DEF On
<1>2. \A i \in Int : i < node[n].topLevel => On(node, Off, n, i)
  BY <1>0, OffFacts DEF On
<1>3. Nobody \notin Threads
  BY SizeAssumption DEF Threads, Workers, Main, Nobody
<1>4. \A i \in Int : i <= node[n].topLevel /\ node[n].lock = Nobody => On(node, Off, n, i)
  BY <1>0, <1>3, OffFacts DEF On
<1>5. \A u \in Threads, i \in Int :
        i <= node[n].topLevel /\ node[n].lock = u /\ l[u].pc \notin {"d_null", "d_top"} => On(node, Off, n, i)
  BY <1>0, OffFacts DEF On
<1>6. minKey <= node[n].key /\ node[n].key <= maxKey
  <2>1. CASE n \in {head, tail}
    BY <1>0, <2>1, KeysAssumption DEF NodesOK
  <2>2. CASE n \notin {head, tail}
    <3>1. node[n].key \in Keys
      BY <1>0, <2>2 DEF NodesOK
    <3>2. node[n].key \in Int /\ minKey < node[n].key /\ node[n].key < maxKey /\ minKey \in Int /\ maxKey \in Int
      BY <3>1, KeysAssumption
    <3> QED
      BY <3>2
  <2> QED
    BY <2>1, <2>2
<1> QED
  BY <1>1, <1>2, <1>4, <1>5, <1>6

-----------------------------------------------------------------------------
(* The steps of a walk that take and release locks and count *)

\* A step that changes the lock and the counters of the node n.
Retouched(nd, n, R, u) ==
  /\ n \in DOMAIN nd /\ nd[n].lock \in {u, Nobody} /\ R.lock \in {u, Nobody} /\ DOMAIN R = NodeFields
  /\ R.key = nd[n].key /\ R.zeroLevel = nd[n].zeroLevel /\ R.topLevel = nd[n].topLevel
  /\ R.next = nd[n].next /\ R.selfhits \in Int /\ R.hits \in [Levels -> Int]

\* nd2 is nd with R in the place of the node n.
Replaced(nd, nd2, n, R) ==
  DOMAIN nd2 = DOMAIN nd /\ nd2[n] = R /\ \A m \in DOMAIN nd \ {n} : nd2[m] = nd[m]

\* Replacing the lock and the counters of one node touches that node only.
LEMMA OneTouched ==
  ASSUME NEW nd, NEW nd2, NEW z, NEW u, NEW n, NEW R, NodesOK(nd, z), Retouched(nd, n, R, u),
         Replaced(nd, nd2, n, R)
  PROVE  Touched(nd, nd2, u)
<1>1. \A m \in DOMAIN nd : NodeOK(nd, z, m)
  BY DEF NodesOK
<1> QED
  BY <1>1 DEF Retouched, Touched, NodeOK, Replaced

\* The head leads to the tail on the highest level.
LEMMA TopLevel ==
  ASSUME Inv
  PROVE  /\ On(node, Off, head, MAX_LEVEL) /\ node[head].zeroLevel <= MAX_LEVEL
         /\ node[head].next[MAX_LEVEL] = tail
<1>0. /\ zeroLevel \in Int /\ 0 <= zeroLevel /\ zeroLevel < MAX_LEVEL /\ MAX_LEVEL \in Int
      /\ NodesOK(node, zeroLevel) /\ Lists(node, Off, zeroLevel)
  BY SizeAssumption DEF Inv, ListInv
<1>1. head \in DOMAIN node \ {tail} /\ head # tail
  BY <1>0, NodeTypes
<1>2. \A n \in DOMAIN node : NodeOK(node, zeroLevel, n)
  BY <1>0 DEF NodesOK
<1>3. node[head].zeroLevel <= MAX_LEVEL /\ node[head].topLevel = MAX_LEVEL
  BY <1>1, <1>2 DEF NodeOK
<1>4. On(node, Off, head, MAX_LEVEL)
  BY <1>3, <1>0, OffFacts DEF On
<1>5. Follows(node, Off, head, node[head].next[MAX_LEVEL], MAX_LEVEL)
  BY <1>0, <1>1, <1>3, <1>4, NextOn
<1> DEFINE m == node[head].next[MAX_LEVEL]
<1>6. m \in DOMAIN node /\ node[m].topLevel >= MAX_LEVEL /\ node[head].key < node[m].key
  BY <1>5 DEF Follows, On
<1> HIDE DEF m
<1>7. m \in {head, tail}
  BY <1>0, <1>2, <1>6 DEF NodeOK
<1>8. m # head
  BY <1>0, <1>1, <1>6, NodeTypes
<1> QED
  BY <1>3, <1>4, <1>7, <1>8 DEF m

\* update locks the head and counts the access there.
LEMMA UpdateEnterInv ==
  ASSUME Inv, NEW u \in Threads, UpdateEnter(u)
  PROVE  Inv'
<1> DEFINE L == l[u]
           R == [node[head] EXCEPT !.lock = u, !.hits[MAX_LEVEL] = @ + 1]
           M == [L EXCEPT !.pc = "u_level", !.curAccess = accessCounter', !.pred = head, !.h = MAX_LEVEL - 1]
<1>0. /\ DOMAIN l = Threads /\ DOMAIN L = Fields /\ zeroLevel \in Int /\ 0 <= zeroLevel /\ zeroLevel < MAX_LEVEL
      /\ MAX_LEVEL \in Int /\ MAX_LEVEL > 1
      /\ NodesOK(node, zeroLevel) /\ WalkOK(node, Off, zeroLevel, u, L)
      /\ todo \in Seq(Keys) /\ plan \in [Workers -> Seq(SUBSET (Operations \X Keys))]
  BY Start
<1>1. L.pc = "u_enter" /\ node[head].lock = Nobody /\ zeroLevel' = zeroLevel /\ UNCHANGED <<todo, plan>>
  BY DEF UpdateEnter, At, Free, client
<1>2. head \in DOMAIN node /\ tail \in DOMAIN node /\ head # tail /\ NodeOK(node, zeroLevel, head)
  BY <1>0, NodeTypes DEF NodesOK
<1>3. Replaced(node, node', head, R)
  BY <1>2 DEF UpdateEnter, Replaced
<1>4. l' = [l EXCEPT ![u] = M]
  BY <1>0 DEF UpdateEnter
<1>5. /\ DOMAIN M = Fields /\ M.pc = "u_level" /\ M.pred = head /\ M.h = MAX_LEVEL - 1 /\ M.key = L.key
      /\ M.inserting = L.inserting /\ M.acquired = L.acquired /\ M.ok = L.ok /\ M.succ = L.succ
  BY <1>0 DEF Fields
<1>6. MAX_LEVEL \in Levels /\ node[head].hits[MAX_LEVEL] + 1 \in Int /\ node[head].selfhits \in Int
  BY <1>0, <1>2, SMTT(30) DEF NodeOK, Levels
<1>7. Retouched(node, head, R, u) /\ R.lock = u
  BY <1>1, <1>2, <1>6 DEF NodeOK, NodeFields, Retouched
<1> HIDE DEF R, M, L
<1>8. Touched(node, node', u)
  BY <1>0, <1>3, <1>7, OneTouched
<1>9. Place(L) = "u_enter" /\ Place(M) = "u_level" /\ Held(L) = {} /\ Held(M) = {head}
  BY <1>1, <1>5, HeldAt DEF Place
<1>10. \A n \in DOMAIN node : node'[n].lock = u => n \in Held(M)
  BY <1>3, <1>9 DEF Inv, LockInv, Nodes, L, Replaced
<1>11. Moves(u, M)
  BY <1>0, <1>1, <1>4, <1>5 DEF Moves
<1>12. On(node, Off, head, MAX_LEVEL) /\ node[head].zeroLevel <= MAX_LEVEL /\ node[head].next[MAX_LEVEL] = tail
  BY TopLevel
<1>13. /\ DOMAIN node' = DOMAIN node /\ \A n \in DOMAIN node : node'[n].key = node[n].key
       /\ node'[head].topLevel = node[head].topLevel /\ node'[head].zeroLevel = node[head].zeroLevel
       /\ node'[head].next = node[head].next /\ node'[head].lock = u
  BY <1>2, <1>3, <1>7, <1>8 DEF Touched, Replaced
<1>14. /\ L.key \in Keys /\ ~L.acquired /\ ~L.ok
       /\ ~L.inserting => L.succ \in DOMAIN node /\ node[L.succ].key = L.key
  BY <1>0, <1>1, <1>9 DEF WalkOK, FindOK, InUpdate
<1>15. FindOK(node', zeroLevel, M)
  BY <1>5, <1>9, <1>13, <1>14 DEF FindOK, OnLevel
<1>16. node[head].key = minKey /\ node[tail].key = maxKey /\ minKey < L.key /\ L.key < maxKey
  BY <1>0, <1>14, KeysAssumption DEF NodesOK
<1>17. M.h + 1 = MAX_LEVEL /\ M.h \in Int /\ M.h < MAX_LEVEL /\ zeroLevel <= M.h
  BY <1>0, <1>5
<1>18. On(node', Off, head, MAX_LEVEL)
  BY <1>12, <1>13 DEF On
<1>19. LevelOK(node', Off, zeroLevel, u, M)
  BY <1>0, <1>2, <1>5, <1>9, <1>12, <1>13, <1>14, <1>16, <1>17, <1>18 DEF LevelOK
<1>20. WalkOK(node', Off, zeroLevel, u, M)
  BY <1>9, <1>15, <1>19, WalkAt
<1> QED
  BY <1>1, <1>5, <1>8, <1>10, <1>11, <1>20, TouchInv DEF L

\* update releases pred at its end.
LEMMA UpdateLeaveInv ==
  ASSUME Inv, NEW u \in Threads, UpdateLeave(u)
  PROVE  Inv'
<1> DEFINE L == l[u]
           R == [node[L.pred] EXCEPT !.lock = Nobody]
           M == [L EXCEPT !.pc = "u_return"]
<1>0. /\ DOMAIN l = Threads /\ DOMAIN L = Fields /\ NodesOK(node, zeroLevel) /\ WalkOK(node, Off, zeroLevel, u, L)
      /\ todo \in Seq(Keys) /\ plan \in [Workers -> Seq(SUBSET (Operations \X Keys))] /\ u # Nobody
  BY Start
<1>1. L.pc = "u_leave" /\ zeroLevel' = zeroLevel /\ UNCHANGED <<todo, plan>> /\ l' = [l EXCEPT ![u] = M]
  BY DEF UpdateLeave, At, client, Do
<1>2. L.pred \in DOMAIN node /\ node[L.pred].lock = u
  BY <1>0, <1>1 DEF WalkOK, LevelOK
<1>3. Replaced(node, node', L.pred, R)
  BY <1>2 DEF UpdateLeave, Do, Replaced
<1>4. Retouched(node, L.pred, R, u) /\ R.lock = Nobody
  <2>1. NodeOK(node, zeroLevel, L.pred)
    BY <1>0, <1>2 DEF NodesOK
  <2> QED
    BY <1>2, <2>1 DEF NodeOK, NodeFields, Retouched
<1>5. Alike(L, M) /\ M.pc = "u_return"
  BY <1>0, GotoAlike
<1> HIDE DEF R, M, L
<1>6. Touched(node, node', u)
  BY <1>0, <1>3, <1>4, OneTouched
<1>7. Place(L) = "u_leave" /\ Place(M) = "u_return" /\ Held(L) = {L.pred}
  BY <1>1, <1>5, HeldAt DEF Place
<1>8. \A n \in DOMAIN node : node'[n].lock # u
  BY <1>0, <1>3, <1>4, <1>7 DEF Inv, LockInv, Nodes, L, Replaced
<1>9. Moves(u, M)
  BY <1>0, <1>1, <1>5 DEF Moves, Alike
<1>10. WalkOK(node', Off, zeroLevel, u, M)
  BY <1>5, <1>7, WalkAt DEF Searching, FindOK, InUpdate, OnLevel
<1> QED
  BY <1>1, <1>5, <1>6, <1>8, <1>9, <1>10, TouchInv DEF L

\* The node behind n on a level that belongs to a walk.
LEMMA StepNext ==
  ASSUME Inv, NEW n \in DOMAIN node \ {tail}, NEW h \in Int, zeroLevel <= h, h < MAX_LEVEL,
         On(node, Off, n, h), node[n].zeroLevel <= h, NEW k \in Keys
  PROVE  /\ node[n].next[h] \in DOMAIN node /\ node[n].next[h] # NULL /\ h \in Levels
         /\ Follows(node, Off, n, node[n].next[h], h) /\ On(node, Off, node[n].next[h], h)
         /\ node[n].key < node[node[n].next[h]].key
         /\ node[n].key \in Int /\ k \in Int /\ node[node[n].next[h]].key \in Int
         /\ node[node[n].next[h]].zeroLevel \in Int
         /\ node[node[n].next[h]].key <= k => node[n].next[h] \notin {head, tail}
<1>0. /\ zeroLevel \in Int /\ 0 <= zeroLevel /\ h <= MAX_LEVEL
      /\ NodesOK(node, zeroLevel) /\ Lists(node, Off, zeroLevel)
  BY SizeAssumption DEF Inv, ListInv
<1> DEFINE m == node[n].next[h]
<1>1. m \in DOMAIN node /\ m # NULL /\ h \in Levels /\ Follows(node, Off, n, m, h)
  BY <1>0, NextOn
<1> HIDE DEF m
<1>2. /\ node[n].key \in Int /\ node[m].key \in Int /\ node[m].zeroLevel \in Int
      /\ node[head].key = minKey /\ node[tail].key = maxKey
  BY <1>0, <1>1, NodeTypes DEF NodesOK
<1>3. minKey \in Int /\ k \in Int /\ k < maxKey /\ maxKey \in Int
  BY KeysAssumption
<1>4. On(node, Off, m, h) /\ node[n].key < node[m].key /\ minKey <= node[n].key
  BY <1>1, OnLevels DEF Follows
<1>5. node[m].key <= k => m \notin {head, tail}
  BY <1>2, <1>3, <1>4
<1> QED
  BY <1>1, <1>2, <1>3, <1>4, <1>5 DEF m

\* What a walk on a level takes with it.
Carried(nd, z, L) ==
  /\ DOMAIN L = Fields /\ L.key \in Keys
  /\ L.h \in Int /\ z <= L.h /\ L.h < MAX_LEVEL
  /\ L.curZeroLevel \in Int /\ z <= L.curZeroLevel /\ L.curZeroLevel <= L.h
  /\ ~L.inserting => L.succ \in DOMAIN nd /\ nd[L.succ].key = L.key

\* A walk on a level of its zone has all that it carries along.
LEMMA CarriedOn ==
  ASSUME NEW nd, NEW off, NEW z, NEW u, NEW L, DOMAIN L = Fields, FindOK(nd, z, L), Place(L) \in OnLevel,
         Zone(nd, off, z, u, L)
  PROVE  Carried(nd, z, L)
  BY DEF FindOK, OnLevel, InUpdate, Zone, Anchor, Carried

\* What a walk carries along is what FindOK asks for behind the head of the loop.
LEMMA FindOnLevel ==
  ASSUME NEW nd, NEW z, NEW M, Carried(nd, z, M), Place(M) \in OnLevel,
         M.pc = "fix" => M.back \in {"u_cmp", "w_peek"} /\ M.fix = M.cur /\ M.fix \in DOMAIN nd
  PROVE  FindOK(nd, z, M)
<1>1. Place(M) \notin {"f_level", "f_read", "f_cmp"} /\ M.pc \notin {"found", "miss", "u_enter"}
  BY DEF OnLevel, Place
<1> QED
  BY <1>1 DEF FindOK, Carried

\* The head of the while loop.
LEMMA LoopOK ==
  ASSUME Inv, NEW u \in Threads, NEW L, Carried(node, zeroLevel, L),
         Zone(node, Off, zeroLevel, u, L), PredOK(node, Off, L), NEW c, c = node[L.pred].next[L.h],
         node[c].key > L.key => node[L.pred].lock = u /\ (L.ok <=> node[L.pred].key = L.key),
         node[c].key <= L.key => ~L.ok
  PROVE  /\ DOMAIN Loop(L, c) = Fields /\ WalkOK(node, Off, zeroLevel, u, Loop(L, c))
         /\ Place(Loop(L, c)) = IF node[c].key > L.key THEN "w_exit" ELSE "w_peek"
         /\ Loop(L, c).pred = L.pred /\ Loop(L, c).predpred = L.predpred /\ Loop(L, c).cur = c
         /\ Loop(L, c).pc \in {"w_exit", "w_peek", "fix"}
<1> DEFINE M == [L EXCEPT !.cur = c, !.acquired = FALSE, !.curh = 0]
<1>0. /\ DOMAIN L = Fields /\ L.h \in Int /\ zeroLevel <= L.h /\ L.h < MAX_LEVEL /\ L.key \in Keys
  BY DEF Carried
<1>1. L.pred \in DOMAIN node \ {tail} /\ On(node, Off, L.pred, L.h) /\ node[L.pred].zeroLevel <= L.h
  BY DEF PredOK
<1>2. /\ c \in DOMAIN node /\ c # NULL /\ node[c].key \in Int /\ L.key \in Int /\ On(node, Off, c, L.h)
      /\ node[L.pred].key < node[c].key /\ node[c].zeroLevel \in Int
      /\ node[c].key <= L.key => c \notin {head, tail}
  BY <1>0, <1>1, StepNext, Zenon
<1>3. /\ DOMAIN M = Fields /\ M.cur = c /\ ~M.acquired /\ M.key = L.key /\ M.h = L.h /\ M.pred = L.pred
      /\ M.predpred = L.predpred /\ M.ok = L.ok /\ M.inserting = L.inserting /\ M.succ = L.succ
      /\ M.curZeroLevel = L.curZeroLevel
  BY <1>0 DEF Fields
<1>4. CASE node[c].key > L.key
  <2> DEFINE N == [M EXCEPT !.pc = "w_exit"]
  <2>1. Loop(L, c) = N
    <3> DEFINE k == node[c].key
    <3>1. k > L.key /\ c # NULL
      BY <1>2, <1>4, Zenon
    <3>2. ~(k <= L.key)
      <4>1. k \in Int /\ L.key \in Int
        BY <1>2, Zenon
      <4> HIDE DEF k
      <4> QED
        BY <3>1, <4>1
    <3> QED
      BY <3>1, <3>2, Zenon DEF Loop
  <2> HIDE DEF M
  <2>2. Alike(M, N) /\ N.pc = "w_exit" /\ Place(N) = "w_exit"
    BY <1>3, GotoAlike DEF Place
  <2> HIDE DEF N
  <2>3. Carried(node, zeroLevel, N)
    BY <1>3, <2>2 DEF Carried, Alike
  <2>4. FindOK(node, zeroLevel, N)
    BY <2>2, <2>3, FindOnLevel DEF OnLevel
  <2>5. Zone(node, Off, zeroLevel, u, N) /\ PredOK(node, Off, N)
    BY <1>3, <2>2 DEF Alike, Zone, PredOK
  <2>6. L.key < node[node[L.pred].next[L.h]].key
    BY <1>2, <1>4
  <2>7. StepsOK(node, Off, zeroLevel, u, N)
    BY <1>3, <1>4, <2>2, <2>5, <2>6 DEF StepsOK, Alike
  <2> QED
    BY <1>3, <1>4, <2>1, <2>2, <2>4, <2>7, WalkAt DEF Alike
<1>5. CASE ~(node[c].key > L.key)
  <2> DEFINE N == Via(M, c, "w_peek")
  <2>0. node[c].key <= L.key
    BY <1>2, <1>5
  <2>1. Loop(L, c) = N
    BY <1>2, <1>5, <2>0 DEF Loop
  <2> HIDE DEF M
  <2>2. /\ Alike(M, N) /\ Place(N) = "w_peek" /\ (N.pc = "fix" => N.fix = c /\ N.back = "w_peek")
        /\ N.pc # "fix" => N.pc = "w_peek" /\ node[c].zeroLevel <= L.h
    <3>1. DOMAIN M = Fields /\ M.h \in Int /\ M.h = L.h /\ node[c].zeroLevel \in Int /\ "w_peek" \in {"w_peek"}
      BY <1>0, <1>2, <1>3, Zenon
    <3> QED
      BY <3>1, ViaAlike
  <2> HIDE DEF N
  <2>3. Carried(node, zeroLevel, N)
    BY <1>3, <2>2 DEF Carried, Alike
  <2>4. FindOK(node, zeroLevel, N)
    BY <1>2, <1>3, <2>2, <2>3, FindOnLevel, Zenon DEF OnLevel, Alike
  <2>5. Zone(node, Off, zeroLevel, u, N) /\ PredOK(node, Off, N)
    BY <1>3, <2>2 DEF Alike, Zone, PredOK
  <2>6. CurOK(node, Off, N)
    BY <1>2, <1>3, <2>0, <2>2, Zenon DEF Alike, CurOK
  <2>7. StepsOK(node, Off, zeroLevel, u, N)
    BY <1>3, <2>0, <2>2, <2>5, <2>6 DEF StepsOK, Alike
  <2> QED
    BY <1>3, <1>5, <2>1, <2>2, <2>4, <2>7, WalkAt DEF Alike
<1> QED
  BY <1>4, <1>5, Zenon

\* The steps along a level that change no node.
LEMMA WalkStepInv ==
  ASSUME Inv, NEW u \in Threads, WalkStep(u) \/ DemoteNext(u)
  PROVE  Inv'
<1>0. /\ DOMAIN l[u] = Fields /\ WalkOK(node, Off, zeroLevel, u, l[u])
      /\ todo \in Seq(Keys) /\ plan \in [Workers -> Seq(SUBSET (Operations \X Keys))]
  BY Start
<1>1. ASSUME NEW M, Local(u, M), DOMAIN M = Fields, WalkOK(node, Off, zeroLevel, u, M),
             M.pc \in {"w_exit", "w_peek", "fix"}, l[u].pc \in {"w_step", "d_next"}, Held(l[u]) \subseteq Held(M)
      PROVE  Inv'
  <2>1. Moves(u, M) /\ zeroLevel' = zeroLevel /\ node' = node
    BY <1>0, <1>1 DEF Moves, Local, Do, client
  <2> QED
    BY <1>1, <2>1, QuietInv
<1>2. CASE WalkStep(u)
  <2> DEFINE L == l[u]
             K == [L EXCEPT !.pred = L.cur]
             c == node[L.cur].next[L.h]
  <2>1. L.pc = "w_step" /\ Local(u, Loop(K, c)) /\ Place(L) = "w_step"
    BY <1>2 DEF WalkStep, At, Place
  <2>2. Walking(node, Off, zeroLevel, u, L) /\ Reached(node, u, L)
    BY <1>0, <2>1 DEF WalkOK, StepsOK
  <2>3. Carried(node, zeroLevel, L)
    BY <1>0, <2>1, <2>2, CarriedOn DEF Walking, WalkOK, OnLevel
  <2>4. /\ DOMAIN K = Fields /\ K.pred = L.cur /\ K.predpred = L.predpred /\ K.h = L.h /\ K.key = L.key
        /\ K.ok = L.ok /\ K.inserting = L.inserting /\ K.succ = L.succ /\ K.curZeroLevel = L.curZeroLevel
    BY <1>0 DEF Fields
  <2>5. /\ L.acquired => node[L.cur].lock = u /\ L.key < node[c].key /\ (L.ok <=> node[L.cur].key = L.key)
        /\ ~L.acquired => node[c].key <= L.key /\ ~L.ok
    BY <2>2, Zenon DEF Reached
  <2>6. /\ L.cur \in DOMAIN node \ {tail} /\ On(node, Off, L.cur, L.h) /\ node[L.cur].zeroLevel <= L.h
        /\ node[L.pred].key < node[L.cur].key /\ node[L.cur].key <= L.key
        /\ node[L.predpred].key <= node[L.pred].key /\ L.predpred \in DOMAIN node /\ L.pred \in DOMAIN node
    BY <2>2 DEF Walking, CurOK, PredOK, Zone, Anchor
  <2>7. /\ node[c].key \in Int /\ L.key \in Int /\ node[L.predpred].key \in Int /\ node[L.pred].key \in Int
        /\ node[L.cur].key \in Int
    BY <2>3, <2>6, StepNext, NodeTypes, Zenon DEF Carried, Inv, ListInv
  <2> HIDE DEF K, c, L
  <2>8. Carried(node, zeroLevel, K)
    BY <2>3, <2>4 DEF Carried
  <2>9. Zone(node, Off, zeroLevel, u, K) /\ PredOK(node, Off, K)
    BY <2>2, <2>4, <2>6, <2>7 DEF Walking, Zone, PredOK
  <2>10. /\ c = node[K.pred].next[K.h] /\ (node[c].key <= K.key => ~K.ok)
         /\ node[c].key > K.key => node[K.pred].lock = u /\ (K.ok <=> node[K.pred].key = K.key)
    BY <2>4, <2>5, <2>7 DEF c
  <2>11. /\ DOMAIN Loop(K, c) = Fields /\ WalkOK(node, Off, zeroLevel, u, Loop(K, c))
         /\ Place(Loop(K, c)) = IF node[c].key > K.key THEN "w_exit" ELSE "w_peek"
         /\ Loop(K, c).pred = K.pred /\ Loop(K, c).predpred = K.predpred /\ Loop(K, c).cur = c
         /\ Loop(K, c).pc \in {"w_exit", "w_peek", "fix"}
    BY <2>8, <2>9, <2>10, LoopOK
  <2> DEFINE M == Loop(K, c)
  <2> HIDE DEF M
  <2>12. Held(L) = {L.predpred} \cup (IF L.acquired THEN {L.cur} ELSE {})
    BY <2>1, HeldAt
  <2>13. Held(M) = IF node[c].key > K.key THEN {L.predpred, L.cur} ELSE {L.predpred}
    BY <2>4, <2>11, HeldAt DEF M
  <2>14. Held(L) \subseteq Held(M)
    BY <2>4, <2>5, <2>7, <2>12, <2>13
  <2> QED
    BY <1>1, <2>1, <2>11, <2>14 DEF M, L
<1>3. CASE DemoteNext(u)
  <2> DEFINE L == l[u]
             c == node[L.pred].next[L.h]
  <2>1. L.pc = "d_next" /\ Local(u, Loop(L, c)) /\ Place(L) = "d_next"
    BY <1>3, SMTT(30) DEF DemoteNext, At, Place
  <2>2. /\ Zone(node, Off, zeroLevel, u, L) /\ PredOK(node, Off, L) /\ ~L.ok /\ node[c].key <= L.key
    BY <1>0, <2>1, Zenon DEF WalkOK, DemoteOK
  <2>3. Carried(node, zeroLevel, L)
    <3>1. FindOK(node, zeroLevel, L) /\ Place(L) \in OnLevel /\ DOMAIN L = Fields
      BY <1>0, <2>1, Zenon DEF WalkOK, OnLevel
    <3> QED
      BY <2>2, <3>1, CarriedOn, Zenon
  <2>4. node[c].key \in Int /\ L.key \in Int
    BY <2>2, <2>3, StepNext, Zenon DEF Carried, PredOK
  <2> HIDE DEF L, c
  <2>5. c = node[L.pred].next[L.h] /\ ~(node[c].key > L.key)
    BY <2>2, <2>4 DEF c
  <2>6. /\ DOMAIN Loop(L, c) = Fields /\ WalkOK(node, Off, zeroLevel, u, Loop(L, c))
        /\ Place(Loop(L, c)) = IF node[c].key > L.key THEN "w_exit" ELSE "w_peek"
        /\ Loop(L, c).pred = L.pred /\ Loop(L, c).predpred = L.predpred /\ Loop(L, c).cur = c
        /\ Loop(L, c).pc \in {"w_exit", "w_peek", "fix"}
    BY <2>2, <2>3, <2>5, LoopOK
  <2> DEFINE M == Loop(L, c)
  <2> HIDE DEF M
  <2>7. Held(L) = {L.predpred} /\ Held(M) = {L.predpred}
    <3>1. Place(M) = "w_peek" /\ M.predpred = L.predpred
      BY <2>5, <2>6, Zenon DEF M
    <3> HIDE DEF L
    <3> QED
      BY <2>1, <3>1, HeldAt
  <2> QED
    BY <1>1, <2>1, <2>6, <2>7 DEF M, L
<1> QED
  BY <1>2, <1>3

\* The walk looks whether cur is the last node of the level that is not beyond the key.
LEMMA WalkPeekInv ==
  ASSUME Inv, NEW u \in Threads, WalkPeek(u)
  PROVE  Inv'
<1> DEFINE L == l[u]
           p == IF node[node[L.cur].next[L.h]].key > L.key THEN "w_lock" ELSE "w_test"
           M == [L EXCEPT !.pc = p]
<1>0. /\ DOMAIN L = Fields /\ WalkOK(node, Off, zeroLevel, u, L)
      /\ todo \in Seq(Keys) /\ plan \in [Workers -> Seq(SUBSET (Operations \X Keys))]
  BY Start
<1>1. /\ L.pc = "w_peek" /\ Place(L) = "w_peek" /\ node' = node /\ zeroLevel' = zeroLevel
      /\ l' = [l EXCEPT ![u] = M] /\ UNCHANGED <<todo, plan>>
  BY DEF WalkPeek, At, Place, Goto, Local, Do, client
<1>2. /\ Walking(node, Off, zeroLevel, u, L) /\ ~L.acquired /\ ~L.ok
  BY <1>0, <1>1, Zenon DEF WalkOK, StepsOK, Walking
<1>3. Carried(node, zeroLevel, L)
  <2>1. FindOK(node, zeroLevel, L) /\ Place(L) \in OnLevel /\ Zone(node, Off, zeroLevel, u, L)
    BY <1>0, <1>1, <1>2, Zenon DEF WalkOK, OnLevel, Walking
  <2> QED
    BY <1>0, <2>1, CarriedOn, Zenon
<1>4. L.key \in Int /\ node[node[L.cur].next[L.h]].key \in Int
  <2>1. /\ L.cur \in DOMAIN node \ {tail} /\ L.h \in Int /\ zeroLevel <= L.h /\ L.h < MAX_LEVEL
        /\ On(node, Off, L.cur, L.h) /\ node[L.cur].zeroLevel <= L.h /\ L.key \in Keys
    BY <1>2, Zenon DEF Walking, Zone, Anchor, CurOK
  <2> QED
    BY <2>1, StepNext, Zenon
<1>5. p = "w_lock" \/ (p = "w_test" /\ node[node[L.cur].next[L.h]].key <= L.key)
  BY <1>4
<1>6. Alike(L, M) /\ M.pc = p
  BY <1>0, GotoAlike, Zenon
<1> HIDE DEF M, p, L
<1>7. Place(M) = p
  BY <1>5, <1>6 DEF Place
<1>8. Carried(node, zeroLevel, M) /\ Walking(node, Off, zeroLevel, u, M)
  BY <1>2, <1>3, <1>6 DEF Alike, Carried, Walking, Zone, PredOK, CurOK
<1>9. FindOK(node, zeroLevel, M)
  BY <1>5, <1>6, <1>7, <1>8, FindOnLevel DEF OnLevel
<1>10. StepsOK(node, Off, zeroLevel, u, M)
  <2>1. ~M.acquired /\ ~M.ok /\ (p = "w_test" => node[node[M.cur].next[M.h]].key <= M.key)
    BY <1>2, <1>5, <1>6 DEF Alike
  <2> QED
    BY <1>5, <1>6, <1>7, <1>8, <2>1 DEF StepsOK, Walking, Reached
<1>11. WalkOK(node, Off, zeroLevel, u, M)
  BY <1>5, <1>7, <1>9, <1>10, WalkAt
<1>12. Held(L) = {L.predpred} /\ Held(M) = {L.predpred}
  BY <1>1, <1>2, <1>5, <1>6, <1>7, HeldAt DEF Alike
<1>13. Moves(u, M)
  BY <1>0, <1>1, <1>6 DEF Moves, Alike
<1> QED
  BY <1>1, <1>5, <1>6, <1>11, <1>12, <1>13, QuietInv DEF L

\* The walk begins a level, goes down or comes to the place of an insertion.
LEMMA UpdateCompareInv ==
  ASSUME Inv, NEW u \in Threads, UpdateCompare(u)
  PROVE  Inv'
<1> DEFINE L == l[u]
           K == [L EXCEPT !.curZeroLevel = zeroLevel, !.ok = FALSE]
<1>0. /\ DOMAIN L = Fields /\ WalkOK(node, Off, zeroLevel, u, L) /\ NodesOK(node, zeroLevel)
      /\ zeroLevel \in Int /\ 0 <= zeroLevel /\ MAX_LEVEL \in Int /\ u # Nobody /\ Lists(node, Off, zeroLevel)
      /\ todo \in Seq(Keys) /\ plan \in [Workers -> Seq(SUBSET (Operations \X Keys))]
  BY Start
<1>1. /\ L.pc = "u_cmp" /\ Place(L) = "u_cmp" /\ zeroLevel' = zeroLevel /\ UNCHANGED <<todo, plan>>
  BY DEF UpdateCompare, At, Place, Local, Do, client
<1>2. /\ Zone(node, Off, zeroLevel, u, L) /\ PredOK(node, Off, L) /\ L.pred = L.predpred /\ ~L.acquired
      /\ node[L.pred].next[L.h] = L.cur /\ node[L.pred].key < L.key
      /\ node[L.cur].zeroLevel <= L.h
  BY <1>0, <1>1 DEF WalkOK, LevelOK
<1>3. /\ DOMAIN K = Fields /\ K.curZeroLevel = zeroLevel /\ ~K.ok /\ K.acquired = L.acquired /\ K.key = L.key
      /\ K.h = L.h /\ K.pred = L.pred /\ K.predpred = L.predpred /\ K.cur = L.cur
      /\ K.inserting = L.inserting /\ K.succ = L.succ
  BY <1>0 DEF Fields
<1>4. /\ L.h \in Int /\ zeroLevel <= L.h /\ L.h < MAX_LEVEL /\ L.key \in Keys
      /\ L.pred \in DOMAIN node \ {tail} /\ node[L.pred].lock = u
      /\ On(node, Off, L.pred, L.h) /\ node[L.pred].zeroLevel <= L.h
  BY <1>2 DEF Zone, Anchor, PredOK
<1>5. ~L.inserting => L.succ \in DOMAIN node /\ node[L.succ].key = L.key
  BY <1>0, <1>1 DEF WalkOK, FindOK, InUpdate
<1> HIDE DEF K
<1>6. Carried(node, zeroLevel, K)
  BY <1>0, <1>3, <1>4, <1>5 DEF Carried
<1>7. /\ L.cur \in DOMAIN node /\ L.key \in Int /\ node[L.cur].key \in Int /\ node[L.pred].key < node[L.cur].key
      /\ On(node, Off, L.cur, L.h) /\ (node[L.cur].key <= L.key => L.cur \notin {head, tail})
      /\ L.h \in Levels
  BY <1>2, <1>4, StepNext
<1>8. Held(L) = {L.pred}
  BY <1>1, HeldAt
<1>9. Zone(node, Off, zeroLevel, u, K) /\ PredOK(node, Off, K)
  BY <1>2, <1>3 DEF Zone, PredOK
<1>10. CASE node[L.cur].key <= L.key
  <2> DEFINE M == [K EXCEPT !.pc = "w_peek"]
  <2>1. node' = node /\ l' = [l EXCEPT ![u] = M]
    BY <1>3, <1>10 DEF UpdateCompare, Local, Do, K
  <2>2. Alike(K, M) /\ M.pc = "w_peek" /\ Place(M) = "w_peek"
    BY <1>3, GotoAlike DEF Place
  <2> HIDE DEF M, L
  <2>3. CurOK(node, Off, K)
    BY <1>3, <1>7, <1>10 DEF CurOK
  <2>4. Carried(node, zeroLevel, M) /\ Zone(node, Off, zeroLevel, u, M) /\ PredOK(node, Off, M) /\ CurOK(node, Off, M)
    BY <1>6, <1>9, <2>2, <2>3 DEF Alike, Carried, Zone, PredOK, CurOK
  <2>5. FindOK(node, zeroLevel, M)
    BY <2>2, <2>4, FindOnLevel DEF OnLevel
  <2>6. StepsOK(node, Off, zeroLevel, u, M)
    BY <1>2, <1>3, <2>2, <2>4 DEF StepsOK, Alike
  <2>7. WalkOK(node, Off, zeroLevel, u, M)
    BY <2>2, <2>5, <2>6, WalkAt
  <2>8. Held(M) = {L.predpred}
    BY <1>3, <2>2, HeldAt DEF Alike
  <2>9. Moves(u, M)
    BY <1>0, <1>1, <2>1, <2>2 DEF Moves, Alike
  <2> QED
    BY <1>1, <1>2, <1>8, <2>1, <2>2, <2>7, <2>8, <2>9, QuietInv DEF L
<1>11. CASE ~(node[L.cur].key <= L.key) /\ L.inserting /\ L.h = zeroLevel
  <2> DEFINE M == [K EXCEPT !.pc = "i_link"]
  <2>1. node' = node /\ l' = [l EXCEPT ![u] = M]
    BY <1>3, <1>11 DEF UpdateCompare, Local, Do, K
  <2>2. Alike(K, M) /\ M.pc = "i_link" /\ Place(M) = "i_link"
    BY <1>3, GotoAlike DEF Place
  <2>3. L.key < node[node[L.pred].next[L.h]].key /\ node[L.pred].zeroLevel = L.h
    BY <1>0, <1>2, <1>4, <1>7, <1>11, NodeTypes, SMTT(30)
  <2> HIDE DEF M, L
  <2>4. Zone(node, Off, zeroLevel, u, M) /\ PredOK(node, Off, M)
    BY <1>9, <2>2 DEF Alike, Zone, PredOK
  <2>5. FindOK(node, zeroLevel, M)
    BY <1>3, <1>11, <2>2 DEF FindOK, Alike, InUpdate, OnLevel
  <2>6. InsertOK(node, Off, zeroLevel, u, M)
    BY <1>2, <1>3, <1>4, <2>2, <2>3, <2>4 DEF InsertOK, Alike
  <2>7. WalkOK(node, Off, zeroLevel, u, M)
    BY <2>2, <2>5, <2>6, WalkAt
  <2>8. Held(M) = {L.predpred, L.pred}
    BY <1>3, <2>2, HeldAt DEF Alike
  <2>9. Moves(u, M)
    BY <1>0, <1>1, <2>1, <2>2 DEF Moves, Alike
  <2> QED
    BY <1>1, <1>2, <1>8, <2>1, <2>2, <2>7, <2>8, <2>9, QuietInv DEF L
<1>12. CASE ~(node[L.cur].key <= L.key) /\ ~(L.inserting /\ L.h = zeroLevel)
  <2> DEFINE M == [K EXCEPT !.pc = "u_level", !.h = L.h - 1]
             R == [node[L.pred] EXCEPT !.hits[L.h] = @ + 1]
  <2>1. l' = [l EXCEPT ![u] = M] /\ node' = [node EXCEPT ![L.pred].hits[L.h] = @ + 1]
    BY <1>3, <1>12 DEF UpdateCompare, Do, K
  <2>2. Replaced(node, node', L.pred, R)
    BY <1>4, <2>1 DEF Replaced
  <2>3. Retouched(node, L.pred, R, u) /\ R.lock = u
    <3>1. NodeOK(node, zeroLevel, L.pred)
      BY <1>0, <1>4 DEF NodesOK
    <3> QED
      BY <1>4, <1>7, <3>1 DEF NodeOK, NodeFields, Retouched
  <2>4. /\ DOMAIN M = Fields /\ M.pc = "u_level" /\ M.h = L.h - 1 /\ ~M.ok /\ M.acquired = L.acquired
        /\ M.key = L.key /\ M.pred = L.pred /\ M.inserting = L.inserting /\ M.succ = L.succ
    BY <1>3 DEF Fields
  <2> HIDE DEF M, R, L
  <2>5. Touched(node, node', u)
    BY <1>0, <2>2, <2>3, OneTouched
  <2>6. /\ DOMAIN node' = DOMAIN node /\ \A n \in DOMAIN node : node'[n].key = node[n].key
        /\ node'[L.pred].topLevel = node[L.pred].topLevel /\ node'[L.pred].zeroLevel = node[L.pred].zeroLevel
        /\ node'[L.pred].next = node[L.pred].next /\ node'[L.pred].lock = u
    BY <1>4, <2>2, <2>3, <2>5 DEF Touched, Replaced
  <2>7. Place(M) = "u_level" /\ Held(M) = {L.pred}
    BY <2>4, HeldAt DEF Place
  <2>8. FindOK(node', zeroLevel, M)
    BY <1>5, <2>4, <2>6, <2>7 DEF FindOK, OnLevel, InUpdate
  <2>9. M.h + 1 = L.h /\ M.h \in Int /\ M.h < MAX_LEVEL /\ zeroLevel <= L.h /\ (M.inserting => zeroLevel <= M.h)
    BY <1>0, <1>4, <1>12, <2>4
  <2>10. On(node', Off, L.pred, L.h) /\ L.key < node[L.cur].key
    BY <1>4, <1>7, <1>12, <2>6 DEF On
  <2>11. node'[node'[L.pred].next[L.h]].key = node[L.cur].key
    BY <1>2, <1>7, <2>6
  <2>12. LevelOK(node', Off, zeroLevel, u, M)
    BY <1>2, <1>4, <2>4, <2>6, <2>7, <2>9, <2>10, <2>11 DEF LevelOK
  <2>13. WalkOK(node', Off, zeroLevel, u, M)
    BY <2>7, <2>8, <2>12, WalkAt
  <2>14. \A n \in DOMAIN node : node'[n].lock = u => n \in Held(M)
    BY <1>8, <2>2, <2>7 DEF Inv, LockInv, Nodes, L, Replaced
  <2>15. Moves(u, M)
    BY <1>0, <1>1, <2>1, <2>4 DEF Moves
  <2> QED
    BY <1>1, <2>4, <2>5, <2>13, <2>14, <2>15, TouchInv DEF L
<1> QED
  BY <1>10, <1>11, <1>12

\* The walk locks cur and looks again whether it is the last node, and counts the hit.
LEMMA WalkLockInv ==
  ASSUME Inv, NEW u \in Threads, WalkLock(u)
  PROVE  Inv'
<1> DEFINE L == l[u]
           c == L.cur
           hit == node[c].key = L.key
<1>0. /\ DOMAIN L = Fields /\ WalkOK(node, Off, zeroLevel, u, L) /\ NodesOK(node, zeroLevel)
      /\ zeroLevel \in Int /\ 0 <= zeroLevel /\ u # Nobody /\ Lists(node, Off, zeroLevel)
      /\ todo \in Seq(Keys) /\ plan \in [Workers -> Seq(SUBSET (Operations \X Keys))]
  BY Start, SMTT(30)
<1>1. /\ L.pc = "w_lock" /\ Place(L) = "w_lock" /\ zeroLevel' = zeroLevel /\ UNCHANGED <<todo, plan>>
      /\ node[c].lock = Nobody
  BY Zenon DEF WalkLock, At, Place, Local, Do, client, Free
<1>2. /\ Walking(node, Off, zeroLevel, u, L) /\ ~L.acquired /\ ~L.ok
  BY <1>0, <1>1 DEF WalkOK, StepsOK, Walking
<1>3. Carried(node, zeroLevel, L)
  BY <1>0, <1>1, <1>2, CarriedOn DEF WalkOK, OnLevel, Walking
<1>4. L.key \in Int /\ node[node[c].next[L.h]].key \in Int /\ L.h \in Levels /\ c \in DOMAIN node
  BY <1>2, <1>3, StepNext DEF Walking, CurOK, Carried
<1>5. Held(L) = {L.predpred} /\ node[L.predpred].lock = u /\ L.predpred \in DOMAIN node
  BY <1>1, <1>2, HeldAt DEF Walking, Zone, Anchor
<1>6. CASE node[node[c].next[L.h]].key <= L.key
  <2> DEFINE M == [L EXCEPT !.pc = "w_test"]
  <2>1. node' = node /\ l' = [l EXCEPT ![u] = M]
    BY <1>6 DEF WalkLock, Local, Do
  <2>2. Alike(L, M) /\ M.pc = "w_test" /\ Place(M) = "w_test"
    BY <1>0, GotoAlike DEF Place
  <2>3. node[node[L.cur].next[L.h]].key <= L.key
    BY <1>6
  <2> HIDE DEF M, L, c
  <2>4. Carried(node, zeroLevel, M) /\ Walking(node, Off, zeroLevel, u, M)
    BY <1>2, <1>3, <2>2 DEF Alike, Carried, Walking, Zone, PredOK, CurOK
  <2>5. FindOK(node, zeroLevel, M)
    BY <2>2, <2>4, FindOnLevel DEF OnLevel
  <2>6. StepsOK(node, Off, zeroLevel, u, M)
    BY <1>2, <2>2, <2>3, <2>4 DEF StepsOK, Reached, Alike
  <2>7. WalkOK(node, Off, zeroLevel, u, M)
    BY <2>2, <2>5, <2>6, WalkAt
  <2>8. Held(M) = {L.predpred}
    BY <1>2, <2>2, HeldAt DEF Alike
  <2>9. Moves(u, M)
    BY <1>0, <1>1, <2>1, <2>2 DEF Moves, Alike
  <2> QED
    BY <1>1, <1>5, <2>1, <2>2, <2>7, <2>8, <2>9, QuietInv DEF L
<1>7. CASE ~(node[node[c].next[L.h]].key <= L.key)
  <2> DEFINE M == [L EXCEPT !.pc = "w_test", !.acquired = TRUE, !.ok = L.ok \/ hit]
             e == L.inserting /\ L.h = L.curZeroLevel
             R == [node[c] EXCEPT !.lock = u, !.selfhits = IF hit THEN @ + 1 ELSE @,
                                  !.hits[L.h] = IF hit \/ e THEN @ ELSE @ + 1]
  <2>1. l' = [l EXCEPT ![u] = M]
    <3>1. Do(u, [node EXCEPT ![c].lock = u, ![c].selfhits = IF hit THEN @ + 1 ELSE @,
                             ![c].hits[L.h] = IF hit \/ e THEN @ ELSE @ + 1], M)
      BY <1>7, Zenon DEF WalkLock
    <3> QED
      BY <3>1, Zenon DEF Do
  <2>2. Replaced(node, node', c, R)
    BY <1>4, <1>7 DEF WalkLock, Do, Replaced
  <2>3. /\ DOMAIN M = Fields /\ M.pc = "w_test" /\ M.acquired /\ (M.ok <=> hit) /\ M.key = L.key /\ M.h = L.h
        /\ M.pred = L.pred /\ M.predpred = L.predpred /\ M.cur = L.cur /\ M.inserting = L.inserting
        /\ M.succ = L.succ /\ M.curZeroLevel = L.curZeroLevel
    BY <1>0, <1>2 DEF Fields
  <2>4. L.key < node[node[L.cur].next[L.h]].key /\ (M.ok <=> node[L.cur].key = L.key) /\ c = L.cur
    BY <1>4, <1>7, <2>3
  <2> HIDE DEF M, L, e, hit
  <2>5. Retouched(node, c, R, u) /\ R.lock = u
    <3>1. NodeOK(node, zeroLevel, c)
      BY <1>0, <1>4 DEF NodesOK
    <3> QED
      BY <1>1, <1>4, <3>1 DEF NodeOK, NodeFields, Retouched
  <2> HIDE DEF R, c
  <2>6. Touched(node, node', u)
    BY <1>0, <2>2, <2>5, OneTouched
  <2>7. Calm(node, node') /\ node'[c].lock = u /\ \A n \in DOMAIN node \ {c} : node'[n] = node[n]
    BY <1>0, <2>2, <2>5, <2>6, TouchedCalm DEF Replaced
  <2>8. node'[L.predpred].lock = u
    BY <1>5, <2>7
  <2>9. Walking(node, Off, zeroLevel, u, M) /\ Carried(node, zeroLevel, M) /\ Place(M) = "w_test"
    BY <1>2, <1>3, <2>3, SMTT(30) DEF Carried, Walking, Zone, PredOK, CurOK, Place
  <2>10. /\ Walking(node', Off, zeroLevel, u, M) /\ node'[M.cur].next[M.h] = node[M.cur].next[M.h]
         /\ node'[node[M.cur].next[M.h]].key = node[node[M.cur].next[M.h]].key
    <3>1. /\ Walking(node', Off, zeroLevel, u, M)
           /\ SameNext(node, node', M.pred, M.h) /\ SameNext(node, node', M.cur, M.h)
      BY <1>0, <2>3, <2>7, <2>8, <2>9, WalkingCalm
    <3> QED
      BY <3>1, Zenon DEF SameNext
  <2>11. /\ DOMAIN node' = DOMAIN node /\ \A n \in DOMAIN node : node'[n].key = node[n].key
    BY <2>6 DEF Touched
  <2>12. Carried(node', zeroLevel, M)
    BY <2>9, <2>11 DEF Carried
  <2>13. FindOK(node', zeroLevel, M)
    BY <2>3, <2>9, <2>12, FindOnLevel DEF OnLevel
  <2>14. Reached(node', u, M)
    BY <1>4, <2>3, <2>4, <2>7, <2>10, <2>11, SMTT(30) DEF Reached
  <2>15. WalkOK(node', Off, zeroLevel, u, M)
    BY <2>3, <2>9, <2>10, <2>13, <2>14, WalkAt, Zenon DEF StepsOK
  <2>16. Held(M) = {L.predpred, c}
    BY <2>3, <2>4, <2>9, HeldAt
  <2>17. \A n \in DOMAIN node : node'[n].lock = u => n \in Held(M)
    BY <1>5, <2>7, <2>16 DEF Inv, LockInv, Nodes, L
  <2>18. Moves(u, M)
    BY <1>0, <1>1, <2>1, <2>3 DEF Moves
  <2> QED
    BY <1>1, <2>3, <2>6, <2>15, <2>17, <2>18, TouchInv DEF L
<1> QED
  BY <1>6, <1>7

\* A node of the zone of a walk that is not being demoted has the level of the walk as its top.
LEMMA TopHere ==
  ASSUME Inv, NEW u \in Threads, NEW q, NEW h, NEW k, Anchor(node, Off, zeroLevel, u, q, h, k),
         NEW c \in DOMAIN node, On(node, Off, c, h), node[q].key < node[c].key, node[c].key <= k,
         node[c].lock = Nobody \/ (node[c].lock = u /\ l[u].pc \notin {"d_null", "d_top"})
  PROVE  node[c].topLevel = h /\ h \in Int /\ On(node, Off, q, h)
<1>0. /\ zeroLevel \in Int /\ 0 <= zeroLevel /\ NodesOK(node, zeroLevel) /\ Lists(node, Off, zeroLevel)
      /\ MAX_LEVEL \in Int
  BY Start
<1>1. /\ q \in DOMAIN node \ {tail} /\ h \in Int /\ zeroLevel <= h /\ h < MAX_LEVEL
      /\ On(node, Off, q, h + 1) /\ node[q].zeroLevel <= h
      /\ k \in Int /\ k < node[node[q].next[h + 1]].key
  BY KeysAssumption DEF Anchor
<1>2. /\ node[c].topLevel \in Int /\ node[q].zeroLevel \in Int /\ node[c].key \in Int /\ node[q].key \in Int
      /\ node[q].topLevel \in Int /\ node[c].topLevel >= h /\ node[q].topLevel >= h + 1
  BY <1>0, <1>1, NodeTypes DEF On
<1>3. node[q].zeroLevel <= h + 1 /\ h + 1 \in Int /\ h + 1 <= MAX_LEVEL /\ zeroLevel <= h + 1
  BY <1>0, <1>1, <1>2
<1> DEFINE m == node[q].next[h + 1]
<1>4. Follows(node, Off, q, m, h + 1) /\ m \in DOMAIN node
  BY <1>0, <1>1, <1>3, NextOn
<1>5. node[m].key \in Int
  BY <1>0, <1>4, NodeTypes
<1>6. ~On(node, Off, c, h + 1)
  BY <1>1, <1>2, <1>4, <1>5 DEF Follows
<1>7. ~(h + 1 <= node[c].topLevel)
  BY <1>3, <1>6, OnLevels
<1>8. On(node, Off, q, h)
  <2>1. h < node[q].topLevel /\ q \in DOMAIN node
    BY <1>1, <1>2
  <2> QED
    BY <1>1, <2>1, OnLevels
<1> QED
  BY <1>1, <1>2, <1>7, <1>8

\* The walk chooses between promoting cur, demoting it and walking on.
LEMMA WalkTestInv ==
  ASSUME Inv, NEW u \in Threads, WalkTest(u)
  PROVE  Inv'
<1> DEFINE L == l[u]
           rises == node[L.predpred].next[L.h] = L.cur /\ Ascends(L.predpred, L.h, L.curAccess)
           sinks == Sinks(L.pred, L.cur, L.h, L.key, L.curAccess)
<1>0. /\ DOMAIN L = Fields /\ WalkOK(node, Off, zeroLevel, u, L) /\ NodesOK(node, zeroLevel)
      /\ zeroLevel \in Int
      /\ todo \in Seq(Keys) /\ plan \in [Workers -> Seq(SUBSET (Operations \X Keys))]
  BY Start
<1>1. /\ L.pc = "w_test" /\ Place(L) = "w_test"
  BY DEF WalkTest, At, Place
<1>2. Walking(node, Off, zeroLevel, u, L) /\ Reached(node, u, L)
  BY <1>0, <1>1 DEF WalkOK, StepsOK
<1>3. Carried(node, zeroLevel, L)
  BY <1>0, <1>1, <1>2, CarriedOn DEF WalkOK, OnLevel, Walking
<1>4. Held(L) = {L.predpred} \cup (IF L.acquired THEN {L.cur} ELSE {})
  BY <1>1, HeldAt
<1>5. ASSUME NEW M, Local(u, M), DOMAIN M = Fields, M.predpred = L.predpred, M.pred = L.pred, M.cur = L.cur,
             M.h = L.h, M.key = L.key, M.succ = L.succ, M.inserting = L.inserting, M.acquired = L.acquired,
             M.ok = L.ok, M.curZeroLevel = L.curZeroLevel,
             M.pc \in {"p_loop", "p_lock", "d_pred", "d_cur", "w_step"},
             \/ M.pc = "w_step" /\ StepsOK(node, Off, zeroLevel, u, M)
             \/ M.pc \in {"p_loop", "p_lock"} /\ PromoteOK(node, Off, zeroLevel, u, M)
             \/ M.pc \in {"d_pred", "d_cur"} /\ DemoteOK(node, Off, zeroLevel, u, M),
             L.acquired => M.pc \in {"p_loop", "w_step"}
      PROVE  Inv'
  <2>1. Moves(u, M) /\ zeroLevel' = zeroLevel /\ node' = node
    BY <1>0, <1>5 DEF Moves, Local, Do, client
  <2>2. Place(M) = M.pc
    BY <1>5 DEF Place
  <2>3. Carried(node, zeroLevel, M)
    BY <1>3, <1>5 DEF Carried
  <2> HIDE DEF L
  <2>4. FindOK(node, zeroLevel, M)
    BY <1>5, <2>2, <2>3, FindOnLevel DEF OnLevel
  <2>5. WalkOK(node, Off, zeroLevel, u, M)
    BY <1>5, <2>2, <2>4, WalkAt
  <2>6. Held(L) \subseteq Held(M)
    BY <1>4, <1>5, <2>2, HeldAt
  <2> QED
    BY <1>1, <1>5, <2>1, <2>5, <2>6, QuietInv DEF L
<1>6. CASE rises
  <2> DEFINE p == IF L.acquired THEN "p_loop" ELSE "p_lock"
             M == [L EXCEPT !.pc = p, !.curh = node[L.cur].topLevel]
  <2>1. Local(u, M)
    BY <1>6 DEF WalkTest
  <2>2. /\ DOMAIN M = Fields /\ M.predpred = L.predpred /\ M.pred = L.pred /\ M.cur = L.cur
        /\ M.h = L.h /\ M.key = L.key /\ M.succ = L.succ /\ M.inserting = L.inserting /\ M.acquired = L.acquired
        /\ M.ok = L.ok /\ M.curZeroLevel = L.curZeroLevel /\ M.curAccess = L.curAccess
        /\ M.pc = p /\ M.curh = node[L.cur].topLevel
    BY <1>0 DEF Fields
  <2>3. Rises(node, M.predpred, M.h, M.curAccess) /\ node[M.predpred].next[M.h] = M.cur
    BY <1>6, <2>2, SMTT(30) DEF Ascends, Rises
  <2> HIDE DEF M
  <2>4. Walking(node, Off, zeroLevel, u, M) /\ Reached(node, u, M)
    BY <1>2, <2>2, ZenonT(40) DEF Walking, Zone, PredOK, CurOK, Reached
  <2>5. CASE L.acquired
    <3>1. /\ M.cur \in DOMAIN node \ {head, tail} /\ node[M.cur].lock = u /\ On(node, Off, M.cur, M.h)
          /\ node[M.predpred].key < node[M.cur].key /\ node[M.cur].key <= M.key /\ node[M.cur].zeroLevel <= M.h
          /\ M.predpred \in DOMAIN node \ {tail} /\ node[M.predpred].lock = u /\ node[M.predpred].zeroLevel <= M.h
          /\ M.h \in Int /\ zeroLevel <= M.h /\ M.h < MAX_LEVEL /\ M.key \in Keys
          /\ On(node, Off, M.predpred, M.h + 1)
      <4>1. M.predpred \in DOMAIN node /\ M.pred \in DOMAIN node /\ M.cur \in DOMAIN node
        BY <2>4 DEF Walking, CurOK, PredOK, Zone, Anchor
      <4>2. node[M.predpred].key \in Int /\ node[M.pred].key \in Int /\ node[M.cur].key \in Int
        BY <1>0, <4>1, NodeTypes
      <4>3. /\ M.predpred \in DOMAIN node \ {tail} /\ node[M.predpred].lock = u /\ node[M.predpred].zeroLevel <= M.h
            /\ M.h \in Int /\ zeroLevel <= M.h /\ M.h < MAX_LEVEL /\ M.key \in Keys
            /\ On(node, Off, M.predpred, M.h + 1)
        BY <2>4, Zenon DEF Walking, Zone, Anchor
      <4>4. /\ M.cur \in DOMAIN node \ {head, tail} /\ On(node, Off, M.cur, M.h)
            /\ node[M.predpred].key <= node[M.pred].key /\ node[M.pred].key < node[M.cur].key
            /\ node[M.cur].key <= M.key /\ node[M.cur].zeroLevel <= M.h
        BY <2>4, Zenon DEF Walking, CurOK, PredOK
      <4>5. node[M.cur].lock = u
        BY <2>2, <2>4, <2>5, Zenon DEF Reached
      <4> QED
        BY <4>2, <4>3, <4>4, <4>5
    <3>2. Anchor(node, Off, zeroLevel, u, M.predpred, M.h, M.key)
      BY <2>4 DEF Walking, Zone
    <3>3. node[M.cur].topLevel = M.h /\ On(node, Off, M.predpred, M.h)
      BY <1>1, <3>1, <3>2, TopHere
    <3>4. Promoting(node, Off, zeroLevel, u, M) /\ M.curh = M.h
      BY <2>2, <2>3, <3>1, <3>3 DEF Promoting
    <3>5. PromoteOK(node, Off, zeroLevel, u, M)
      BY <2>2, <2>3, <2>4, <2>5, <3>1, <3>4 DEF PromoteOK, Walking
    <3> QED
      BY <1>5, <2>1, <2>2, <2>5, <3>5
  <2>6. CASE ~L.acquired
    <3>1. PromoteOK(node, Off, zeroLevel, u, M)
      BY <2>2, <2>3, <2>4, <2>6 DEF PromoteOK
    <3> QED
      BY <1>5, <2>1, <2>2, <2>6, <3>1
  <2> QED
    BY <2>5, <2>6
<1>7. CASE ~rises /\ sinks
  <2> DEFINE p == IF L.pred # L.predpred THEN "d_pred" ELSE "d_cur"
             M == [L EXCEPT !.pc = p, !.curZeroLevel2 = zeroLevel]
  <2>1. Local(u, M)
    BY <1>7 DEF WalkTest
  <2>2. /\ DOMAIN M = Fields /\ M.predpred = L.predpred /\ M.pred = L.pred /\ M.cur = L.cur
        /\ M.h = L.h /\ M.key = L.key /\ M.succ = L.succ /\ M.inserting = L.inserting /\ M.acquired = L.acquired
        /\ M.ok = L.ok /\ M.curZeroLevel = L.curZeroLevel
        /\ M.pc = p /\ M.curZeroLevel2 = zeroLevel
    BY <1>0 DEF Fields
  <2>3. node[node[L.cur].next[L.h]].key <= L.key
    BY <1>7 DEF Sinks
  <2>4. L.key \in Int /\ node[node[L.cur].next[L.h]].key \in Int
    BY <1>2, <1>3, StepNext DEF Walking, CurOK, Carried
  <2>5. ~L.acquired /\ ~L.ok
    <3>1. IF L.acquired THEN L.key < node[node[L.cur].next[L.h]].key ELSE ~L.ok
      BY <1>2, Zenon DEF Reached
    <3> QED
      BY <2>3, <2>4, <3>1
  <2> HIDE DEF M
  <2>6. Walking(node, Off, zeroLevel, u, M)
    BY <1>2, <2>2, SMTT(30) DEF Walking, Zone, PredOK, CurOK
  <2>7. Demoting(node, Off, zeroLevel, u, M) /\ node[M.predpred].lock = u
    <3>1. node[M.predpred].lock = u /\ M.h = L.h /\ zeroLevel <= M.h
      BY <2>2, <2>6, Zenon DEF Walking, Zone, Anchor
    <3>2. ~M.acquired /\ ~M.ok /\ node[node[M.cur].next[M.h]].key <= M.key
      BY <2>2, <2>3, <2>5, Zenon
    <3>3. M.curZeroLevel2 \in Int /\ zeroLevel <= M.curZeroLevel2 /\ M.curZeroLevel2 <= M.h
      BY <1>0, <2>2, <2>6, <3>1 DEF Walking
    <3> QED
      BY <2>6, <3>1, <3>2, <3>3, Zenon DEF Demoting
  <2>8. DemoteOK(node, Off, zeroLevel, u, M)
    BY <2>2, <2>7 DEF DemoteOK
  <2> QED
    BY <1>5, <2>1, <2>2, <2>5, <2>8
<1>8. CASE ~rises /\ ~sinks
  <2> DEFINE M == [L EXCEPT !.pc = "w_step"]
  <2>1. Local(u, M)
    BY <1>8 DEF WalkTest, Goto
  <2>2. Alike(L, M) /\ M.pc = "w_step"
    BY <1>0, GotoAlike
  <2> HIDE DEF M
  <2>3. Walking(node, Off, zeroLevel, u, M) /\ Reached(node, u, M)
    BY <1>2, <2>2, Zenon DEF Walking, Zone, PredOK, CurOK, Reached, Alike
  <2>4. StepsOK(node, Off, zeroLevel, u, M)
    BY <2>2, <2>3 DEF StepsOK, Place
  <2> QED
    BY <1>5, <2>1, <2>2, <2>4 DEF Alike
<1> QED
  BY <1>6, <1>7, <1>8

\* nd2 is nd with the lock of n at b.
Relocked(nd, nd2, n, b) ==
  /\ DOMAIN nd2 = DOMAIN nd /\ \A m \in DOMAIN nd \ {n} : nd2[m] = nd[m]
  /\ DOMAIN nd2[n] = NodeFields /\ nd2[n].lock = b
  /\ \A f \in NodeFields \ {"lock"} : nd2[n][f] = nd[n][f]

\* Changing one lock touches that node only.
LEMMA RelockedTouched ==
  ASSUME NEW nd, NEW nd2, NEW z \in Int, NEW u, NEW n \in DOMAIN nd, NEW b \in {u, Nobody},
         NodesOK(nd, z), nd[n].lock \in {u, Nobody}, Relocked(nd, nd2, n, b)
  PROVE  Touched(nd, nd2, u) /\ Calm(nd, nd2)
<1>1. \A m \in DOMAIN nd : NodeOK(nd, z, m)
  BY DEF NodesOK
<1>2. /\ nd2[n].key = nd[n].key /\ nd2[n].zeroLevel = nd[n].zeroLevel /\ nd2[n].topLevel = nd[n].topLevel
      /\ nd2[n].next = nd[n].next /\ nd2[n].selfhits = nd[n].selfhits /\ nd2[n].hits = nd[n].hits
  BY DEF Relocked, NodeFields
<1>3. Touched(nd, nd2, u)
  BY <1>1, <1>2 DEF Touched, NodeOK, Relocked
<1> QED
  BY <1>3, TouchedCalm

\* Touching twice.
LEMMA TouchedTwice ==
  ASSUME NEW nd, NEW nd1, NEW nd2, NEW u, Touched(nd, nd1, u), Touched(nd1, nd2, u)
  PROVE  Touched(nd, nd2, u)
  BY DEF Touched

\* The walk ends a level: it goes down, leaves, or comes to the place of an insertion.
LEMMA WalkExitInv ==
  ASSUME Inv, NEW u \in Threads, WalkExit(u)
  PROVE  Inv'
<1> DEFINE L == l[u]
           unlocked == IF L.predpred # L.pred THEN [node EXCEPT ![L.predpred].lock = Nobody] ELSE node
           bottom == L.inserting /\ L.h = L.curZeroLevel
<1>0. /\ DOMAIN L = Fields /\ WalkOK(node, Off, zeroLevel, u, L) /\ NodesOK(node, zeroLevel)
      /\ zeroLevel \in Int /\ 0 <= zeroLevel /\ u # Nobody /\ Lists(node, Off, zeroLevel) /\ MAX_LEVEL \in Int
      /\ todo \in Seq(Keys) /\ plan \in [Workers -> Seq(SUBSET (Operations \X Keys))]
  BY Start, SMTT(30)
<1>1. L.pc = "w_exit" /\ Place(L) = "w_exit"
  BY Zenon DEF WalkExit, At, Place
<1>2. /\ Zone(node, Off, zeroLevel, u, L) /\ PredOK(node, Off, L) /\ node[L.pred].lock = u /\ ~L.acquired
      /\ L.key < node[node[L.pred].next[L.h]].key
      /\ L.ok <=> node[L.pred].key = L.key
  BY <1>0, <1>1 DEF WalkOK, StepsOK
<1>3. Carried(node, zeroLevel, L)
  BY <1>0, <1>1, <1>2, CarriedOn DEF WalkOK, OnLevel
<1>4. /\ L.h \in Int /\ zeroLevel <= L.h /\ L.h < MAX_LEVEL /\ L.key \in Keys
      /\ L.curZeroLevel \in Int /\ zeroLevel <= L.curZeroLevel /\ L.curZeroLevel <= L.h
      /\ L.pred \in DOMAIN node \ {tail} /\ L.predpred \in DOMAIN node /\ node[L.predpred].lock = u
      /\ On(node, Off, L.pred, L.h) /\ node[L.pred].zeroLevel <= L.h /\ node[L.pred].key <= L.key
      /\ ~L.inserting => L.succ \in DOMAIN node /\ node[L.succ].key = L.key
  BY <1>2, <1>3 DEF Zone, Anchor, PredOK, Carried
<1>5. /\ L.h \in Levels /\ L.key \in Int /\ node[L.pred].key \in Int /\ node[L.pred].next[L.h] \in DOMAIN node
  BY <1>4, StepNext
<1>6. Held(L) = {L.predpred, L.pred}
  BY <1>1, HeldAt
<1>7. /\ Touched(node, unlocked, u) /\ unlocked[L.pred] = node[L.pred] /\ DOMAIN unlocked = DOMAIN node
      /\ L.predpred # L.pred => unlocked[L.predpred].lock = Nobody
      /\ \A n \in DOMAIN node \ {L.predpred} : unlocked[n] = node[n]
  <2>1. CASE L.predpred # L.pred
    <3>1. NodeOK(node, zeroLevel, L.predpred)
      BY <1>0, <1>4 DEF NodesOK
    <3>2. Relocked(node, unlocked, L.predpred, Nobody)
      BY <1>4, <2>1, <3>1 DEF Relocked, NodeOK, NodeFields
    <3> HIDE DEF unlocked, L
    <3>3. Touched(node, unlocked, u)
      BY <1>0, <1>4, <3>2, RelockedTouched
    <3> QED
      BY <1>4, <2>1, <3>2, <3>3 DEF Relocked
  <2>2. CASE L.predpred = L.pred
    <3>1. \A n \in DOMAIN node : NodeOK(node, zeroLevel, n)
      BY <1>0 DEF NodesOK
    <3>2. unlocked = node
      BY <2>2
    <3> HIDE DEF unlocked, L
    <3> QED
      BY <2>2, <3>1, <3>2 DEF Touched, NodeOK
  <2> QED
    BY <2>1, <2>2
<1>8. CASE bottom /\ zeroLevel = L.curZeroLevel /\ ~L.ok
  <2> DEFINE M == [L EXCEPT !.pc = "i_link"]
  <2>1. Local(u, M)
    BY <1>8 DEF WalkExit
  <2>2. Alike(L, M) /\ M.pc = "i_link" /\ Place(M) = "i_link"
    BY <1>0, GotoAlike DEF Place
  <2>3. node[L.pred].key < L.key /\ node[L.pred].zeroLevel = L.h
    <3>1. node[L.pred].zeroLevel \in Int /\ zeroLevel <= node[L.pred].zeroLevel
      BY <1>0, <1>4, NodeTypes
    <3>2. L.h = zeroLevel /\ ~L.ok
      BY <1>8
    <3>3. node[L.pred].key # L.key
      BY <1>2, <3>2
    <3> HIDE DEF L, unlocked, bottom
    <3> QED
      BY <1>0, <1>4, <1>5, <3>1, <3>2, <3>3
  <2>4. L.inserting
    BY <1>8
  <2> HIDE DEF M, L, unlocked, bottom
  <2>5. Zone(node, Off, zeroLevel, u, M) /\ PredOK(node, Off, M)
    BY <1>2, <2>2 DEF Alike, Zone, PredOK
  <2>6. FindOK(node, zeroLevel, M)
    BY <2>2, <2>4 DEF FindOK, Alike, InUpdate, OnLevel
  <2>7. InsertOK(node, Off, zeroLevel, u, M)
    BY <1>2, <2>2, <2>3, <2>5 DEF InsertOK, Alike
  <2>8. WalkOK(node, Off, zeroLevel, u, M)
    BY <2>2, <2>6, <2>7, WalkAt
  <2>9. Held(M) = {L.predpred, L.pred}
    BY <2>2, HeldAt DEF Alike
  <2>10. Moves(u, M) /\ node' = node /\ zeroLevel' = zeroLevel
    BY <1>0, <2>1, <2>2 DEF Moves, Alike, Local, Do, client
  <2> QED
    BY <1>1, <1>6, <2>2, <2>8, <2>9, <2>10, QuietInv DEF L
<1>9. CASE L.ok
  <2> DEFINE M == [L EXCEPT !.pc = "u_leave"]
  <2>1. Do(u, unlocked, M)
    BY <1>9 DEF WalkExit
  <2>2. Alike(L, M) /\ M.pc = "u_leave" /\ Place(M) = "u_leave"
    BY <1>0, GotoAlike DEF Place
  <2> HIDE DEF M, L, unlocked, bottom
  <2>3. Moves(u, M) /\ node' = unlocked /\ zeroLevel' = zeroLevel
    BY <1>0, <2>1, <2>2 DEF Moves, Alike, Do, client
  <2>4. ~L.inserting => L.succ \in DOMAIN node' /\ node'[L.succ].key = L.key
    BY <1>4, <1>7, <2>3 DEF Touched
  <2>5. FindOK(node', zeroLevel, M)
    BY <2>2, <2>4 DEF FindOK, Alike, InUpdate, OnLevel
  <2>6. LevelOK(node', Off, zeroLevel, u, M)
    BY <1>2, <1>4, <1>7, <2>2, <2>3 DEF LevelOK, Alike
  <2>7. WalkOK(node', Off, zeroLevel, u, M)
    BY <2>2, <2>5, <2>6, WalkAt
  <2>8. Held(M) = {L.pred}
    BY <2>2, HeldAt DEF Alike
  <2>9. \A n \in DOMAIN node : node'[n].lock = u => n \in Held(M)
    BY <1>0, <1>6, <1>7, <2>3, <2>8 DEF Inv, LockInv, Nodes, L
  <2> QED
    BY <1>1, <1>7, <2>2, <2>3, <2>7, <2>9, TouchInv DEF L
<1>10. CASE ~L.ok /\ ~(bottom /\ zeroLevel = L.curZeroLevel)
  <2> DEFINE M == [L EXCEPT !.pc = "u_level", !.h = @ - 1]
             R == [unlocked[L.pred] EXCEPT !.hits[L.h] = IF bottom THEN @ + 1 ELSE @]
  <2>1. Do(u, [unlocked EXCEPT ![L.pred].hits[L.h] = IF bottom THEN @ + 1 ELSE @], M)
    BY <1>10, Zenon DEF WalkExit
  <2>2. /\ DOMAIN M = Fields /\ M.pc = "u_level" /\ M.h = L.h - 1 /\ M.ok = L.ok /\ M.acquired = L.acquired
        /\ M.key = L.key /\ M.pred = L.pred /\ M.inserting = L.inserting /\ M.succ = L.succ
    BY <1>0 DEF Fields
  <2>3. M.inserting => zeroLevel <= M.h
    BY <1>0, <1>4, <1>10, <2>2
  <2> HIDE DEF M, L, unlocked, bottom
  <2>4. node' = [unlocked EXCEPT ![L.pred].hits[L.h] = IF bottom THEN @ + 1 ELSE @]
    BY <2>1 DEF Do
  <2>5. Replaced(unlocked, node', L.pred, R)
    BY <1>4, <1>7, <2>4 DEF Replaced
  <2>6. NodesOK(unlocked, zeroLevel)
    BY <1>0, <1>7, TouchedStep DEF StepOf
  <2>7. Retouched(unlocked, L.pred, R, u) /\ R.lock = u
    <3>1. NodeOK(node, zeroLevel, L.pred) /\ unlocked[L.pred] = node[L.pred] /\ L.pred \in DOMAIN unlocked
      BY <1>0, <1>4, <1>7 DEF NodesOK
    <3> QED
      BY <1>2, <1>5, <3>1 DEF NodeOK, NodeFields, Retouched
  <2> HIDE DEF R
  <2>8. Touched(node, node', u)
    BY <1>7, <2>5, <2>6, <2>7, OneTouched, TouchedTwice
  <2>9. Moves(u, M) /\ zeroLevel' = zeroLevel
    BY <1>0, <2>1, <2>2 DEF Moves, Do, client
  <2>10. /\ DOMAIN node' = DOMAIN node /\ \A n \in DOMAIN node : node'[n].key = node[n].key
         /\ node'[L.pred].topLevel = node[L.pred].topLevel /\ node'[L.pred].zeroLevel = node[L.pred].zeroLevel
         /\ node'[L.pred].next = node[L.pred].next /\ node'[L.pred].lock = u
    BY <1>4, <2>5, <2>7, <2>8 DEF Touched, Replaced
  <2>11. Place(M) = "u_level" /\ Held(M) = {L.pred}
    BY <2>2, HeldAt DEF Place
  <2>12. FindOK(node', zeroLevel, M)
    BY <1>4, <2>2, <2>10, <2>11 DEF FindOK, OnLevel, InUpdate
  <2>13. M.h + 1 = L.h /\ M.h \in Int /\ M.h < MAX_LEVEL
    BY <1>0, <1>4, <2>2
  <2>14. On(node', Off, L.pred, L.h)
    BY <1>4, <2>10 DEF On
  <2>15. L.key < node'[node'[L.pred].next[L.h]].key /\ node'[L.pred].key < L.key
    BY <1>2, <1>4, <1>5, <1>10, <2>10
  <2>16. LevelOK(node', Off, zeroLevel, u, M)
    BY <1>2, <1>4, <1>10, <2>2, <2>3, <2>10, <2>11, <2>13, <2>14, <2>15 DEF LevelOK
  <2>17. WalkOK(node', Off, zeroLevel, u, M)
    BY <2>11, <2>12, <2>16, WalkAt
  <2>18. \A n \in DOMAIN node : node'[n].lock = u => n \in Held(M)
    BY <1>0, <1>6, <1>7, <2>5, <2>11 DEF Inv, LockInv, Nodes, L, Replaced
  <2> QED
    BY <1>1, <2>2, <2>8, <2>9, <2>17, <2>18, TouchInv DEF L
<1> QED
  BY <1>8, <1>9, <1>10

\* A promotion locks cur.
LEMMA PromoteLockInv ==
  ASSUME Inv, NEW u \in Threads, PromoteLock(u)
  PROVE  Inv'
<1> DEFINE L == l[u]
           c == L.cur
           M == [L EXCEPT !.pc = "p_loop", !.curh = node[c].topLevel]
<1>0. /\ DOMAIN L = Fields /\ WalkOK(node, Off, zeroLevel, u, L) /\ NodesOK(node, zeroLevel)
      /\ zeroLevel \in Int /\ 0 <= zeroLevel /\ u # Nobody /\ Lists(node, Off, zeroLevel)
      /\ todo \in Seq(Keys) /\ plan \in [Workers -> Seq(SUBSET (Operations \X Keys))]
  BY Start
<1>1. /\ L.pc = "p_lock" /\ Place(L) = "p_lock" /\ zeroLevel' = zeroLevel /\ UNCHANGED <<todo, plan>>
      /\ node[c].lock = Nobody /\ l' = [l EXCEPT ![u] = M] /\ node' = [node EXCEPT ![c].lock = u]
  BY DEF PromoteLock, At, Place, Do, client, Free
<1>2. /\ Walking(node, Off, zeroLevel, u, L) /\ Reached(node, u, L) /\ ~L.acquired
      /\ node[L.predpred].next[L.h] = L.cur /\ Rises(node, L.predpred, L.h, L.curAccess)
  BY <1>0, <1>1 DEF WalkOK, PromoteOK
<1>3. Carried(node, zeroLevel, L)
  BY <1>0, <1>1, <1>2, CarriedOn DEF WalkOK, OnLevel, Walking
<1>4. /\ DOMAIN M = Fields /\ M.predpred = L.predpred /\ M.pred = L.pred /\ M.cur = L.cur
      /\ M.h = L.h /\ M.key = L.key /\ M.succ = L.succ /\ M.inserting = L.inserting /\ M.acquired = L.acquired
      /\ M.ok = L.ok /\ M.curZeroLevel = L.curZeroLevel /\ M.curAccess = L.curAccess
      /\ M.pc = "p_loop" /\ M.curh = node[c].topLevel
  BY <1>0 DEF Fields
<1>5. Relocked(node, node', c, u) /\ c \in DOMAIN node /\ c = M.cur
  <2>1. c \in DOMAIN node
    BY <1>2 DEF Walking, CurOK
  <2>2. NodeOK(node, zeroLevel, c)
    BY <1>0, <2>1, SMTT(30) DEF NodesOK
  <2> QED
    BY <1>1, <1>4, <2>1, <2>2 DEF Relocked, NodeOK, NodeFields
<1>6. Held(L) = {L.predpred} /\ node[L.predpred].lock = u /\ L.predpred \in DOMAIN node
  BY <1>1, <1>2, HeldAt, Zenon DEF Walking, Zone, Anchor
<1> HIDE DEF M, L, c
<1>7. Touched(node, node', u) /\ Calm(node, node')
  BY <1>0, <1>1, <1>5, RelockedTouched
<1>8. node'[M.predpred].lock = u /\ node'[M.cur].lock = u /\ \A n \in DOMAIN node \ {c} : node'[n] = node[n]
  BY <1>4, <1>5, <1>6 DEF Relocked
<1>9. Walking(node, Off, zeroLevel, u, M) /\ Reached(node, u, M) /\ Place(M) = "p_loop"
  BY <1>2, <1>4, SMTT(30) DEF Walking, Zone, PredOK, CurOK, Reached, Place
<1>10. /\ Walking(node', Off, zeroLevel, u, M) /\ node'[M.cur].next[M.h] = node[M.cur].next[M.h]
       /\ node'[node[M.cur].next[M.h]].key = node[node[M.cur].next[M.h]].key
  <2>1. /\ Walking(node', Off, zeroLevel, u, M)
         /\ SameNext(node, node', M.pred, M.h) /\ SameNext(node, node', M.cur, M.h)
    BY <1>0, <1>7, <1>8, <1>9, WalkingCalm
  <2> QED
    BY <2>1, Zenon DEF SameNext
<1>11. /\ M.cur \in DOMAIN node \ {head, tail} /\ On(node, Off, M.cur, M.h)
       /\ node[M.predpred].key < node[M.cur].key /\ node[M.cur].key <= M.key /\ M.predpred \in DOMAIN node
  <2>1. M.predpred \in DOMAIN node /\ M.pred \in DOMAIN node /\ M.cur \in DOMAIN node
    BY <1>9 DEF Walking, CurOK, PredOK, Zone, Anchor
  <2>2. node[M.predpred].key \in Int /\ node[M.pred].key \in Int /\ node[M.cur].key \in Int
    BY <1>0, <2>1, NodeTypes
  <2> QED
    BY <1>9, <2>1, <2>2 DEF Walking, CurOK, PredOK
<1>12. Anchor(node, Off, zeroLevel, u, M.predpred, M.h, M.key)
  BY <1>9 DEF Walking, Zone
<1>13. node[M.cur].topLevel = M.h /\ On(node, Off, M.predpred, M.h)
  BY <1>1, <1>5, <1>11, <1>12, TopHere
<1>14. /\ \A n \in DOMAIN node : /\ node'[n].key = node[n].key /\ node'[n].topLevel = node[n].topLevel
                                 /\ node'[n].next = node[n].next
       /\ DOMAIN node' = DOMAIN node /\ node'[M.predpred].hits = node[M.predpred].hits
  BY <1>1, <1>4, <1>5, <1>6, <1>7, <1>8 DEF Touched
<1>15. Rises(node', M.predpred, M.h, M.curAccess) /\ node'[M.predpred].next[M.h] = M.cur
  BY <1>2, <1>4, <1>11, <1>14 DEF Rises
<1>16. On(node', Off, M.predpred, M.h) /\ node'[M.cur].topLevel = M.curh /\ M.curh = M.h /\ node'[M.cur].key <= M.key
  BY <1>4, <1>5, <1>11, <1>13, <1>14 DEF On
<1>17. Promoting(node', Off, zeroLevel, u, M)
  BY <1>8, <1>10, <1>15, <1>16 DEF Promoting, Walking, Zone, Anchor, PredOK, CurOK
<1>18. Reached(node', u, M)
  BY <1>2, <1>4, <1>9, <1>10 DEF Reached
<1>19. PromoteOK(node', Off, zeroLevel, u, M)
  BY <1>4, <1>10, <1>15, <1>16, <1>17, <1>18 DEF PromoteOK, Walking
<1>20. Carried(node', zeroLevel, M)
  BY <1>3, <1>4, <1>14 DEF Carried
<1>21. FindOK(node', zeroLevel, M)
  BY <1>4, <1>9, <1>20, FindOnLevel DEF OnLevel
<1>22. WalkOK(node', Off, zeroLevel, u, M)
  BY <1>9, <1>19, <1>21, WalkAt
<1>23. Held(M) = {L.predpred, c}
  BY <1>4, <1>5, <1>9, HeldAt
<1>24. \A n \in DOMAIN node : node'[n].lock = u => n \in Held(M)
  BY <1>6, <1>8, <1>23 DEF Inv, LockInv, Nodes, L
<1>25. Moves(u, M)
  BY <1>0, <1>1, <1>4 DEF Moves
<1> QED
  BY <1>1, <1>4, <1>7, <1>22, <1>24, <1>25, TouchInv DEF L

\* A demotion locks pred.
LEMMA DemoteLockPredInv ==
  ASSUME Inv, NEW u \in Threads, DemoteLockPred(u)
  PROVE  Inv'
<1> DEFINE L == l[u]
           p == L.pred
           M == [L EXCEPT !.pc = "d_cur"]
<1>0. /\ DOMAIN L = Fields /\ WalkOK(node, Off, zeroLevel, u, L) /\ NodesOK(node, zeroLevel)
      /\ zeroLevel \in Int /\ 0 <= zeroLevel /\ u # Nobody /\ Lists(node, Off, zeroLevel)
      /\ todo \in Seq(Keys) /\ plan \in [Workers -> Seq(SUBSET (Operations \X Keys))]
  BY Start
<1>1. /\ L.pc = "d_pred" /\ Place(L) = "d_pred" /\ zeroLevel' = zeroLevel /\ UNCHANGED <<todo, plan>>
      /\ node[p].lock = Nobody /\ l' = [l EXCEPT ![u] = M] /\ node' = [node EXCEPT ![p].lock = u]
  BY DEF DemoteLockPred, At, Place, Do, client, Free
<1>2. Demoting(node, Off, zeroLevel, u, L) /\ Walking(node, Off, zeroLevel, u, L)
  BY <1>0, <1>1, Zenon DEF WalkOK, DemoteOK, Demoting
<1>3. Carried(node, zeroLevel, L)
  BY <1>0, <1>1, <1>2, CarriedOn DEF WalkOK, OnLevel, Walking
<1>4. Alike(L, M) /\ M.pc = "d_cur" /\ Place(M) = "d_cur"
  BY <1>0, GotoAlike DEF Place
<1>5. Relocked(node, node', p, u) /\ p \in DOMAIN node /\ p = L.pred
  <2>1. p \in DOMAIN node
    BY <1>2 DEF Walking, PredOK
  <2>2. NodeOK(node, zeroLevel, p)
    BY <1>0, <2>1 DEF NodesOK
  <2> QED
    BY <1>1, <2>1, <2>2 DEF Relocked, NodeOK, NodeFields
<1>6. Held(L) = {L.predpred} /\ node[L.predpred].lock = u /\ L.predpred \in DOMAIN node
  BY <1>1, <1>2, HeldAt, Zenon DEF Walking, Zone, Anchor
<1> HIDE DEF M, L, p
<1>7. Touched(node, node', u) /\ Calm(node, node')
  BY <1>0, <1>1, <1>5, RelockedTouched
<1>8. node'[L.predpred].lock = u /\ node'[L.pred].lock = u /\ \A n \in DOMAIN node \ {p} : node'[n] = node[n]
  BY <1>5, <1>6, SMTT(30) DEF Relocked
<1>9. /\ Walking(node', Off, zeroLevel, u, L) /\ node'[L.cur].next[L.h] = node[L.cur].next[L.h]
      /\ node'[node[L.cur].next[L.h]].key = node[node[L.cur].next[L.h]].key
  <2>1. /\ Walking(node', Off, zeroLevel, u, L)
         /\ SameNext(node, node', L.pred, L.h) /\ SameNext(node, node', L.cur, L.h)
    BY <1>0, <1>2, <1>7, <1>8, WalkingCalm
  <2> QED
    BY <2>1, Zenon DEF SameNext
<1>10. Demoting(node', Off, zeroLevel, u, L)
  BY <1>2, <1>9 DEF Demoting
<1>11. DemoteOK(node', Off, zeroLevel, u, M)
  BY <1>4, <1>8, <1>10 DEF DemoteOK, Demoting, Walking, Zone, PredOK, CurOK, Alike
<1>12. DOMAIN node' = DOMAIN node /\ \A n \in DOMAIN node : node'[n].key = node[n].key
  BY <1>7 DEF Touched
<1>13. Carried(node', zeroLevel, M)
  BY <1>3, <1>4, <1>12 DEF Carried, Alike
<1>14. FindOK(node', zeroLevel, M)
  BY <1>4, <1>13, FindOnLevel DEF OnLevel
<1>15. WalkOK(node', Off, zeroLevel, u, M)
  BY <1>4, <1>11, <1>14, WalkAt
<1>16. Held(M) = {L.predpred, L.pred}
  BY <1>4, HeldAt DEF Alike
<1>17. \A n \in DOMAIN node : node'[n].lock = u => n \in Held(M)
  BY <1>5, <1>6, <1>8, <1>16 DEF Inv, LockInv, Nodes, L
<1>18. Moves(u, M)
  BY <1>0, <1>1, <1>4 DEF Moves, Alike
<1> QED
  BY <1>1, <1>4, <1>7, <1>15, <1>17, <1>18, TouchInv DEF L

\* A demotion locks cur and makes the test again.
LEMMA DemoteLockCurInv ==
  ASSUME Inv, NEW u \in Threads, DemoteLockCur(u)
  PROVE  Inv'
<1> DEFINE L == l[u]
           sinks == Sinks(L.pred, L.cur, L.h, L.key, L.curAccess) /\ node[L.pred].next[L.h] = L.cur
<1>0. /\ DOMAIN L = Fields /\ WalkOK(node, Off, zeroLevel, u, L) /\ NodesOK(node, zeroLevel)
      /\ zeroLevel \in Int /\ 0 <= zeroLevel /\ u # Nobody /\ Lists(node, Off, zeroLevel)
      /\ todo \in Seq(Keys) /\ plan \in [Workers -> Seq(SUBSET (Operations \X Keys))]
  BY Start
<1>1. /\ L.pc = "d_cur" /\ Place(L) = "d_cur" /\ zeroLevel' = zeroLevel /\ UNCHANGED <<todo, plan>>
      /\ node[L.cur].lock = Nobody
  BY DEF DemoteLockCur, At, Place, Do, client, Free
<1>2. /\ Demoting(node, Off, zeroLevel, u, L) /\ Walking(node, Off, zeroLevel, u, L) /\ node[L.pred].lock = u
      /\ L.pred \in DOMAIN node \ {tail} /\ L.cur \in DOMAIN node
      /\ On(node, Off, L.pred, L.h) /\ node[L.pred].zeroLevel <= L.h
      /\ On(node, Off, L.cur, L.h) /\ node[L.pred].key < node[L.cur].key /\ node[L.cur].key <= L.key
  BY <1>0, <1>1, Zenon DEF WalkOK, DemoteOK, Demoting, Walking, PredOK, CurOK
<1>3. Carried(node, zeroLevel, L)
  BY <1>0, <1>1, <1>2, CarriedOn DEF WalkOK, OnLevel, Walking
<1>4. NodeOK(node, zeroLevel, L.pred) /\ NodeOK(node, zeroLevel, L.cur)
  BY <1>0, <1>2 DEF NodesOK
<1>5. Held(L) = {L.predpred, L.pred} /\ node[L.predpred].lock = u /\ L.predpred \in DOMAIN node
  BY <1>1, <1>2, HeldAt DEF Walking, Zone, Anchor
<1>6. CASE sinks
  <2> DEFINE M == [L EXCEPT !.pc = "d_zero"]
  <2>1. l' = [l EXCEPT ![u] = M] /\ node' = [node EXCEPT ![L.cur].lock = u]
    BY <1>6 DEF DemoteLockCur, Do
  <2>2. Relocked(node, node', L.cur, u)
    BY <1>2, <1>4, <2>1 DEF Relocked, NodeOK, NodeFields
  <2>3. Alike(L, M) /\ M.pc = "d_zero" /\ Place(M) = "d_zero"
    BY <1>0, GotoAlike DEF Place
  <2>4. node[L.cur].topLevel = L.h /\ node[L.pred].next[L.h] = L.cur
    BY <1>6 DEF Sinks
  <2> HIDE DEF M, L, sinks
  <2>5. Touched(node, node', u) /\ Calm(node, node')
    BY <1>0, <1>1, <1>2, <2>2, RelockedTouched
  <2>6. /\ node'[L.cur].lock = u /\ \A n \in DOMAIN node \ {L.cur} : node'[n] = node[n]
        /\ L.cur # L.pred /\ L.cur # L.predpred
    BY <1>0, <1>1, <1>2, <1>5, <2>2 DEF Relocked
  <2>7. node'[L.predpred].lock = u /\ node'[L.pred].lock = u
    BY <1>2, <1>5, <2>6, SMTT(30)
  <2>8. /\ Walking(node', Off, zeroLevel, u, L) /\ node'[L.cur].next[L.h] = node[L.cur].next[L.h]
        /\ node'[node[L.cur].next[L.h]].key = node[node[L.cur].next[L.h]].key
        /\ node'[L.pred].next[L.h] = node[L.pred].next[L.h]
    <3>1. /\ Walking(node', Off, zeroLevel, u, L)
           /\ SameNext(node, node', L.pred, L.h) /\ SameNext(node, node', L.cur, L.h)
      BY <1>0, <1>2, <2>5, <2>7, WalkingCalm
    <3> QED
      BY <3>1, Zenon DEF SameNext
  <2>9. Demoting(node', Off, zeroLevel, u, L)
    BY <1>2, <2>8 DEF Demoting
  <2>10. node'[L.cur].topLevel = L.h
    BY <1>2, <2>4, <2>5 DEF Touched
  <2>11. Demotable(node', Off, zeroLevel, u, L)
    BY <2>4, <2>6, <2>7, <2>8, <2>9, <2>10 DEF Demotable, Demoting
  <2>12. DemoteOK(node', Off, zeroLevel, u, M)
    BY <2>3, <2>9, <2>11 DEF DemoteOK, Demoting, Demotable, Walking, Zone, PredOK, CurOK, Alike
  <2>13. DOMAIN node' = DOMAIN node /\ \A n \in DOMAIN node : node'[n].key = node[n].key
    BY <2>5 DEF Touched
  <2>14. Carried(node', zeroLevel, M)
    BY <1>3, <2>3, <2>13 DEF Carried, Alike
  <2>15. FindOK(node', zeroLevel, M)
    BY <2>3, <2>14, FindOnLevel DEF OnLevel
  <2>16. WalkOK(node', Off, zeroLevel, u, M)
    BY <2>3, <2>12, <2>15, WalkAt
  <2>17. Held(M) = {L.predpred, L.pred, L.cur}
    BY <2>3, HeldAt DEF Alike
  <2>18. \A n \in DOMAIN node : node'[n].lock = u => n \in Held(M)
    BY <1>5, <2>6, <2>17 DEF Inv, LockInv, Nodes, L
  <2>19. Moves(u, M)
    BY <1>0, <1>1, <2>1, <2>3 DEF Moves, Alike
  <2> QED
    BY <1>1, <2>3, <2>5, <2>16, <2>18, <2>19, TouchInv DEF L
<1>7. CASE ~sinks
  <2> DEFINE M == [L EXCEPT !.pc = "d_next"]
             b == IF L.pred # L.predpred THEN Nobody ELSE u
  <2>1. l' = [l EXCEPT ![u] = M] /\ node' = [node EXCEPT ![L.pred].lock = IF L.pred # L.predpred THEN Nobody ELSE @]
    BY <1>7 DEF DemoteLockCur, Do
  <2>2. Relocked(node, node', L.pred, b)
    BY <1>2, <1>4, <2>1 DEF Relocked, NodeOK, NodeFields
  <2>3. Alike(L, M) /\ M.pc = "d_next" /\ Place(M) = "d_next"
    BY <1>0, GotoAlike DEF Place
  <2>4. b \in {u, Nobody} /\ (L.pred = L.predpred => b = u) /\ (L.pred # L.predpred => b = Nobody)
    OBVIOUS
  <2> HIDE DEF M, L, sinks, b
  <2>5. Touched(node, node', u) /\ Calm(node, node')
    BY <1>0, <1>2, <2>2, <2>4, RelockedTouched
  <2>6. node'[L.pred].lock = b /\ \A n \in DOMAIN node \ {L.pred} : node'[n] = node[n]
    BY <2>2 DEF Relocked
  <2>7. node'[L.predpred].lock = u
    BY <1>5, <2>4, <2>6, SMTT(30)
  <2>8. /\ Zone(node', Off, zeroLevel, u, L) /\ PredOK(node', Off, L)
        /\ node'[L.pred].next[L.h] = node[L.pred].next[L.h]
        /\ node'[node[L.pred].next[L.h]].key = node[node[L.pred].next[L.h]].key
    <3>1. Zone(node, Off, zeroLevel, u, L) /\ PredOK(node, Off, L)
      BY <1>2, Zenon DEF Walking
    <3>2. /\ Zone(node', Off, zeroLevel, u, L) /\ PredOK(node', Off, L)
           /\ SameNext(node, node', L.pred, L.h)
      BY <1>0, <2>5, <2>7, PredCalm, <3>1
    <3> QED
      BY <3>2, Zenon DEF SameNext
  <2>9. node[node[L.pred].next[L.h]].key <= L.key
    <3>1. /\ Follows(node, Off, L.pred, node[L.pred].next[L.h], L.h) /\ L.key \in Int
          /\ node[node[L.pred].next[L.h]].key \in Int
      BY <1>2, <1>3, StepNext DEF Carried
    <3>2. node[L.cur].key <= node[L.pred].key \/ node[node[L.pred].next[L.h]].key <= node[L.cur].key
      BY <1>2, <3>1 DEF Follows
    <3>3. node[L.cur].key \in Int /\ node[L.pred].key \in Int
      BY <1>4 DEF NodeOK
    <3> QED
      BY <1>2, <3>1, <3>2, <3>3
  <2>10. DemoteOK(node', Off, zeroLevel, u, M)
    BY <1>2, <2>3, <2>8, <2>9 DEF DemoteOK, Demoting, Zone, PredOK, Alike
  <2>11. DOMAIN node' = DOMAIN node /\ \A n \in DOMAIN node : node'[n].key = node[n].key
    BY <2>5 DEF Touched
  <2>12. Carried(node', zeroLevel, M)
    BY <1>3, <2>3, <2>11 DEF Carried, Alike
  <2>13. FindOK(node', zeroLevel, M)
    BY <2>3, <2>12, FindOnLevel DEF OnLevel
  <2>14. WalkOK(node', Off, zeroLevel, u, M)
    BY <2>3, <2>10, <2>13, WalkAt
  <2>15. Held(M) = {L.predpred}
    BY <2>3, HeldAt DEF Alike
  <2>16. \A n \in DOMAIN node : node'[n].lock = u => n \in Held(M)
    BY <1>0, <1>5, <2>4, <2>6, <2>15 DEF Inv, LockInv, Nodes, L
  <2>17. Moves(u, M)
    BY <1>0, <1>1, <2>1, <2>3 DEF Moves, Alike
  <2> QED
    BY <1>1, <2>3, <2>5, <2>14, <2>16, <2>17, TouchInv DEF L
<1> QED
  BY <1>6, <1>7

\* A demotion from the bottom level opens a new one, if there is one left.
LEMMA DemoteZeroInv ==
  ASSUME Inv, NEW u \in Threads, DemoteZero(u), zeroLevel' >= 0
  PROVE  Inv'
<1> DEFINE L == l[u]
           M == [L EXCEPT !.pc = "d_low"]
           z2 == zeroLevel'
<1>0. /\ DOMAIN l = Threads /\ DOMAIN L = Fields /\ WalkOK(node, Off, zeroLevel, u, L) /\ NodesOK(node, zeroLevel)
      /\ zeroLevel \in Int /\ 0 <= zeroLevel /\ zeroLevel < MAX_LEVEL /\ MAX_LEVEL \in Int /\ Lists(node, Off, zeroLevel)
      /\ todo \in Seq(Keys) /\ plan \in [Workers -> Seq(SUBSET (Operations \X Keys))]
  BY Start
<1>1. /\ L.pc = "d_zero" /\ Place(L) = "d_zero" /\ UNCHANGED <<todo, plan>> /\ node' = node
      /\ l' = [l EXCEPT ![u] = M]
      /\ zeroLevel' = IF L.h = L.curZeroLevel2 /\ zeroLevel = L.curZeroLevel2 THEN zeroLevel - 1 ELSE zeroLevel
  BY SMTT(30) DEF DemoteZero, At, Place, client
<1>2. /\ Demoting(node, Off, zeroLevel, u, L) /\ Demotable(node, Off, zeroLevel, u, L)
      /\ Walking(node, Off, zeroLevel, u, L) /\ L.h \in Int
      /\ L.curZeroLevel2 \in Int /\ zeroLevel <= L.curZeroLevel2 /\ L.curZeroLevel2 <= L.h
  BY <1>0, <1>1, Zenon DEF WalkOK, DemoteOK, Demoting, Walking, Zone, Anchor
<1>3. Carried(node, zeroLevel, L)
  BY <1>0, <1>1, <1>2, CarriedOn DEF WalkOK, OnLevel, Walking
<1>4. z2 \in Int /\ 0 <= z2 /\ z2 <= zeroLevel /\ z2 < L.h /\ (z2 = zeroLevel \/ z2 = zeroLevel - 1)
  BY <1>0, <1>1, <1>2
<1>5. Alike(L, M) /\ M.pc = "d_low" /\ Place(M) = "d_low"
  BY <1>0, GotoAlike DEF Place
<1> HIDE DEF M, L, z2
<1>6. Moves(u, M)
  BY <1>0, <1>1, <1>5 DEF Moves, Alike
<1>7. Off' = Off
  BY <1>0, <1>1, <1>5, <1>6, OffSame DEF L
<1>8. \A n \in DOMAIN node : NodeOK(node, zeroLevel, n)
  BY <1>0 DEF NodesOK
<1>9. NodesOK(node, z2)
  <2>1. \A n \in DOMAIN node : NodeOK(node, z2, n)
    BY <1>0, <1>4, <1>8 DEF NodeOK
  <2> QED
    BY <1>0, <2>1 DEF NodesOK
<1>10. Lists(node, Off, z2)
  <2>1. CASE z2 = zeroLevel
    BY <1>0, <2>1
  <2>2. CASE z2 = zeroLevel - 1
    <3>1. ASSUME NEW n \in DOMAIN node
          PROVE  /\ node[n].zeroLevel \in Int /\ zeroLevel <= node[n].zeroLevel
                 /\ On(node, Off, n, zeroLevel) /\ On(node, Off, n, zeroLevel - 1)
      <4>1. NodeOK(node, zeroLevel, n)
        BY <1>8
      <4>2. On(node, Off, n, zeroLevel) /\ <<n, zeroLevel - 1>> \notin Off
        BY OnLevels
      <4> QED
        BY <1>0, <4>1, <4>2 DEF NodeOK, On
    <3> QED
      BY <1>0, <2>2, <3>1, OpenedLists
  <2> QED
    BY <1>4, <2>1, <2>2
<1>11. StepOf(node, Off, zeroLevel, node, Off, z2, u)
  <2>1. \A n \in DOMAIN node : node[n].zeroLevel <= node[n].zeroLevel
    BY <1>8 DEF NodeOK
  <2> QED
    BY <1>0, <1>4, <1>9, <1>10, <2>1 DEF StepOf
<1>12. Zone(node, Off, z2, u, L)
  BY <1>0, <1>2, <1>4 DEF Walking, Zone, Anchor
<1>13. Demotable(node, Off, z2, u, L)
  BY <1>2, <1>12 DEF Demotable, Walking
<1>14. Demotable(node, Off, z2, u, M) /\ z2 < M.h
  BY <1>4, <1>5, <1>13 DEF Demotable, Walking, Zone, PredOK, CurOK, Alike
<1>15. Carried(node, z2, M)
  BY <1>0, <1>3, <1>4, <1>5 DEF Carried, Alike
<1>16. FindOK(node, z2, M)
  BY <1>5, <1>15, FindOnLevel DEF OnLevel
<1>17. WalkOK(node, Off, z2, u, M)
  BY <1>5, <1>14, <1>16, WalkAt DEF DemoteOK
<1>18. Held(L) = {L.predpred, L.pred, L.cur} /\ Held(M) = {L.predpred, L.pred, L.cur}
  BY <1>1, <1>5, HeldAt DEF Alike
<1>19. LocksMove(node, node', u, M)
  BY <1>1, <1>18 DEF LocksMove, Inv, LockInv, Nodes, L
<1> QED
  BY <1>1, <1>6, <1>7, <1>11, <1>17, <1>19, StepInv DEF z2

-----------------------------------------------------------------------------
(* The steps that lower a column *)

\* R is the node n of nd with a column that reaches down further, as low as z.
LowerOf(nd, R, n, z, u) ==
  /\ DOMAIN R = NodeFields
  /\ R.key = nd[n].key /\ R.topLevel = nd[n].topLevel /\ R.lock = nd[n].lock
  /\ R.selfhits \in Int /\ R.hits \in [Levels -> Int] /\ R.next \in [Levels -> DOMAIN nd \cup {NULL}]
  /\ R.zeroLevel \in Int /\ z <= R.zeroLevel /\ R.zeroLevel <= nd[n].zeroLevel
  /\ \A i \in Levels : nd[n].zeroLevel <= i => R.next[i] = nd[n].next[i]
  /\ \A i \in Levels : R.zeroLevel <= i /\ i < nd[n].zeroLevel => R.next[i] = nd[n].next[nd[n].zeroLevel]
  /\ nd[n].lock \notin {u, Nobody} => R = nd[n]

Sunk(nd, nd2, z, u) == DOMAIN nd2 = DOMAIN nd /\ \A n \in DOMAIN nd : LowerOf(nd, nd2[n], n, z, u)

\* A node is as low as itself.
LEMMA SameOf ==
  ASSUME NEW nd, NEW z, NEW n, NEW u, z \in Int, NodeOK(nd, z, n)
  PROVE  LowerOf(nd, nd[n], n, z, u)
  BY DEF LowerOf, NodeOK, Levels

\* A lowered column has the nodes of its lowest level on the new ones, so that the lists stay.
LEMMA SunkStep ==
  ASSUME NEW nd, NEW nd2, NEW off, NEW z \in Int, 0 <= z, NEW u \in Threads,
         NodesOK(nd, z), Lists(nd, off, z), Sunk(nd, nd2, z, u)
  PROVE  StepOf(nd, off, z, nd2, off, z, u) /\ Calm(nd, nd2)
<1>0. MAX_LEVEL \in Int /\ \A n \in DOMAIN nd : NodeOK(nd, z, n)
  BY SizeAssumption DEF NodesOK
<1>1. DOMAIN nd2 = DOMAIN nd /\ \A n \in DOMAIN nd : LowerOf(nd, nd2[n], n, z, u)
  BY DEF Sunk
<1>2. \A n \in DOMAIN nd : nd2[n].key = nd[n].key /\ nd2[n].topLevel = nd[n].topLevel
                           /\ nd2[n].zeroLevel \in Int /\ nd2[n].zeroLevel <= nd[n].zeroLevel
                           /\ z <= nd2[n].zeroLevel /\ nd[n].zeroLevel \in Int
                           /\ nd[n].zeroLevel <= nd[n].topLevel /\ nd[n].topLevel <= MAX_LEVEL
                           /\ nd[n].topLevel \in Int
  BY <1>0, <1>1 DEF LowerOf, NodeOK
<1>3. NodesOK(nd2, z)
  <2>1. ASSUME NEW n \in DOMAIN nd PROVE NodeOK(nd2, z, n)
    <3>1. LowerOf(nd, nd2[n], n, z, u) /\ NodeOK(nd, z, n)
      BY <1>0, <1>1
    <3> QED
      BY <1>1, <1>2, <3>1 DEF NodeOK, LowerOf
  <2>2. head \in DOMAIN nd /\ tail \in DOMAIN nd
    BY NodeTypes
  <2> QED
    BY <1>1, <1>2, <2>1, <2>2 DEF NodesOK
<1>4. SameLists(nd, off, nd2, off, z)
  <2>1. ASSUME NEW i \in z .. MAX_LEVEL, NEW n \in DOMAIN nd
        PROVE  NextIn(nd2, n, i) = NextIn(nd, n, i)
    <3>1. LowerOf(nd, nd2[n], n, z, u)
      BY <1>1
    <3>2. i \in Levels /\ nd[n].zeroLevel \in Levels /\ nd2[n].zeroLevel \in Levels /\ i \in Int
      BY <1>0, <1>2 DEF Levels
    <3>3. CASE nd[n].zeroLevel > i
      <4>1. CASE nd2[n].zeroLevel > i
        <5>1. NextIn(nd2, n, i) = nd2[n].next[nd2[n].zeroLevel] /\ NextIn(nd, n, i) = nd[n].next[nd[n].zeroLevel]
          BY <3>3, <4>1 DEF NextIn
        <5>2. CASE nd2[n].zeroLevel < nd[n].zeroLevel
          BY <1>2, <3>1, <3>2, <5>1, <5>2 DEF LowerOf
        <5>3. CASE nd2[n].zeroLevel = nd[n].zeroLevel
          BY <1>2, <3>1, <3>2, <5>1, <5>3 DEF LowerOf
        <5> QED
          BY <1>2, <5>2, <5>3
      <4>2. CASE ~(nd2[n].zeroLevel > i)
        <5>1. NextIn(nd2, n, i) = nd2[n].next[i] /\ NextIn(nd, n, i) = nd[n].next[nd[n].zeroLevel]
          BY <3>3, <4>2 DEF NextIn
        <5>2. nd2[n].zeroLevel <= i /\ i < nd[n].zeroLevel
          BY <1>2, <3>2, <3>3, <4>2
        <5> QED
          BY <3>1, <3>2, <5>1, <5>2 DEF LowerOf
      <4> QED
        BY <4>1, <4>2
    <3>4. CASE ~(nd[n].zeroLevel > i)
      <4>1. ~(nd2[n].zeroLevel > i) /\ nd[n].zeroLevel <= i
        BY <1>2, <3>2, <3>4
      <4> QED
        BY <3>1, <3>2, <3>4, <4>1 DEF LowerOf, NextIn
    <3> QED
      BY <3>3, <3>4
  <2> QED
    BY <1>1, <1>2, <2>1 DEF SameLists, On
<1>5. Lists(nd2, off, z)
  BY <1>4, SameListsKeep
<1>6. Calm(nd, nd2)
  BY <1>1, <1>2 DEF Calm, LowerOf
<1>7. \A n \in DOMAIN nd : nd[n].lock \notin {u, Nobody} => nd2[n] = nd[n]
  BY <1>1 DEF LowerOf
<1>8. \A i \in z .. MAX_LEVEL, n \in DOMAIN nd : On(nd, off, n, i) => On(nd2, off, n, i)
  BY <1>4 DEF SameLists
<1>9. StepOf(nd, off, z, nd2, off, z, u)
  BY <1>1, <1>2, <1>3, <1>5, <1>7, <1>8 DEF StepOf
<1> QED
  BY <1>6, <1>9

\* Lowered, about a free node or one that the thread has locked.
LEMMA LoweredOf ==
  ASSUME NEW nd, NEW z \in Int, 0 <= z, NEW n \in DOMAIN nd, NEW u, NodesOK(nd, z),
         nd[n].lock \in {u, Nobody}, NEW h \in Int, z <= h
  PROVE  LowerOf(nd, Lowered(nd[n], h), n, z, u) /\ Lowered(nd[n], h).zeroLevel <= h
<1>1. NodeOK(nd, z, n) /\ MAX_LEVEL \in Int
  BY SizeAssumption DEF NodesOK
<1>2. CASE nd[n].zeroLevel > h
  <2> DEFINE b == nd[n].zeroLevel
             H == [i \in Levels |-> IF i \in h .. b - 1 THEN 0 ELSE nd[n].hits[i]]
             N == [i \in Levels |-> IF i \in h .. b - 1 THEN nd[n].next[b] ELSE nd[n].next[i]]
             R == Lowered(nd[n], h)
  <2>1. R = [nd[n] EXCEPT !.hits = H, !.next = N, !.zeroLevel = h]
    BY <1>2 DEF Lowered
  <2>2. /\ b \in Int /\ b \in Levels /\ nd[n].topLevel \in Int /\ nd[n].next \in [Levels -> DOMAIN nd \cup {NULL}]
        /\ nd[n].hits \in [Levels -> Int] /\ DOMAIN nd[n] = NodeFields /\ nd[n].selfhits \in Int
    BY <1>1 DEF NodeOK, Levels
  <2>3. H \in [Levels -> Int] /\ N \in [Levels -> DOMAIN nd \cup {NULL}]
    BY <2>2
  <2>4. /\ \A i \in Levels : b <= i => N[i] = nd[n].next[i]
        /\ \A i \in Levels : h <= i /\ i < b => N[i] = nd[n].next[b]
    BY <2>2 DEF Levels
  <2> HIDE DEF H, N, R
  <2>5. /\ DOMAIN R = NodeFields /\ R.key = nd[n].key /\ R.topLevel = nd[n].topLevel /\ R.lock = nd[n].lock
        /\ R.selfhits = nd[n].selfhits /\ R.hits = H /\ R.next = N /\ R.zeroLevel = h
    BY <2>1, <2>2 DEF NodeFields
  <2>6. h <= nd[n].zeroLevel
    BY <1>2, <2>2
  <2> QED
    BY <2>2, <2>3, <2>4, <2>5, <2>6 DEF LowerOf, R
<1>3. CASE ~(nd[n].zeroLevel > h)
  <2>1. Lowered(nd[n], h) = nd[n] /\ nd[n].zeroLevel <= h
    BY <1>1, <1>3 DEF Lowered, NodeOK
  <2> QED
    BY <1>1, <2>1, SameOf
<1> QED
  BY <1>2, <1>3

\* One node is lowered.
LEMMA OneSunk ==
  ASSUME NEW nd, NEW nd2, NEW z \in Int, NEW u, NEW n, NEW R, NodesOK(nd, z), Replaced(nd, nd2, n, R),
         LowerOf(nd, R, n, z, u)
  PROVE  Sunk(nd, nd2, z, u)
<1>1. \A m \in DOMAIN nd : NodeOK(nd, z, m)
  BY DEF NodesOK
<1>2. ASSUME NEW m \in DOMAIN nd PROVE LowerOf(nd, nd2[m], m, z, u)
  <2>1. CASE m = n
    BY <2>1 DEF Replaced
  <2>2. CASE m # n
    BY <1>1, <2>2, SameOf DEF Replaced
  <2> QED
    BY <2>1, <2>2
<1> QED
  BY <1>2 DEF Sunk, Replaced

\* A node on the way of a search or a walk is lowered.
LEMMA FixInv ==
  ASSUME Inv, NEW u \in Threads, FixZeroLevel(u)
  PROVE  Inv'
<1> DEFINE L == l[u]
           n == L.fix
           R == Lowered(node[n], L.h)
           M == [L EXCEPT !.pc = L.back, !.fix = NULL, !.back = "idle"]
<1>0. /\ DOMAIN l = Threads /\ DOMAIN L = Fields /\ WalkOK(node, Off, zeroLevel, u, L) /\ NodesOK(node, zeroLevel)
      /\ zeroLevel \in Int /\ 0 <= zeroLevel /\ Lists(node, Off, zeroLevel)
      /\ todo \in Seq(Keys) /\ plan \in [Workers -> Seq(SUBSET (Operations \X Keys))] /\ u # Nobody
  BY Start
<1>1. /\ L.pc = "fix" /\ Place(L) = L.back /\ zeroLevel' = zeroLevel /\ UNCHANGED <<todo, plan>>
      /\ node[n].lock = Nobody /\ l' = [l EXCEPT ![u] = M] /\ node' = [node EXCEPT ![n] = R]
  BY DEF FixZeroLevel, At, Place, Do, client, Free
<1>2. /\ L.back \in {"f_read", "f_cmp", "u_cmp", "w_peek"} /\ n \in DOMAIN node
      /\ L.h \in Int /\ zeroLevel <= L.h /\ L.h < MAX_LEVEL /\ (L.back \in {"u_cmp", "w_peek"} => n = L.cur)
  BY <1>0, <1>1 DEF WalkOK, FindOK
<1>3. M.pc = L.back /\ Place(M) = L.back /\ Alike(L, M)
  BY <1>0, <1>2 DEF Alike, Place, Fields
<1>4. LowerOf(node, R, n, zeroLevel, u) /\ R.zeroLevel <= L.h
  BY <1>0, <1>1, <1>2, LoweredOf
<1>5. Replaced(node, node', n, R)
  BY <1>1, <1>2 DEF Replaced
<1>6. Held(M) = Held(L)
  BY <1>1, <1>3 DEF Held, Place, Alike
<1> HIDE DEF M, R, L, n
<1>7. Sunk(node, node', zeroLevel, u)
  BY <1>0, <1>4, <1>5, OneSunk
<1>8. StepOf(node, Off, zeroLevel, node', Off, zeroLevel, u) /\ Calm(node, node')
  BY <1>0, <1>7, SunkStep
<1>9. /\ DOMAIN node' = DOMAIN node /\ \A m \in DOMAIN node : node'[m].key = node[m].key /\ node'[m].lock = node[m].lock
      /\ node'[n].zeroLevel <= L.h
  BY <1>4, <1>5, <1>7 DEF Sunk, LowerOf, Replaced
<1>10. Moves(u, M)
  BY <1>0, <1>1, <1>3 DEF Moves, Alike
<1>11. Off' = Off
  BY <1>0, <1>1, <1>2, <1>3, <1>10, OffSame DEF L
<1>12. LocksMove(node, node', u, M)
  BY <1>6, <1>9 DEF LocksMove, Inv, LockInv, Nodes, L
<1>13. WalkOK(node', Off, zeroLevel, u, M)
  <2>1. FindOK(node', zeroLevel, M)
    <3>1. FindOK(node, zeroLevel, L)
      BY <1>0 DEF WalkOK
    <3> QED
      BY <1>1, <1>2, <1>3, <1>9, <3>1 DEF FindOK, Alike
  <2>2. CASE L.back \in {"f_read", "f_cmp"}
    BY <1>3, <2>1, <2>2, WalkAt DEF Searching
  <2>3. CASE L.back = "u_cmp"
    <3>1. /\ Zone(node, Off, zeroLevel, u, L) /\ PredOK(node, Off, L) /\ L.pred = L.predpred /\ ~L.acquired
          /\ node[L.pred].next[L.h] = L.cur /\ node[L.pred].key < L.key
      BY <1>0, <1>1, <2>3 DEF WalkOK, LevelOK
    <3>2. L.predpred \in DOMAIN node /\ node[L.predpred].lock = u /\ L.pred \in DOMAIN node
      BY <3>1, SMTT(30) DEF Zone, Anchor
    <3>3. Zone(node', Off, zeroLevel, u, L) /\ PredOK(node', Off, L) /\ node'[L.pred].next[L.h] = L.cur
      <4>1. node'[L.predpred].lock = u
        BY <1>9, <3>2
      <4>2. /\ Zone(node', Off, zeroLevel, u, L) /\ PredOK(node', Off, L)
            /\ SameNext(node, node', L.pred, L.h)
        BY <1>0, <1>8, <3>1, <4>1, PredCalm
      <4> QED
        BY <3>1, <4>2, Zenon DEF SameNext
    <3>4. LevelOK(node', Off, zeroLevel, u, M)
      BY <1>2, <1>3, <1>9, <2>3, <3>1, <3>2, <3>3 DEF LevelOK, Alike, Zone, PredOK
    <3> QED
      BY <1>3, <2>1, <2>3, <3>4, WalkAt
  <2>4. CASE L.back = "w_peek"
    <3>1. /\ Zone(node, Off, zeroLevel, u, L) /\ PredOK(node, Off, L) /\ CurOK(node, Off, L)
          /\ ~L.acquired /\ ~L.ok
      BY <1>0, <1>1, <2>4 DEF WalkOK, StepsOK
    <3>2. L.predpred \in DOMAIN node /\ node[L.predpred].lock = u
      BY <3>1, SMTT(30) DEF Zone, Anchor
    <3>3. Zone(node', Off, zeroLevel, u, L) /\ PredOK(node', Off, L) /\ CurOK(node', Off, L)
      <4>1. node'[L.predpred].lock = u
        BY <1>9, <3>2
      <4> QED
        BY <1>0, <1>8, <3>1, <4>1, PredCalm
    <3>4. StepsOK(node', Off, zeroLevel, u, M)
      BY <1>2, <1>3, <1>9, <2>4, <3>1, <3>3 DEF StepsOK, Alike, Zone, PredOK, CurOK
    <3> QED
      BY <1>3, <2>1, <2>4, <3>4, WalkAt
  <2> QED
    BY <1>2, <2>2, <2>3, <2>4
<1> QED
  BY <1>1, <1>8, <1>10, <1>11, <1>12, <1>13, StepInv

\* The head of the loop over the levels: pred is lowered to the level and its next node read.
LEMMA UpdateLevelInv ==
  ASSUME Inv, NEW u \in Threads, UpdateLevel(u)
  PROVE  Inv'
<1> DEFINE L == l[u]
           p == Lowered(node[L.pred], L.h)
           M == [L EXCEPT !.predpred = L.pred, !.cur = p.next[L.h]]
<1>0. /\ DOMAIN l = Threads /\ DOMAIN L = Fields /\ WalkOK(node, Off, zeroLevel, u, L) /\ NodesOK(node, zeroLevel)
      /\ zeroLevel \in Int /\ 0 <= zeroLevel /\ Lists(node, Off, zeroLevel) /\ MAX_LEVEL \in Int
      /\ todo \in Seq(Keys) /\ plan \in [Workers -> Seq(SUBSET (Operations \X Keys))] /\ u # Nobody
  BY Start
<1>1. L.pc = "u_level" /\ Place(L) = "u_level"
  BY DEF UpdateLevel, At, Place
<1>2. /\ L.pred \in DOMAIN node \ {tail} /\ node[L.pred].lock = u
      /\ L.h \in Int /\ L.h < MAX_LEVEL
      /\ On(node, Off, L.pred, L.h + 1) /\ node[L.pred].zeroLevel <= L.h + 1
      /\ L.key \in Keys /\ node[L.pred].key < L.key /\ L.key < node[node[L.pred].next[L.h + 1]].key
      /\ ~L.acquired /\ ~L.ok
  BY <1>0, <1>1 DEF WalkOK, LevelOK
<1>3. ~L.inserting => L.succ \in DOMAIN node /\ node[L.succ].key = L.key
  BY <1>0, <1>1 DEF WalkOK, FindOK, InUpdate
<1>4. Held(L) = {L.pred}
  BY <1>1, HeldAt
<1>5. CASE L.h < zeroLevel
  <2> DEFINE N == [L EXCEPT !.pc = "u_leave"]
  <2>1. Local(u, N)
    BY <1>5 DEF UpdateLevel, Goto
  <2>2. Alike(L, N) /\ N.pc = "u_leave" /\ Place(N) = "u_leave"
    BY <1>0, GotoAlike DEF Place
  <2> HIDE DEF N, L, p, M
  <2>3. FindOK(node, zeroLevel, N)
    BY <2>2 DEF FindOK, InUpdate, OnLevel
  <2>4. LevelOK(node, Off, zeroLevel, u, N)
    BY <1>2, <2>2 DEF LevelOK, Alike
  <2>5. WalkOK(node, Off, zeroLevel, u, N)
    BY <2>2, <2>3, <2>4, WalkAt
  <2>6. Held(N) = {L.pred}
    BY <2>2, HeldAt DEF Alike
  <2>7. Moves(u, N) /\ node' = node /\ zeroLevel' = zeroLevel
    BY <1>0, <2>1, <2>2 DEF Moves, Alike, Local, Do, client
  <2> QED
    BY <1>1, <1>4, <2>2, <2>5, <2>6, <2>7, QuietInv DEF L
<1>6. CASE ~(L.h < zeroLevel)
  <2> DEFINE N == IF M.cur = NULL THEN [M EXCEPT !.pc = "crash"] ELSE Via(M, M.cur, "u_cmp")
  <2>1. Do(u, [node EXCEPT ![L.pred] = p], N)
    BY <1>6, Zenon DEF UpdateLevel
  <2>2. zeroLevel <= L.h /\ L.h + 1 \in Int /\ L.h + 1 <= MAX_LEVEL
    BY <1>0, <1>2, <1>6
  <2>3. LowerOf(node, p, L.pred, zeroLevel, u) /\ p.zeroLevel <= L.h
    BY <1>0, <1>2, <2>2, LoweredOf
  <2>4. Replaced(node, node', L.pred, p)
    BY <1>2, <2>1, Zenon DEF Replaced, Do
  <2>5. /\ DOMAIN M = Fields /\ M.pred = L.pred /\ M.predpred = L.pred /\ M.cur = p.next[L.h] /\ M.h = L.h
        /\ M.key = L.key /\ M.acquired = L.acquired /\ M.ok = L.ok /\ M.inserting = L.inserting /\ M.succ = L.succ
    BY <1>0 DEF Fields
  <2>6. l' = [l EXCEPT ![u] = N] /\ zeroLevel' = zeroLevel /\ UNCHANGED <<todo, plan>>
    BY <2>1 DEF Do, client
  <2>7. N = IF M.cur = NULL THEN [M EXCEPT !.pc = "crash"] ELSE Via(M, M.cur, "u_cmp")
    OBVIOUS
  <2> HIDE DEF N, L, p, M
  <2>8. Sunk(node, node', zeroLevel, u)
    BY <1>0, <2>3, <2>4, OneSunk
  <2>9. StepOf(node, Off, zeroLevel, node', Off, zeroLevel, u) /\ Calm(node, node')
    BY <1>0, <2>8, SunkStep
  <2>10. /\ DOMAIN node' = DOMAIN node /\ NodesOK(node', zeroLevel) /\ Lists(node', Off, zeroLevel)
         /\ \A m \in DOMAIN node : node'[m].key = node[m].key /\ node'[m].lock = node[m].lock /\ node'[m].topLevel = node[m].topLevel
         /\ node'[L.pred].zeroLevel <= L.h /\ node'[L.pred] = p
    BY <2>3, <2>4, <2>8, <2>9 DEF Sunk, LowerOf, Replaced, StepOf
  <2>11. On(node, Off, L.pred, L.h) /\ node[L.pred].key \in Int
    <3>1. node[L.pred].topLevel \in Int /\ node[L.pred].key \in Int
      BY <1>0, <1>2, NodeTypes
    <3>2. L.h < node[L.pred].topLevel
      BY <1>2, <3>1 DEF On
    <3> QED
      BY <1>2, <3>1, <3>2, OnLevels
  <2>12. On(node', Off, L.pred, L.h) /\ On(node', Off, L.pred, L.h + 1)
    BY <1>2, <2>10, <2>11 DEF On
  <2>13. /\ M.cur = node'[L.pred].next[L.h] /\ M.cur \in DOMAIN node /\ M.cur # NULL
         /\ Follows(node', Off, L.pred, M.cur, L.h)
    <3>1. L.pred \in DOMAIN node' \ {tail} /\ L.h <= MAX_LEVEL
      BY <1>0, <1>2, <2>10
    <3>2. M.cur = node'[L.pred].next[L.h]
      BY <2>5, <2>10
    <3> QED
      BY <1>0, <1>2, <2>2, <2>10, <2>12, <3>1, <3>2, NextOn
  <2>14. M.cur # L.pred /\ node'[M.cur] = node[M.cur]
    BY <2>4, <2>10, <2>11, <2>13 DEF Follows, Replaced
  <2>15. node[M.cur].zeroLevel \in Int
    BY <1>0, <2>13, NodeTypes
  <2>16. N = Via(M, M.cur, "u_cmp")
    BY <2>7, <2>13
  <2>17. /\ Alike(M, N) /\ Place(N) = "u_cmp" /\ (N.pc = "fix" => N.fix = M.cur /\ N.back = "u_cmp")
         /\ N.pc # "fix" => N.pc = "u_cmp" /\ node[M.cur].zeroLevel <= M.h
    BY <1>2, <2>5, <2>15, <2>16, ViaAlike
  <2>18. /\ node'[L.pred].next[L.h + 1] = node[L.pred].next[L.h + 1]
         /\ node[L.pred].next[L.h + 1] \in DOMAIN node
    <3>1. L.h + 1 \in Levels /\ zeroLevel <= L.h + 1
      BY <1>0, <1>2, <2>2 DEF Levels
    <3> QED
      BY <1>0, <1>2, <2>2, <2>9, <3>1, NextOn DEF Calm
  <2>19. L.key < node'[node'[L.pred].next[L.h + 1]].key /\ node'[L.pred].key < L.key
    BY <1>2, <2>10, <2>18
  <2>20. Anchor(node', Off, zeroLevel, u, L.pred, L.h, L.key)
    <3>0. L.key \in Int /\ node'[L.pred].key \in Int
      BY <1>2, <2>10, <2>11, KeysAssumption
    <3>1. node'[L.pred].key <= L.key
      BY <2>19, <3>0
    <3> QED
      BY <1>2, <2>2, <2>10, <2>12, <2>19, <3>1 DEF Anchor
  <2>21. Zone(node', Off, zeroLevel, u, N) /\ PredOK(node', Off, N)
    <3>1. node'[L.pred].key <= L.key /\ node'[L.pred].key <= node'[L.pred].key
      BY <1>2, <2>10, <2>11, <2>20, SMTT(30) DEF Anchor
    <3> QED
      BY <1>2, <2>5, <2>10, <2>12, <2>17, <2>20, <3>1 DEF Zone, PredOK, Alike
  <2>22. LevelOK(node', Off, zeroLevel, u, N)
    BY <1>2, <2>5, <2>13, <2>14, <2>17, <2>19, <2>21, ZenonT(40) DEF LevelOK, Alike
  <2>23. FindOK(node', zeroLevel, N)
    BY <1>2, <1>3, <2>2, <2>5, <2>10, <2>13, <2>17 DEF FindOK, Alike, InUpdate, OnLevel
  <2>24. WalkOK(node', Off, zeroLevel, u, N)
    BY <2>17, <2>22, <2>23, WalkAt
  <2>25. Held(N) = {L.pred}
    BY <2>5, <2>17, HeldAt DEF Alike
  <2>26. LocksMove(node, node', u, N)
    BY <1>4, <2>10, <2>25 DEF LocksMove, Inv, LockInv, Nodes, L
  <2>27. Moves(u, N)
    BY <1>0, <2>6, <2>17 DEF Moves, Alike
  <2>28. Off' = Off
    <3>1. N.pc \notin {"d_null", "d_top"}
      BY <2>17
    <3> QED
      BY <1>0, <1>1, <2>27, <3>1, OffSame DEF L
  <2> QED
    BY <2>6, <2>9, <2>24, <2>26, <2>27, <2>28, StepInv, SMTT(30)
<1> QED
  BY <1>5, <1>6

\* updateZeroLevel as a demotion from level h calls it.
LEMMA LowOf ==
  ASSUME NEW n \in DOMAIN node, NEW u, NodesOK(node, zeroLevel), node[n].lock \in {u, Nobody},
         NEW h \in Int, zeroLevel \in Int, 0 <= zeroLevel, zeroLevel < h, node[n].zeroLevel <= h, h <= MAX_LEVEL,
         NEW c, c = IF node[n].zeroLevel > h - 1 THEN updateZeroLevel(node[n]) ELSE node[n]
  PROVE  LowerOf(node, c, n, zeroLevel, u) /\ c.zeroLevel < h
<1>1. NodeOK(node, zeroLevel, n) /\ MAX_LEVEL \in Int /\ h \in Levels
  BY SizeAssumption DEF NodesOK, Levels
<1>2. CASE node[n].zeroLevel > h - 1
  <2>1. node[n].zeroLevel = h /\ node[n].zeroLevel > zeroLevel
    BY <1>1, <1>2 DEF NodeOK
  <2>2. c = [node[n] EXCEPT !.hits[h - 1] = 0, !.next[h - 1] = node[n].next[h], !.zeroLevel = h - 1]
    BY <1>2, <2>1 DEF updateZeroLevel
  <2>3. /\ DOMAIN c = NodeFields /\ c.key = node[n].key /\ c.topLevel = node[n].topLevel /\ c.lock = node[n].lock
        /\ c.selfhits = node[n].selfhits /\ c.zeroLevel = h - 1
        /\ c.hits = [node[n].hits EXCEPT ![h - 1] = 0] /\ c.next = [node[n].next EXCEPT ![h - 1] = node[n].next[h]]
    BY <1>1, <2>2 DEF NodeOK, NodeFields
  <2>4. h - 1 \in Levels /\ \A i \in Levels : i \in Int
    BY <1>1 DEF Levels
  <2>5. c.hits \in [Levels -> Int] /\ c.next \in [Levels -> DOMAIN node \cup {NULL}]
    BY <1>1, <2>3, <2>4 DEF NodeOK
  <2>6. /\ \A i \in Levels : node[n].zeroLevel <= i => c.next[i] = node[n].next[i]
        /\ \A i \in Levels : c.zeroLevel <= i /\ i < node[n].zeroLevel => c.next[i] = node[n].next[node[n].zeroLevel]
    BY <1>1, <2>1, <2>3, <2>4 DEF NodeOK
  <2> QED
    BY <1>1, <2>1, <2>3, <2>5, <2>6 DEF LowerOf, NodeOK
<1>3. CASE ~(node[n].zeroLevel > h - 1)
  <2>1. c = node[n] /\ c.zeroLevel < h
    BY <1>1, <1>3 DEF NodeOK
  <2> QED
    BY <1>1, <2>1, SameOf
<1> QED
  BY <1>2, <1>3

\* A new count of hits in such a node.
Recounted(c, R, h, v) == R = [c EXCEPT !.hits[h] = v]

\* It is as low as before.
LEMMA CountOf ==
  ASSUME NEW nd, NEW n, NEW z, NEW u, nd[n].lock \in {u, Nobody}, NEW c, LowerOf(nd, c, n, z, u),
         NEW h \in Levels, NEW v \in Int, NEW R, Recounted(c, R, h, v)
  PROVE  LowerOf(nd, R, n, z, u) /\ R.zeroLevel = c.zeroLevel
<1>1. /\ DOMAIN R = NodeFields /\ R.key = c.key /\ R.topLevel = c.topLevel /\ R.lock = c.lock
      /\ R.selfhits = c.selfhits /\ R.zeroLevel = c.zeroLevel /\ R.next = c.next
      /\ R.hits = [c.hits EXCEPT ![h] = v]
  BY DEF LowerOf, NodeFields, Recounted
<1>2. R.hits \in [Levels -> Int]
  BY <1>1 DEF LowerOf
<1> QED
  BY <1>1, <1>2 DEF LowerOf

\* The columns of pred and cur reach below the level before cur leaves it.
LEMMA DemoteLowerInv ==
  ASSUME Inv, NEW u \in Threads, DemoteLower(u)
  PROVE  Inv'
<1> DEFINE L == l[u]
           c == IF node[L.cur].zeroLevel > L.h - 1 THEN updateZeroLevel(node[L.cur]) ELSE node[L.cur]
           p == IF node[L.pred].zeroLevel > L.h - 1 THEN updateZeroLevel(node[L.pred]) ELSE node[L.pred]
           v == p.hits[L.h] + getHits(c, L.h)
           C == [c EXCEPT !.hits[L.h] = 0]
           P == [p EXCEPT !.hits[L.h] = v]
           M == [L EXCEPT !.pc = "d_unlink"]
<1>0. /\ DOMAIN l = Threads /\ DOMAIN L = Fields /\ WalkOK(node, Off, zeroLevel, u, L) /\ NodesOK(node, zeroLevel)
      /\ zeroLevel \in Int /\ 0 <= zeroLevel /\ Lists(node, Off, zeroLevel) /\ MAX_LEVEL \in Int
      /\ todo \in Seq(Keys) /\ plan \in [Workers -> Seq(SUBSET (Operations \X Keys))] /\ u # Nobody
  BY Start
<1>1. /\ L.pc = "d_low" /\ Place(L) = "d_low" /\ zeroLevel' = zeroLevel /\ UNCHANGED <<todo, plan>>
      /\ node' = [node EXCEPT ![L.cur] = C, ![L.pred] = P] /\ l' = [l EXCEPT ![u] = M]
  BY Zenon DEF DemoteLower, At, Place, Do, client
<1>2. Demotable(node, Off, zeroLevel, u, L) /\ zeroLevel < L.h
  BY <1>0, <1>1 DEF WalkOK, DemoteOK
<1>3. /\ L.pred \in DOMAIN node /\ node[L.pred].lock = u /\ node[L.pred].zeroLevel <= L.h
      /\ L.cur \in DOMAIN node /\ node[L.cur].lock = u /\ node[L.cur].zeroLevel <= L.h
      /\ L.h \in Int /\ L.h < MAX_LEVEL /\ L.predpred \in DOMAIN node /\ node[L.predpred].lock = u
      /\ node[L.pred].key < node[L.cur].key /\ node[L.cur].topLevel = L.h /\ node[L.pred].next[L.h] = L.cur
  BY <1>2 DEF Demotable, Walking, PredOK, CurOK, Zone, Anchor
<1>4. L.pred # L.cur
  BY <1>0, <1>3, NodeTypes, SMTT(30)
<1>5. Carried(node, zeroLevel, L)
  BY <1>0, <1>1, <1>2, CarriedOn, Zenon DEF WalkOK, OnLevel, Demotable, Walking
<1>6. Alike(L, M) /\ M.pc = "d_unlink" /\ Place(M) = "d_unlink"
  BY <1>0, GotoAlike DEF Place
<1>7. L.h \in Levels /\ L.h <= MAX_LEVEL /\ 0 \in Int
  BY <1>0, <1>2, <1>3 DEF Levels
<1>8. /\ LowerOf(node, c, L.cur, zeroLevel, u) /\ c.zeroLevel < L.h
      /\ LowerOf(node, p, L.pred, zeroLevel, u) /\ p.zeroLevel < L.h
  BY <1>0, <1>2, <1>3, <1>7, LowOf
<1>9. v \in Int
  <2> HIDE DEF c, p
  <2> QED
    BY <1>7, <1>8 DEF LowerOf, getHits
<1>10. /\ LowerOf(node, C, L.cur, zeroLevel, u) /\ C.zeroLevel < L.h
       /\ LowerOf(node, P, L.pred, zeroLevel, u) /\ P.zeroLevel < L.h
  <2> HIDE DEF v, c, p
  <2>1. Recounted(c, C, L.h, 0) /\ Recounted(p, P, L.h, v)
    BY DEF Recounted
  <2> HIDE DEF C, P
  <2>2. LowerOf(node, C, L.cur, zeroLevel, u) /\ C.zeroLevel = c.zeroLevel
    BY <1>3, <1>7, <1>8, <2>1, CountOf
  <2>3. LowerOf(node, P, L.pred, zeroLevel, u) /\ P.zeroLevel = p.zeroLevel
    BY <1>3, <1>7, <1>8, <1>9, <2>1, CountOf
  <2> QED
    BY <1>8, <2>2, <2>3
<1> HIDE DEF M, L, c, p, v, C, P
<1>11. /\ DOMAIN node' = DOMAIN node /\ node'[L.cur] = C /\ node'[L.pred] = P
       /\ \A n \in DOMAIN node \ {L.cur, L.pred} : node'[n] = node[n]
  BY <1>1, <1>3, <1>4
<1>12. Sunk(node, node', zeroLevel, u)
  <2>1. ASSUME NEW n \in DOMAIN node PROVE LowerOf(node, node'[n], n, zeroLevel, u)
    <3>1. CASE n \notin {L.cur, L.pred}
      <4>1. NodeOK(node, zeroLevel, n) /\ node'[n] = node[n]
        BY <1>0, <1>11, <3>1 DEF NodesOK
      <4> QED
        BY <1>0, <4>1, SameOf
    <3> QED
      BY <1>10, <1>11, <3>1
  <2> QED
    BY <1>11, <2>1 DEF Sunk
<1>13. StepOf(node, Off, zeroLevel, node', Off, zeroLevel, u) /\ Calm(node, node')
  BY <1>0, <1>12, SunkStep
<1>14. \A n \in DOMAIN node : node'[n].key = node[n].key /\ node'[n].lock = node[n].lock /\ node'[n].topLevel = node[n].topLevel
  BY <1>12, SMTT(30) DEF Sunk, LowerOf
<1>15. /\ Walking(node', Off, zeroLevel, u, L)
       /\ node'[L.cur].next[L.h] = node[L.cur].next[L.h]
       /\ node'[node[L.cur].next[L.h]].key = node[node[L.cur].next[L.h]].key
       /\ node'[L.pred].next[L.h] = node[L.pred].next[L.h]
  <2>1. /\ Zone(node, Off, zeroLevel, u, L) /\ PredOK(node, Off, L) /\ CurOK(node, Off, L)
        /\ node[L.cur].zeroLevel <= L.h /\ node'[L.predpred].lock = u
    BY <1>2, <1>3, <1>14 DEF Walking, Demotable
  <2> QED
    <3>1. /\ Walking(node', Off, zeroLevel, u, L)
          /\ SameNext(node, node', L.pred, L.h) /\ SameNext(node, node', L.cur, L.h)
      BY <1>0, <1>13, <2>1, WalkingCalm DEF Walking
    <3> QED
      BY <3>1, Zenon DEF SameNext
<1>16. Demotable(node', Off, zeroLevel, u, L)
  BY <1>2, <1>3, <1>14, <1>15 DEF Demotable
<1>17. Demotable(node', Off, zeroLevel, u, M) /\ zeroLevel < M.h
  BY <1>2, <1>6, <1>16 DEF Demotable, Walking, Zone, PredOK, CurOK, Alike
<1>18. DemoteOK(node', Off, zeroLevel, u, M)
  BY <1>6, <1>10, <1>11, <1>17 DEF DemoteOK, Alike
<1>19. Carried(node', zeroLevel, M)
  BY <1>5, <1>6, <1>11, <1>14 DEF Carried, Alike
<1>20. FindOK(node', zeroLevel, M)
  BY <1>6, <1>19, FindOnLevel DEF OnLevel
<1>21. WalkOK(node', Off, zeroLevel, u, M)
  BY <1>6, <1>18, <1>20, WalkAt
<1>22. Held(L) = {L.predpred, L.pred, L.cur} /\ Held(M) = {L.predpred, L.pred, L.cur}
  BY <1>1, <1>6, HeldAt DEF Alike
<1>23. LocksMove(node, node', u, M)
  BY <1>11, <1>14, <1>22 DEF LocksMove, Inv, LockInv, Nodes, L
<1>24. Moves(u, M)
  BY <1>0, <1>1, <1>6 DEF Moves, Alike
<1>25. Off' = Off
  BY <1>0, <1>1, <1>6, <1>24, OffSame DEF L
<1> QED
  BY <1>1, <1>13, <1>21, <1>23, <1>24, <1>25, StepInv

-----------------------------------------------------------------------------
(* The steps that take a node off a level *)

\* Off while a thread is at the end of a demotion, and no node is taken off by two threads.
LEMMA OffMoves ==
  ASSUME Inv, NEW u \in Threads, NEW L2, Moves(u, L2)
  PROVE  /\ l[u].pc \notin {"d_null", "d_top"} /\ L2.pc \in {"d_null", "d_top"} =>
              Off' = Off \cup {<<L2.cur, L2.h>>}
         /\ l[u].pc \in {"d_null", "d_top"} =>
              /\ <<l[u].cur, l[u].h>> \in Off
              /\ L2.pc \in {"d_null", "d_top"} /\ L2.cur = l[u].cur /\ L2.h = l[u].h => Off' = Off
              /\ L2.pc \notin {"d_null", "d_top"} => Off' = Off \ {<<l[u].cur, l[u].h>>}
<1> DEFINE S == {s \in Threads : l[s].pc \in {"d_null", "d_top"}}
           T == {s \in Threads : l'[s].pc \in {"d_null", "d_top"}}
<1>0. DOMAIN l = Threads
  BY DEF Inv, ClientInv
<1>1. l'[u] = L2 /\ \A t \in Threads \ {u} : l'[t] = l[t]
  BY <1>0 DEF Moves
<1>2. Off = {<<l[t].cur, l[t].h>> : t \in S} /\ Off' = {<<l'[t].cur, l'[t].h>> : t \in T}
  BY DEF Off
<1>3. ASSUME NEW t \in S, t # u, u \in S
      PROVE  l[t].cur # l[u].cur
  <2>1. WalkOK(node, Off, zeroLevel, t, l[t]) /\ WalkOK(node, Off, zeroLevel, u, l[u])
    BY SMTT(30) DEF Inv, WalksInv
  <2>2. node[l[t].cur].lock = t /\ node[l[u].cur].lock = u
    BY <1>3, <2>1, Zenon DEF WalkOK, DemoteOK, Demoted
  <2> QED
    BY <1>3, <2>2
<1>4. S \ {u} = T \ {u} /\ u \in Threads
  BY <1>1
<1>5. ASSUME u \notin S, u \in T PROVE Off' = Off \cup {<<L2.cur, L2.h>>}
  BY <1>1, <1>2, <1>4, <1>5
<1>6. ASSUME u \in S PROVE <<l[u].cur, l[u].h>> \in Off
  BY <1>2, <1>6
<1>7. ASSUME u \in S, u \in T, L2.cur = l[u].cur, L2.h = l[u].h PROVE Off' = Off
  BY <1>1, <1>2, <1>4, <1>7
<1>8. ASSUME u \in S, u \notin T PROVE Off' = Off \ {<<l[u].cur, l[u].h>>}
  <2>1. T = S \ {u}
    BY <1>4, <1>8
  <2>2. ASSUME NEW x \in Off' PROVE x \in Off \ {<<l[u].cur, l[u].h>>}
    <3>1. PICK t \in T : x = <<l'[t].cur, l'[t].h>>
      BY <1>2, <2>2
    <3>2. t \in S /\ t # u /\ x = <<l[t].cur, l[t].h>>
      BY <1>1, <2>1, <3>1
    <3> QED
      BY <1>2, <1>3, <1>8, <3>2
  <2>3. ASSUME NEW x \in Off \ {<<l[u].cur, l[u].h>>} PROVE x \in Off'
    <3>1. PICK t \in S : x = <<l[t].cur, l[t].h>>
      BY <1>2, <2>3
    <3>2. t # u
      BY <2>3, <3>1
    <3>3. t \in T /\ l'[t] = l[t]
      BY <1>1, <2>1, <3>2
    <3> QED
      BY <1>2, <3>1, <3>3
  <2> QED
    BY <2>2, <2>3
<1>9. (l[u].pc \in {"d_null", "d_top"} <=> u \in S) /\ (L2.pc \in {"d_null", "d_top"} <=> u \in T)
  BY <1>1
<1> HIDE DEF S, T
<1> QED
  BY <1>5, <1>6, <1>7, <1>8, <1>9

\* cur leaves the level: pred takes over its next node.
LEMMA DemoteUnlinkInv ==
  ASSUME Inv, NEW u \in Threads, DemoteUnlink(u)
  PROVE  Inv'
<1> DEFINE L == l[u]
           p == L.pred
           c == L.cur
           h == L.h
           q == L.predpred
           M == [L EXCEPT !.pc = "d_null"]
<1>0. /\ DOMAIN l = Threads /\ DOMAIN L = Fields /\ WalkOK(node, Off, zeroLevel, u, L) /\ NodesOK(node, zeroLevel)
      /\ zeroLevel \in Int /\ 0 <= zeroLevel /\ Lists(node, Off, zeroLevel) /\ MAX_LEVEL \in Int
      /\ todo \in Seq(Keys) /\ plan \in [Workers -> Seq(SUBSET (Operations \X Keys))] /\ u # Nobody
  BY Start
<1>1. /\ L.pc = "d_unlink" /\ Place(L) = "d_unlink" /\ zeroLevel' = zeroLevel /\ UNCHANGED <<todo, plan>>
      /\ node' = [node EXCEPT ![p].next[h] = node[c].next[h]] /\ l' = [l EXCEPT ![u] = M]
  BY DEF DemoteUnlink, At, Place, Do, client
<1>2. /\ Demotable(node, Off, zeroLevel, u, L) /\ zeroLevel < h
      /\ node[p].zeroLevel < h /\ node[c].zeroLevel < h
  BY <1>0, <1>1, SMTT(30) DEF WalkOK, DemoteOK
<1>3. /\ p \in DOMAIN node \ {tail} /\ node[p].lock = u /\ On(node, Off, p, h)
      /\ c \in DOMAIN node \ {head, tail} /\ node[c].lock = u /\ On(node, Off, c, h)
      /\ h \in Int /\ h < MAX_LEVEL /\ q \in DOMAIN node \ {tail} /\ node[q].lock = u /\ On(node, Off, q, h + 1)
      /\ node[q].zeroLevel <= h /\ node[q].key <= node[p].key /\ node[q].key <= L.key
      /\ L.key < node[node[q].next[h + 1]].key /\ L.key \in Keys
      /\ node[p].key < node[c].key /\ node[c].key <= L.key /\ node[p].key <= L.key
      /\ node[c].topLevel = h /\ node[p].next[h] = c
      /\ node[node[c].next[h]].key <= L.key /\ ~L.acquired /\ ~L.ok
  BY <1>2, Zenon DEF Demotable, Walking, PredOK, CurOK, Zone, Anchor
<1>4. Carried(node, zeroLevel, L)
  BY <1>0, <1>1, <1>2, CarriedOn DEF WalkOK, OnLevel, Demotable, Walking
<1>5. /\ DOMAIN M = Fields /\ M.pc = "d_null" /\ Place(M) = "d_null" /\ Alike(L, M)
  BY <1>0, GotoAlike DEF Place, Alike
<1>6. M.cur = c /\ M.h = h /\ M.pred = p /\ M.predpred = q /\ M.key = L.key /\ M.acquired = L.acquired /\ M.ok = L.ok
  BY <1>5 DEF Alike
<1>7. /\ node[p].key \in Int /\ node[c].key \in Int /\ node[q].key \in Int /\ L.key \in Int
      /\ node[p].zeroLevel \in Int /\ node[c].zeroLevel \in Int /\ node[q].zeroLevel \in Int
  BY <1>0, <1>3, NodeTypes, KeysAssumption, Zenon
<1>8. p # c /\ q # c
  BY <1>3, <1>7
<1>9. \A n \in DOMAIN node : NodeOK(node, zeroLevel, n)
  BY <1>0 DEF NodesOK
<1>10. h \in Levels /\ h \in zeroLevel .. MAX_LEVEL /\ h + 1 \in zeroLevel .. MAX_LEVEL /\ h + 1 \in Levels /\ h + 1 # h
  BY <1>0, <1>2, <1>3 DEF Levels
<1>11. /\ DOMAIN node' = DOMAIN node /\ \A n \in DOMAIN node \ {p} : node'[n] = node[n]
       /\ DOMAIN node'[p] = NodeFields
       /\ node'[p].next[h] = node[c].next[h] /\ \A i \in Levels \ {h} : node'[p].next[i] = node[p].next[i]
       /\ node'[p].next \in [Levels -> DOMAIN node \cup {NULL}]
       /\ \A f \in NodeFields \ {"next"} : node'[p][f] = node[p][f]
  <2>1. NodeOK(node, zeroLevel, p) /\ NodeOK(node, zeroLevel, c)
    BY <1>3, <1>9
  <2>2. /\ DOMAIN node[p] = NodeFields /\ node[p].next \in [Levels -> DOMAIN node \cup {NULL}]
        /\ node[c].next[h] \in DOMAIN node \cup {NULL}
    BY <1>10, <2>1 DEF NodeOK
  <2> DEFINE N == [node[p].next EXCEPT ![h] = node[c].next[h]]
  <2>3. /\ N \in [Levels -> DOMAIN node \cup {NULL}] /\ N[h] = node[c].next[h]
        /\ \A i \in Levels \ {h} : N[i] = node[p].next[i]
    BY <1>10, <2>2
  <2>4. /\ node' = [node EXCEPT ![p] = [node[p] EXCEPT !.next = N]]
    BY <1>1
  <2> HIDE DEF N, M, L, p, c, h, q
  <2>5. /\ DOMAIN node' = DOMAIN node /\ \A n \in DOMAIN node \ {p} : node'[n] = node[n]
        /\ node'[p] = [node[p] EXCEPT !.next = N]
    BY <1>3, <2>4
  <2>6. /\ DOMAIN node'[p] = NodeFields /\ node'[p].next = N
        /\ \A f \in NodeFields \ {"next"} : node'[p][f] = node[p][f]
    BY <2>2, <2>5 DEF NodeFields
  <2> QED
    BY <2>3, <2>5, <2>6
<1> HIDE DEF M, L, p, c, h, q
<1>12. \A n \in DOMAIN node : /\ node'[n].key = node[n].key /\ node'[n].lock = node[n].lock
                              /\ node'[n].topLevel = node[n].topLevel /\ node'[n].zeroLevel = node[n].zeroLevel
                              /\ node'[n].selfhits = node[n].selfhits /\ node'[n].hits = node[n].hits
                              /\ DOMAIN node'[n] = NodeFields /\ node'[n].next \in [Levels -> DOMAIN node \cup {NULL}]
  <2>1. /\ node'[p].key = node[p].key /\ node'[p].lock = node[p].lock
        /\ node'[p].topLevel = node[p].topLevel /\ node'[p].zeroLevel = node[p].zeroLevel
        /\ node'[p].selfhits = node[p].selfhits /\ node'[p].hits = node[p].hits
    BY <1>11 DEF NodeFields
  <2> QED
    BY <1>9, <1>11, <2>1 DEF NodeOK
<1>13. \A n \in DOMAIN node, i \in Levels : ~(n = p /\ i = h) => node'[n].next[i] = node[n].next[i]
  BY <1>11
<1>14. Moves(u, M)
  BY <1>0, <1>1, <1>5 DEF Moves
<1>15. Off' = Off \cup {<<c, h>>}
  <2>1. l[u].pc \notin {"d_null", "d_top"}
    BY <1>1 DEF L
  <2> QED
    BY <1>5, <1>6, <1>14, <2>1, OffMoves
<1>16. \A n \in DOMAIN node, i \in Int : On(node', Off', n, i) <=> On(node, Off, n, i) /\ ~(n = c /\ i = h)
  BY <1>12, <1>15 DEF On
<1>17. NodesOK(node', zeroLevel)
  <2>1. ASSUME NEW n \in DOMAIN node PROVE NodeOK(node', zeroLevel, n)
    <3>1. NodeOK(node, zeroLevel, n)
      BY <1>9
    <3> QED
      BY <1>11, <1>12, <3>1 DEF NodeOK
  <2>2. head \in DOMAIN node /\ tail \in DOMAIN node
    BY <1>0, NodeTypes
  <2> QED
    BY <1>0, <1>11, <1>12, <2>1, <2>2, ZenonT(40) DEF NodesOK
<1>18. NextIn(node, p, h) = c /\ NextIn(node', p, h) = NextIn(node, c, h)
  BY <1>2, <1>3, <1>7, <1>8, <1>11, <1>12 DEF NextIn
<1>19. Unlinked(node, Off, node', Off', zeroLevel, p, c, h)
  <2>1. ASSUME NEW i \in zeroLevel .. MAX_LEVEL, NEW n \in DOMAIN node, ~(n = p /\ i = h)
        PROVE  NextIn(node', n, i) = NextIn(node, n, i)
    <3>1. node[n].zeroLevel \in Levels /\ i \in Levels /\ node[n].zeroLevel \in Int
      <4>1. NodeOK(node, zeroLevel, n)
        BY <1>9
      <4> QED
        BY <1>0, <4>1 DEF NodeOK, Levels
    <3>2. n = p => node[n].zeroLevel # h
      BY <1>2, <1>3, <3>1
    <3> QED
      BY <1>12, <1>13, <2>1, <3>1, <3>2 DEF NextIn
  <2>2. \A i \in zeroLevel .. MAX_LEVEL : i \in Int
    BY <1>0
  <2> QED
    BY <1>3, <1>10, <1>11, <1>12, <1>16, <1>18, <2>1, <2>2 DEF Unlinked
<1>20. Lists(node', Off', zeroLevel)
  BY <1>0, <1>19, UnlinkedLists, NodeTypes
<1>21. Owned(node, Off, u, c, h)
  <2>1. NextIn(node, q, h + 1) = node[q].next[h + 1]
    BY <1>3, <1>7 DEF NextIn
  <2>2. node[q].next[h + 1] \in DOMAIN node
    <3>1. node[q].zeroLevel <= h + 1 /\ zeroLevel <= h + 1 /\ h + 1 <= MAX_LEVEL /\ h + 1 \in Int
      BY <1>0, <1>2, <1>3, <1>7, SMTT(30)
    <3> QED
      BY <1>0, <1>3, <3>1, NextOn
  <2>3. node[node[q].next[h + 1]].key \in Int
    BY <1>0, <2>2, NodeTypes
  <2>4. node[q].key < node[c].key /\ node[c].key < node[NextIn(node, q, h + 1)].key
    BY <1>3, <1>7, <2>1, <2>3
  <2> QED
    BY <1>3, <2>4 DEF Owned
<1>22. StepOf(node, Off, zeroLevel, node', Off', zeroLevel, u)
  <2>1. \A n \in DOMAIN node : node[n].lock \notin {u, Nobody} => node'[n] = node[n]
    BY <1>3, <1>11
  <2>2. \A i \in zeroLevel .. MAX_LEVEL, n \in DOMAIN node :
          On(node, Off, n, i) => On(node', Off', n, i) \/ Owned(node, Off, u, n, i)
    BY <1>0, <1>16, <1>21
  <2>3. \A n \in DOMAIN node : node[n].zeroLevel \in Int
    BY <1>9 DEF NodeOK
  <2> QED
    BY <1>0, <1>11, <1>12, <1>17, <1>20, <2>1, <2>2, <2>3 DEF StepOf
<1>23. node'[q].next[h + 1] = node[q].next[h + 1] /\ node[q].next[h + 1] \in DOMAIN node /\ node[c].next[h] \in DOMAIN node
  <2>1. node[q].zeroLevel <= h + 1 /\ zeroLevel <= h + 1 /\ h + 1 <= MAX_LEVEL /\ h + 1 \in Int
    BY <1>0, <1>2, <1>3, <1>7
  <2>2. zeroLevel <= h /\ h <= MAX_LEVEL
    BY <1>0, <1>2, <1>3
  <2>3. node[c].zeroLevel <= h
    BY <1>2, <1>3, <1>7
  <2>4. node[q].next[h + 1] \in DOMAIN node
    BY <1>0, <1>3, <2>1, NextOn
  <2>5. node[c].next[h] \in DOMAIN node
    BY <1>0, <1>3, <2>2, <2>3, NextOn
  <2> QED
    BY <1>3, <1>10, <1>13, <2>4, <2>5
<1>24. Zone(node', Off', zeroLevel, u, M) /\ PredOK(node', Off', M)
  <2>1. node'[q].key <= L.key /\ L.key < node'[node'[q].next[h + 1]].key /\ zeroLevel <= h /\ h + 1 \in Int /\ node'[p].zeroLevel <= h
    BY <1>0, <1>2, <1>3, <1>7, <1>12, <1>23, SMTT(30)
  <2> QED
    BY <1>3, <1>6, <1>8, <1>11, <1>12, <1>16, <2>1 DEF Zone, Anchor, PredOK
<1>25. DemoteOK(node', Off', zeroLevel, u, M)
  <2>1. node'[node'[p].next[h]].key <= L.key
    BY <1>3, <1>11, <1>12, <1>23
  <2>2. Demoted(node', Off', zeroLevel, u, M)
    BY <1>2, <1>3, <1>6, <1>11, <1>12, <1>24, <2>1 DEF Demoted
  <2> QED
    BY <1>3, <1>5, <1>6, <1>12, <2>2 DEF DemoteOK
<1>26. Carried(node', zeroLevel, M)
  BY <1>4, <1>5, <1>11, <1>12 DEF Carried, Alike
<1>27. WalkOK(node', Off', zeroLevel, u, M)
  <2>1. FindOK(node', zeroLevel, M)
    BY <1>5, <1>26, FindOnLevel DEF OnLevel
  <2> QED
    BY <1>5, <1>25, <2>1, WalkAt
<1>28. Held(L) = {q, p, c} /\ Held(M) = {q, p, c}
  BY <1>1, <1>5, <1>6, HeldAt DEF q, p, c
<1>29. LocksMove(node, node', u, M)
  BY <1>11, <1>12, <1>28 DEF LocksMove, Inv, LockInv, Nodes, L
<1> QED
  BY <1>1, <1>14, <1>22, <1>27, <1>29, StepInv

\* A step that keeps the lists.
LEMMA SameStep ==
  ASSUME NEW nd, NEW off, NEW nd2, NEW off2, NEW z \in Int, 0 <= z, NEW u, NodesOK(nd, z), NodesOK(nd2, z),
         Lists(nd, off, z), SameLists(nd, off, nd2, off2, z),
         \A n \in DOMAIN nd : /\ nd2[n].zeroLevel = nd[n].zeroLevel
                              /\ nd[n].lock \notin {u, Nobody} => nd2[n] = nd[n]
  PROVE  StepOf(nd, off, z, nd2, off2, z, u)
<1>1. Lists(nd2, off2, z)
  BY SameListsKeep
<1>2. \A n \in DOMAIN nd : nd[n].zeroLevel \in Int
  BY NodeTypes
<1>3. \A i \in z .. MAX_LEVEL, n \in DOMAIN nd : On(nd, off, n, i) => On(nd2, off2, n, i)
  BY DEF SameLists
<1> QED
  BY <1>1, <1>2, <1>3 DEF StepOf, SameLists

\* What the end of a demotion starts from.
LEMMA DemotedFacts ==
  ASSUME Inv, NEW u \in Threads, NEW L, L = l[u], L.pc \in {"d_null", "d_top"}
  PROVE  /\ Demoted(node, Off, zeroLevel, u, L) /\ Carried(node, zeroLevel, L) /\ <<L.cur, L.h>> \in Off
         /\ L.pred \in DOMAIN node \ {tail} /\ L.cur \in DOMAIN node \ {head, tail}
         /\ L.predpred \in DOMAIN node \ {tail} /\ node[L.predpred].lock = u /\ node[L.cur].lock = u
         /\ L.h \in Int /\ zeroLevel <= L.h /\ L.h < MAX_LEVEL /\ L.h \in Levels /\ L.h + 1 \in Levels
         /\ node[L.cur].topLevel = L.h /\ node[L.cur].zeroLevel < L.h /\ node[L.cur].zeroLevel \in Int
         /\ L.cur # L.pred /\ L.cur # L.predpred /\ ~L.acquired /\ ~L.ok /\ L.key \in Keys
         /\ node[node[L.pred].next[L.h]].key <= L.key /\ node[node[L.pred].next[L.h]].key \in Int
         /\ node[L.pred].next[L.h] \in DOMAIN node /\ node[L.predpred].next[L.h + 1] \in DOMAIN node
<1>0. /\ DOMAIN L = Fields /\ WalkOK(node, Off, zeroLevel, u, L) /\ NodesOK(node, zeroLevel)
      /\ zeroLevel \in Int /\ 0 <= zeroLevel /\ Lists(node, Off, zeroLevel) /\ MAX_LEVEL \in Int
  BY Start
<1>1. Demoted(node, Off, zeroLevel, u, L) /\ Place(L) \in {"d_null", "d_top"} /\ FindOK(node, zeroLevel, L)
  BY <1>0 DEF WalkOK, DemoteOK, Place
<1>2. Zone(node, Off, zeroLevel, u, L) /\ PredOK(node, Off, L)
  BY <1>1 DEF Demoted
<1>3. Carried(node, zeroLevel, L)
  BY <1>0, <1>1, <1>2, CarriedOn DEF OnLevel
<1>4. <<L.cur, L.h>> \in Off
  BY SMTT(30) DEF Off
<1>5. /\ L.pred \in DOMAIN node \ {tail} /\ L.cur \in DOMAIN node \ {head, tail}
      /\ L.predpred \in DOMAIN node \ {tail} /\ node[L.predpred].lock = u /\ node[L.cur].lock = u
      /\ L.h \in Int /\ zeroLevel <= L.h /\ L.h < MAX_LEVEL
      /\ On(node, Off, L.pred, L.h) /\ node[L.pred].zeroLevel <= L.h
      /\ On(node, Off, L.predpred, L.h + 1) /\ node[L.predpred].zeroLevel <= L.h
      /\ node[L.cur].topLevel = L.h /\ node[L.cur].zeroLevel < L.h /\ L.key \in Keys
      /\ node[L.pred].key < node[L.cur].key /\ node[L.predpred].key <= node[L.pred].key
      /\ ~L.acquired /\ ~L.ok /\ node[node[L.pred].next[L.h]].key <= L.key
  BY <1>1, <1>2, Zenon DEF Demoted, Zone, Anchor, PredOK
<1>6. /\ node[L.pred].key \in Int /\ node[L.cur].key \in Int /\ node[L.predpred].key \in Int
      /\ node[L.cur].zeroLevel \in Int /\ node[L.predpred].zeroLevel \in Int
  BY <1>0, <1>5, NodeTypes
<1>7. L.cur # L.pred /\ L.cur # L.predpred
  BY <1>5, <1>6, SMTT(30)
<1>8. node[L.pred].next[L.h] \in DOMAIN node /\ node[node[L.pred].next[L.h]].key \in Int /\ L.h \in Levels
  BY <1>5, StepNext, Zenon
<1>9. node[L.predpred].zeroLevel <= L.h + 1 /\ zeroLevel <= L.h + 1 /\ L.h + 1 <= MAX_LEVEL /\ L.h + 1 \in Int
  BY <1>0, <1>5, <1>6
<1>10. node[L.predpred].next[L.h + 1] \in DOMAIN node /\ L.h + 1 \in Levels
  BY <1>0, <1>5, <1>9, NextOn
<1> QED
  BY <1>1, <1>3, <1>4, <1>5, <1>6, <1>7, <1>8, <1>10, Zenon

\* cur no longer leads anywhere on the level, and pred is released.
LEMMA DemoteNullInv ==
  ASSUME Inv, NEW u \in Threads, DemoteNull(u)
  PROVE  Inv'
<1> DEFINE L == l[u]
           p == L.pred
           c == L.cur
           h == L.h
           q == L.predpred
           M == [L EXCEPT !.pc = "d_top"]
           b == IF p # q THEN Nobody ELSE node[p].lock
           N == [node[c].next EXCEPT ![h] = NULL]
<1>0. /\ DOMAIN l = Threads /\ DOMAIN L = Fields /\ WalkOK(node, Off, zeroLevel, u, L) /\ NodesOK(node, zeroLevel)
      /\ zeroLevel \in Int /\ 0 <= zeroLevel /\ Lists(node, Off, zeroLevel) /\ MAX_LEVEL \in Int
      /\ todo \in Seq(Keys) /\ plan \in [Workers -> Seq(SUBSET (Operations \X Keys))] /\ u # Nobody
  BY Start
<1>1. /\ L.pc = "d_null" /\ Place(L) = "d_null" /\ zeroLevel' = zeroLevel /\ UNCHANGED <<todo, plan>>
      /\ node' = [node EXCEPT ![c].next[h] = NULL, ![p].lock = IF p # q THEN Nobody ELSE @]
      /\ l' = [l EXCEPT ![u] = M]
  BY DEF DemoteNull, At, Place, Do, client
<1>2. /\ Demoted(node, Off, zeroLevel, u, L) /\ Carried(node, zeroLevel, L) /\ <<c, h>> \in Off
      /\ p \in DOMAIN node \ {tail} /\ c \in DOMAIN node \ {head, tail}
      /\ q \in DOMAIN node \ {tail} /\ node[q].lock = u /\ node[c].lock = u
      /\ h \in Int /\ zeroLevel <= h /\ h < MAX_LEVEL /\ h \in Levels /\ h + 1 \in Levels
      /\ node[c].topLevel = h /\ node[c].zeroLevel < h /\ node[c].zeroLevel \in Int
      /\ c # p /\ c # q /\ node[node[p].next[h]].key <= L.key
      /\ node[p].next[h] \in DOMAIN node /\ node[q].next[h + 1] \in DOMAIN node
  BY <1>1, DemotedFacts, ZenonT(40)
<1>3. node[p].lock = u
  BY <1>0, <1>1 DEF WalkOK, DemoteOK
<1>4. /\ DOMAIN M = Fields /\ M.pc = "d_top" /\ Place(M) = "d_top" /\ Alike(L, M)
      /\ M.cur = c /\ M.h = h /\ M.pred = p /\ M.predpred = q /\ M.key = L.key /\ M.acquired = L.acquired /\ M.ok = L.ok
  BY <1>0, GotoAlike DEF Place, Alike
<1>5. \A n \in DOMAIN node : NodeOK(node, zeroLevel, n)
  BY <1>0 DEF NodesOK
<1>6. b \in {u, Nobody} /\ (p = q => b = u) /\ (p # q => b = Nobody)
  BY <1>3, SMTT(30)
<1>7. /\ DOMAIN node[c] = NodeFields /\ DOMAIN node[p] = NodeFields
      /\ N \in [Levels -> DOMAIN node \cup {NULL}] /\ \A i \in Levels \ {h} : N[i] = node[c].next[i]
  <2>1. NodeOK(node, zeroLevel, c) /\ NodeOK(node, zeroLevel, p)
    BY <1>2, <1>5, SMTT(30)
  <2> QED
    BY <1>2, <2>1, Zenon DEF NodeOK
<1>8. node' = [node EXCEPT ![c] = [node[c] EXCEPT !.next = N], ![p] = [node[p] EXCEPT !.lock = b]]
  BY <1>1, <1>2, Zenon
<1> HIDE DEF N, b, M, L, p, c, h, q
<1>9. /\ DOMAIN node' = DOMAIN node /\ \A n \in DOMAIN node \ {p, c} : node'[n] = node[n]
      /\ node'[c] = [node[c] EXCEPT !.next = N] /\ node'[p] = [node[p] EXCEPT !.lock = b]
  BY <1>2, <1>8
<1>10. /\ DOMAIN node'[c] = NodeFields /\ node'[c].next = N /\ node'[c].lock = node[c].lock
       /\ DOMAIN node'[p] = NodeFields /\ node'[p].next = node[p].next /\ node'[p].lock = b
       /\ \A f \in NodeFields \ {"next", "lock"} : node'[c][f] = node[c][f] /\ node'[p][f] = node[p][f]
  BY <1>7, <1>9 DEF NodeFields
<1>11. \A n \in DOMAIN node : /\ node'[n].key = node[n].key
                              /\ node'[n].topLevel = node[n].topLevel /\ node'[n].zeroLevel = node[n].zeroLevel
                              /\ node'[n].selfhits = node[n].selfhits /\ node'[n].hits = node[n].hits
                              /\ DOMAIN node'[n] = NodeFields /\ node'[n].next \in [Levels -> DOMAIN node \cup {NULL}]
                              /\ n # p => node'[n].lock = node[n].lock
                              /\ node'[n].lock \in {node[n].lock, Nobody}
  <2>1. \A n \in {c, p} : /\ node'[n].key = node[n].key
                          /\ node'[n].topLevel = node[n].topLevel /\ node'[n].zeroLevel = node[n].zeroLevel
                          /\ node'[n].selfhits = node[n].selfhits /\ node'[n].hits = node[n].hits
    BY <1>10 DEF NodeFields
  <2> QED
    BY <1>3, <1>5, <1>6, <1>7, <1>9, <1>10, <2>1, ZenonT(40) DEF NodeOK
<1>12. \A n \in DOMAIN node, i \in Levels : ~(n = c /\ i = h) => node'[n].next[i] = node[n].next[i]
  BY <1>7, <1>9, <1>10, ZenonT(40)
<1>13. Moves(u, M)
  BY <1>0, <1>1, <1>4 DEF Moves
<1>14. Off' = Off
  <2>1. l[u].pc \in {"d_null", "d_top"} /\ l[u].cur = c /\ l[u].h = h
    BY <1>1 DEF L, c, h
  <2> QED
    BY <1>4, <1>13, <2>1, OffMoves
<1>15. \A n \in DOMAIN node, i \in Int : On(node', Off, n, i) <=> On(node, Off, n, i)
  BY <1>11 DEF On
<1>16. NodesOK(node', zeroLevel)
  <2>1. ASSUME NEW n \in DOMAIN node PROVE NodeOK(node', zeroLevel, n)
    <3>1. NodeOK(node, zeroLevel, n)
      BY <1>5
    <3>2. node'[n].lock \in Threads \cup {Nobody}
      BY <1>11, <3>1 DEF NodeOK
    <3> QED
      BY <1>9, <1>11, <3>1, <3>2 DEF NodeOK
  <2>2. head \in DOMAIN node /\ tail \in DOMAIN node
    BY <1>0, NodeTypes
  <2> QED
    BY <1>0, <1>9, <1>11, <2>1, <2>2 DEF NodesOK
<1>17. SameLists(node, Off, node', Off, zeroLevel)
  <2>1. ASSUME NEW i \in zeroLevel .. MAX_LEVEL, NEW n \in DOMAIN node, On(node, Off, n, i)
        PROVE  NextIn(node', n, i) = NextIn(node, n, i)
    <3>1. node[n].zeroLevel \in Levels /\ i \in Levels /\ node[n].zeroLevel \in Int
      <4>1. NodeOK(node, zeroLevel, n)
        BY <1>5
      <4> QED
        BY <1>0, <4>1 DEF NodeOK, Levels
    <3>2. n = c => node[n].zeroLevel # h /\ i # h
      BY <1>2, <2>1, <3>1 DEF On
    <3> QED
      BY <1>11, <1>12, <3>1, <3>2 DEF NextIn
  <2>2. \A i \in zeroLevel .. MAX_LEVEL : i \in Int
    BY <1>0
  <2> QED
    BY <1>9, <1>11, <1>15, <2>1, <2>2 DEF SameLists
<1>18. StepOf(node, Off, zeroLevel, node', Off, zeroLevel, u)
  <2>1. \A n \in DOMAIN node : node[n].lock \notin {u, Nobody} => node'[n] = node[n]
    BY <1>2, <1>3, <1>9
  <2> QED
    BY <1>0, <1>11, <1>16, <1>17, <2>1, SameStep
<1>19. node'[q].lock = u /\ node'[c].lock = u /\ node'[q].next[h + 1] = node[q].next[h + 1] /\ node'[p].next[h] = node[p].next[h]
  <2>1. node'[q].lock = u
    BY <1>2, <1>6, <1>10, <1>11
  <2> QED
    BY <1>2, <1>11, <1>12, <2>1
<1>20. Demoted(node', Off, zeroLevel, u, M)
  <2>1. Zone(node, Off, zeroLevel, u, M) /\ PredOK(node, Off, M) /\ Demoted(node, Off, zeroLevel, u, M) /\ h + 1 \in Int
    BY <1>2, <1>4 DEF Demoted, Zone, PredOK, Alike
  <2>2. Zone(node', Off, zeroLevel, u, M)
    BY <1>2, <1>4, <1>9, <1>11, <1>15, <1>19, <2>1 DEF Zone, Anchor
  <2>3. PredOK(node', Off, M)
    BY <1>2, <1>4, <1>9, <1>11, <1>15, <2>1 DEF PredOK
  <2> QED
    BY <1>2, <1>4, <1>9, <1>11, <1>19, <2>1, <2>2, <2>3 DEF Demoted
<1>21. Carried(node', zeroLevel, M)
  BY <1>2, <1>4, <1>9, <1>11 DEF Carried, Alike
<1>22. WalkOK(node', Off, zeroLevel, u, M)
  <2>1. FindOK(node', zeroLevel, M)
    BY <1>4, <1>21, FindOnLevel DEF OnLevel
  <2>2. DemoteOK(node', Off, zeroLevel, u, M)
    BY <1>4, <1>20 DEF DemoteOK
  <2> QED
    BY <1>4, <2>1, <2>2, WalkAt
<1>23. Held(L) = {q, p, c} /\ Held(M) = {q, c}
  BY <1>1, <1>4, HeldAt DEF q, p, c
<1>24. LocksMove(node, node', u, M)
  <2>1. ASSUME NEW n \in DOMAIN node, node'[n].lock = u PROVE n \in {q, c}
    <3>1. node[n].lock = u
      BY <1>0, <1>11, <2>1
    <3>2. n \in {q, p, c}
      BY <1>23, <3>1 DEF Inv, LockInv, Nodes, L
    <3> QED
      BY <1>0, <1>6, <1>10, <2>1, <3>2
  <2> QED
    BY <1>9, <1>11, <1>23, <2>1 DEF LocksMove
<1> QED
  BY <1>1, <1>13, <1>14, <1>18, <1>22, <1>24, StepInv

\* The top of cur is lowered, and cur released.
LEMMA DemoteTopInv ==
  ASSUME Inv, NEW u \in Threads, DemoteTop(u)
  PROVE  Inv'
<1> DEFINE L == l[u]
           p == L.pred
           c == L.cur
           h == L.h
           q == L.predpred
           M == [L EXCEPT !.pc = "d_next"]
<1>0. /\ DOMAIN l = Threads /\ DOMAIN L = Fields /\ WalkOK(node, Off, zeroLevel, u, L) /\ NodesOK(node, zeroLevel)
      /\ zeroLevel \in Int /\ 0 <= zeroLevel /\ Lists(node, Off, zeroLevel) /\ MAX_LEVEL \in Int
      /\ todo \in Seq(Keys) /\ plan \in [Workers -> Seq(SUBSET (Operations \X Keys))] /\ u # Nobody
  BY Start
<1>1. /\ L.pc = "d_top" /\ Place(L) = "d_top" /\ zeroLevel' = zeroLevel /\ UNCHANGED <<todo, plan>>
      /\ node' = [node EXCEPT ![c].topLevel = @ - 1, ![c].lock = Nobody]
      /\ l' = [l EXCEPT ![u] = M]
  BY DEF DemoteTop, At, Place, Do, client
<1>2. /\ Demoted(node, Off, zeroLevel, u, L) /\ Carried(node, zeroLevel, L) /\ <<c, h>> \in Off
      /\ p \in DOMAIN node \ {tail} /\ c \in DOMAIN node \ {head, tail}
      /\ q \in DOMAIN node \ {tail} /\ node[q].lock = u /\ node[c].lock = u
      /\ h \in Int /\ zeroLevel <= h /\ h < MAX_LEVEL /\ h \in Levels /\ h + 1 \in Levels
      /\ node[c].topLevel = h /\ node[c].zeroLevel < h /\ node[c].zeroLevel \in Int
      /\ c # p /\ c # q /\ node[node[p].next[h]].key <= L.key /\ ~L.acquired /\ ~L.ok
      /\ node[p].next[h] \in DOMAIN node /\ node[q].next[h + 1] \in DOMAIN node
  <2>1. L.pc \in {"d_null", "d_top"} /\ L = l[u]
    BY <1>1
  <2> HIDE DEF L
  <2> QED
    BY <2>1, DemotedFacts, Zenon
<1>3. /\ DOMAIN M = Fields /\ M.pc = "d_next" /\ Place(M) = "d_next" /\ Alike(L, M)
      /\ M.cur = c /\ M.h = h /\ M.pred = p /\ M.predpred = q /\ M.key = L.key /\ M.acquired = L.acquired /\ M.ok = L.ok
  BY <1>0, GotoAlike DEF Place, Alike
<1>4. \A n \in DOMAIN node : NodeOK(node, zeroLevel, n)
  BY <1>0 DEF NodesOK
<1> HIDE DEF M, L, p, c, h, q
<1>5. /\ DOMAIN node' = DOMAIN node /\ \A n \in DOMAIN node \ {c} : node'[n] = node[n]
      /\ DOMAIN node'[c] = NodeFields /\ node'[c].topLevel = h - 1 /\ node'[c].lock = Nobody
      /\ \A f \in NodeFields \ {"topLevel", "lock"} : node'[c][f] = node[c][f]
  <2>1. NodeOK(node, zeroLevel, c)
    BY <1>2, <1>4
  <2> QED
    BY <1>1, <1>2, <2>1 DEF NodeOK, NodeFields
<1>6. /\ node'[c].key = node[c].key /\ node'[c].zeroLevel = node[c].zeroLevel /\ node'[c].next = node[c].next
      /\ node'[c].hits = node[c].hits /\ node'[c].selfhits = node[c].selfhits
  BY <1>5 DEF NodeFields
<1>7. \A n \in DOMAIN node : node'[n].key = node[n].key /\ node'[n].zeroLevel = node[n].zeroLevel /\ node'[n].next = node[n].next
  BY <1>5, <1>6
<1>8. Moves(u, M)
  BY <1>0, <1>1, <1>3 DEF Moves
<1>9. Off' = Off \ {<<c, h>>}
  <2>1. l[u].pc \in {"d_null", "d_top"} /\ l[u].cur = c /\ l[u].h = h
    BY <1>1 DEF L, c, h
  <2> QED
    BY <1>3, <1>8, <2>1, OffMoves
<1>10. ASSUME NEW n \in DOMAIN node, NEW i \in Int
       PROVE  On(node', Off', n, i) <=> On(node, Off, n, i)
  <2>1. CASE n # c
    BY <1>5, <1>9, <2>1 DEF On
  <2>2. CASE n = c
    <3>1. <<c, i>> \in Off => i = h
      BY <1>2, OffFacts
    <3>2. On(node', Off', n, i) <=> h - 1 >= i
      BY <1>2, <1>5, <1>9, <2>2, <3>1 DEF On
    <3>3. On(node, Off, n, i) <=> h >= i /\ i # h
      BY <1>2, <2>2, <3>1 DEF On
    <3> QED
      BY <1>2, <3>2, <3>3
  <2> QED
    BY <2>1, <2>2
<1>11. NodesOK(node', zeroLevel)
  <2>1. ASSUME NEW n \in DOMAIN node PROVE NodeOK(node', zeroLevel, n)
    <3>1. NodeOK(node, zeroLevel, n)
      BY <1>4
    <3>2. CASE n # c
      BY <1>5, <3>1, <3>2 DEF NodeOK
    <3>3. CASE n = c
      <4>1. node'[c].zeroLevel <= h - 1 /\ h - 1 < MAX_LEVEL /\ h - 1 \in Int
        BY <1>0, <1>2, <1>6
      <4> QED
        BY <1>2, <1>5, <1>6, <3>1, <3>3, <4>1 DEF NodeOK
    <3> QED
      BY <3>2, <3>3
  <2>2. head \in DOMAIN node /\ tail \in DOMAIN node
    BY <1>0, NodeTypes
  <2> QED
    BY <1>0, <1>5, <1>7, <2>1, <2>2, Zenon DEF NodesOK
<1>12. SameLists(node, Off, node', Off', zeroLevel)
  <2>1. \A n \in DOMAIN node, i \in zeroLevel .. MAX_LEVEL : NextIn(node', n, i) = NextIn(node, n, i)
    BY <1>7 DEF NextIn
  <2>2. \A i \in zeroLevel .. MAX_LEVEL : i \in Int
    BY <1>0
  <2> QED
    BY <1>5, <1>7, <1>10, <2>1, <2>2 DEF SameLists
<1>13. StepOf(node, Off, zeroLevel, node', Off', zeroLevel, u)
  <2>1. \A n \in DOMAIN node : node[n].lock \notin {u, Nobody} => node'[n] = node[n]
    BY <1>2, <1>5
  <2> QED
    BY <1>0, <1>7, <1>11, <1>12, <2>1, SameStep
<1>14. Zone(node', Off', zeroLevel, u, M) /\ PredOK(node', Off', M)
  <2>1. Zone(node, Off, zeroLevel, u, M) /\ PredOK(node, Off, M) /\ h + 1 \in Int
    BY <1>2, <1>3 DEF Demoted, Zone, PredOK, Alike
  <2>2. node'[q] = node[q] /\ node'[p] = node[p]
    BY <1>2, <1>5
  <2>3. Zone(node', Off', zeroLevel, u, M)
    BY <1>2, <1>3, <1>5, <1>7, <1>10, <2>1, <2>2 DEF Zone, Anchor
  <2> QED
    BY <1>2, <1>3, <1>5, <1>10, <2>1, <2>2, <2>3 DEF PredOK
<1>15. Carried(node', zeroLevel, M)
  BY <1>2, <1>3, <1>5, <1>7 DEF Carried, Alike
<1>16. WalkOK(node', Off', zeroLevel, u, M)
  <2>1. FindOK(node', zeroLevel, M)
    BY <1>3, <1>15, FindOnLevel DEF OnLevel
  <2>2. node'[node'[p].next[h]].key <= L.key
    BY <1>2, <1>7
  <2>3. DemoteOK(node', Off', zeroLevel, u, M)
    BY <1>2, <1>3, <1>14, <2>2 DEF DemoteOK
  <2> QED
    BY <1>3, <2>1, <2>3, WalkAt
<1>17. Held(L) = {q, c} /\ Held(M) = {q}
  BY <1>1, <1>3, HeldAt DEF q, c
<1>18. LocksMove(node, node', u, M)
  <2>1. ASSUME NEW n \in DOMAIN node, node'[n].lock = u PROVE n = q
    <3>1. n # c /\ node[n].lock = u
      BY <1>0, <1>5, <2>1
    <3> QED
      BY <1>17, <3>1 DEF Inv, LockInv, Nodes, L
  <2> QED
    BY <1>5, <1>17, <2>1 DEF LocksMove
<1> QED
  BY <1>1, <1>8, <1>13, <1>16, <1>18, StepInv

-----------------------------------------------------------------------------
(* The steps that put a node on a level *)

\* A node that its thread does not demote is on all levels up to its top.
LEMMA NotOff ==
  ASSUME Inv, NEW u \in Threads, NEW n \in DOMAIN node, node[n].lock = u, l[u].pc \notin {"d_null", "d_top"}, NEW i
  PROVE  <<n, i>> \notin Off
  BY OffFacts, SMTT(30)

\* What a promotion starts from: the next node of predpred on the level above cur is behind cur.
LEMMA PromotingFacts ==
  ASSUME Inv, NEW u \in Threads, NEW L, L = l[u], L.pc \notin {"d_null", "d_top"},
         Promoting(node, Off, zeroLevel, u, L), NEW i, i = L.curh + 1, Ascends(L.predpred, L.curh, L.curAccess)
  PROVE  /\ i \in Int /\ L.h < i /\ i < MAX_LEVEL /\ i \in Levels /\ i - 1 \in Levels /\ L.h \in Levels
         /\ L.h \in Int /\ zeroLevel <= L.h /\ L.h + 1 \in Int
         /\ L.predpred \in DOMAIN node \ {tail} /\ L.cur \in DOMAIN node \ {head, tail} /\ L.predpred # L.cur
         /\ node[L.predpred].zeroLevel <= L.h /\ node[L.cur].zeroLevel <= L.h
         /\ node[L.predpred].lock = u /\ node[L.cur].lock = u /\ node[L.cur].topLevel = i - 1
         /\ On(node, Off, L.predpred, i) /\ ~On(node, Off, L.cur, i)
         /\ node[L.predpred].next[i] \in DOMAIN node
         /\ node[L.predpred].key < node[L.cur].key /\ node[L.cur].key < node[node[L.predpred].next[i]].key
<1> DEFINE q == L.predpred
           c == L.cur
           h == L.h
           s == node[q].next[i]
<1>0. /\ zeroLevel \in Int /\ 0 <= zeroLevel /\ NodesOK(node, zeroLevel) /\ Lists(node, Off, zeroLevel)
      /\ MAX_LEVEL \in Int
  BY Start
<1>1. /\ q \in DOMAIN node \ {tail} /\ node[q].lock = u /\ node[q].zeroLevel <= h
      /\ h \in Int /\ zeroLevel <= h /\ h < MAX_LEVEL
      /\ On(node, Off, q, h) /\ node[q].next[h] = c
      /\ c \in DOMAIN node \ {head, tail} /\ node[c].lock = u /\ node[c].zeroLevel <= h
      /\ On(node, Off, c, h) /\ node[c].topLevel = L.curh
  BY DEF Promoting
<1>2. L.curh + 1 < MAX_LEVEL /\ L.curh < node[q].topLevel
  BY DEF Ascends
<1>3. /\ node[q].topLevel \in Int /\ node[c].topLevel \in Int /\ node[q].key \in Int /\ node[c].key \in Int
      /\ node[q].zeroLevel \in Int /\ KeysOK(node)
  BY <1>0, <1>1, NodeTypes
<1>4. h <= node[c].topLevel
  BY <1>1 DEF On
<1>5. i \in Int /\ h < i /\ i < MAX_LEVEL /\ i <= node[q].topLevel /\ node[c].topLevel = i - 1 /\ node[c].topLevel < i
  BY <1>0, <1>1, <1>2, <1>3, <1>4
<1>6. i \in Levels /\ i - 1 \in Levels /\ h \in Levels /\ zeroLevel <= i /\ i <= MAX_LEVEL /\ node[q].zeroLevel <= i
  BY <1>0, <1>1, <1>3, <1>5 DEF Levels
<1>7. On(node, Off, q, i)
  BY <1>1, <1>5, OnLevels
<1>8. ~On(node, Off, c, i)
  BY <1>3, <1>5 DEF On
<1> HIDE DEF q, c, h, s
<1>9. s \in DOMAIN node /\ Follows(node, Off, q, s, i)
  <2>1. node[q].next[i] \in DOMAIN node /\ Follows(node, Off, q, node[q].next[i], i)
    BY <1>0, <1>1, <1>5, <1>6, <1>7, NextOn
  <2> QED
    BY <2>1 DEF s
<1>10. Follows(node, Off, q, c, h)
  <2>1. h <= MAX_LEVEL
    BY <1>0, <1>1
  <2> QED
    BY <1>0, <1>1, <2>1, NextOn
<1>11. On(node, Off, s, h) /\ node[s].key \in Int
  <2>1. node[s].topLevel \in Int /\ node[s].key \in Int
    BY <1>0, <1>9, NodeTypes
  <2>2. h < node[s].topLevel
    BY <1>1, <1>5, <1>9, <2>1 DEF Follows, On
  <2> QED
    BY <1>1, <1>9, <2>1, <2>2, OnLevels
<1>12. node[q].key < node[c].key /\ node[q].key < node[s].key
  BY <1>9, <1>10 DEF Follows
<1>13. node[s].key <= node[q].key \/ node[c].key <= node[s].key
  BY <1>9, <1>10, <1>11 DEF Follows
<1>14. s # c /\ node[s].key # node[c].key
  BY <1>1, <1>3, <1>8, <1>9 DEF Follows, KeysOK
<1>15. node[c].key < node[s].key
  BY <1>3, <1>11, <1>12, <1>13, <1>14
<1>16. q # c /\ h + 1 \in Int
  BY <1>1, <1>3, <1>12
<1> QED
  BY <1>1, <1>5, <1>6, <1>7, <1>8, <1>9, <1>12, <1>15, <1>16, Zenon DEF q, c, h, s

\* What a promotion of c, behind q, to the level i leaves.
PromotedTo(nd, nd2, off, q, c, i) ==
  /\ \A n \in DOMAIN nd, j \in Int : On(nd, off, n, j) => On(nd2, off, n, j)
  /\ DOMAIN nd2 = DOMAIN nd
  /\ \A n \in DOMAIN nd : /\ nd2[n].key = nd[n].key /\ nd2[n].lock = nd[n].lock
                          /\ nd2[n].zeroLevel = nd[n].zeroLevel
  /\ \A n \in DOMAIN nd, j \in Levels \ {i} : nd2[n].next[j] = nd[n].next[j]
  /\ nd2[c].next[i] = nd[q].next[i] /\ nd2[c].topLevel = i

\* cur is promoted one level.
LEMMA PromotedStep ==
  ASSUME Inv, NEW u \in Threads, NEW L, L = l[u], L.pc \notin {"d_null", "d_top"},
         Promoting(node, Off, zeroLevel, u, L), NEW i, i = L.curh + 1, Ascends(L.predpred, L.curh, L.curAccess),
         node' = Promoted(L.predpred, L.cur, i)
  PROVE  /\ StepOf(node, Off, zeroLevel, node', Off, zeroLevel, u)
         /\ PromotedTo(node, node', Off, L.predpred, L.cur, i)
<1> DEFINE q == L.predpred
           c == L.cur
           h == L.h
           NC == [node[c].next EXCEPT ![i] = node[q].next[i]]
           NQ == [node[q].next EXCEPT ![i] = c]
           HC == [node[c].hits EXCEPT ![i] = node[q].hits[i] - node[q].hits[i - 1] - node[c].selfhits]
           HQ == [node[q].hits EXCEPT ![i] = node[q].hits[i - 1]]
<1>0. /\ zeroLevel \in Int /\ 0 <= zeroLevel /\ NodesOK(node, zeroLevel) /\ Lists(node, Off, zeroLevel)
      /\ MAX_LEVEL \in Int
  BY Start
<1>1. /\ i \in Int /\ h < i /\ i < MAX_LEVEL /\ i \in Levels /\ i - 1 \in Levels
      /\ h \in Int /\ zeroLevel <= h
      /\ q \in DOMAIN node \ {tail} /\ c \in DOMAIN node \ {head, tail} /\ q # c
      /\ node[q].zeroLevel <= h /\ node[c].zeroLevel <= h
      /\ node[q].lock = u /\ node[c].lock = u /\ node[c].topLevel = i - 1
      /\ On(node, Off, q, i) /\ ~On(node, Off, c, i)
      /\ node[q].next[i] \in DOMAIN node
      /\ node[q].key < node[c].key /\ node[c].key < node[node[q].next[i]].key
  BY PromotingFacts
<1>2. \A n \in DOMAIN node : NodeOK(node, zeroLevel, n)
  BY <1>0 DEF NodesOK
<1>3. /\ DOMAIN node[c] = NodeFields /\ DOMAIN node[q] = NodeFields
      /\ node[c].next \in [Levels -> DOMAIN node \cup {NULL}] /\ node[q].next \in [Levels -> DOMAIN node \cup {NULL}]
      /\ node[c].hits \in [Levels -> Int] /\ node[q].hits \in [Levels -> Int] /\ node[c].selfhits \in Int
      /\ node[c].zeroLevel \in Int /\ node[q].zeroLevel \in Int /\ node[c].key \in Int
      /\ zeroLevel <= node[c].zeroLevel
  <2>1. NodeOK(node, zeroLevel, c) /\ NodeOK(node, zeroLevel, q)
    BY <1>1, <1>2
  <2> QED
    BY <2>1 DEF NodeOK
<1>4. node' = Promoted(q, c, i) /\ node[c].topLevel + 1 = i
  BY <1>1
<1> HIDE DEF q, c, h
<1>5. /\ NC \in [Levels -> DOMAIN node \cup {NULL}] /\ NC[i] = node[q].next[i]
      /\ \A j \in Levels \ {i} : NC[j] = node[c].next[j]
  BY <1>1, <1>3
<1>6. /\ NQ \in [Levels -> DOMAIN node \cup {NULL}] /\ NQ[i] = c
      /\ \A j \in Levels \ {i} : NQ[j] = node[q].next[j]
  BY <1>1, <1>3
<1>7. HC \in [Levels -> Int] /\ HQ \in [Levels -> Int]
  <2>1. node[q].hits[i] \in Int /\ node[q].hits[i - 1] \in Int
    BY <1>1, <1>3
  <2>2. node[q].hits[i] - node[q].hits[i - 1] - node[c].selfhits \in Int
    BY <1>3, <2>1
  <2> QED
    BY <1>1, <1>3, <2>1, <2>2
<1>8. /\ DOMAIN node' = DOMAIN node /\ \A n \in DOMAIN node \ {q, c} : node'[n] = node[n]
      /\ DOMAIN node'[c] = NodeFields /\ node'[c].next = NC /\ node'[c].hits = HC /\ node'[c].topLevel = i
      /\ \A f \in NodeFields \ {"next", "hits", "topLevel"} : node'[c][f] = node[c][f]
      /\ DOMAIN node'[q] = NodeFields /\ node'[q].next = NQ /\ node'[q].hits = HQ
      /\ \A f \in NodeFields \ {"next", "hits"} : node'[q][f] = node[q][f]
  <2> DEFINE C == [node[c] EXCEPT !.topLevel = node[c].topLevel + 1,
                                  !.hits[i] = node[q].hits[i] - node[q].hits[i - 1] - node[c].selfhits,
                                  !.next[i] = node[q].next[i]]
             Q == [node[q] EXCEPT !.next[i] = c, !.hits[i] = node[q].hits[i - 1]]
  <2>1. node' = [node EXCEPT ![c] = C, ![q] = Q]
    <3>1. Promoted(q, c, i) = [node EXCEPT ![c] = C, ![q] = Q]
      BY <1>1 DEF Promoted
    <3> QED
      BY <1>4, <3>1
  <2>2. /\ DOMAIN C = NodeFields /\ C.next = NC /\ C.hits = HC /\ C.topLevel = i
        /\ \A f \in NodeFields \ {"next", "hits", "topLevel"} : C[f] = node[c][f]
    <3> DEFINE a == node[q].hits[i] - node[q].hits[i - 1] - node[c].selfhits
               b == node[q].next[i]
    <3>1. /\ C = [node[c] EXCEPT !.topLevel = node[c].topLevel + 1, !.hits[i] = a, !.next[i] = b]
          /\ HC = [node[c].hits EXCEPT ![i] = a] /\ NC = [node[c].next EXCEPT ![i] = b]
      OBVIOUS
    <3> HIDE DEF a, b, C, HC, NC
    <3> QED
      BY <1>3, <1>4, <3>1 DEF NodeFields
  <2>3. /\ DOMAIN Q = NodeFields /\ Q.next = NQ /\ Q.hits = HQ
        /\ \A f \in NodeFields \ {"next", "hits"} : Q[f] = node[q][f]
    BY <1>3 DEF NodeFields
  <2> HIDE DEF NC, NQ, HC, HQ, C, Q
  <2>4. /\ DOMAIN node' = DOMAIN node /\ \A n \in DOMAIN node \ {q, c} : node'[n] = node[n]
        /\ node'[c] = C /\ node'[q] = Q
    BY <1>1, <2>1
  <2> QED
    BY <2>2, <2>3, <2>4
<1> HIDE DEF NC, NQ, HC, HQ
<1>9. /\ node'[c].key = node[c].key /\ node'[c].lock = node[c].lock /\ node'[c].zeroLevel = node[c].zeroLevel
      /\ node'[c].selfhits = node[c].selfhits
      /\ node'[q].key = node[q].key /\ node'[q].lock = node[q].lock /\ node'[q].zeroLevel = node[q].zeroLevel
      /\ node'[q].selfhits = node[q].selfhits /\ node'[q].topLevel = node[q].topLevel
  BY <1>8, SMTT(30) DEF NodeFields
<1>10. \A n \in DOMAIN node : /\ node'[n].key = node[n].key /\ node'[n].lock = node[n].lock
                              /\ node'[n].zeroLevel = node[n].zeroLevel /\ node'[n].selfhits = node[n].selfhits
                              /\ n # c => node'[n].topLevel = node[n].topLevel
                              /\ DOMAIN node'[n] = NodeFields /\ node'[n].next \in [Levels -> DOMAIN node \cup {NULL}]
                              /\ node'[n].hits \in [Levels -> Int]
  <2>1. ASSUME NEW n \in DOMAIN node \ {q, c}
        PROVE  /\ node'[n] = node[n] /\ DOMAIN node[n] = NodeFields
               /\ node[n].next \in [Levels -> DOMAIN node \cup {NULL}] /\ node[n].hits \in [Levels -> Int]
    BY <1>2, <1>8 DEF NodeOK
  <2>2. ASSUME NEW n \in DOMAIN node
        PROVE  /\ node'[n].key = node[n].key /\ node'[n].lock = node[n].lock
               /\ node'[n].zeroLevel = node[n].zeroLevel /\ node'[n].selfhits = node[n].selfhits
               /\ n # c => node'[n].topLevel = node[n].topLevel
    <3>1. CASE n \in {q, c}
      BY <1>9, <3>1, Zenon
    <3>2. CASE n \notin {q, c}
      <4>1. node'[n] = node[n]
        BY <2>1, <3>2, Zenon
      <4> QED
        BY <4>1, Zenon
    <3> QED
      BY <3>1, <3>2
  <2>3. /\ DOMAIN node'[c] = NodeFields /\ node'[c].next \in [Levels -> DOMAIN node \cup {NULL}]
        /\ node'[c].hits \in [Levels -> Int]
    BY <1>5, <1>7, <1>8
  <2>4. /\ DOMAIN node'[q] = NodeFields /\ node'[q].next \in [Levels -> DOMAIN node \cup {NULL}]
        /\ node'[q].hits \in [Levels -> Int]
    BY <1>6, <1>7, <1>8
  <2>5. ASSUME NEW n \in DOMAIN node
        PROVE  /\ DOMAIN node'[n] = NodeFields /\ node'[n].next \in [Levels -> DOMAIN node \cup {NULL}]
               /\ node'[n].hits \in [Levels -> Int]
    <3>1. CASE n \in {q, c}
      BY <2>3, <2>4, <3>1, Zenon
    <3>2. CASE n \notin {q, c}
      BY <2>1, <3>2, Zenon
    <3> QED
      BY <3>1, <3>2
  <2> QED
    BY <2>2, <2>5
<1>11. \A n \in DOMAIN node, j \in Levels \ {i} : node'[n].next[j] = node[n].next[j]
  BY <1>5, <1>6, <1>8
<1>12. \A j : <<c, j>> \notin Off
  BY <1>1, NotOff
<1>13. \A n \in DOMAIN node, j \in Int : /\ On(node, Off, n, j) => On(node', Off, n, j)
                                         /\ On(node', Off, n, j) /\ n # c => On(node, Off, n, j)
                                         /\ On(node', Off, c, j) <=> j <= i
                                         /\ On(node, Off, c, j) <=> j <= i - 1
  <2>1. \A j \in Int : On(node', Off, c, j) <=> j <= i
    BY <1>1, <1>8, <1>12 DEF On
  <2>2. \A j \in Int : On(node, Off, c, j) <=> j <= i - 1
    BY <1>1, <1>12 DEF On
  <2>3. \A n \in DOMAIN node \ {c}, j \in Int : On(node', Off, n, j) <=> On(node, Off, n, j)
    BY <1>10 DEF On
  <2> QED
    BY <1>1, <2>1, <2>2, <2>3
<1>14. NodesOK(node', zeroLevel)
  <2>1. ASSUME NEW n \in DOMAIN node PROVE NodeOK(node', zeroLevel, n)
    <3>1. NodeOK(node, zeroLevel, n)
      BY <1>2
    <3>2. CASE n # c
      BY <1>8, <1>10, <3>1, <3>2, ZenonT(40) DEF NodeOK
    <3>3. CASE n = c
      <4>1. node'[c].zeroLevel <= i
        BY <1>1, <1>3, <1>9
      <4> QED
        <5>1. DOMAIN node' = DOMAIN node /\ node'[c].topLevel = i /\ c \notin {head, tail} /\ i < MAX_LEVEL
          BY <1>1, <1>8, SMTT(30)
        <5>2. /\ node'[c].key = node[c].key /\ node'[c].lock = node[c].lock
              /\ node'[c].zeroLevel = node[c].zeroLevel /\ node'[c].selfhits = node[c].selfhits
              /\ DOMAIN node'[c] = NodeFields /\ node'[c].next \in [Levels -> DOMAIN node \cup {NULL}]
              /\ node'[c].hits \in [Levels -> Int]
          <6>1. c \in DOMAIN node
            BY <1>1, Zenon
          <6> QED
            BY <1>10, <6>1, Zenon
        <5> QED
          BY <1>1, <3>1, <3>3, <4>1, <5>1, <5>2, ZenonT(40) DEF NodeOK
    <3> QED
      BY <3>2, <3>3
  <2>2. head \in DOMAIN node /\ tail \in DOMAIN node
    BY <1>0, NodeTypes, SMTT(30)
  <2>3. DOMAIN node' = DOMAIN node /\ \A n \in DOMAIN node : node'[n].key = node[n].key
    BY <1>8, <1>10, Zenon
  <2>4. \A n \in DOMAIN node : NodeOK(node', zeroLevel, n)
    BY <2>1
  <2>5. /\ \E k \in Nat : k > 1 /\ DOMAIN node' = 0 .. k - 1
        /\ \A n, m \in DOMAIN node : node'[n].key = node'[m].key => n = m
    BY <1>0, <2>3, Zenon DEF NodesOK
  <2>6. node[head].key = minKey /\ node[tail].key = maxKey /\ \A n \in DOMAIN node \ {head, tail} : node[n].key \in Keys
    BY <1>0, Zenon DEF NodesOK
  <2>7. node'[head].key = minKey /\ node'[tail].key = maxKey /\ \A n \in DOMAIN node \ {head, tail} : node'[n].key \in Keys
    BY <2>2, <2>3, <2>6, Zenon
  <2>8. /\ \A n \in DOMAIN node' : NodeOK(node', zeroLevel, n)
        /\ \A n, m \in DOMAIN node' : node'[n].key = node'[m].key => n = m
        /\ \A n \in DOMAIN node' \ {head, tail} : node'[n].key \in Keys
    BY <2>3, <2>4, <2>5, <2>7, SMTT(30)
  <2> QED
    BY <2>5, <2>7, <2>8, Zenon DEF NodesOK
<1>15. Added(node, Off, node', Off, zeroLevel, q, c, {i})
  <2>1. NextIn(node, q, i) = node[q].next[i] /\ NextIn(node', q, i) = c /\ NextIn(node', c, i) = node[q].next[i]
    <3>1. ~(node[q].zeroLevel > i) /\ ~(node'[q].zeroLevel > i) /\ ~(node'[c].zeroLevel > i)
      BY <1>1, <1>3, <1>9, SMTT(30)
    <3> QED
      BY <1>5, <1>6, <1>8, <3>1, Zenon DEF NextIn
  <2>2. ASSUME NEW j \in zeroLevel .. MAX_LEVEL, NEW n \in DOMAIN node, On(node, Off, n, j), ~(n = q /\ j = i)
        PROVE  NextIn(node', n, j) = NextIn(node, n, j)
    <3>1. node[n].zeroLevel \in Levels /\ j \in Levels /\ node[n].zeroLevel \in Int /\ j \in Int
      <4>1. NodeOK(node, zeroLevel, n)
        BY <1>2
      <4> QED
        BY <1>0, <4>1 DEF NodeOK, Levels
    <3>2. n \in {q, c} => node[n].zeroLevel # i /\ j # i
      BY <1>1, <1>3, <2>2, <3>1
    <3> DEFINE k == IF node[n].zeroLevel > j THEN node[n].zeroLevel ELSE j
    <3>3. k \in Levels /\ (n \in {q, c} => k # i)
      BY <3>1, <3>2
    <3>4. NextIn(node, n, j) = node[n].next[k] /\ NextIn(node', n, j) = node'[n].next[k]
      <4>1. node'[n].zeroLevel = node[n].zeroLevel
        BY <1>10
      <4> QED
        BY <4>1, Zenon DEF NextIn
    <3> HIDE DEF k
    <3>5. CASE n \in {q, c}
      BY <1>11, <3>3, <3>4, <3>5, Zenon
    <3>6. CASE n \notin {q, c}
      BY <1>8, <3>4, <3>6, Zenon
    <3> QED
      BY <3>5, <3>6
  <2>3. \A j \in zeroLevel .. MAX_LEVEL : j \in Int
    BY <1>0
  <2>4. i \in zeroLevel .. MAX_LEVEL
    BY <1>0, <1>1
  <2>5. \A j \in zeroLevel .. MAX_LEVEL : On(node', Off, c, j) => j \in {i} \/ (c \in DOMAIN node /\ On(node, Off, c, j))
    BY <1>1, <1>13, <2>3
  <2>6. On(node', Off, c, i)
    BY <1>1, <1>13
  <2>7. /\ DOMAIN node' = DOMAIN node \cup {c} /\ \A n \in DOMAIN node : node'[n].key = node[n].key
        /\ {i} \subseteq zeroLevel .. MAX_LEVEL /\ q \in DOMAIN node \ {tail} /\ c # tail /\ node'[c].key \in Int
    <3>1. DOMAIN node' = DOMAIN node \cup {c}
      BY <1>1, <1>8, Zenon
    <3>2. \A n \in DOMAIN node : node'[n].key = node[n].key
      BY <1>10
    <3>3. node'[c].key \in Int
      BY <1>3, <1>9
    <3>4. q \in DOMAIN node \ {tail} /\ c # tail
      BY <1>1
    <3> QED
      BY <2>4, <3>1, <3>2, <3>3, <3>4
  <2>8. \A j \in {i} : /\ On(node, Off, q, j) /\ ~(c \in DOMAIN node /\ On(node, Off, c, j)) /\ On(node', Off, c, j)
                        /\ node[q].key < node'[c].key /\ node'[c].key < node[NextIn(node, q, j)].key
                        /\ NextIn(node', q, j) = c /\ NextIn(node', c, j) = NextIn(node, q, j)
    BY <1>1, <1>9, <2>1, <2>6
  <2>9. \A j \in zeroLevel .. MAX_LEVEL, n \in DOMAIN node :
          /\ On(node, Off, n, j) => On(node', Off, n, j)
          /\ On(node', Off, n, j) /\ n # c => On(node, Off, n, j)
    BY <1>13, <2>3
  <2>10. \A j \in zeroLevel .. MAX_LEVEL, n \in DOMAIN node :
          On(node, Off, n, j) /\ n # tail /\ ~(n = q /\ j \in {i}) => NextIn(node', n, j) = NextIn(node, n, j)
    BY <2>2
  <2> QED
    BY <2>5, <2>7, <2>8, <2>9, <2>10, ZenonT(40) DEF Added
<1>16. Lists(node', Off, zeroLevel)
  BY <1>0, <1>15, AddedLists, NodeTypes, SMTT(30)
<1>17. StepOf(node, Off, zeroLevel, node', Off, zeroLevel, u)
  <2>1. \A n \in DOMAIN node : node[n].lock \notin {u, Nobody} => node'[n] = node[n]
    BY <1>1, <1>8
  <2>2. \A j \in zeroLevel .. MAX_LEVEL, n \in DOMAIN node : On(node, Off, n, j) => On(node', Off, n, j)
    BY <1>0, <1>13
  <2>3. \A n \in DOMAIN node : node'[n].key = node[n].key /\ node'[n].zeroLevel <= node[n].zeroLevel
    <3>1. \A n \in DOMAIN node : node[n].zeroLevel \in Int
      BY <1>2 DEF NodeOK
    <3> QED
      BY <1>10, <3>1
  <2>4. DOMAIN node \subseteq DOMAIN node' /\ zeroLevel <= zeroLevel
    BY <1>0, <1>8
  <2> QED
    BY <1>0, <1>14, <1>16, <2>1, <2>2, <2>3, <2>4, Zenon DEF StepOf
<1>18. node'[c].next[i] = node[q].next[i] /\ node'[c].topLevel = i
  BY <1>5, <1>8
<1>19. \A n \in DOMAIN node, j \in Int : On(node, Off, n, j) => On(node', Off, n, j)
  BY <1>13
<1>20. \A n \in DOMAIN node : /\ node'[n].key = node[n].key /\ node'[n].lock = node[n].lock
                              /\ node'[n].zeroLevel = node[n].zeroLevel
  BY <1>10
<1> QED
  BY <1>8, <1>11, <1>17, <1>18, <1>19, <1>20, Zenon DEF PromotedTo, q, c

\* One level up, in update and in updateWithInsert.
LEMMA RiseInv ==
  ASSUME Inv, NEW u \in Threads, NEW L, L = l[u], L.pc \in {"p_loop", "i_loop"},
         Ascends(L.predpred, L.curh, L.curAccess),
         Do(u, Promoted(L.predpred, L.cur, L.curh + 1), [L EXCEPT !.curh = @ + 1])
  PROVE  Inv'
<1> DEFINE q == L.predpred
           c == L.cur
           h == L.h
           i == L.curh + 1
           M == [L EXCEPT !.curh = @ + 1]
<1>0. /\ DOMAIN l = Threads /\ DOMAIN L = Fields /\ WalkOK(node, Off, zeroLevel, u, L) /\ NodesOK(node, zeroLevel)
      /\ zeroLevel \in Int /\ 0 <= zeroLevel /\ MAX_LEVEL \in Int
      /\ todo \in Seq(Keys) /\ plan \in [Workers -> Seq(SUBSET (Operations \X Keys))]
  BY Start
<1>1. /\ node' = Promoted(q, c, i) /\ l' = [l EXCEPT ![u] = M] /\ zeroLevel' = zeroLevel /\ UNCHANGED <<todo, plan>>
  BY DEF Do, client
<1>2. /\ DOMAIN M = Fields /\ M.curh = i
      /\ M.pc = L.pc /\ M.key = L.key /\ M.h = L.h /\ M.pred = L.pred
      /\ M.predpred = L.predpred /\ M.ok = L.ok /\ M.inserting = L.inserting /\ M.succ = L.succ
      /\ M.curZeroLevel = L.curZeroLevel /\ M.cur = L.cur /\ M.acquired = L.acquired /\ M.back = L.back
  BY <1>0 DEF Fields
<1>3. Promoting(node, Off, zeroLevel, u, L)
  BY <1>0 DEF WalkOK, PromoteOK
<1>4. /\ i \in Int /\ h < i /\ i < MAX_LEVEL /\ i \in Levels /\ h \in Levels
      /\ h \in Int /\ zeroLevel <= h /\ h + 1 \in Int
      /\ q \in DOMAIN node \ {tail} /\ c \in DOMAIN node \ {head, tail}
      /\ node[q].lock = u /\ node[c].lock = u /\ node[c].topLevel = i - 1
  BY <1>3, PromotingFacts
<1> HIDE DEF M
<1>5. L.pc \notin {"d_null", "d_top"} /\ node' = Promoted(L.predpred, L.cur, i) /\ i = L.curh + 1
  BY <1>1, SMTT(30)
<1> HIDE DEF q, c, h, i
<1>6. /\ StepOf(node, Off, zeroLevel, node', Off, zeroLevel, u)
      /\ \A n \in DOMAIN node, j \in Int : On(node, Off, n, j) => On(node', Off, n, j)
      /\ DOMAIN node' = DOMAIN node
      /\ \A n \in DOMAIN node : /\ node'[n].key = node[n].key /\ node'[n].lock = node[n].lock
                                /\ node'[n].zeroLevel = node[n].zeroLevel
      /\ \A n \in DOMAIN node, j \in Levels \ {i} : node'[n].next[j] = node[n].next[j]
      /\ node'[L.cur].next[i] = node[L.predpred].next[i] /\ node'[L.cur].topLevel = i
  <2>1. /\ StepOf(node, Off, zeroLevel, node', Off, zeroLevel, u)
        /\ PromotedTo(node, node', Off, L.predpred, L.cur, i)
    BY <1>3, <1>5, PromotedStep
  <2> QED
    BY <2>1, Zenon DEF PromotedTo
<1>7. Moves(u, M)
  BY <1>0, <1>1, <1>2 DEF Moves
<1>8. Off' = Off
  BY <1>0, <1>2, <1>7, OffSame
<1>9. Held(M) = Held(L)
  BY <1>2 DEF Held
<1>10. LocksMove(node, node', u, M)
  BY <1>6, <1>9 DEF LocksMove, Inv, LockInv, Nodes
<1>11. Promoting(node', Off, zeroLevel, u, M)
  <2>1. /\ node[q].zeroLevel <= h /\ h < MAX_LEVEL /\ L.key \in Keys
        /\ On(node, Off, q, h) /\ On(node, Off, q, h + 1) /\ node[q].next[h] = c
        /\ node[c].zeroLevel <= h /\ On(node, Off, c, h)
    BY <1>3 DEF Promoting, q, c, h
  <2>2. h # i
    BY <1>4
  <2>3. /\ On(node', Off, q, h) /\ On(node', Off, q, h + 1) /\ On(node', Off, c, h)
    BY <1>4, <1>6, <2>1
  <2>4. node'[q].next[h] = c
    BY <1>4, <1>6, <2>1, <2>2
  <2>5. /\ q \in DOMAIN node' \ {tail} /\ c \in DOMAIN node' \ {head, tail}
        /\ node'[q].lock = u /\ node'[c].lock = u /\ node'[q].zeroLevel <= h /\ node'[c].zeroLevel <= h
    BY <1>4, <1>6, <2>1
  <2>6. node'[c].topLevel = i /\ M.curh = i /\ M.predpred = q /\ M.cur = c /\ M.h = h /\ M.key = L.key
    BY <1>2, <1>6 DEF q, c, h
  <2> QED
    BY <1>4, <2>1, <2>3, <2>4, <2>5, <2>6 DEF Promoting
<1>12. FindOK(node', zeroLevel, M) /\ Place(M) = L.pc
  <2>1. Place(L) = L.pc /\ Place(M) = L.pc
    BY <1>2 DEF Place
  <2>2. FindOK(node, zeroLevel, L)
    BY <1>0 DEF WalkOK
  <2> QED
    BY <1>2, <1>6, <2>1, <2>2 DEF FindOK
<1>13. ASSUME L.pc = "p_loop"
       PROVE  /\ Reached(node', u, M) /\ node'[M.cur].key <= M.key
              /\ M.curh # M.h /\ Anchor(node', Off, zeroLevel, u, M.cur, M.h, M.key)
  <2>1. /\ Reached(node, u, L) /\ node[c].key <= L.key
        /\ L.curh = L.h => Anchor(node, Off, zeroLevel, u, L.predpred, L.h, L.key)
        /\ L.curh # L.h => Anchor(node, Off, zeroLevel, u, L.cur, L.h, L.key)
    BY <1>0, <1>13 DEF WalkOK, PromoteOK, Zone, c
  <2>2. /\ node[c].zeroLevel <= h /\ On(node, Off, c, h) /\ h < MAX_LEVEL /\ L.key \in Keys
    BY <1>3 DEF Promoting, c, h
  <2>3. node[c].next[h] \in DOMAIN node
    BY <1>4, <2>2, StepNext
  <2>4. node'[c].next[h] = node[c].next[h] /\ node'[node[c].next[h]].key = node[node[c].next[h]].key
    BY <1>4, <1>6, <2>3
  <2>5. node'[c].lock = u /\ node'[c].key = node[c].key /\ node'[c].zeroLevel = node[c].zeroLevel
    BY <1>4, <1>6, SMTT(30)
  <2>6. Reached(node', u, M)
    <3>1. /\ SameNext(node, node', L.cur, L.h)
          /\ node'[L.cur].lock = node[L.cur].lock /\ node'[L.cur].key = node[L.cur].key
      BY <1>4, <2>4, <2>5, Zenon DEF SameNext, c, h
    <3> QED
      BY <1>2, <2>1, <3>1, ReachedKept, Zenon
  <2>7. On(node', Off, c, h + 1)
    <3>1. \A j : <<c, j>> \notin Off
      BY <1>4, <1>5, NotOff
    <3>2. node'[c].topLevel = i /\ h + 1 <= i
      BY <1>4, <1>6 DEF c
    <3> QED
      BY <3>1, <3>2 DEF On
  <2>8. /\ node'[c].next[h + 1] \in DOMAIN node
        /\ L.key < node[node'[c].next[h + 1]].key
    <3>1. CASE L.curh = L.h
      <4>1. i = h + 1 /\ L.key < node[node[q].next[h + 1]].key
        BY <2>1, <3>1, SMTT(30) DEF Anchor, i, h, q
      <4>2. node'[c].next[h + 1] = node[q].next[h + 1] /\ node[q].next[i] \in DOMAIN node
        BY <1>3, <1>6, <4>1, PromotingFacts, ZenonT(40) DEF c, q, i
      <4> QED
        BY <4>1, <4>2
    <3>2. CASE L.curh # L.h
      <4>1. On(node, Off, c, h + 1) /\ L.key < node[node[c].next[h + 1]].key
        BY <2>1, <3>2, Zenon DEF Anchor, h, c
      <4>2. h + 1 # i /\ h + 1 \in Levels
        <5>1. L.curh \in Int /\ i = L.curh + 1
          BY <1>4, NodeTypes, <1>0, <1>3, SMTT(30) DEF Promoting, i, c
        <5>2. h # L.curh
          BY <3>2 DEF h
        <5> QED
          BY <1>0, <1>4, <5>1, <5>2 DEF Levels
      <4>3. node'[c].next[h + 1] = node[c].next[h + 1]
        BY <1>4, <1>6, <4>2
      <4>4. node[c].next[h + 1] \in DOMAIN node
        <5>1. c \in DOMAIN node \ {tail} /\ h + 1 \in Int /\ zeroLevel <= h + 1 /\ h + 1 < MAX_LEVEL
          BY <1>0, <1>4, <4>2
        <5>2. node[c].zeroLevel \in Int /\ node[c].zeroLevel <= h + 1
          BY <1>0, <1>4, <2>2, NodeTypes, SMTT(30)
        <5> QED
          BY <2>2, <4>1, <5>1, <5>2, StepNext
      <4> QED
        BY <4>1, <4>3, <4>4
    <3> QED
      BY <3>1, <3>2
  <2>9. Anchor(node', Off, zeroLevel, u, c, h, L.key)
    BY <1>4, <1>6, <2>1, <2>2, <2>5, <2>7, <2>8, Zenon DEF Anchor
  <2>10. M.curh # M.h
    BY <1>2, <1>4 DEF i, h
  <2> QED
    BY <1>2, <2>1, <2>5, <2>6, <2>9, <2>10 DEF c, h
<1>14. L.pc = "i_loop" => M.pred = M.predpred
  BY <1>0, <1>2 DEF WalkOK, PromoteOK
<1>15. PromoteOK(node', Off, zeroLevel, u, M)
  BY <1>2, <1>11, <1>13, <1>14 DEF PromoteOK
<1>16. WalkOK(node', Off, zeroLevel, u, M)
  BY <1>12, <1>15, WalkAt
<1> QED
  BY <1>1, <1>6, <1>7, <1>8, <1>10, <1>16, StepInv

\* The end of a promotion in updateWithInsert.
LEMMA InsertLoopInv ==
  ASSUME Inv, NEW u \in Threads, InsertLoop(u)
  PROVE  Inv'
<1> DEFINE L == l[u]
           M == [L EXCEPT !.pc = "i_leave"]
<1>0. /\ DOMAIN L = Fields /\ WalkOK(node, Off, zeroLevel, u, L) /\ L.pc = "i_loop"
      /\ todo \in Seq(Keys) /\ plan \in [Workers -> Seq(SUBSET (Operations \X Keys))]
  BY Start DEF InsertLoop, At
<1>1. CASE Ascends(L.predpred, L.curh, L.curAccess)
  <2>1. Do(u, Promoted(L.predpred, L.cur, L.curh + 1), [L EXCEPT !.curh = @ + 1])
    BY <1>1, Zenon DEF InsertLoop
  <2> HIDE DEF L
  <2>2. L = l[u]
    BY DEF L
  <2> QED
    BY <1>0, <1>1, <2>1, <2>2, RiseInv
<1>2. CASE ~Ascends(L.predpred, L.curh, L.curAccess)
  <2>1. Local(u, M)
    BY <1>2, Zenon DEF InsertLoop
  <2>2. Moves(u, M) /\ node' = node /\ zeroLevel' = zeroLevel
    BY <1>0, <2>1 DEF Local, Do, client, Moves, Fields
  <2>3. Alike(L, M) /\ M.pc = "i_leave" /\ Place(M) = "i_leave" /\ Place(L) = "i_loop"
    BY <1>0, GotoAlike DEF Place
  <2>4. Promoting(node, Off, zeroLevel, u, L) /\ L.pred = L.predpred
    BY <1>0 DEF WalkOK, PromoteOK
  <2> HIDE DEF L, M
  <2>5. /\ L.pred \in DOMAIN node \ {tail} /\ node[L.pred].lock = u /\ node[L.pred].zeroLevel <= L.h
        /\ L.h \in Int /\ zeroLevel <= L.h /\ L.h < MAX_LEVEL /\ L.key \in Keys
        /\ On(node, Off, L.pred, L.h) /\ node[L.pred].next[L.h] = L.cur
        /\ L.cur \in DOMAIN node /\ node[L.cur].lock = u
    BY <2>4 DEF Promoting
  <2>6. node[L.pred].key < node[L.cur].key /\ node[L.pred].key \in Int
    BY <2>5, StepNext
  <2>7. L.cur # L.pred
    BY <2>6
  <2>8. FindOK(node, zeroLevel, M)
    BY <2>3 DEF FindOK, InUpdate, OnLevel
  <2>9. InsertOK(node, Off, zeroLevel, u, M)
    BY <2>3, <2>5, <2>7 DEF InsertOK, Alike
  <2>10. WalkOK(node, Off, zeroLevel, u, M)
    BY <2>3, <2>8, <2>9, WalkAt
  <2>11. Held(L) = {L.pred, L.cur} /\ Held(M) = {L.pred, L.cur}
    BY <2>3, HeldAt DEF Alike
  <2>12. l[u].pc \notin {"d_null", "d_top"} /\ M.pc \notin {"d_null", "d_top"} /\ Held(l[u]) \subseteq Held(M)
    BY <1>0, <2>3, <2>11 DEF L
  <2> QED
    BY <2>2, <2>10, <2>12, QuietInv
<1> QED
  BY <1>1, <1>2

\* A walk at the head of the loop does not need the lock of a node that is not its pred.
LEMMA ReleaseKept ==
  ASSUME NEW nd, NEW nd2, NEW off, NEW z \in Int, 0 <= z, NEW u \in Threads, NEW N, NEW q,
         NodesOK(nd, z), Lists(nd, off, z), Relocked(nd, nd2, q, Nobody), q \in DOMAIN nd, nd[q].lock = u,
         DOMAIN N = Fields, WalkOK(nd, off, z, u, N), Place(N) \in {"w_exit", "w_peek"}, N.pc \in {"w_exit", "w_peek", "fix"},
         N.pred # q, N.predpred # q
  PROVE  WalkOK(nd2, off, z, u, N)
<1>1. Calm(nd, nd2) /\ Touched(nd, nd2, u)
  BY RelockedTouched
<1>2. Zone(nd, off, z, u, N) /\ PredOK(nd, off, N)
  <2>1. Place(N) = "w_peek" \/ N.pc = "w_exit"
    BY DEF WalkOK, FindOK, Place
  <2> QED
    BY <2>1 DEF WalkOK, StepsOK
<1>3. N.predpred \in DOMAIN nd /\ nd[N.predpred].lock = u /\ N.pred \in DOMAIN nd
  BY <1>2 DEF Zone, Anchor, PredOK
<1>4. nd2[N.predpred] = nd[N.predpred] /\ nd2[N.pred] = nd[N.pred]
  BY <1>3 DEF Relocked
<1>5. /\ Zone(nd2, off, z, u, N) /\ PredOK(nd2, off, N)
      /\ nd2[N.pred].next[N.h] = nd[N.pred].next[N.h]
      /\ nd2[nd[N.pred].next[N.h]].key = nd[nd[N.pred].next[N.h]].key
      /\ CurOK(nd, off, N) =>
           CurOK(nd2, off, N) /\ (nd[N.cur].zeroLevel <= N.h => nd2[N.cur].zeroLevel <= N.h)
  <2>1. nd2[N.predpred].lock = u
    BY <1>3, <1>4
  <2>2. /\ Zone(nd2, off, z, u, N) /\ PredOK(nd2, off, N) /\ SameNext(nd, nd2, N.pred, N.h)
        /\ CurOK(nd, off, N) =>
             CurOK(nd2, off, N) /\ (nd[N.cur].zeroLevel <= N.h => nd2[N.cur].zeroLevel <= N.h)
    BY <1>1, <1>2, <2>1, PredCalm
  <2> QED
    BY <2>2, Zenon DEF SameNext
<1>6. StepsOK(nd, off, z, u, N) /\ FindOK(nd, z, N)
  BY DEF WalkOK
<1>7. FindOK(nd2, z, N)
  BY <1>1, <1>6 DEF FindOK, Touched
<1>8. StepsOK(nd2, off, z, u, N)
  <2>1. CASE N.pc = "w_exit"
    BY <1>4, <1>5, <1>6, <2>1 DEF StepsOK, Place
  <2>2. CASE N.pc # "w_exit"
    <3>1. Place(N) = "w_peek"
      BY <1>6, <2>2 DEF Place, FindOK
    <3> QED
      BY <1>5, <1>6, <2>2, <3>1 DEF StepsOK
  <2> QED
    BY <2>1, <2>2
<1> QED
  BY <1>7, <1>8, WalkAt

\* One level up, or cur becomes the node that the walk goes on from.
LEMMA PromoteLoopInv ==
  ASSUME Inv, NEW u \in Threads, PromoteLoop(u)
  PROVE  Inv'
<1> DEFINE L == l[u]
           q == L.predpred
           c == L.cur
           d == node[c].next[L.h]
           K == [L EXCEPT !.predpred = c, !.pred = c]
           N == Loop(K, d)
<1>0. /\ DOMAIN L = Fields /\ WalkOK(node, Off, zeroLevel, u, L) /\ L.pc = "p_loop" /\ Place(L) = "p_loop"
      /\ NodesOK(node, zeroLevel) /\ Lists(node, Off, zeroLevel) /\ zeroLevel \in Int /\ 0 <= zeroLevel /\ u # Nobody
      /\ todo \in Seq(Keys) /\ plan \in [Workers -> Seq(SUBSET (Operations \X Keys))]
  BY Start DEF PromoteLoop, At, Place
<1>1. CASE Ascends(L.predpred, L.curh, L.curAccess)
  <2>1. Do(u, Promoted(L.predpred, L.cur, L.curh + 1), [L EXCEPT !.curh = @ + 1])
    BY <1>1, Zenon DEF PromoteLoop
  <2> HIDE DEF L
  <2>2. L = l[u]
    BY DEF L
  <2> QED
    BY <1>0, <1>1, <2>1, <2>2, RiseInv
<1>2. CASE ~Ascends(L.predpred, L.curh, L.curAccess)
  <2>1. Do(u, [node EXCEPT ![q].lock = Nobody], N)
    BY <1>2, Zenon DEF PromoteLoop
  <2>2. /\ node' = [node EXCEPT ![q].lock = Nobody] /\ l' = [l EXCEPT ![u] = N] /\ zeroLevel' = zeroLevel
        /\ UNCHANGED <<todo, plan>>
    BY <2>1 DEF Do, client
  <2>3. Promoting(node, Off, zeroLevel, u, L) /\ Reached(node, u, L) /\ node[c].key <= L.key
    BY <1>0 DEF WalkOK, PromoteOK
  <2>4. Anchor(node, Off, zeroLevel, u, c, L.h, L.key)
    <3>1. L.curh # L.h
      BY <1>0, <1>2 DEF WalkOK, PromoteOK, Ascends, Rises
    <3> QED
      BY <1>0, <3>1 DEF WalkOK, PromoteOK
  <2>5. /\ DOMAIN K = Fields /\ K.pred = c /\ K.predpred = c /\ K.h = L.h /\ K.key = L.key
        /\ K.ok = L.ok /\ K.inserting = L.inserting /\ K.succ = L.succ /\ K.curZeroLevel = L.curZeroLevel
    BY <1>0 DEF Fields
  <2>6. /\ L.acquired => node[c].lock = u /\ L.key < node[d].key /\ (L.ok <=> node[c].key = L.key)
        /\ ~L.acquired => node[d].key <= L.key /\ ~L.ok
    BY <2>3, Zenon DEF Reached
  <2>7. /\ q \in DOMAIN node \ {tail} /\ node[q].lock = u /\ node[q].zeroLevel <= L.h
        /\ L.h \in Int /\ zeroLevel <= L.h /\ L.h < MAX_LEVEL /\ L.key \in Keys
        /\ On(node, Off, q, L.h) /\ node[q].next[L.h] = c
        /\ c \in DOMAIN node \ {head, tail} /\ node[c].lock = u /\ node[c].zeroLevel <= L.h
        /\ On(node, Off, c, L.h)
    BY <2>3 DEF Promoting
  <2>8. q # c
    <3>1. node[q].key < node[c].key /\ node[q].key \in Int
      BY <2>7, StepNext
    <3> QED
      BY <3>1
  <2>9. node[d].key \in Int /\ L.key \in Int /\ node[c].key \in Int
    BY <2>7, StepNext, SMTT(30)
  <2>10. Relocked(node, node', q, Nobody)
    <3>1. NodeOK(node, zeroLevel, q)
      BY <1>0, <2>7 DEF NodesOK
    <3> QED
      BY <2>2, <2>7, <3>1, Zenon DEF Relocked, NodeOK, NodeFields
  <2>11. FindOK(node, zeroLevel, L)
    BY <1>0 DEF WalkOK
  <2> HIDE DEF N, K, d, c, q, L
  <2>12. Carried(node, zeroLevel, K)
    BY <1>0, <2>5, <2>7, <2>11 DEF Carried, FindOK, OnLevel, InUpdate
  <2>13. Zone(node, Off, zeroLevel, u, K) /\ PredOK(node, Off, K)
    BY <2>3, <2>4, <2>5, <2>7, <2>9 DEF Zone, PredOK
  <2>14. /\ d = node[K.pred].next[K.h] /\ (node[d].key <= K.key => ~K.ok)
         /\ node[d].key > K.key => node[K.pred].lock = u /\ (K.ok <=> node[K.pred].key = K.key)
    BY <2>5, <2>6, <2>9 DEF d
  <2>15. /\ DOMAIN N = Fields /\ WalkOK(node, Off, zeroLevel, u, N)
         /\ Place(N) = IF node[d].key > K.key THEN "w_exit" ELSE "w_peek"
         /\ N.pred = K.pred /\ N.predpred = K.predpred /\ N.cur = d
         /\ N.pc \in {"w_exit", "w_peek", "fix"}
    BY <2>12, <2>13, <2>14, LoopOK DEF N
  <2>16. Held(L) = {q, c} /\ Held(N) = {c}
    <3>1. Held(L) = {q, c}
      BY <1>0, HeldAt DEF q, c
    <3> QED
      BY <2>5, <2>15, <3>1, HeldAt
  <2>17. Touched(node, node', u)
    BY <1>0, <2>7, <2>10, RelockedTouched
  <2>18. WalkOK(node', Off, zeroLevel, u, N)
    BY <1>0, <2>5, <2>7, <2>8, <2>10, <2>15, ReleaseKept
  <2>19. \A n \in DOMAIN node : node'[n].lock = u => n \in Held(N)
    BY <1>0, <2>10, <2>16 DEF Inv, LockInv, Nodes, L, Relocked
  <2>20. Moves(u, N)
    BY <1>0, <2>2, <2>15 DEF Moves
  <2>21. l[u].pc \notin {"d_null", "d_top"} /\ N.pc \notin {"d_null", "d_top"}
    BY <1>0, <2>15 DEF L
  <2> QED
    BY <2>2, <2>17, <2>18, <2>19, <2>20, <2>21, TouchInv
<1> QED
  BY <1>1, <1>2

\* nd2 is nd with the new node c between p and the node behind it, on the level h and below.
Linked(nd, nd2, p, c, h, k, u) ==
  /\ DOMAIN nd2 = DOMAIN nd \cup {c} /\ \A n \in DOMAIN nd \ {p} : nd2[n] = nd[n]
  /\ DOMAIN nd2[c] = NodeFields /\ nd2[c].key = k /\ nd2[c].zeroLevel = h /\ nd2[c].topLevel = h
  /\ nd2[c].selfhits = 0 /\ nd2[c].lock = u
  /\ nd2[c].next \in [Levels -> DOMAIN nd \cup {NULL}] /\ nd2[c].next[h] = nd[p].next[h]
  /\ nd2[c].hits \in [Levels -> Int]
  /\ DOMAIN nd2[p] = NodeFields /\ \A f \in NodeFields \ {"next"} : nd2[p][f] = nd[p][f]
  /\ nd2[p].next \in [Levels -> DOMAIN nd \cup {c, NULL}] /\ nd2[p].next[h] = c
  /\ \A j \in Levels \ {h} : nd2[p].next[j] = nd[p].next[j]

\* The nodes are numbered without a gap.
LEMMA Fresh ==
  ASSUME NEW nd, NEW z \in Int, NodesOK(nd, z), NEW c, c = Cardinality(DOMAIN nd)
  PROVE  /\ c \notin DOMAIN nd /\ c \notin {head, tail, NULL}
         /\ \E k \in Nat : k > 1 /\ DOMAIN nd \cup {c} = 0 .. k - 1
<1>1. PICK k \in Nat : k > 1 /\ DOMAIN nd = 0 .. k - 1
  BY DEF NodesOK
<1>2. Cardinality(0 .. k - 1) = k
  <2>1. 0 \in Int /\ k - 1 \in Int /\ ~(0 > k - 1)
    BY <1>1
  <2>2. Cardinality(0 .. k - 1) = (k - 1) - 0 + 1
    BY <2>1, FS_Interval
  <2> QED
    BY <2>2
<1>3. c = k
  BY <1>1, <1>2
<1>4. DOMAIN nd \cup {c} = 0 .. (k + 1) - 1 /\ k + 1 \in Nat /\ k + 1 > 1
  BY <1>1, <1>3
<1>5. c \notin DOMAIN nd /\ c \notin {head, tail, NULL}
  BY <1>1, <1>3 DEF head, tail, NULL
<1> QED
  BY <1>4, <1>5

\* A key that is not in the list is linked in.
LEMMA LinkedStep ==
  ASSUME Inv, NEW u \in Threads, NEW p, p \in DOMAIN node \ {tail}, node[p].lock = u, l[u].pc \notin {"d_null", "d_top"},
         NEW h \in Int, zeroLevel <= h, h < MAX_LEVEL, node[p].zeroLevel = h, NEW k \in Keys,
         node[p].key < k, k < node[node[p].next[h]].key,
         NEW c, c = Cardinality(DOMAIN node), Linked(node, node', p, c, h, k, u)
  PROVE  /\ StepOf(node, Off, zeroLevel, node', Off, zeroLevel, u)
         /\ c \notin DOMAIN node /\ c \notin {head, tail}
         /\ \A n \in DOMAIN node : /\ node'[n].key = node[n].key /\ node'[n].lock = node[n].lock
                                   /\ node'[n].zeroLevel = node[n].zeroLevel /\ node'[n].topLevel = node[n].topLevel
         /\ \A n \in DOMAIN node, j \in Levels \ {h} : node'[n].next[j] = node[n].next[j]
         /\ On(node', Off, c, h)
<1> DEFINE s == node[p].next[h]
<1>0. /\ zeroLevel \in Int /\ 0 <= zeroLevel /\ NodesOK(node, zeroLevel) /\ Lists(node, Off, zeroLevel)
      /\ MAX_LEVEL \in Int
  BY Start
<1>1. /\ c \notin DOMAIN node /\ c \notin {head, tail, NULL}
      /\ \E j \in Nat : j > 1 /\ DOMAIN node \cup {c} = 0 .. j - 1
  BY <1>0, Fresh
<1>2. \A n \in DOMAIN node : NodeOK(node, zeroLevel, n)
  BY <1>0 DEF NodesOK
<1>3. /\ DOMAIN node' = DOMAIN node \cup {c} /\ \A n \in DOMAIN node \ {p} : node'[n] = node[n]
      /\ DOMAIN node'[c] = NodeFields /\ node'[c].key = k /\ node'[c].zeroLevel = h /\ node'[c].topLevel = h
      /\ node'[c].selfhits = 0 /\ node'[c].lock = u
      /\ node'[c].next \in [Levels -> DOMAIN node \cup {NULL}] /\ node'[c].next[h] = s
      /\ node'[c].hits \in [Levels -> Int]
      /\ DOMAIN node'[p] = NodeFields
      /\ node'[p].next \in [Levels -> DOMAIN node \cup {c, NULL}] /\ node'[p].next[h] = c
      /\ \A j \in Levels \ {h} : node'[p].next[j] = node[p].next[j]
  BY DEF Linked
<1>4. /\ node'[p].key = node[p].key /\ node'[p].lock = node[p].lock /\ node'[p].zeroLevel = node[p].zeroLevel
      /\ node'[p].topLevel = node[p].topLevel /\ node'[p].selfhits = node[p].selfhits /\ node'[p].hits = node[p].hits
  BY DEF Linked, NodeFields
<1>5. \A n \in DOMAIN node : /\ node'[n].key = node[n].key /\ node'[n].lock = node[n].lock
                             /\ node'[n].zeroLevel = node[n].zeroLevel /\ node'[n].topLevel = node[n].topLevel
                             /\ node'[n].selfhits = node[n].selfhits /\ node'[n].hits = node[n].hits
  BY <1>3, <1>4
<1>6. \A n \in DOMAIN node, j \in Levels \ {h} : node'[n].next[j] = node[n].next[j]
  BY <1>3
<1>7. \A j : <<c, j>> \notin Off /\ <<p, j>> \notin Off
  BY <1>1, OffFacts, NotOff
<1>8. h \in Levels /\ k \in Int /\ node[p].key \in Int /\ KeysOK(node) /\ node[p].topLevel \in Int /\ h <= node[p].topLevel
  BY <1>0, KeysAssumption, NodeTypes DEF Levels
<1>9. ASSUME NEW i \in Int, i <= h PROVE On(node, Off, p, i)
  <2>1. node[p].topLevel >= i
    BY <1>8, <1>9
  <2> QED
    BY <1>7, <2>1 DEF On
<1>10. \A i \in Int : On(node', Off, c, i) <=> i <= h
  BY <1>3, <1>7 DEF On
<1>11. \A n \in DOMAIN node : \A i : On(node', Off, n, i) <=> On(node, Off, n, i)
  BY <1>5 DEF On
<1> HIDE DEF s
<1>12. \A i \in Int : i <= h => NextIn(node, p, i) = s /\ NextIn(node', p, i) = c /\ NextIn(node', c, i) = s
  BY <1>3, <1>4 DEF NextIn, s
<1>13. k < node[s].key /\ s \in DOMAIN node /\ node[s].key \in Int
  <2>1. On(node, Off, p, h) /\ h <= MAX_LEVEL /\ node[p].zeroLevel <= h
    BY <1>0, <1>9
  <2>2. s \in DOMAIN node
    BY <1>0, <2>1, NextOn DEF s
  <2> QED
    BY <1>0, <2>2, NodeTypes DEF s
<1>14. \A n \in DOMAIN node : node[n].key # k
  <2>1. zeroLevel \in zeroLevel .. MAX_LEVEL /\ On(node, Off, p, zeroLevel) /\ NextIn(node, p, zeroLevel) = s
    BY <1>0, <1>9, <1>12
  <2>2. Follows(node, Off, p, s, zeroLevel)
    BY <1>0, <2>1 DEF Lists
  <2>3. \A n \in DOMAIN node : node[n].key <= node[p].key \/ node[s].key <= node[n].key
    BY <2>2, OnLevels DEF Follows
  <2>4. \A n \in DOMAIN node : node[n].key \in Int
    BY <1>8 DEF KeysOK
  <2> QED
    BY <1>8, <1>13, <2>3, <2>4
<1>15. NodesOK(node', zeroLevel)
  <2>1. ASSUME NEW n \in DOMAIN node PROVE NodeOK(node', zeroLevel, n)
    <3>1. NodeOK(node, zeroLevel, n)
      BY <1>2
    <3>2. node'[n].next \in [Levels -> DOMAIN node' \cup {NULL}] /\ DOMAIN node'[n] = NodeFields
      <4>1. CASE n = p
        BY <1>3, <4>1
      <4>2. CASE n # p
        BY <1>3, <3>1, <4>2 DEF NodeOK
      <4> QED
        BY <4>1, <4>2
    <3> QED
      BY <1>5, <3>1, <3>2 DEF NodeOK
  <2>2. NodeOK(node', zeroLevel, c)
    BY <1>0, <1>1, <1>3, <1>8 DEF NodeOK
  <2>3. head \in DOMAIN node /\ tail \in DOMAIN node
    BY <1>0, NodeTypes
  <2>4. node'[head].key = minKey /\ node'[tail].key = maxKey
    BY <1>0, <1>5, <2>3 DEF NodesOK
  <2>5. \A n \in DOMAIN node' \ {head, tail} : node'[n].key \in Keys
    BY <1>0, <1>3, <1>5 DEF NodesOK
  <2>6. \A n, m \in DOMAIN node' : node'[n].key = node'[m].key => n = m
    BY <1>0, <1>3, <1>5, <1>14 DEF NodesOK
  <2>7. \E j \in Nat : j > 1 /\ DOMAIN node' = 0 .. j - 1
    BY <1>1, <1>3
  <2>8. \A n \in DOMAIN node' : NodeOK(node', zeroLevel, n)
    BY <1>3, <2>1, <2>2
  <2> QED
    BY <2>4, <2>5, <2>6, <2>7, <2>8 DEF NodesOK
<1>16. Added(node, Off, node', Off, zeroLevel, p, c, zeroLevel .. h)
  <2>1. /\ DOMAIN node' = DOMAIN node \cup {c} /\ \A n \in DOMAIN node : node'[n].key = node[n].key
    BY <1>3, <1>5
  <2>2. zeroLevel .. h \subseteq zeroLevel .. MAX_LEVEL /\ c # tail /\ node'[c].key \in Int
    BY <1>0, <1>1, <1>3, <1>8
  <2>3. \A i \in zeroLevel .. h :
          /\ On(node, Off, p, i) /\ ~(c \in DOMAIN node /\ On(node, Off, c, i)) /\ On(node', Off, c, i)
          /\ node[p].key < node'[c].key /\ node'[c].key < node[NextIn(node, p, i)].key
          /\ NextIn(node', p, i) = c /\ NextIn(node', c, i) = NextIn(node, p, i)
    BY <1>0, <1>1, <1>3, <1>9, <1>10, <1>12, <1>13
  <2>4. \A i \in zeroLevel .. MAX_LEVEL : On(node', Off, c, i) => i \in zeroLevel .. h
    BY <1>0, <1>10
  <2>5. ASSUME NEW i \in zeroLevel .. MAX_LEVEL, NEW n \in DOMAIN node, n # tail, ~(n = p /\ i \in zeroLevel .. h)
        PROVE  NextIn(node', n, i) = NextIn(node, n, i)
    <3>1. CASE n # p
      BY <1>3, <3>1 DEF NextIn
    <3>2. CASE n = p
      <4>1. i > h /\ i \in Levels /\ i # h /\ ~(h > i)
        BY <1>0, <2>5, <3>2 DEF Levels
      <4> QED
        BY <1>3, <1>4, <3>2, <4>1 DEF NextIn
    <3> QED
      BY <3>1, <3>2
  <2> QED
    BY <1>11, <2>1, <2>2, <2>3, <2>4, <2>5 DEF Added
<1>17. Lists(node', Off, zeroLevel)
  BY <1>0, <1>8, <1>16, AddedLists
<1>18. StepOf(node, Off, zeroLevel, node', Off, zeroLevel, u)
  <2>1. \A n \in DOMAIN node : node[n].lock \notin {u, Nobody} => node'[n] = node[n]
    BY <1>3
  <2>2. \A n \in DOMAIN node : node[n].zeroLevel \in Int
    BY <1>2 DEF NodeOK
  <2> QED
    BY <1>0, <1>3, <1>5, <1>11, <1>15, <1>17, <2>1, <2>2 DEF StepOf
<1>19. On(node', Off, c, h)
  BY <1>10
<1> QED
  BY <1>1, <1>5, <1>6, <1>18, <1>19

\* The new node is published.
LEMMA InsertLinkInv ==
  ASSUME Inv, NEW u \in Threads, InsertLink(u)
  PROVE  Inv'
<1> DEFINE L == l[u]
           p == L.pred
           h == L.h
           k == L.key
           c == Cardinality(DOMAIN node)
           s == node[p].next[h]
           new == [createNode(h, k, Val(u)) EXCEPT !.next[h] = s, !.lock = u]
           M == [L EXCEPT !.pc = "i_count", !.cur = c]
<1>0. /\ DOMAIN l = Threads /\ DOMAIN L = Fields /\ WalkOK(node, Off, zeroLevel, u, L) /\ L.pc = "i_link" /\ Place(L) = "i_link"
      /\ NodesOK(node, zeroLevel) /\ Lists(node, Off, zeroLevel) /\ zeroLevel \in Int /\ 0 <= zeroLevel /\ MAX_LEVEL \in Int
      /\ todo \in Seq(Keys) /\ plan \in [Workers -> Seq(SUBSET (Operations \X Keys))]
  BY Start DEF InsertLink, At, Place
<1>1. /\ Zone(node, Off, zeroLevel, u, L) /\ PredOK(node, Off, L) /\ node[p].lock = u
      /\ k < node[node[p].next[h]].key /\ node[p].key < k
      /\ node[p].zeroLevel = h
  BY <1>0 DEF WalkOK, InsertOK
<1>2. /\ p \in DOMAIN node \ {tail} /\ h \in Int /\ zeroLevel <= h /\ h < MAX_LEVEL /\ k \in Keys
      /\ On(node, Off, p, h) /\ node[p].zeroLevel <= h
      /\ L.predpred \in DOMAIN node \ {tail} /\ node[L.predpred].lock = u
      /\ On(node, Off, L.predpred, h + 1) /\ node[L.predpred].zeroLevel <= h /\ node[L.predpred].key <= k
      /\ k < node[node[L.predpred].next[h + 1]].key
      /\ node[L.predpred].key <= node[p].key /\ node[p].key <= k
  BY <1>1, Zenon DEF Zone, Anchor, PredOK
<1>3. c \notin DOMAIN node /\ c \notin {head, tail, NULL}
  <2> HIDE DEF c
  <2>1. c = Cardinality(DOMAIN node)
    BY DEF c
  <2> QED
    BY <1>0, <2>1, Fresh
<1>4. /\ zeroLevel' = zeroLevel /\ UNCHANGED <<todo, plan>>
      /\ node' = [n \in DOMAIN node \cup {c} |->
                    CASE n = c -> new
                      [] n = p -> [node[n] EXCEPT !.next[h] = c]
                      [] OTHER -> node[n]]
  BY DEF InsertLink
<1>5. l' = [l EXCEPT ![u] = M]
  BY <1>0 DEF InsertLink
<1>6. h \in Levels /\ s \in DOMAIN node /\ h + 1 \in Levels /\ node[L.predpred].next[h + 1] \in DOMAIN node /\ h # h + 1
  <2>1. h \in Levels /\ s \in DOMAIN node
    BY <1>2, StepNext, Zenon
  <2>0. h \in Int /\ zeroLevel \in Int /\ zeroLevel <= h /\ h < MAX_LEVEL /\ MAX_LEVEL \in Int
    BY <1>0, <1>2, Zenon
  <2>2. h + 1 \in Int /\ zeroLevel <= h + 1 /\ h + 1 <= MAX_LEVEL /\ h # h + 1
    BY <2>0
  <2>3. node[L.predpred].zeroLevel <= h + 1
    <3>1. L.predpred \in DOMAIN node /\ node[L.predpred].zeroLevel <= h
      BY <1>2, Zenon
    <3>2. node[L.predpred].zeroLevel \in Int
      BY <1>0, <3>1, NodeTypes, Zenon
    <3> QED
      BY <2>0, <3>1, <3>2
  <2>4. node[L.predpred].next[h + 1] \in DOMAIN node /\ h + 1 \in Levels
    BY <1>0, <1>2, <2>2, <2>3, NextOn
  <2> QED
    BY <2>1, <2>2, <2>4
<1>7. /\ DOMAIN new = NodeFields /\ new.key = k /\ new.zeroLevel = h /\ new.topLevel = h
      /\ new.selfhits = 0 /\ new.lock = u
      /\ new.next \in [Levels -> DOMAIN node \cup {NULL}] /\ new.next[h] = s
      /\ new.hits \in [Levels -> Int]
  <2> HIDE DEF h, k, s, p, L
  <2> QED
    BY <1>6 DEF createNode, NodeFields
<1>8. /\ DOMAIN M = Fields /\ M.pc = "i_count" /\ M.cur = c /\ M.key = k /\ M.h = h /\ M.pred = p
      /\ M.predpred = L.predpred /\ M.inserting = L.inserting /\ M.succ = L.succ
  BY <1>0 DEF Fields
<1>9. FindOK(node, zeroLevel, L)
  BY <1>0 DEF WalkOK
<1>10. NodeOK(node, zeroLevel, p)
  BY <1>0, <1>2 DEF NodesOK
<1> HIDE DEF L, p, h, k, c, s, new, M
<1>11. Linked(node, node', p, c, h, k, u)
  <2> DEFINE R == [node[p] EXCEPT !.next[h] = c]
  <2>1. /\ DOMAIN R = NodeFields /\ \A f \in NodeFields \ {"next"} : R[f] = node[p][f]
        /\ R.next \in [Levels -> DOMAIN node \cup {c, NULL}] /\ R.next[h] = c
        /\ \A j \in Levels \ {h} : R.next[j] = node[p].next[j]
    <3>1. DOMAIN node[p] = NodeFields /\ node[p].next \in [Levels -> DOMAIN node \cup {NULL}]
      BY <1>10 DEF NodeOK
    <3> DEFINE N == [node[p].next EXCEPT ![h] = c]
    <3>2. /\ N \in [Levels -> DOMAIN node \cup {c, NULL}] /\ N[h] = c
          /\ \A j \in Levels \ {h} : N[j] = node[p].next[j]
      BY <1>6, <3>1
    <3>3. DOMAIN R = NodeFields /\ R.next = N /\ \A f \in NodeFields \ {"next"} : R[f] = node[p][f]
      BY <3>1 DEF NodeFields
    <3> HIDE DEF N, R
    <3> QED
      BY <3>2, <3>3
  <2>2. DOMAIN node' = DOMAIN node \cup {c} /\ node'[c] = new /\ p # c /\ \A n \in DOMAIN node : n # c
    BY <1>2, <1>3, <1>4
  <2>3. node'[p] = R
    BY <1>2, <1>4, <2>2
  <2>4. \A n \in DOMAIN node \ {p} : node'[n] = node[n]
    BY <1>4, <2>2
  <2> HIDE DEF R
  <2> QED
    BY <1>7, <2>1, <2>2, <2>3, <2>4 DEF Linked, s
<1>12. /\ StepOf(node, Off, zeroLevel, node', Off, zeroLevel, u)
       /\ \A n \in DOMAIN node : /\ node'[n].key = node[n].key /\ node'[n].lock = node[n].lock
                                 /\ node'[n].zeroLevel = node[n].zeroLevel /\ node'[n].topLevel = node[n].topLevel
       /\ \A n \in DOMAIN node, j \in Levels \ {h} : node'[n].next[j] = node[n].next[j]
       /\ On(node', Off, c, h)
  <2>1. c = Cardinality(DOMAIN node) /\ l[u].pc \notin {"d_null", "d_top"}
    BY <1>0 DEF c, L
  <2> QED
    BY <1>1, <1>2, <1>11, <2>1, LinkedStep
<1>13. /\ DOMAIN node' = DOMAIN node \cup {c} /\ node'[c].key = k /\ node'[c].lock = u /\ node'[c].zeroLevel = h
       /\ node'[c].topLevel = h /\ node'[p].next[h] = c
  BY <1>11 DEF Linked
<1>14. Moves(u, M)
  BY <1>0, <1>4, <1>5, <1>8 DEF Moves
<1>15. Off' = Off
  <2>1. l[u].pc \notin {"d_null", "d_top"} /\ M.pc \notin {"d_null", "d_top"}
    BY <1>0, <1>8 DEF L
  <2> QED
    BY <1>0, <1>14, <2>1, OffSame
<1>16. Held(L) = {L.predpred, p} /\ Held(M) = {L.predpred, p, c}
  <2>1. Place(M) = "i_count"
    BY <1>8 DEF Place
  <2>2. Held(L) = {L.predpred, L.pred} /\ Held(M) = {M.predpred, M.pred, M.cur}
    BY <1>0, <2>1, HeldAt
  <2> QED
    BY <1>8, <2>2 DEF p
<1>17. LocksMove(node, node', u, M)
  BY <1>12, <1>13, <1>16 DEF LocksMove, Inv, LockInv, Nodes, L
<1>18. \A n \in DOMAIN node : \A i : On(node, Off, n, i) => On(node', Off, n, i)
  BY <1>12 DEF On
<1>19. Zone(node', Off, zeroLevel, u, M)
  <2>1. node'[L.predpred].next[h + 1] = node[L.predpred].next[h + 1]
    BY <1>2, <1>6, <1>12
  <2>2. node'[node[L.predpred].next[h + 1]].key = node[node[L.predpred].next[h + 1]].key
    BY <1>6, <1>12
  <2>3. /\ L.predpred \in DOMAIN node' \ {tail} /\ node'[L.predpred].lock = u /\ On(node', Off, L.predpred, h + 1)
        /\ node'[L.predpred].zeroLevel <= h /\ node'[L.predpred].key <= k
    BY <1>2, <1>12, <1>13, <1>18
  <2> QED
    BY <1>2, <1>8, <2>1, <2>2, <2>3 DEF Zone, Anchor
<1>20. PredOK(node', Off, M)
  BY <1>2, <1>8, <1>12, <1>13, <1>18 DEF PredOK
<1>21. InsertOK(node', Off, zeroLevel, u, M)
  <2>1. node'[p].lock = u /\ node'[p].key < k
    BY <1>1, <1>2, <1>12
  <2> QED
    BY <1>3, <1>8, <1>12, <1>13, <1>19, <1>20, <2>1 DEF InsertOK
<1>22. FindOK(node', zeroLevel, M) /\ Place(M) = "i_count"
  <2>1. Place(M) = "i_count"
    BY <1>8 DEF Place
  <2>2. ~L.inserting => L.succ \in DOMAIN node /\ node[L.succ].key = L.key
    BY <1>0, <1>9 DEF FindOK, InUpdate
  <2>3. ~M.inserting => M.succ \in DOMAIN node' /\ node'[M.succ].key = M.key
    BY <1>8, <1>12, <1>13, <2>2 DEF k
  <2> QED
    BY <1>8, <2>1, <2>3 DEF FindOK, OnLevel
<1>23. WalkOK(node', Off, zeroLevel, u, M)
  BY <1>21, <1>22, WalkAt
<1> QED
  BY <1>4, <1>12, <1>14, <1>15, <1>17, <1>23, StepInv

\* The new node is counted, and predpred released unless the node rises.
LEMMA InsertCountInv ==
  ASSUME Inv, NEW u \in Threads, InsertCount(u)
  PROVE  Inv'
<1> DEFINE L == l[u]
           q == L.predpred
           p == L.pred
           c == L.cur
           h == L.h
           rises == node[q].next[h] = c /\ Ascends(q, h, L.curAccess)
           M == [L EXCEPT !.pc = IF rises THEN "i_loop" ELSE "i_leave", !.curh = h]
<1>0. /\ DOMAIN l = Threads /\ DOMAIN L = Fields /\ WalkOK(node, Off, zeroLevel, u, L) /\ L.pc = "i_count" /\ Place(L) = "i_count"
      /\ NodesOK(node, zeroLevel) /\ Lists(node, Off, zeroLevel) /\ zeroLevel \in Int /\ 0 <= zeroLevel /\ MAX_LEVEL \in Int
      /\ todo \in Seq(Keys) /\ plan \in [Workers -> Seq(SUBSET (Operations \X Keys))] /\ u # Nobody
  BY Start DEF InsertCount, At, Place
<1>1. /\ node' = [node EXCEPT ![c].selfhits = @ + 1,
                             ![q].lock = IF rises \/ q = p THEN @ ELSE Nobody]
      /\ l' = [l EXCEPT ![u] = M] /\ zeroLevel' = zeroLevel /\ UNCHANGED <<todo, plan>>
  BY DEF InsertCount, Do, client
<1>2. /\ Zone(node, Off, zeroLevel, u, L) /\ PredOK(node, Off, L)
      /\ node[p].lock = u /\ node[p].next[h] = c
      /\ c \in DOMAIN node \ {head, tail} /\ node[c].lock = u /\ node[c].key = L.key
      /\ node[c].zeroLevel = h /\ node[c].topLevel = h
      /\ node[p].key < L.key /\ On(node, Off, c, h)
  BY <1>0 DEF WalkOK, InsertOK
<1>3. /\ p \in DOMAIN node \ {tail} /\ h \in Int /\ zeroLevel <= h /\ h < MAX_LEVEL /\ L.key \in Keys
      /\ On(node, Off, p, h) /\ node[p].zeroLevel <= h
      /\ q \in DOMAIN node \ {tail} /\ node[q].lock = u
      /\ On(node, Off, q, h + 1) /\ node[q].zeroLevel <= h
      /\ node[q].key <= node[p].key
  BY <1>2 DEF Zone, Anchor, PredOK
<1>4. node[p].key \in Int /\ node[c].key \in Int /\ node[q].key \in Int /\ node[q].topLevel \in Int /\ KeysOK(node)
  BY <1>0, <1>2, <1>3, NodeTypes
<1>5. p # c /\ q # c /\ node[p].key < node[c].key
  BY <1>2, <1>3, <1>4
<1>6. /\ DOMAIN M = Fields /\ M.pc = (IF rises THEN "i_loop" ELSE "i_leave") /\ M.curh = h
      /\ M.cur = c /\ M.key = L.key /\ M.h = h /\ M.pred = p /\ M.predpred = q
  BY <1>0 DEF Fields
<1>7. NodeOK(node, zeroLevel, c) /\ NodeOK(node, zeroLevel, q)
  BY <1>0, <1>2, <1>3 DEF NodesOK
<1>7a. node[q].next[h] = c => q = p
  <2> SUFFICES ASSUME node[q].next[h] = c PROVE q = p
    OBVIOUS
  <2> HIDE DEF h, c, p, q, L
  <2>2. On(node, Off, q, h)
    <3>1. h < node[q].topLevel
      BY <1>3, <1>4 DEF On
    <3> QED
      BY <1>3, <3>1, OnLevels
  <2>3. Follows(node, Off, q, c, h)
    BY <1>3, <2>2, StepNext
  <2>4. node[p].key <= node[q].key \/ node[c].key <= node[p].key
    BY <1>3, <2>3 DEF Follows
  <2>5. node[p].key = node[q].key
    BY <1>3, <1>4, <1>5, <2>4
  <2> QED
    BY <1>3, <1>4, <2>5 DEF KeysOK
<1> DEFINE b == IF q = p THEN u ELSE Nobody
<1>8. node' = [node EXCEPT ![c] = [node[c] EXCEPT !.selfhits = node[c].selfhits + 1], ![q] = [node[q] EXCEPT !.lock = b]]
  <2>1. (IF rises \/ q = p THEN node[q].lock ELSE Nobody) = b
    BY <1>3, <1>7a
  <2>2. node' = [node EXCEPT ![c] = [node[c] EXCEPT !.selfhits = node[c].selfhits + 1],
                             ![q] = [node[q] EXCEPT !.lock = IF rises \/ q = p THEN node[q].lock ELSE Nobody]]
    BY <1>1, <1>2, <1>3, <1>5
  <2> QED
    BY <2>1, <2>2
<1> HIDE DEF M, b, rises, h, c, p, q, L
<1>9. /\ DOMAIN node' = DOMAIN node /\ \A n \in DOMAIN node \ {c, q} : node'[n] = node[n]
      /\ node'[c] = [node[c] EXCEPT !.selfhits = node[c].selfhits + 1] /\ node'[q] = [node[q] EXCEPT !.lock = b]
  BY <1>2, <1>3, <1>5, <1>8
<1>10. /\ DOMAIN node'[c] = NodeFields /\ node'[c].selfhits \in Int
       /\ \A f \in NodeFields \ {"selfhits"} : node'[c][f] = node[c][f]
  BY <1>7, <1>9 DEF NodeOK, NodeFields
<1>11. /\ DOMAIN node'[q] = NodeFields /\ node'[q].lock = b
       /\ \A f \in NodeFields \ {"lock"} : node'[q][f] = node[q][f]
  BY <1>7, <1>9 DEF NodeOK, NodeFields
<1>12. b \in {u, Nobody} /\ (q = p => b = u) /\ (q # p => b = Nobody)
  BY DEF b
<1>13. /\ node'[c].key = node[c].key /\ node'[c].zeroLevel = node[c].zeroLevel /\ node'[c].topLevel = node[c].topLevel
       /\ node'[c].next = node[c].next /\ node'[c].hits = node[c].hits /\ node'[c].lock = node[c].lock
       /\ node'[q].key = node[q].key /\ node'[q].zeroLevel = node[q].zeroLevel /\ node'[q].topLevel = node[q].topLevel
       /\ node'[q].next = node[q].next /\ node'[q].hits = node[q].hits /\ node'[q].selfhits = node[q].selfhits
  BY <1>10, <1>11 DEF NodeFields
<1>14. Touched(node, node', u)
  <2>1. ASSUME NEW n \in DOMAIN node \ {c, q}
        PROVE  /\ node'[n] = node[n] /\ DOMAIN node[n] = NodeFields /\ node[n].selfhits \in Int
               /\ node[n].hits \in [Levels -> Int]
    BY <1>0, <1>9 DEF NodesOK, NodeOK
  <2>2. node[q].selfhits \in Int /\ node[q].hits \in [Levels -> Int] /\ node[c].hits \in [Levels -> Int]
    BY <1>7 DEF NodeOK
  <2> QED
    <3>1. DOMAIN node' = DOMAIN node /\ node[q].lock = u
      BY <1>3, <1>9
    <3> QED
      BY <1>10, <1>11, <1>12, <1>13, <2>1, <2>2, <3>1 DEF Touched
<1>15. node'[p].lock = u /\ node'[c].lock = u
  <2>1. p # q => node'[p] = node[p]
    BY <1>3, <1>5, <1>9
  <2> QED
    BY <1>2, <1>11, <1>12, <1>13, <2>1
<1>16. Held(L) = {q, p, c}
  BY <1>0, HeldAt DEF q, p, c
<1>17. Place(M) = M.pc /\ M.pc \in {"i_loop", "i_leave"}
  BY <1>6 DEF Place
<1>18. Held(M) = {p, c}
  BY <1>6, <1>17, HeldAt
<1>19. FindOK(node', zeroLevel, M)
  BY <1>17 DEF FindOK, InUpdate, OnLevel
<1>21. ASSUME rises PROVE PromoteOK(node', Off, zeroLevel, u, M)
  <2>1. q = p /\ M.pc = "i_loop"
    BY <1>6, <1>7a, <1>21 DEF rises
  <2>2. On(node', Off, q, h) /\ On(node', Off, q, h + 1) /\ On(node', Off, c, h)
    BY <1>2, <1>3, <1>13, <2>1 DEF On
  <2>3. node'[q].lock = u /\ node'[q].zeroLevel <= h /\ node'[q].next[h] = c /\ node'[c].zeroLevel <= h
    BY <1>2, <1>3, <1>13, <1>15, <2>1
  <2>4. Promoting(node', Off, zeroLevel, u, M)
    BY <1>2, <1>3, <1>6, <1>9, <1>13, <1>15, <2>2, <2>3 DEF Promoting
  <2> QED
    BY <1>6, <2>1, <2>4 DEF PromoteOK
<1>22. ASSUME ~rises PROVE InsertOK(node', Off, zeroLevel, u, M)
  BY <1>2, <1>3, <1>5, <1>6, <1>9, <1>15, <1>22 DEF InsertOK
<1>23. WalkOK(node', Off, zeroLevel, u, M)
  <2>1. CASE rises
    BY <1>6, <1>17, <1>19, <1>21, <2>1, WalkAt
  <2>2. CASE ~rises
    BY <1>6, <1>17, <1>19, <1>22, <2>2, WalkAt
  <2> QED
    BY <2>1, <2>2
<1>24. \A n \in DOMAIN node : node'[n].lock = u => n \in Held(M)
  <2>1. \A n \in DOMAIN node : node[n].lock = u => n \in {q, p, c}
    BY <1>16 DEF Inv, LockInv, Nodes, L
  <2> QED
    <3>1. \A n \in DOMAIN node \ {c, q} : node'[n] = node[n]
      BY <1>9
    <3> QED
      BY <1>0, <1>11, <1>12, <1>18, <2>1, <3>1
<1>25. Moves(u, M)
  BY <1>0, <1>1, <1>6 DEF Moves
<1>26. l[u].pc \notin {"d_null", "d_top"} /\ M.pc \notin {"d_null", "d_top"}
  BY <1>0, <1>17 DEF L
<1> QED
  BY <1>1, <1>14, <1>23, <1>24, <1>25, <1>26, TouchInv

\* The new node is released.
LEMMA InsertLeaveInv ==
  ASSUME Inv, NEW u \in Threads, InsertLeave(u)
  PROVE  Inv'
<1> DEFINE L == l[u]
           c == L.cur
           M == [L EXCEPT !.pc = "u_leave"]
<1>0. /\ DOMAIN L = Fields /\ WalkOK(node, Off, zeroLevel, u, L) /\ L.pc = "i_leave" /\ Place(L) = "i_leave"
      /\ NodesOK(node, zeroLevel) /\ zeroLevel \in Int /\ u # Nobody
      /\ todo \in Seq(Keys) /\ plan \in [Workers -> Seq(SUBSET (Operations \X Keys))]
  BY Start DEF InsertLeave, At, Place
<1>1. /\ node' = [node EXCEPT ![c].lock = Nobody] /\ l' = [l EXCEPT ![u] = M] /\ zeroLevel' = zeroLevel
      /\ UNCHANGED <<todo, plan>>
  BY DEF InsertLeave, Do, client
<1>2. L.pred \in DOMAIN node /\ node[L.pred].lock = u /\ c \in DOMAIN node /\ node[c].lock = u /\ c # L.pred
  BY <1>0 DEF WalkOK, InsertOK
<1>3. Relocked(node, node', c, Nobody)
  <2>1. NodeOK(node, zeroLevel, c)
    BY <1>0, <1>2 DEF NodesOK
  <2> QED
    BY <1>1, <1>2, <2>1 DEF Relocked, NodeOK, NodeFields
<1>4. Alike(L, M) /\ M.pc = "u_leave" /\ Place(M) = "u_leave"
  BY <1>0, GotoAlike DEF Place
<1> HIDE DEF M, c, L
<1>5. Touched(node, node', u)
  BY <1>0, <1>2, <1>3, RelockedTouched
<1>6. Held(L) = {L.pred, c} /\ Held(M) = {L.pred}
  <2>1. Held(L) = {L.pred, L.cur} /\ Held(M) = {M.pred}
    BY <1>0, <1>4, HeldAt
  <2> QED
    BY <1>4, <2>1 DEF Alike, c
<1>7. FindOK(node', zeroLevel, M)
  BY <1>4 DEF FindOK, InUpdate, OnLevel
<1>8. LevelOK(node', Off, zeroLevel, u, M)
  BY <1>2, <1>3, <1>4 DEF LevelOK, Alike, Relocked
<1>9. WalkOK(node', Off, zeroLevel, u, M)
  BY <1>4, <1>7, <1>8, WalkAt
<1>10. \A n \in DOMAIN node : node'[n].lock = u => n \in Held(M)
  BY <1>0, <1>3, <1>6 DEF Inv, LockInv, Nodes, L, Relocked
<1>11. Moves(u, M)
  BY <1>0, <1>1, <1>4 DEF Moves, Alike
<1>12. l[u].pc \notin {"d_null", "d_top"} /\ M.pc \notin {"d_null", "d_top"}
  BY <1>0, <1>4 DEF L
<1> QED
  BY <1>1, <1>5, <1>9, <1>10, <1>11, <1>12, TouchInv

-----------------------------------------------------------------------------
(* The theorems *)

\* The list starts with the head and the tail on its two highest levels.
LEMMA InitInv ==
  ASSUME Init
  PROVE  Inv
<1>0. MAX_LEVEL \in Int /\ MAX_LEVEL > 1 /\ head # tail /\ head # NULL /\ tail # NULL
  BY SizeAssumption DEF head, tail, NULL
<1>1. ClientInv
  <2>1. DOMAIN l = Threads /\ \A t \in Threads : l[t] = Locals
    BY DEF Init
  <2>2. DOMAIN Locals = Fields
    BY DEF Locals, Fields
  <2> QED
    BY <2>1, <2>2, ScriptsAssumption DEF Init, ClientInv
<1>2. \A t \in Threads : l[t].pc = "idle"
  BY DEF Init, Locals
<1>3. Off = {}
  BY <1>2 DEF Off
<1> DEFINE R(n) == [createNode(MAX_LEVEL - 1, IF n = head THEN minKey ELSE maxKey, NoValue)
                      EXCEPT !.topLevel = MAX_LEVEL,
                             !.next = [i \in Levels |-> IF n = head /\ i >= MAX_LEVEL - 1 THEN tail ELSE NULL]]
<1>4. zeroLevel = MAX_LEVEL - 1 /\ DOMAIN node = {head, tail} /\ \A n \in {head, tail} : node[n] = R(n)
  BY DEF Init
<1>5. \A n \in {head, tail} :
        /\ DOMAIN node[n] = NodeFields /\ node[n].key = (IF n = head THEN minKey ELSE maxKey)
        /\ node[n].zeroLevel = MAX_LEVEL - 1 /\ node[n].topLevel = MAX_LEVEL /\ node[n].selfhits = 0
        /\ node[n].lock = Nobody /\ node[n].hits = [i \in Levels |-> 0]
        /\ node[n].next = [i \in Levels |-> IF n = head /\ i >= MAX_LEVEL - 1 THEN tail ELSE NULL]
  <2> TAKE n \in {head, tail}
  <2> DEFINE k == IF n = head THEN minKey ELSE maxKey
             N == [i \in Levels |-> IF n = head /\ i >= MAX_LEVEL - 1 THEN tail ELSE NULL]
             H == [i \in Levels |-> 0]
             C == createNode(MAX_LEVEL - 1, k, NoValue)
  <2>1. node[n] = [C EXCEPT !.topLevel = MAX_LEVEL, !.next = N]
    BY <1>4
  <2>2. /\ DOMAIN C = NodeFields /\ C.key = k /\ C.zeroLevel = MAX_LEVEL - 1 /\ C.selfhits = 0
        /\ C.lock = Nobody /\ C.hits = H
    BY DEF createNode, NodeFields
  <2> HIDE DEF k, N, H, C
  <2>3. /\ DOMAIN node[n] = NodeFields /\ node[n].key = k /\ node[n].zeroLevel = MAX_LEVEL - 1
        /\ node[n].topLevel = MAX_LEVEL /\ node[n].selfhits = 0 /\ node[n].lock = Nobody
        /\ node[n].hits = H /\ node[n].next = N
    BY <2>1, <2>2 DEF NodeFields
  <2> QED
    BY <2>3 DEF k, H, N
<1> HIDE DEF R
<1>6. NodesOK(node, zeroLevel)
  <2>1. ASSUME NEW n \in {head, tail} PROVE NodeOK(node, zeroLevel, n)
    <3>1. node[n].next \in [Levels -> DOMAIN node \cup {NULL}] /\ node[n].hits \in [Levels -> Int]
      BY <1>4, <1>5
    <3>2. node[n].key \in Int
      BY <1>5, KeysAssumption
    <3> QED
      BY <1>0, <1>4, <1>5, <3>1, <3>2 DEF NodeOK
  <2>2. \E k \in Nat : k > 1 /\ DOMAIN node = 0 .. k - 1
    <3>1. DOMAIN node = 0 .. 2 - 1
      BY <1>4 DEF head, tail
    <3> QED
      BY <3>1
  <2>3. node[head].key = minKey /\ node[tail].key = maxKey /\ minKey # maxKey
    BY <1>0, <1>5, KeysAssumption
  <2> QED
    BY <1>4, <2>1, <2>2, <2>3 DEF NodesOK
<1>7. Lists(node, Off, zeroLevel)
  <2> SUFFICES ASSUME NEW i \in zeroLevel .. MAX_LEVEL
               PROVE  Follows(node, Off, head, NextIn(node, head, i), i)
    BY <1>4 DEF Lists
  <2>1. i \in Levels /\ i >= MAX_LEVEL - 1 /\ ~(MAX_LEVEL - 1 > i) /\ i <= MAX_LEVEL
    BY <1>0, <1>4 DEF Levels
  <2>2. NextIn(node, head, i) = tail
    BY <1>5, <2>1 DEF NextIn
  <2>3. node[head].key < node[tail].key /\ node[head].key \in Int /\ node[tail].key \in Int
    BY <1>0, <1>5, KeysAssumption
  <2>4. On(node, Off, tail, i)
    BY <1>3, <1>5, <2>1 DEF On
  <2> QED
    BY <1>4, <2>2, <2>3, <2>4 DEF Follows
<1>8. ListInv
  BY <1>0, <1>4, <1>6, <1>7 DEF ListInv
<1>9. LockInv
  <2>1. Nobody \notin Threads
    BY SizeAssumption DEF Threads, Workers, Main, Nobody
  <2> QED
    BY <1>4, <1>5, <2>1 DEF LockInv, Nodes
<1>10. WalksInv
  <2> SUFFICES ASSUME NEW t \in Threads PROVE WalkOK(node, Off, zeroLevel, t, l[t])
    BY DEF WalksInv
  <2>1. Place(l[t]) = "idle"
    BY <1>2 DEF Place
  <2>2. FindOK(node, zeroLevel, l[t])
    BY <1>2, <2>1 DEF FindOK, InUpdate, OnLevel
  <2> QED
    BY <2>1, <2>2, WalkAt DEF Searching
<1> QED
  BY <1>1, <1>8, <1>9, <1>10 DEF Inv

\* The list has not run out of levels.
LevelsLeft == zeroLevel >= 0

\* Every step keeps the invariant.
LEMMA NextInv ==
  ASSUME Inv, [Next]_vars, LevelsLeft'
  PROVE  Inv'
<1>1. CASE PrefillNext \/ \E t \in Workers : Invoke(t)
  BY <1>1, ClientSteps
<1>2. ASSUME NEW t \in Threads, Step(t) PROVE Inv'
  <2>1. CASE FindLevel(t) \/ FindRead(t) \/ FindCompare(t)
    BY <2>1, FindInv
  <2>2. CASE \/ Found(t) \/ Miss(t) \/ Answer(t) \/ Revive(t) \/ Remove(t) \/ Swapped(t) \/ Reread(t)
             \/ UpdateReturn(t)
    BY <2>2, CallInv
  <2>3. CASE FixZeroLevel(t) \/ UpdateEnter(t) \/ UpdateLevel(t) \/ UpdateCompare(t) \/ UpdateLeave(t)
    BY <2>3, FixInv, UpdateEnterInv, UpdateLevelInv, UpdateCompareInv, UpdateLeaveInv
  <2>4. CASE WalkPeek(t) \/ WalkLock(t) \/ WalkTest(t) \/ WalkStep(t) \/ WalkExit(t)
    BY <2>4, WalkPeekInv, WalkLockInv, WalkTestInv, WalkStepInv, WalkExitInv
  <2>5. CASE PromoteLock(t) \/ PromoteLoop(t)
    BY <2>5, PromoteLockInv, PromoteLoopInv
  <2>6. CASE DemoteZero(t)
    BY <2>6, DemoteZeroInv DEF LevelsLeft
  <2>7. CASE DemoteLockPred(t) \/ DemoteLockCur(t) \/ DemoteLower(t)
    BY <2>7, DemoteLockPredInv, DemoteLockCurInv, DemoteLowerInv
  <2>8. CASE DemoteUnlink(t) \/ DemoteNull(t) \/ DemoteTop(t) \/ DemoteNext(t)
    BY <2>8, DemoteUnlinkInv, DemoteNullInv, DemoteTopInv, WalkStepInv
  <2>9. CASE InsertLink(t) \/ InsertCount(t) \/ InsertLoop(t) \/ InsertLeave(t)
    BY <2>9, InsertLinkInv, InsertCountInv, InsertLoopInv, InsertLeaveInv
  <2> QED
    BY <1>2, <2>1, <2>2, <2>3, <2>4, <2>5, <2>6, <2>7, <2>8, <2>9 DEF Step
<1>3. CASE Joined \/ UNCHANGED vars
  <2>1. UNCHANGED <<node, zeroLevel, l, todo, plan>>
    BY <1>3 DEF Joined, vars
  <2>2. Off' = Off
    BY <2>1 DEF Off
  <2> QED
    BY <2>1, <2>2 DEF Inv, ClientInv, ListInv, LockInv, WalksInv, Nodes
<1> QED
  BY <1>1, <1>2, <1>3 DEF Next

\* What a walk relies on covers the locks that its place says it holds.
LEMMA HeldLocked ==
  ASSUME NEW nd, NEW off, NEW z, NEW t, NEW L, WalkOK(nd, off, z, t, L), NEW n \in Held(L)
  PROVE  n \in DOMAIN nd /\ nd[n].lock = t
<1>1. Place(L) # L.pc => Place(L) \in {"f_read", "f_cmp", "u_cmp", "w_peek"}
  BY DEF Place, WalkOK, FindOK
<1>2. CASE Place(L) \in {"u_level", "u_cmp", "u_leave"}
  <2>1. n = L.pred
    BY <1>2, HeldAt
  <2>2. CASE Place(L) = "u_cmp"
    BY <2>1, <2>2 DEF WalkOK, LevelOK, Zone, Anchor
  <2>3. CASE Place(L) # "u_cmp"
    BY <1>1, <1>2, <2>1, <2>3 DEF WalkOK, LevelOK
  <2> QED
    BY <2>2, <2>3
<1>3. CASE Place(L) \in {"w_peek", "w_lock", "p_lock", "d_pred", "d_next"}
  <2>1. n = L.predpred
    BY <1>3, HeldAt
  <2>2. Zone(nd, off, z, t, L)
    BY <1>1, <1>3 DEF WalkOK, StepsOK, PromoteOK, DemoteOK, Walking, Demoting
  <2> QED
    BY <2>1, <2>2 DEF Zone, Anchor
<1>4. CASE Place(L) \in {"w_test", "w_step"}
  <2>1. n = L.predpred \/ (L.acquired /\ n = L.cur)
    BY <1>4, HeldAt
  <2>2. Walking(nd, off, z, t, L) /\ Reached(nd, t, L)
    BY <1>1, <1>4 DEF WalkOK, StepsOK
  <2> QED
    BY <2>1, <2>2 DEF Walking, Zone, Anchor, CurOK, Reached
<1>5. CASE Place(L) \in {"d_cur", "w_exit", "i_link"}
  <2>1. n = L.predpred \/ n = L.pred
    BY <1>5, HeldAt
  <2>2. Zone(nd, off, z, t, L) /\ PredOK(nd, off, L) /\ nd[L.pred].lock = t
    BY <1>1, <1>5 DEF WalkOK, StepsOK, DemoteOK, InsertOK, Demoting, Walking
  <2> QED
    BY <2>1, <2>2 DEF Zone, Anchor, PredOK
<1>6. CASE Place(L) \in {"d_zero", "d_low", "d_unlink", "d_null", "i_count"}
  <2>1. n = L.predpred \/ n = L.pred \/ n = L.cur
    BY <1>6, HeldAt
  <2>2. Zone(nd, off, z, t, L) /\ PredOK(nd, off, L) /\ nd[L.pred].lock = t
    BY <1>1, <1>6 DEF WalkOK, DemoteOK, InsertOK, Demotable, Demoted, Walking
  <2>3. L.cur \in DOMAIN nd /\ nd[L.cur].lock = t
    BY <1>1, <1>6 DEF WalkOK, DemoteOK, InsertOK, Demotable, Demoted, Walking, CurOK
  <2> QED
    BY <2>1, <2>2, <2>3 DEF Zone, Anchor, PredOK
<1>7. CASE Place(L) = "p_loop"
  <2>1. n = L.predpred \/ n = L.cur
    BY <1>7, HeldAt
  <2> QED
    BY <1>1, <1>7, <2>1 DEF WalkOK, PromoteOK, Promoting
<1>8. CASE Place(L) = "d_top"
  <2>1. n = L.predpred \/ n = L.cur
    BY <1>8, HeldAt
  <2> QED
    BY <1>1, <1>8, <2>1 DEF WalkOK, DemoteOK, Demoted, Zone, Anchor
<1>9. CASE Place(L) \in {"i_loop", "i_leave"}
  <2>1. n = L.pred \/ n = L.cur
    BY <1>9, HeldAt
  <2> QED
    BY <1>1, <1>9, <2>1 DEF WalkOK, PromoteOK, Promoting, InsertOK
<1> QED
  BY <1>2, <1>3, <1>4, <1>5, <1>6, <1>7, <1>8, <1>9 DEF Held, Place

\* What the invariant says of a state.
LEMMA InvImplies ==
  ASSUME Inv
  PROVE  HoldsItsLocks /\ NoNullDereference /\ BottomLevelComplete
<1>1. HoldsItsLocks
  <2> SUFFICES ASSUME NEW t \in Threads
               PROVE  {n \in Nodes : node[n].lock = t} = Held(l[t])
    BY DEF HoldsItsLocks
  <2>1. \A n \in Nodes : node[n].lock = t => n \in Held(l[t])
    BY DEF Inv, LockInv
  <2>2. WalkOK(node, Off, zeroLevel, t, l[t])
    BY Start
  <2>3. \A n \in Held(l[t]) : n \in DOMAIN node /\ node[n].lock = t
    BY <2>2, HeldLocked
  <2> QED
    BY <2>1, <2>3 DEF Nodes
<1>2. NoNullDereference
  <2> SUFFICES ASSUME NEW t \in Threads
               PROVE  /\ l[t].pc # "crash"
                      /\ l[t].pc \in {"w_peek", "w_lock", "w_test", "d_cur"} => node[l[t].cur].next[l[t].h] # NULL
                      /\ l[t].pc = "i_loop" => l[t].predpred = l[t].pred
    BY DEF NoNullDereference
  <2>1. WalkOK(node, Off, zeroLevel, t, l[t])
    BY Start
  <2>2. l[t].pc # "crash" /\ (l[t].pc = "i_loop" => l[t].predpred = l[t].pred)
    BY <2>1 DEF WalkOK, PromoteOK
  <2>3. ASSUME l[t].pc \in {"w_peek", "w_lock", "w_test", "d_cur"} PROVE node[l[t].cur].next[l[t].h] # NULL
    <3> DEFINE L == l[t]
    <3>1. Zone(node, Off, zeroLevel, t, L) /\ CurOK(node, Off, L) /\ node[L.cur].zeroLevel <= L.h
      BY <2>1, <2>3, Zenon DEF WalkOK, StepsOK, DemoteOK, Demoting, Walking, Place
    <3>2. /\ L.h \in Int /\ zeroLevel <= L.h /\ L.h < MAX_LEVEL /\ L.key \in Keys
          /\ L.cur \in DOMAIN node \ {tail} /\ On(node, Off, L.cur, L.h)
      BY <3>1 DEF Zone, Anchor, CurOK
    <3> HIDE DEF L
    <3>3. node[L.cur].next[L.h] # NULL
      BY <3>1, <3>2, StepNext
    <3> QED
      BY <3>3, SMTT(30) DEF L
  <2> QED
    BY <2>2, <2>3
<1>3. BottomLevelComplete
  <2> SUFFICES ASSUME NEW n \in DOMAIN node \ {tail}
               PROVE  IsNext(n, After(n, zeroLevel), DOMAIN node)
    BY DEF BottomLevelComplete, Nodes
  <2>1. After(n, zeroLevel) = NextIn(node, n, zeroLevel)
    BY DEF After, NextIn
  <2>2. \A x \in DOMAIN node : On(node, Off, x, zeroLevel)
    BY OnLevels
  <2>3. zeroLevel \in zeroLevel .. MAX_LEVEL /\ Lists(node, Off, zeroLevel)
    BY SizeAssumption DEF Inv, ListInv
  <2>4. Follows(node, Off, n, NextIn(node, n, zeroLevel), zeroLevel)
    BY <2>2, <2>3 DEF Lists
  <2> QED
    BY <2>1, <2>2, <2>4 DEF Follows, IsNext
<1> QED
  BY <1>1, <1>2, <1>3

-----------------------------------------------------------------------------
(* The height of the list.  A level is opened by a walk that holds pred and *)
(* cur on the bottom level.  Hits there are never negative, and cur has a  *)
(* hit of its own, so one access is no more than their share.              *)

\* There have been fewer accesses than it takes to open a level below the lowest.
AccessesLeft == accessCounter < 2^(MAX_LEVEL - 1)

\* Hits on the bottom level are never negative.
HitsInv ==
  \A n \in Nodes : /\ node[n].selfhits >= 0
                   /\ node[n].zeroLevel = zeroLevel => node[n].hits[zeroLevel] >= 0

\* A node is inserted with an access to its key, which is counted with the lock of the node.
SelfInv ==
  \A n \in Nodes \ {head, tail} :
    node[n].selfhits >= 1 \/ \E t \in Threads : l[t].pc = "i_count" /\ l[t].cur = n

\* A walk that is about to open a level has the accesses for it.
AccessInv ==
  \A t \in Threads :
    /\ l[t].curAccess \in Int /\ l[t].curAccess <= accessCounter
    /\ l[t].pc = "d_zero" /\ l[t].h = zeroLevel => 2^(MAX_LEVEL - 1 - l[t].h) <= l[t].curAccess

HeightInv == accessCounter \in Nat /\ HeightBound /\ HitsInv /\ SelfInv /\ AccessInv

\* R is the node n of nd with as many hits or more, on the bottom level z and of its own.
Hit(nd, R, n, z) ==
  /\ R.selfhits \in Int /\ R.selfhits >= nd[n].selfhits /\ R.hits[z] \in Int
  /\ R.zeroLevel = z => R.hits[z] >= 0 \/ (nd[n].zeroLevel = z /\ R.hits[z] >= nd[n].hits[z])

Counted(nd, nd2, z) == DOMAIN nd2 = DOMAIN nd /\ \A n \in DOMAIN nd : Hit(nd, nd2[n], n, z)

\* The counters are numbers.
Countable(nd, z) == \A n \in DOMAIN nd : nd[n].selfhits \in Int /\ nd[n].hits[z] \in Int

\* The counters of the nodes are numbers.
LEMMA CountableNodes ==
  ASSUME Inv
  PROVE  Countable(node, zeroLevel)
<1>1. zeroLevel \in Levels
  BY SizeAssumption DEF Inv, ListInv, Levels
<1>2. \A n \in DOMAIN node : node[n].selfhits \in Int /\ node[n].hits \in [Levels -> Int]
  BY DEF Inv, ListInv, NodesOK, NodeOK
<1> QED
  BY <1>1, <1>2 DEF Countable

\* Steps that count nothing, ...
LEMMA SameCounted ==
  ASSUME NEW nd, NEW nd2, NEW z, Countable(nd, z), DOMAIN nd2 = DOMAIN nd,
         \A n \in DOMAIN nd : /\ nd2[n].selfhits = nd[n].selfhits /\ nd2[n].hits = nd[n].hits
                              /\ nd2[n].zeroLevel = nd[n].zeroLevel
  PROVE  Counted(nd, nd2, z)
  BY DEF Countable, Counted, Hit

\* ... or something in one node, ...
LEMMA OneCounted ==
  ASSUME NEW nd, NEW nd2, NEW z, Countable(nd, z), NEW n, NEW R, Replaced(nd, nd2, n, R), Hit(nd, R, n, z)
  PROVE  Counted(nd, nd2, z) /\ Countable(nd2, z)
  BY DEF Countable, Counted, Hit, Replaced

\* ... or in two.
LEMMA CountedTwice ==
  ASSUME NEW nd, NEW nd1, NEW nd2, NEW z, Countable(nd, z), Counted(nd, nd1, z), Counted(nd1, nd2, z)
  PROVE  Counted(nd, nd2, z)
<1> SUFFICES ASSUME NEW n \in DOMAIN nd PROVE Hit(nd, nd2[n], n, z)
  BY DEF Counted
<1>1. Hit(nd, nd1[n], n, z) /\ Hit(nd1, nd2[n], n, z)
  BY DEF Counted
<1>2. nd[n].selfhits \in Int /\ nd[n].hits[z] \in Int
  BY DEF Countable
<1> QED
  BY <1>1, <1>2 DEF Hit

\* The step of a thread that counts no access and is not about to open a level without the
\* accesses for it.
Mild(u, M) ==
  /\ l' = [l EXCEPT ![u] = M] /\ zeroLevel' = zeroLevel /\ accessCounter' = accessCounter
  /\ M.curAccess \in {l[u].curAccess, 0} /\ l[u].pc # "i_count"
  /\ M.pc = "d_zero" /\ M.h = zeroLevel => 2^(MAX_LEVEL - 1 - M.h) <= M.curAccess

\* A step that takes no hits away from the bottom level.
LEMMA CountedHits ==
  ASSUME Inv, HitsInv, zeroLevel' = zeroLevel, Counted(node, node', zeroLevel)
  PROVE  HitsInv'
<1> SUFFICES ASSUME NEW n \in DOMAIN node
             PROVE  /\ node'[n].selfhits >= 0
                    /\ node'[n].zeroLevel = zeroLevel => node'[n].hits[zeroLevel] >= 0
  BY DEF HitsInv, Nodes, Counted
<1>1. Hit(node, node'[n], n, zeroLevel)
  BY DEF Counted
<1>2. node[n].selfhits \in Int /\ node[n].hits[zeroLevel] \in Int
  BY CountableNodes DEF Countable
<1>3. node[n].selfhits >= 0 /\ (node[n].zeroLevel = zeroLevel => node[n].hits[zeroLevel] >= 0)
  BY DEF HitsInv, Nodes
<1> QED
  BY <1>1, <1>2, <1>3 DEF Hit

\* Such a step keeps the height below its bound.
LEMMA MildStep ==
  ASSUME Inv, HeightInv, NEW u \in Threads, NEW M, Mild(u, M), Counted(node, node', zeroLevel)
  PROVE  HeightInv'
<1>1. /\ DOMAIN l = Threads /\ DOMAIN l' = Threads /\ l'[u] = M /\ \A t \in Threads \ {u} : l'[t] = l[t]
      /\ zeroLevel' = zeroLevel /\ accessCounter' = accessCounter /\ accessCounter \in Nat
  BY Start DEF Mild, HeightInv
<1>2. HitsInv'
  BY <1>1, CountedHits DEF HeightInv
<1>3. SelfInv'
  <2> SUFFICES ASSUME NEW n \in DOMAIN node \ {head, tail}
               PROVE  node'[n].selfhits >= 1 \/ \E t \in Threads : l'[t].pc = "i_count" /\ l'[t].cur = n
    BY DEF SelfInv, Nodes, Counted
  <2>1. CASE node[n].selfhits >= 1
    <3>1. Hit(node, node'[n], n, zeroLevel) /\ node[n].selfhits \in Int
      BY CountableNodes DEF Counted, Countable
    <3> QED
      BY <2>1, <3>1 DEF Hit
  <2>2. ASSUME NEW t \in Threads, l[t].pc = "i_count", l[t].cur = n
        PROVE  \E s \in Threads : l'[s].pc = "i_count" /\ l'[s].cur = n
    <3>1. t # u
      BY <2>2 DEF Mild
    <3> QED
      BY <1>1, <2>2, <3>1
  <2> QED
    BY <2>1, <2>2 DEF HeightInv, SelfInv, Nodes
<1>4. AccessInv'
  <2> SUFFICES ASSUME NEW t \in Threads
               PROVE  /\ l'[t].curAccess \in Int /\ l'[t].curAccess <= accessCounter
                      /\ l'[t].pc = "d_zero" /\ l'[t].h = zeroLevel => 2^(MAX_LEVEL - 1 - l'[t].h) <= l'[t].curAccess
    BY <1>1 DEF AccessInv
  <2>1. /\ l[t].curAccess \in Int /\ l[t].curAccess <= accessCounter
        /\ l[t].pc = "d_zero" /\ l[t].h = zeroLevel => 2^(MAX_LEVEL - 1 - l[t].h) <= l[t].curAccess
    BY DEF HeightInv, AccessInv
  <2>2. CASE t = u
    BY <1>1, <2>1, <2>2 DEF Mild
  <2>3. CASE t # u
    BY <1>1, <2>1, <2>3
  <2> QED
    BY <2>2, <2>3
<1>5. HeightBound'
  BY <1>1 DEF HeightInv, HeightBound
<1> QED
  BY <1>1, <1>2, <1>3, <1>4, <1>5 DEF HeightInv

\* The step of a thread that changes no counter.
LEMMA LevelStep ==
  ASSUME Inv, HeightInv, NEW u \in Threads, NEW M, Mild(u, M), DOMAIN node' = DOMAIN node,
         \A n \in DOMAIN node : /\ node'[n].selfhits = node[n].selfhits /\ node'[n].hits = node[n].hits
                                /\ node'[n].zeroLevel = node[n].zeroLevel
  PROVE  HeightInv'
  BY CountableNodes, SameCounted, MildStep

\* A thread that changes nothing but its own variables, ...
LEMMA LocalHeight ==
  ASSUME Inv, HeightInv, NEW u \in Threads, NEW M, Local(u, M), M.curAccess = l[u].curAccess,
         M.pc # "d_zero", l[u].pc # "i_count"
  PROVE  HeightInv'
<1>1. Mild(u, M) /\ node' = node
  BY DEF Mild, Local, Do
<1> QED
  BY <1>1, LevelStep

\* ... or only goes to another place, ...
LEMMA GotoHeight ==
  ASSUME Inv, HeightInv, NEW u \in Threads, NEW p, Goto(u, p), p # "d_zero", l[u].pc # "i_count"
  PROVE  HeightInv'
<1> DEFINE M == [l[u] EXCEPT !.pc = p]
<1>1. Local(u, M)
  BY DEF Goto
<1>2. M.curAccess = l[u].curAccess /\ M.pc = p
  BY Start DEF Fields
<1> HIDE DEF M
<1> QED
  BY <1>1, <1>2, LocalHeight

\* Via, Loop and Follow take the number of the access along.
LEMMA ViaAccess ==
  ASSUME NEW L, DOMAIN L = Fields, NEW n, NEW to
  PROVE  Via(L, n, to).curAccess = L.curAccess /\ Via(L, n, to).pc \in {"fix", to}
  BY DEF Via, Fields

\* The head of the while loop of a level.
LEMMA LoopAccess ==
  ASSUME Inv, NEW L, DOMAIN L = Fields, L.key \in Keys, NEW c \in DOMAIN node \cup {NULL}
  PROVE  Loop(L, c).curAccess = L.curAccess /\ Loop(L, c).pc \in {"crash", "w_exit", "w_peek", "fix"}
<1> DEFINE M == [L EXCEPT !.cur = c, !.acquired = FALSE, !.curh = 0]
<1>1. DOMAIN M = Fields /\ M.curAccess = L.curAccess
  BY DEF Fields
<1>2. L.key \in Int /\ (c # NULL => node[c].key \in Int)
  BY KeysAssumption, NodeTypes DEF Inv, ListInv
<1>3. CASE c = NULL
  <2>1. Loop(L, c) = [M EXCEPT !.pc = "crash"]
    BY <1>3 DEF Loop
  <2> HIDE DEF M
  <2> QED
    BY <1>1, <2>1 DEF Fields
<1>4. CASE c # NULL /\ node[c].key > L.key
  <2>1. Loop(L, c) = [M EXCEPT !.pc = "w_exit"]
    BY <1>2, <1>4 DEF Loop
  <2> HIDE DEF M
  <2> QED
    BY <1>1, <2>1 DEF Fields
<1>5. CASE c # NULL /\ node[c].key <= L.key
  <2>1. Loop(L, c) = Via(M, c, "w_peek")
    BY <1>2, <1>5 DEF Loop
  <2> HIDE DEF M
  <2> QED
    BY <1>1, <2>1, ViaAccess
<1> QED
  BY <1>2, <1>3, <1>4, <1>5

\* A search that goes on.
LEMMA FollowAccess ==
  ASSUME NEW L, DOMAIN L = Fields, NEW p
  PROVE  Follow(L, p).curAccess = L.curAccess /\ Follow(L, p).pc \in {"f_level", "f_cmp", "fix"}
<1> DEFINE s == node[p].next[L.h]
           M == [L EXCEPT !.pred = p, !.succ = s]
<1>1. DOMAIN M = Fields /\ M.curAccess = L.curAccess
  BY DEF Fields
<1>2. Follow(L, p) = IF s = NULL THEN [M EXCEPT !.pc = "f_level", !.h = L.h - 1] ELSE Via(M, s, "f_cmp")
  BY DEF Follow
<1> HIDE DEF M, s
<1>3. CASE s = NULL
  BY <1>1, <1>2, <1>3 DEF Fields
<1>4. CASE s # NULL
  BY <1>1, <1>2, <1>4, ViaAccess
<1> QED
  BY <1>3, <1>4

\* find.
LEMMA FindHeight ==
  ASSUME Inv, HeightInv, NEW u \in Threads, FindLevel(u) \/ FindRead(u) \/ FindCompare(u)
  PROVE  HeightInv'
<1>0. DOMAIN l[u] = Fields /\ FindOK(node, zeroLevel, l[u]) /\ NodesOK(node, zeroLevel) /\ zeroLevel \in Int
  BY Start DEF WalkOK
<1>1. CASE FindLevel(u)
  <2> DEFINE M == Via(l[u], l[u].pred, "f_read")
  <2>1. l[u].pc = "f_level" /\ (Local(u, M) \/ Goto(u, "miss"))
    BY <1>1 DEF FindLevel, At
  <2>2. M.curAccess = l[u].curAccess /\ M.pc \in {"fix", "f_read"}
    BY <1>0, ViaAccess
  <2> HIDE DEF M
  <2> QED
    BY <2>1, <2>2, LocalHeight, GotoHeight
<1>2. CASE FindRead(u)
  <2> DEFINE M == Follow(l[u], l[u].pred)
  <2>1. l[u].pc = "f_read" /\ Local(u, M)
    BY <1>2 DEF FindRead, At
  <2>2. M.curAccess = l[u].curAccess /\ M.pc \in {"f_level", "f_cmp", "fix"}
    BY <1>0, FollowAccess
  <2> HIDE DEF M
  <2> QED
    BY <2>1, <2>2, LocalHeight
<1>3. CASE FindCompare(u)
  <2> DEFINE L == l[u]
             k == node[L.succ].key
             M == CASE L.key > k -> Follow(L, L.succ)
                    [] L.key = k -> [L EXCEPT !.pc = "found"]
                    [] L.key < k -> [L EXCEPT !.pc = "f_level", !.h = L.h - 1]
  <2>1. L.pc = "f_cmp" /\ Local(u, M)
    BY <1>3 DEF FindCompare, At
  <2>2. L.key \in Int /\ k \in Int
    BY <1>0, <2>1, KeysAssumption, NodeTypes DEF FindOK, Place
  <2> HIDE DEF k
  <2>3. L.key > k => M = Follow(L, L.succ)
    BY <2>2
  <2>4. L.key = k => M = [L EXCEPT !.pc = "found"]
    BY <2>2
  <2>5. L.key < k => M = [L EXCEPT !.pc = "f_level", !.h = L.h - 1]
    BY <2>2
  <2> HIDE DEF M
  <2>6. M.curAccess = l[u].curAccess /\ M.pc # "d_zero"
    <3>1. CASE L.key > k
      BY <1>0, <2>3, <3>1, FollowAccess
    <3>2. CASE L.key = k
      BY <1>0, <2>4, <3>2 DEF Fields
    <3>3. CASE L.key < k
      BY <1>0, <2>5, <3>3 DEF Fields
    <3> QED
      BY <2>2, <3>1, <3>2, <3>3
  <2> QED
    BY <2>1, <2>6, LocalHeight
<1> QED
  BY <1>1, <1>2, <1>3

\* The calls around a search.
LEMMA CallHeight ==
  ASSUME Inv, HeightInv, NEW u \in Threads,
         \/ Found(u) \/ Miss(u) \/ Answer(u) \/ Revive(u) \/ Remove(u) \/ Swapped(u) \/ Reread(u)
         \/ UpdateReturn(u)
  PROVE  HeightInv'
<1>0. DOMAIN l = Threads /\ DOMAIN l[u] = Fields /\ Locals.curAccess = 0 /\ Locals.pc = "idle"
  BY Start DEF Locals
<1>1. ASSUME NEW r, Return(u, r), l[u].pc # "i_count" PROVE HeightInv'
  <2>1. Mild(u, Locals) /\ node' = node
    BY <1>0, <1>1 DEF Mild, Return
  <2> QED
    BY <2>1, LevelStep
<1>2. ASSUME NEW v, NEW r, Store(u, v, r), l[u].pc # "i_count" PROVE HeightInv'
  <2> DEFINE M == [l[u] EXCEPT !.pc = "swapped"]
  <2>1. l' = [l EXCEPT ![u] = M] /\ node' = [node EXCEPT ![l[u].succ].value = v]
        /\ zeroLevel' = zeroLevel /\ accessCounter' = accessCounter
    BY <1>0, <1>2 DEF Store
  <2>2. M.curAccess = l[u].curAccess /\ M.pc = "swapped"
    BY <1>0 DEF Fields
  <2>3. Mild(u, M)
    BY <1>2, <2>1, <2>2 DEF Mild
  <2> QED
    BY <2>1, <2>3, LevelStep
<1>3. ASSUME NEW p, Goto(u, p), p # "d_zero", l[u].pc # "i_count" PROVE HeightInv'
  BY <1>3, GotoHeight
<1>4. CASE Found(u)
  <2> DEFINE p == IF update_counter[u] + 1 = UPDATE_NUM THEN "u_enter" ELSE "after"
             M == [l[u] EXCEPT !.v = node[l[u].succ].value, !.pc = p]
  <2>1. l' = [l EXCEPT ![u] = M] /\ node' = node /\ l[u].pc = "found"
        /\ zeroLevel' = zeroLevel /\ accessCounter' = accessCounter
    BY <1>0, <1>4 DEF Found, list, At
  <2>2. p # "d_zero"
    OBVIOUS
  <2> HIDE DEF p
  <2>3. M.curAccess = l[u].curAccess /\ M.pc # "d_zero"
    BY <1>0, <2>2 DEF Fields
  <2>4. Mild(u, M)
    BY <2>1, <2>3 DEF Mild
  <2> QED
    BY <2>1, <2>4, LevelStep
<1>5. CASE Miss(u)
  <2>1. l[u].pc = "miss"
    BY <1>5 DEF Miss, At
  <2>2. CASE l[u].op = "insertIfAbsent"
    <3> DEFINE M == [l[u] EXCEPT !.pc = "u_enter", !.inserting = TRUE]
    <3>1. Local(u, M)
      BY <1>5, <2>2 DEF Miss
    <3>2. M.curAccess = l[u].curAccess /\ M.pc = "u_enter"
      BY <1>0 DEF Fields
    <3> QED
      BY <2>1, <3>1, <3>2, LocalHeight
  <2>3. CASE l[u].op # "insertIfAbsent"
    BY <1>1, <1>5, <2>1, <2>3 DEF Miss
  <2> QED
    BY <2>2, <2>3
<1>6. CASE Answer(u) \/ Swapped(u)
  BY <1>1, <1>6 DEF Answer, Swapped, At
<1>7. CASE Revive(u)
  BY <1>1, <1>2, <1>3, <1>7 DEF Revive, At
<1>8. CASE Remove(u)
  BY <1>1, <1>2, <1>3, <1>8 DEF Remove, At
<1>9. CASE Reread(u)
  <2> DEFINE M == [l[u] EXCEPT !.v = node[l[u].succ].value, !.pc = "after"]
  <2>1. Local(u, M) /\ l[u].pc = "reread"
    BY <1>9 DEF Reread, At
  <2>2. M.curAccess = l[u].curAccess /\ M.pc = "after"
    BY <1>0 DEF Fields
  <2> QED
    BY <2>1, <2>2, LocalHeight
<1>10. CASE UpdateReturn(u)
  <2> DEFINE M == [Locals EXCEPT !.pc = "after", !.op = l[u].op, !.key = l[u].key,
                                 !.v = l[u].v, !.succ = l[u].succ]
  <2>1. l[u].pc = "u_return"
    BY <1>10 DEF UpdateReturn, At
  <2>2. CASE l[u].inserting
    BY <1>1, <1>10, <2>1, <2>2 DEF UpdateReturn
  <2>3. CASE ~l[u].inserting
    <3>1. l' = [l EXCEPT ![u] = M] /\ node' = node /\ zeroLevel' = zeroLevel /\ accessCounter' = accessCounter
      BY <1>10, <2>3 DEF UpdateReturn, list
    <3>2. M.curAccess = 0 /\ M.pc = "after"
      BY DEF Locals
    <3>3. Mild(u, M)
      BY <2>1, <3>1, <3>2 DEF Mild
    <3> QED
      BY <3>1, <3>3, LevelStep
  <2> QED
    BY <2>2, <2>3
<1> QED
  BY <1>4, <1>5, <1>6, <1>7, <1>8, <1>9, <1>10

\* The client makes a call.
LEMMA EnterHeight ==
  ASSUME Inv, HeightInv, NEW u \in Threads, NEW op, NEW k, Enter(u, op, k)
  PROVE  HeightInv'
<1> DEFINE M == [Locals EXCEPT !.pc = "f_level", !.op = op, !.key = k, !.h = MAX_LEVEL - 1, !.pred = head]
<1>1. /\ l' = [l EXCEPT ![u] = M] /\ node' = node /\ zeroLevel' = zeroLevel /\ accessCounter' = accessCounter
      /\ l[u].pc = "idle"
  BY DEF Enter, list, At
<1>2. M.curAccess = 0 /\ M.pc = "f_level"
  BY DEF Locals
<1>3. Mild(u, M)
  BY <1>1, <1>2 DEF Mild
<1> QED
  BY <1>1, <1>3, LevelStep

\* ... or counts hits, keeps the height below its bound.
LEMMA DoHeight ==
  ASSUME Inv, HeightInv, NEW u \in Threads, NEW nodes, NEW M, Do(u, nodes, M), Counted(node, nodes, zeroLevel),
         M.curAccess = l[u].curAccess, M.pc # "d_zero", l[u].pc # "i_count"
  PROVE  HeightInv'
<1>1. Mild(u, M) /\ node' = nodes
  BY DEF Mild, Do
<1> QED
  BY <1>1, MildStep

\* The places of the walk and what it holds there.
LEMMA WalkPlaces ==
  ASSUME Inv, NEW u \in Threads, l[u].pc \in OnLevel \cup {"u_cmp", "i_link", "i_count", "i_loop"}
  PROVE  /\ l[u].h \in Int /\ zeroLevel <= l[u].h /\ l[u].h < MAX_LEVEL /\ l[u].key \in Keys
         /\ l[u].predpred \in DOMAIN node /\ l[u].h \in Levels
         /\ l[u].pc # "p_loop" => l[u].pred \in DOMAIN node
         /\ l[u].pc \notin {"w_exit", "d_next", "u_cmp", "i_link"} => l[u].cur \in DOMAIN node \ {head, tail}
<1> DEFINE L == l[u]
       Zoned == Zone(node, Off, zeroLevel, u, L) /\ PredOK(node, Off, L)
       Inner == L.cur \in DOMAIN node \ {head, tail}
<1>0. /\ WalkOK(node, Off, zeroLevel, u, L) /\ zeroLevel \in Int /\ 0 <= zeroLevel /\ MAX_LEVEL \in Int
  BY Start
<1>1. Place(L) = L.pc
  BY SMTT(30) DEF Place, OnLevel
<1>2. Zoned => /\ L.h \in Int /\ zeroLevel <= L.h /\ L.h < MAX_LEVEL /\ L.key \in Keys
               /\ L.predpred \in DOMAIN node /\ L.pred \in DOMAIN node
  BY Zenon DEF Zone, Anchor, PredOK
<1>3. Walking(node, Off, zeroLevel, u, L) => Zoned /\ Inner
  BY Zenon DEF Walking, CurOK
<1>4. /\ Demoting(node, Off, zeroLevel, u, L) => Zoned /\ Inner
      /\ Demotable(node, Off, zeroLevel, u, L) => Zoned /\ Inner
      /\ Demoted(node, Off, zeroLevel, u, L) => Zoned /\ Inner
  BY <1>3, Zenon DEF Demoting, Demotable, Demoted
<1>5. /\ LevelOK(node, Off, zeroLevel, u, L) /\ StepsOK(node, Off, zeroLevel, u, L)
      /\ PromoteOK(node, Off, zeroLevel, u, L) /\ DemoteOK(node, Off, zeroLevel, u, L)
      /\ InsertOK(node, Off, zeroLevel, u, L)
  BY <1>0, Zenon DEF WalkOK
<1> HIDE DEF L
<1>6. /\ L.pc = "u_cmp" => Zoned
      /\ L.pc \in {"w_peek", "w_lock"} => Zoned /\ Inner
      /\ L.pc \in {"w_test", "w_step", "p_lock"} => Zoned /\ Inner
      /\ L.pc = "w_exit" => Zoned
  BY <1>1, <1>3, <1>5, Zenon DEF LevelOK, StepsOK, PromoteOK, CurOK
<1>7. /\ L.pc \in {"p_loop", "i_loop"} =>
           /\ L.h \in Int /\ zeroLevel <= L.h /\ L.h < MAX_LEVEL /\ L.key \in Keys
           /\ L.predpred \in DOMAIN node /\ Inner
      /\ L.pc = "i_loop" => L.pred = L.predpred
  BY <1>5, Zenon DEF PromoteOK, Promoting
<1>8. /\ L.pc \in {"d_pred", "d_cur", "d_zero", "d_low", "d_unlink", "d_null", "d_top"} => Zoned /\ Inner
      /\ L.pc = "d_next" => Zoned
  BY <1>4, <1>5, ZenonT(40) DEF DemoteOK
<1>9. L.pc = "i_link" => Zoned
  BY <1>5, Zenon DEF InsertOK
<1>10. L.pc = "i_count" => Zoned /\ Inner
  BY <1>5, Zenon DEF InsertOK
<1> HIDE DEF Zoned, Inner
<1>11. /\ L.h \in Int /\ zeroLevel <= L.h /\ L.h < MAX_LEVEL /\ L.key \in Keys
       /\ L.predpred \in DOMAIN node /\ (L.pc # "p_loop" => L.pred \in DOMAIN node)
  BY <1>2, <1>6, <1>7, <1>8, <1>9, <1>10, SMTT(30) DEF OnLevel, L
<1>12. L.pc \notin {"w_exit", "d_next", "u_cmp", "i_link"} => Inner
  BY <1>6, <1>7, <1>8, <1>10, SMTT(30) DEF OnLevel, L
<1> QED
  BY <1>0, <1>11, <1>12 DEF Levels, L, Inner

\* A node that is lowered has no hits on its new bottom level.
LEMMA LoweredHit ==
  ASSUME Inv, NEW n \in DOMAIN node, NEW h \in Int, zeroLevel <= h, h < MAX_LEVEL
  PROVE  Hit(node, Lowered(node[n], h), n, zeroLevel)
<1>0. /\ zeroLevel \in Int /\ 0 <= zeroLevel /\ zeroLevel < MAX_LEVEL /\ MAX_LEVEL \in Int
      /\ NodeOK(node, zeroLevel, n) /\ zeroLevel \in Levels
  BY Start, SizeAssumption DEF NodesOK, Inv, ListInv, Levels
<1>1. node[n].selfhits \in Int /\ node[n].hits[zeroLevel] \in Int /\ node[n].zeroLevel \in Int
  BY <1>0 DEF NodeOK
<1>2. CASE node[n].zeroLevel > h
  <2> DEFINE H == [i \in Levels |-> IF i \in h .. node[n].zeroLevel - 1 THEN 0 ELSE node[n].hits[i]]
             N == [i \in Levels |-> IF i \in h .. node[n].zeroLevel - 1
                                    THEN node[n].next[node[n].zeroLevel] ELSE node[n].next[i]]
             R == [node[n] EXCEPT !.hits = H, !.next = N, !.zeroLevel = h]
  <2>1. Lowered(node[n], h) = R
    BY <1>2 DEF Lowered
  <2>2. H[zeroLevel] \in Int /\ (h = zeroLevel => H[zeroLevel] = 0)
    BY <1>0, <1>1, <1>2
  <2> HIDE DEF H, N
  <2>3. R.hits = H /\ R.zeroLevel = h /\ R.selfhits = node[n].selfhits
    BY <1>0 DEF NodeOK, NodeFields
  <2> HIDE DEF R
  <2> QED
    BY <1>1, <2>1, <2>2, <2>3 DEF Hit
<1>3. CASE ~(node[n].zeroLevel > h)
  BY <1>1, <1>3 DEF Lowered, Hit
<1> QED
  BY <1>2, <1>3

\* The lowering of a node by a search or a walk.
LEMMA FixHeight ==
  ASSUME Inv, HeightInv, NEW u \in Threads, FixZeroLevel(u)
  PROVE  HeightInv'
<1> DEFINE L == l[u]
           n == L.fix
           R == Lowered(node[n], L.h)
           M == [L EXCEPT !.pc = L.back, !.fix = NULL, !.back = "idle"]
<1>0. DOMAIN L = Fields /\ FindOK(node, zeroLevel, L)
  BY Start DEF WalkOK
<1>1. L.pc = "fix" /\ Do(u, [node EXCEPT ![n] = R], M)
  BY DEF FixZeroLevel, At
<1>2. /\ L.back \in {"f_read", "f_cmp", "u_cmp", "w_peek"} /\ n \in DOMAIN node
      /\ L.h \in Int /\ zeroLevel <= L.h /\ L.h < MAX_LEVEL
  BY <1>0, <1>1 DEF FindOK
<1>3. Hit(node, R, n, zeroLevel)
  BY <1>2, LoweredHit
<1>4. M.curAccess = L.curAccess /\ M.pc # "d_zero"
  BY <1>0, <1>2 DEF Fields
<1> HIDE DEF M, R
<1>5. Replaced(node, [node EXCEPT ![n] = R], n, R)
  BY <1>2 DEF Replaced
<1> QED
  BY <1>1, <1>3, <1>4, <1>5, CountableNodes, OneCounted, DoHeight

\* The head of the loop over the levels.
LEMMA UpdateLevelHeight ==
  ASSUME Inv, HeightInv, NEW u \in Threads, UpdateLevel(u)
  PROVE  HeightInv'
<1> DEFINE L == l[u]
           p == L.pred
           R == Lowered(node[p], L.h)
           K == [L EXCEPT !.predpred = p, !.cur = R.next[L.h]]
           M == IF K.cur = NULL THEN [K EXCEPT !.pc = "crash"] ELSE Via(K, K.cur, "u_cmp")
<1>0. DOMAIN L = Fields /\ WalkOK(node, Off, zeroLevel, u, L) /\ zeroLevel \in Int
  BY Start
<1>1. L.pc = "u_level"
  BY DEF UpdateLevel, At
<1>2. CASE L.h < zeroLevel
  BY <1>1, <1>2, GotoHeight DEF UpdateLevel
<1>3. CASE ~(L.h < zeroLevel)
  <2>1. Do(u, [node EXCEPT ![p] = R], M)
    BY <1>3, Zenon DEF UpdateLevel
  <2>2. p \in DOMAIN node /\ L.h \in Int /\ L.h < MAX_LEVEL /\ zeroLevel <= L.h
    BY <1>0, <1>1, <1>3 DEF WalkOK, LevelOK
  <2>3. Hit(node, R, p, zeroLevel)
    BY <2>2, LoweredHit
  <2> HIDE DEF R
  <2>4. DOMAIN K = Fields /\ K.curAccess = L.curAccess
    BY <1>0 DEF Fields
  <2> HIDE DEF K
  <2>5. M.curAccess = L.curAccess /\ M.pc # "d_zero"
    <3>1. CASE K.cur = NULL
      BY <2>4, <3>1 DEF Fields
    <3>2. CASE K.cur # NULL
      BY <2>4, <3>2, ViaAccess
    <3> QED
      BY <3>1, <3>2
  <2> HIDE DEF M
  <2>6. Replaced(node, [node EXCEPT ![p] = R], p, R)
    BY <2>2 DEF Replaced
  <2> QED
    BY <1>1, <2>1, <2>3, <2>5, <2>6, CountableNodes, OneCounted, DoHeight, SMTT(30)
<1> QED
  BY <1>2, <1>3

\* Nothing on the level lies between pred and the key.
LEMMA UpdateCompareHeight ==
  ASSUME Inv, HeightInv, NEW u \in Threads, UpdateCompare(u)
  PROVE  HeightInv'
<1> DEFINE L == l[u]
           K == [L EXCEPT !.curZeroLevel = zeroLevel, !.ok = FALSE]
           p == L.pred
           h == L.h
<1>0. DOMAIN L = Fields /\ zeroLevel \in Int
  BY Start
<1>1. L.pc = "u_cmp"
  BY DEF UpdateCompare, At
<1>2. p \in DOMAIN node /\ h \in Levels /\ h \in Int
  BY <1>1, WalkPlaces
<1>3. DOMAIN K = Fields /\ K.curAccess = L.curAccess /\ K.pred = p /\ K.h = h
  BY <1>0 DEF Fields
<1>4. ASSUME NEW q \in {"w_peek", "i_link"}, Local(u, [K EXCEPT !.pc = q]) PROVE HeightInv'
  <2> DEFINE M == [K EXCEPT !.pc = q]
  <2> HIDE DEF K
  <2>1. M.curAccess = L.curAccess /\ M.pc = q
    BY <1>3 DEF Fields
  <2> HIDE DEF M
  <2>2. Local(u, M)
    BY <1>4 DEF M
  <2> QED
    BY <1>1, <2>1, <2>2, LocalHeight
<1>5. ASSUME Do(u, [node EXCEPT ![K.pred].hits[K.h] = @ + 1], [K EXCEPT !.pc = "u_level", !.h = @ - 1])
      PROVE  HeightInv'
  <2> DEFINE M == [K EXCEPT !.pc = "u_level", !.h = @ - 1]
             R == [node[p] EXCEPT !.hits[h] = @ + 1]
             nodes == [node EXCEPT ![p] = R]
  <2> HIDE DEF K
  <2>1. M.curAccess = L.curAccess /\ M.pc = "u_level"
    BY <1>3 DEF Fields
  <2>2. Do(u, nodes, M)
    BY <1>3, <1>5
  <2> HIDE DEF M
  <2>3. NodeOK(node, zeroLevel, p) /\ zeroLevel \in Levels
    BY <1>2, SizeAssumption DEF Inv, ListInv, NodesOK, Levels
  <2>4. Hit(node, R, p, zeroLevel)
    BY <1>2, <2>3 DEF NodeOK, NodeFields, Hit
  <2> HIDE DEF R
  <2>5. Replaced(node, nodes, p, R)
    BY <1>2 DEF Replaced
  <2> QED
    BY <1>1, <2>1, <2>2, <2>4, <2>5, CountableNodes, OneCounted, DoHeight
<1> QED
  BY <1>4, <1>5 DEF UpdateCompare

\* Steps that change no counter and nothing of the walk but its place.
LEMMA PlainHeight ==
  ASSUME Inv, HeightInv, NEW u \in Threads, NEW n \in DOMAIN node, NEW f \in {"lock", "next", "topLevel"}, NEW v,
         NEW p, Do(u, [node EXCEPT ![n][f] = v], [l[u] EXCEPT !.pc = p]), p # "d_zero", l[u].pc # "i_count"
  PROVE  HeightInv'
<1> DEFINE M == [l[u] EXCEPT !.pc = p]
<1>1. M.curAccess = l[u].curAccess /\ M.pc = p
  BY Start DEF Fields
<1>2. Mild(u, M) /\ node' = [node EXCEPT ![n][f] = v]
  BY <1>1 DEF Mild, Do
<1>3. \A m \in DOMAIN node : DOMAIN node[m] = NodeFields
  BY DEF Inv, ListInv, NodesOK, NodeOK
<1>4. \A m \in DOMAIN node : /\ node'[m].selfhits = node[m].selfhits /\ node'[m].hits = node[m].hits
                             /\ node'[m].zeroLevel = node[m].zeroLevel
  BY <1>2, <1>3 DEF NodeFields
<1> QED
  BY <1>2, <1>4, LevelStep

\* update leaves.
LEMMA LeaveHeight ==
  ASSUME Inv, HeightInv, NEW u \in Threads, UpdateLeave(u)
  PROVE  HeightInv'
<1>1. /\ l[u].pc = "u_leave"
      /\ Do(u, [node EXCEPT ![l[u].pred]["lock"] = Nobody], [l[u] EXCEPT !.pc = "u_return"])
  BY DEF UpdateLeave, At
<1>2. l[u].pred \in DOMAIN node
  BY <1>1, Start, Zenon DEF WalkOK, LevelOK
<1> QED
  BY <1>1, <1>2, PlainHeight

\* insert leaves.
LEMMA InsertLeaveHeight ==
  ASSUME Inv, HeightInv, NEW u \in Threads, InsertLeave(u)
  PROVE  HeightInv'
<1>1. /\ l[u].pc = "i_leave"
      /\ Do(u, [node EXCEPT ![l[u].cur]["lock"] = Nobody], [l[u] EXCEPT !.pc = "u_leave"])
  BY DEF InsertLeave, At
<1>2. l[u].cur \in DOMAIN node
  BY <1>1, Start, Zenon DEF WalkOK, InsertOK
<1> QED
  BY <1>1, <1>2, PlainHeight

\* pred is locked for a demotion.
LEMMA DemotePredHeight ==
  ASSUME Inv, HeightInv, NEW u \in Threads, DemoteLockPred(u)
  PROVE  HeightInv'
<1>1. l[u].pc = "d_pred" /\ Do(u, [node EXCEPT ![l[u].pred]["lock"] = u], [l[u] EXCEPT !.pc = "d_cur"])
  BY DEF DemoteLockPred, At
<1>2. l[u].pred \in DOMAIN node
  BY <1>1, WalkPlaces DEF OnLevel
<1> QED
  BY <1>1, <1>2, PlainHeight

\* cur is unlinked from its level.
LEMMA DemoteUnlinkHeight ==
  ASSUME Inv, HeightInv, NEW u \in Threads, DemoteUnlink(u)
  PROVE  HeightInv'
<1> DEFINE L == l[u]
           p == L.pred
           N == [node[p].next EXCEPT ![L.h] = node[L.cur].next[L.h]]
<1>1. L.pc = "d_unlink" /\ Do(u, [node EXCEPT ![p]["next"] = N], [L EXCEPT !.pc = "d_null"])
  BY DEF DemoteUnlink, At
<1>2. p \in DOMAIN node
  BY <1>1, WalkPlaces DEF OnLevel
<1> HIDE DEF N
<1> QED
  BY <1>1, <1>2, PlainHeight

\* Steps that lock a node.
LEMMA PromoteLockHeight ==
  ASSUME Inv, HeightInv, NEW u \in Threads, PromoteLock(u)
  PROVE  HeightInv'
<1> DEFINE L == l[u]
           M == [L EXCEPT !.pc = "p_loop", !.curh = node[L.cur].topLevel]
<1>1. L.pc = "p_lock" /\ Do(u, [node EXCEPT ![L.cur].lock = u], M)
  BY DEF PromoteLock, At
<1>2. L.cur \in DOMAIN node
  BY <1>1, WalkPlaces DEF OnLevel
<1>3. M.curAccess = L.curAccess /\ M.pc = "p_loop"
  BY Start DEF Fields
<1> HIDE DEF M
<1>4. Mild(u, M) /\ node' = [node EXCEPT ![L.cur].lock = u]
  BY <1>1, <1>3 DEF Mild, Do
<1>5. \A m \in DOMAIN node : DOMAIN node[m] = NodeFields
  BY DEF Inv, ListInv, NodesOK, NodeOK
<1>6. \A m \in DOMAIN node : /\ node'[m].selfhits = node[m].selfhits /\ node'[m].hits = node[m].hits
                             /\ node'[m].zeroLevel = node[m].zeroLevel
  BY <1>4, <1>5 DEF NodeFields
<1> QED
  BY <1>4, <1>6, LevelStep

\* Steps that change a link or the top level, and a lock.
LEMMA DemoteNullHeight ==
  ASSUME Inv, HeightInv, NEW u \in Threads, DemoteNull(u) \/ DemoteTop(u)
  PROVE  HeightInv'
<1> DEFINE L == l[u]
           b == IF L.pred # L.predpred THEN Nobody ELSE node[L.pred].lock
<1>1. \A m \in DOMAIN node : DOMAIN node[m] = NodeFields
  BY DEF Inv, ListInv, NodesOK, NodeOK
<1>2. ASSUME NEW q \in {"d_top", "d_next"}, Do(u, node', [L EXCEPT !.pc = q]), L.pc \in {"d_null", "d_top"},
             DOMAIN node' = DOMAIN node,
             \A m \in DOMAIN node : /\ node'[m].selfhits = node[m].selfhits /\ node'[m].hits = node[m].hits
                                    /\ node'[m].zeroLevel = node[m].zeroLevel
      PROVE  HeightInv'
  <2> DEFINE M == [L EXCEPT !.pc = q]
  <2>1. M.curAccess = L.curAccess /\ M.pc = q
    BY Start DEF Fields
  <2>2. Mild(u, M)
    BY <1>2, <2>1 DEF Mild, Do
  <2> QED
    BY <1>2, <2>2, LevelStep
<1>3. CASE DemoteNull(u)
  <2> DEFINE N == [node[L.cur].next EXCEPT ![L.h] = NULL]
             nodes == [node EXCEPT ![L.cur].next = N]
  <2>1. /\ L.pc = "d_null" /\ Do(u, node', [L EXCEPT !.pc = "d_top"])
        /\ node' = [node EXCEPT ![L.cur].next[L.h] = NULL,
                                ![L.pred].lock = IF L.pred # L.predpred THEN Nobody ELSE @]
    <3>1. L.pc = "d_null"
      BY <1>3 DEF DemoteNull, At
    <3>2. Do(u, [node EXCEPT ![L.cur].next[L.h] = NULL,
                             ![L.pred].lock = IF L.pred # L.predpred THEN Nobody ELSE @], [L EXCEPT !.pc = "d_top"])
      BY <1>3 DEF DemoteNull
    <3> QED
      BY <3>1, <3>2, Zenon DEF Do
  <2>2. L.cur \in DOMAIN node /\ L.pred \in DOMAIN node
    BY <2>1, WalkPlaces, SMTT(30) DEF OnLevel
  <2>3. node' = [nodes EXCEPT ![L.pred].lock = IF L.pred # L.predpred THEN Nobody ELSE @]
    BY <2>1, Zenon
  <2> HIDE DEF N
  <2>4. /\ DOMAIN nodes = DOMAIN node
        /\ \A m \in DOMAIN node : /\ nodes[m].selfhits = node[m].selfhits /\ nodes[m].hits = node[m].hits
                                  /\ nodes[m].zeroLevel = node[m].zeroLevel /\ DOMAIN nodes[m] = NodeFields
    BY <1>1 DEF NodeFields
  <2> HIDE DEF nodes
  <2>5. /\ DOMAIN node' = DOMAIN nodes
        /\ \A m \in DOMAIN nodes : /\ node'[m].selfhits = nodes[m].selfhits /\ node'[m].hits = nodes[m].hits
                                   /\ node'[m].zeroLevel = nodes[m].zeroLevel
    BY <2>3, <2>4 DEF NodeFields
  <2>6. /\ DOMAIN node' = DOMAIN node
        /\ \A m \in DOMAIN node : /\ node'[m].selfhits = node[m].selfhits /\ node'[m].hits = node[m].hits
                                  /\ node'[m].zeroLevel = node[m].zeroLevel
    BY <2>4, <2>5
  <2> QED
    BY <1>2, <2>1, <2>6, Zenon
<1>4. CASE DemoteTop(u)
  <2> DEFINE R == [node[L.cur] EXCEPT !.topLevel = @ - 1, !.lock = Nobody]
  <2>1. /\ L.pc = "d_top" /\ Do(u, node', [L EXCEPT !.pc = "d_next"])
        /\ node' = [node EXCEPT ![L.cur] = R]
    BY <1>4 DEF DemoteTop, At, Do
  <2>2. L.cur \in DOMAIN node
    BY <2>1, WalkPlaces DEF OnLevel
  <2>3. R.selfhits = node[L.cur].selfhits /\ R.hits = node[L.cur].hits /\ R.zeroLevel = node[L.cur].zeroLevel
    BY <1>1, <2>2 DEF NodeFields
  <2> HIDE DEF R
  <2>4. /\ DOMAIN node' = DOMAIN node
        /\ \A m \in DOMAIN node : /\ node'[m].selfhits = node[m].selfhits /\ node'[m].hits = node[m].hits
                                  /\ node'[m].zeroLevel = node[m].zeroLevel
    BY <2>1, <2>2, <2>3
  <2> QED
    BY <1>2, <2>1, <2>4
<1> QED
  BY <1>3, <1>4

\* The walk looks at cur, tests it and goes on.
LEMMA WalkHeight ==
  ASSUME Inv, HeightInv, NEW u \in Threads, WalkPeek(u) \/ WalkTest(u) \/ WalkStep(u) \/ DemoteNext(u)
  PROVE  HeightInv'
<1> DEFINE L == l[u]
<1>0. DOMAIN L = Fields /\ NodesOK(node, zeroLevel) /\ zeroLevel \in Int
  BY Start
<1>1. CASE WalkPeek(u)
  <2> DEFINE p == IF node[node[L.cur].next[L.h]].key > L.key THEN "w_lock" ELSE "w_test"
  <2>1. L.pc = "w_peek" /\ Goto(u, p)
    BY <1>1, Zenon DEF WalkPeek, At
  <2>2. p \in {"w_lock", "w_test"}
    OBVIOUS
  <2> HIDE DEF p
  <2> QED
    BY <2>1, <2>2, GotoHeight
<1>2. CASE WalkTest(u)
  <2> DEFINE p == IF L.acquired THEN "p_loop" ELSE "p_lock"
             q == IF L.pred # L.predpred THEN "d_pred" ELSE "d_cur"
             M == [L EXCEPT !.pc = p, !.curh = node[L.cur].topLevel]
             K == [L EXCEPT !.pc = q, !.curZeroLevel2 = zeroLevel]
  <2>1. L.pc = "w_test" /\ (Local(u, M) \/ Local(u, K) \/ Goto(u, "w_step"))
    BY <1>2 DEF WalkTest, At
  <2>2. p # "d_zero" /\ q # "d_zero"
    OBVIOUS
  <2> HIDE DEF p, q
  <2>3. M.curAccess = L.curAccess /\ M.pc = p /\ K.curAccess = L.curAccess /\ K.pc = q
    BY <1>0 DEF Fields
  <2> HIDE DEF M, K
  <2> QED
    BY <2>1, <2>2, <2>3, LocalHeight, GotoHeight
<1>3. CASE WalkStep(u)
  <2> DEFINE K == [L EXCEPT !.pred = L.cur]
             c == node[L.cur].next[L.h]
             M == Loop(K, c)
  <2>1. L.pc = "w_step" /\ Local(u, M)
    BY <1>3 DEF WalkStep, At
  <2>2. L.cur \in DOMAIN node /\ L.h \in Levels /\ L.key \in Keys
    BY <2>1, WalkPlaces DEF OnLevel
  <2>3. c \in DOMAIN node \cup {NULL}
    BY <1>0, <2>2, NodeTypes
  <2>4. DOMAIN K = Fields /\ K.curAccess = L.curAccess /\ K.key = L.key
    BY <1>0 DEF Fields
  <2> HIDE DEF K, c
  <2>5. M.curAccess = L.curAccess /\ M.pc \in {"crash", "w_exit", "w_peek", "fix"}
    BY <2>2, <2>3, <2>4, LoopAccess
  <2> HIDE DEF M
  <2> QED
    BY <2>1, <2>5, LocalHeight
<1>4. CASE DemoteNext(u)
  <2> DEFINE c == node[L.pred].next[L.h]
             M == Loop(L, c)
  <2>1. L.pc = "d_next" /\ Local(u, M)
    BY <1>4 DEF DemoteNext, At
  <2>2. L.pred \in DOMAIN node /\ L.h \in Levels /\ L.key \in Keys
    BY <2>1, WalkPlaces DEF OnLevel
  <2>3. c \in DOMAIN node \cup {NULL}
    BY <1>0, <2>2, NodeTypes
  <2> HIDE DEF c
  <2>4. M.curAccess = L.curAccess /\ M.pc \in {"crash", "w_exit", "w_peek", "fix"}
    BY <1>0, <2>2, <2>3, LoopAccess
  <2> HIDE DEF M
  <2> QED
    BY <2>1, <2>4, LocalHeight
<1> QED
  BY <1>1, <1>2, <1>3, <1>4

\* The walk locks the last node of the level and counts the access there.
LEMMA WalkLockHeight ==
  ASSUME Inv, HeightInv, NEW u \in Threads, WalkLock(u)
  PROVE  HeightInv'
<1> DEFINE L == l[u]
           c == L.cur
           hit == node[c].key = L.key
           a == IF hit THEN node[c].selfhits + 1 ELSE node[c].selfhits
           b == IF hit \/ (L.inserting /\ L.h = L.curZeroLevel)
                THEN node[c].hits[L.h] ELSE node[c].hits[L.h] + 1
           H == [node[c].hits EXCEPT ![L.h] = b]
           R == [node[c] EXCEPT !.lock = u, !.selfhits = a, !.hits = H]
           M == [L EXCEPT !.pc = "w_test", !.acquired = TRUE, !.ok = L.ok \/ hit]
<1>0. DOMAIN L = Fields
  BY Start, SMTT(30)
<1>1. L.pc = "w_lock"
  BY Zenon DEF WalkLock, At
<1>2. CASE node[node[c].next[L.h]].key <= L.key
  <2>1. Goto(u, "w_test")
    BY <1>2 DEF WalkLock, Goto
  <2> QED
    BY <1>1, <2>1, GotoHeight
<1>3. CASE ~(node[node[c].next[L.h]].key <= L.key)
  <2>1. c \in DOMAIN node /\ L.h \in Levels
    BY <1>1, WalkPlaces DEF OnLevel
  <2>2. Do(u, [node EXCEPT ![c].lock = u, ![c].selfhits = IF hit THEN @ + 1 ELSE @,
                           ![c].hits[L.h] = IF hit \/ (L.inserting /\ L.h = L.curZeroLevel)
                                            THEN @ ELSE @ + 1], M)
    BY <1>3, Zenon DEF WalkLock
  <2>3. DOMAIN node[c] = NodeFields
    BY <2>1 DEF Inv, ListInv, NodesOK, NodeOK
  <2>4. Do(u, [node EXCEPT ![c] = R], M)
    BY <2>1, <2>2, <2>3, Zenon DEF NodeFields
  <2>5. NodeOK(node, zeroLevel, c) /\ zeroLevel \in Levels
    BY <2>1, SizeAssumption DEF Inv, ListInv, NodesOK, Levels
  <2>6. /\ node[c].selfhits \in Int /\ node[c].hits \in [Levels -> Int]
        /\ a \in Int /\ a >= node[c].selfhits /\ b \in Int /\ b >= node[c].hits[L.h]
    BY <2>1, <2>5 DEF NodeOK
  <2> HIDE DEF a, b
  <2>7. H[zeroLevel] \in Int /\ H[zeroLevel] >= node[c].hits[zeroLevel]
    BY <2>1, <2>5, <2>6
  <2> HIDE DEF H
  <2>8. R.hits = H /\ R.selfhits = a /\ R.zeroLevel = node[c].zeroLevel
    BY <2>3 DEF NodeFields
  <2>9. M.curAccess = L.curAccess /\ M.pc = "w_test"
    BY <1>0 DEF Fields
  <2> HIDE DEF M, R
  <2>10. Hit(node, R, c, zeroLevel)
    BY <2>6, <2>7, <2>8 DEF Hit
  <2>11. Replaced(node, [node EXCEPT ![c] = R], c, R)
    BY <2>1 DEF Replaced
  <2> QED
    BY <1>1, <2>4, <2>9, <2>10, <2>11, CountableNodes, OneCounted, DoHeight
<1> QED
  BY <1>2, <1>3

\* Another value for a counter: no less than before, if it is on the bottom level.
LEMMA HitSet ==
  ASSUME NEW nd, NEW n, NEW z \in Levels, nd[n].selfhits \in Int, nd[n].hits \in [Levels -> Int],
         NEW h \in Levels, NEW v \in Int, h = z => v >= nd[n].hits[z],
         NEW R, R.selfhits = nd[n].selfhits, R.zeroLevel = nd[n].zeroLevel, R.hits = [nd[n].hits EXCEPT ![h] = v]
  PROVE  Hit(nd, R, n, z)
<1>1. R.hits[z] \in Int /\ R.hits[z] >= nd[n].hits[z]
  BY SMTT(30)
<1> QED
  BY <1>1 DEF Hit

\* Steps that replace two nodes.
LEMMA TwoCounted ==
  ASSUME NEW nd, NEW z, Countable(nd, z), NEW a \in DOMAIN nd, NEW b \in DOMAIN nd, NEW A, NEW B,
         Hit(nd, A, a, z), Hit(nd, B, b, z)
  PROVE  Counted(nd, [nd EXCEPT ![a] = A, ![b] = B], z)
<1> DEFINE nd2 == [nd EXCEPT ![a] = A, ![b] = B]
<1> SUFFICES ASSUME NEW n \in DOMAIN nd PROVE Hit(nd, nd2[n], n, z)
  BY DEF Counted
<1>1. CASE n = b
  BY <1>1
<1>2. CASE n = a /\ n # b
  BY <1>2
<1>3. CASE n # a /\ n # b
  BY <1>3 DEF Countable, Hit
<1> QED
  BY <1>1, <1>2, <1>3

\* The end of a level.
LEMMA WalkExitHeight ==
  ASSUME Inv, HeightInv, NEW u \in Threads, WalkExit(u)
  PROVE  HeightInv'
<1> DEFINE L == l[u]
           p == L.pred
           h == L.h
           nd1 == IF L.predpred # p THEN [node EXCEPT ![L.predpred].lock = Nobody] ELSE node
           bottom == L.inserting /\ h = L.curZeroLevel
           v == IF bottom THEN nd1[p].hits[h] + 1 ELSE nd1[p].hits[h]
           R == [nd1[p] EXCEPT !.hits[h] = v]
           nd2 == [nd1 EXCEPT ![p] = R]
           M == [L EXCEPT !.pc = "u_level", !.h = @ - 1]
           K == [L EXCEPT !.pc = "u_leave"]
           J == [L EXCEPT !.pc = "i_link"]
<1>0. DOMAIN L = Fields /\ NodesOK(node, zeroLevel)
  BY Start
<1>1. L.pc = "w_exit"
  BY ZenonT(40) DEF WalkExit, At
<1>2. Local(u, J) \/ Do(u, nd1, K) \/ Do(u, [nd1 EXCEPT ![p].hits[h] = IF bottom THEN @ + 1 ELSE @], M)
  BY Zenon DEF WalkExit
<1>3. /\ M.curAccess = L.curAccess /\ M.pc = "u_level" /\ K.curAccess = L.curAccess /\ K.pc = "u_leave"
      /\ J.curAccess = L.curAccess /\ J.pc = "i_link"
  BY <1>0 DEF Fields
<1>4. [nd1 EXCEPT ![p].hits[h] = IF bottom THEN @ + 1 ELSE @] = nd2
  OBVIOUS
<1>5. p \in DOMAIN node /\ h \in Levels /\ L.predpred \in DOMAIN node /\ zeroLevel \in Levels
  BY <1>1, WalkPlaces, SizeAssumption DEF OnLevel, Inv, ListInv, Levels
<1>6. \A m \in DOMAIN node : /\ DOMAIN node[m] = NodeFields /\ node[m].selfhits \in Int
                             /\ node[m].hits \in [Levels -> Int]
  BY <1>0 DEF NodesOK, NodeOK
<1>7. /\ DOMAIN nd1 = DOMAIN node
      /\ \A m \in DOMAIN node : /\ nd1[m].selfhits = node[m].selfhits /\ nd1[m].hits = node[m].hits
                                /\ nd1[m].zeroLevel = node[m].zeroLevel /\ DOMAIN nd1[m] = NodeFields
  <2>1. CASE L.predpred # p
    BY <1>6, <2>1 DEF NodeFields
  <2>2. CASE ~(L.predpred # p)
    BY <1>6, <2>2
  <2> QED
    BY <2>1, <2>2
<1> HIDE DEF nd1, M, K, J
<1>8. Counted(node, nd1, zeroLevel) /\ Countable(nd1, zeroLevel)
  <2>1. Countable(node, zeroLevel)
    BY CountableNodes
  <2> QED
    BY <1>7, <2>1, SameCounted DEF Countable
<1>9. v \in Int /\ v >= nd1[p].hits[h]
  BY <1>5, <1>6, <1>7
<1> HIDE DEF v
<1>10. R.selfhits = nd1[p].selfhits /\ R.zeroLevel = nd1[p].zeroLevel /\ R.hits = [nd1[p].hits EXCEPT ![h] = v]
  BY <1>5, <1>7 DEF NodeFields
<1> HIDE DEF R
<1>11. Hit(nd1, R, p, zeroLevel)
  <2>1. nd1[p].selfhits \in Int /\ nd1[p].hits \in [Levels -> Int]
    BY <1>5, <1>6, <1>7
  <2> QED
    BY <1>5, <1>9, <1>10, <2>1, HitSet
<1>12. Replaced(nd1, nd2, p, R)
  BY <1>5, <1>7 DEF Replaced
<1>13. Counted(nd1, nd2, zeroLevel)
  BY <1>8, <1>11, <1>12, OneCounted
<1>14. Counted(node, nd2, zeroLevel)
  BY <1>8, <1>13, CountableNodes, CountedTwice
<1>15. CASE Local(u, J)
  BY <1>1, <1>3, <1>15, LocalHeight
<1>16. CASE Do(u, nd1, K)
  BY <1>1, <1>3, <1>8, <1>16, DoHeight
<1>17. CASE Do(u, nd2, M)
  <2> HIDE DEF nd2
  <2> QED
    BY <1>1, <1>3, <1>14, <1>17, DoHeight
<1> QED
  BY <1>2, <1>4, <1>15, <1>16, <1>17

\* A promotion by one level, which is above the bottom.
LEMMA PromotedCounted ==
  ASSUME Inv, NEW p \in DOMAIN node, NEW c \in DOMAIN node, NEW i \in Int, zeroLevel < i, i < MAX_LEVEL
  PROVE  Counted(node, Promoted(p, c, i), zeroLevel)
<1> DEFINE v == node[p].hits[i] - node[p].hits[i - 1] - node[c].selfhits
           w == node[p].hits[i - 1]
           C == [node[c] EXCEPT !.topLevel = node[c].topLevel + 1, !.hits[i] = v, !.next[i] = node[p].next[i]]
           P == [node[p] EXCEPT !.next[i] = c, !.hits[i] = w]
<1>1. zeroLevel \in Levels /\ i \in Levels /\ i - 1 \in Levels /\ i # zeroLevel
  BY SizeAssumption DEF Inv, ListInv, Levels
<1>2. \A m \in DOMAIN node : /\ DOMAIN node[m] = NodeFields /\ node[m].selfhits \in Int
                             /\ node[m].hits \in [Levels -> Int]
  BY DEF Inv, ListInv, NodesOK, NodeOK
<1>3. v \in Int /\ w \in Int
  BY <1>1, <1>2
<1>4. Promoted(p, c, i) = [node EXCEPT ![c] = C, ![p] = P]
  BY DEF Promoted
<1> HIDE DEF v, w
<1>5. /\ C.selfhits = node[c].selfhits /\ C.zeroLevel = node[c].zeroLevel /\ C.hits = [node[c].hits EXCEPT ![i] = v]
      /\ P.selfhits = node[p].selfhits /\ P.zeroLevel = node[p].zeroLevel /\ P.hits = [node[p].hits EXCEPT ![i] = w]
  BY <1>2 DEF NodeFields
<1> HIDE DEF C, P
<1>6. Hit(node, C, c, zeroLevel) /\ Hit(node, P, p, zeroLevel)
  BY <1>1, <1>2, <1>3, <1>5, HitSet, SMTT(30)
<1>7. Countable(node, zeroLevel)
  BY CountableNodes
<1>8. Counted(node, [node EXCEPT ![c] = C, ![p] = P], zeroLevel)
  BY <1>6, <1>7, TwoCounted
<1> QED
  BY <1>4, <1>8

\* A promotion, by update or by insert.
LEMMA PromoteHeight ==
  ASSUME Inv, HeightInv, NEW u \in Threads, PromoteLoop(u) \/ InsertLoop(u)
  PROVE  HeightInv'
<1> DEFINE L == l[u]
           M == [L EXCEPT !.curh = @ + 1]
           nodes == Promoted(L.predpred, L.cur, L.curh + 1)
<1>0. DOMAIN L = Fields /\ WalkOK(node, Off, zeroLevel, u, L) /\ zeroLevel \in Int /\ NodesOK(node, zeroLevel)
  BY Start
<1>1. L.pc \in {"p_loop", "i_loop"}
  BY DEF PromoteLoop, InsertLoop, At
<1>2. /\ L.predpred \in DOMAIN node /\ L.cur \in DOMAIN node /\ node[L.cur].topLevel = L.curh
      /\ L.h \in Levels /\ L.key \in Keys
  BY <1>0, <1>1, WalkPlaces DEF WalkOK, PromoteOK, Promoting, OnLevel
<1>3. L.curh \in Int /\ zeroLevel <= L.curh
  BY <1>0, <1>2, NodeTypes
<1>4. CASE Ascends(L.predpred, L.curh, L.curAccess)
  <2>1. Do(u, nodes, M)
    BY <1>4 DEF PromoteLoop, InsertLoop
  <2>2. M.curAccess = L.curAccess /\ M.pc = L.pc
    BY <1>0 DEF Fields
  <2> HIDE DEF M
  <2>3. L.curh + 1 \in Int /\ zeroLevel < L.curh + 1 /\ L.curh + 1 < MAX_LEVEL
    BY <1>0, <1>3, <1>4 DEF Ascends
  <2>4. Counted(node, nodes, zeroLevel)
    BY <1>2, <2>3, PromotedCounted
  <2> HIDE DEF nodes
  <2> QED
    BY <1>1, <2>1, <2>2, <2>4, DoHeight
<1>5. CASE ~Ascends(L.predpred, L.curh, L.curAccess) /\ InsertLoop(u)
  <2>1. Goto(u, "i_leave")
    BY <1>5 DEF InsertLoop, Goto
  <2> QED
    BY <1>1, <2>1, GotoHeight
<1>6. CASE ~Ascends(L.predpred, L.curh, L.curAccess) /\ PromoteLoop(u)
  <2> DEFINE K == [L EXCEPT !.predpred = L.cur, !.pred = L.cur]
             c == node[L.cur].next[L.h]
             N == Loop(K, c)
             nd2 == [node EXCEPT ![L.predpred].lock = Nobody]
  <2>1. Do(u, nd2, N)
    BY <1>6 DEF PromoteLoop
  <2>2. DOMAIN K = Fields /\ K.curAccess = L.curAccess /\ K.key = L.key
    BY <1>0 DEF Fields
  <2>3. c \in DOMAIN node \cup {NULL}
    BY <1>0, <1>2, NodeTypes
  <2> HIDE DEF K, c
  <2>4. N.curAccess = L.curAccess /\ N.pc \in {"crash", "w_exit", "w_peek", "fix"}
    BY <1>2, <2>2, <2>3, LoopAccess
  <2> HIDE DEF N
  <2>5. \A m \in DOMAIN node : DOMAIN node[m] = NodeFields
    BY <1>0, NodeTypes
  <2>6. \A m \in DOMAIN node : /\ nd2[m].selfhits = node[m].selfhits /\ nd2[m].hits = node[m].hits
                               /\ nd2[m].zeroLevel = node[m].zeroLevel
    BY <2>5 DEF NodeFields
  <2>7. Counted(node, nd2, zeroLevel)
    BY <2>6, CountableNodes, SameCounted
  <2> HIDE DEF nd2
  <2> QED
    BY <1>1, <2>1, <2>4, <2>7, DoHeight
<1> QED
  BY <1>4, <1>5, <1>6

\* A node whose column goes down by one level has no hits there.
LEMMA UpdatedHit ==
  ASSUME Inv, NEW n \in DOMAIN node, NEW h \in Levels, node[n].zeroLevel <= h, zeroLevel < h,
         NEW R, R = IF node[n].zeroLevel > h - 1 THEN updateZeroLevel(node[n]) ELSE node[n]
  PROVE  Hit(node, R, n, zeroLevel) /\ DOMAIN R = NodeFields /\ R.hits \in [Levels -> Int]
<1>0. NodeOK(node, zeroLevel, n) /\ zeroLevel \in Levels /\ zeroLevel \in Int /\ h \in Int /\ h - 1 \in Levels
  BY SizeAssumption DEF Inv, ListInv, NodesOK, Levels
<1>1. node[n].selfhits \in Int /\ node[n].hits \in [Levels -> Int] /\ node[n].zeroLevel \in Int
  BY <1>0 DEF NodeOK
<1>2. CASE node[n].zeroLevel > h - 1
  <2> DEFINE H == [node[n].hits EXCEPT ![h - 1] = 0]
             N == [node[n].next EXCEPT ![h - 1] = node[n].next[h]]
  <2>1. R = [node[n] EXCEPT !.hits = H, !.next = N, !.zeroLevel = h - 1]
    <3>1. node[n].zeroLevel = h
      BY <1>0, <1>1, <1>2
    <3> QED
      BY <1>0, <1>2, <3>1 DEF updateZeroLevel
  <2>2. H \in [Levels -> Int] /\ (h - 1 = zeroLevel => H[zeroLevel] = 0)
    BY <1>0, <1>1
  <2> HIDE DEF H, N
  <2>3. R.hits = H /\ R.selfhits = node[n].selfhits /\ R.zeroLevel = h - 1 /\ DOMAIN R = NodeFields
    BY <1>0, <2>1 DEF NodeOK, NodeFields
  <2>4. H[zeroLevel] \in Int
    BY <1>0, <2>2
  <2> QED
    BY <1>1, <2>2, <2>3, <2>4 DEF Hit
<1>3. CASE ~(node[n].zeroLevel > h - 1)
  <2>1. R = node[n] /\ node[n].hits[zeroLevel] \in Int
    BY <1>0, <1>1, <1>3
  <2> QED
    BY <1>0, <1>1, <2>1 DEF Hit, NodeOK
<1> QED
  BY <1>2, <1>3

\* A counter that is not on the bottom level.
LEMMA HitAbove ==
  ASSUME NEW nd, NEW n, NEW z, NEW R, Hit(nd, R, n, z), DOMAIN R = NodeFields, R.hits \in [Levels -> Int],
         NEW h \in Levels, h # z, NEW v
  PROVE  Hit(nd, [R EXCEPT !.hits[h] = v], n, z)
<1> DEFINE Q == [R EXCEPT !.hits[h] = v]
<1>1. Q.selfhits = R.selfhits /\ Q.zeroLevel = R.zeroLevel /\ Q.hits[z] = R.hits[z]
  BY DEF NodeFields
<1> HIDE DEF Q
<1>2. Hit(nd, Q, n, z)
  BY <1>1 DEF Hit
<1> QED
  BY <1>2 DEF Q

\* cur and pred reach below the level, and pred takes the hits of cur there.
LEMMA DemoteLowerHeight ==
  ASSUME Inv, HeightInv, NEW u \in Threads, DemoteLower(u)
  PROVE  HeightInv'
<1> DEFINE L == l[u]
           h == L.h
           c == IF node[L.cur].zeroLevel > h - 1 THEN updateZeroLevel(node[L.cur]) ELSE node[L.cur]
           p == IF node[L.pred].zeroLevel > h - 1 THEN updateZeroLevel(node[L.pred]) ELSE node[L.pred]
           v == p.hits[h] + getHits(c, h)
           C == [c EXCEPT !.hits[h] = 0]
           P == [p EXCEPT !.hits[h] = v]
           nodes == [node EXCEPT ![L.cur] = C, ![L.pred] = P]
           M == [L EXCEPT !.pc = "d_unlink"]
<1>0. DOMAIN L = Fields /\ WalkOK(node, Off, zeroLevel, u, L)
  BY Start
<1>1. L.pc = "d_low" /\ Do(u, nodes, M)
  BY ZenonT(40) DEF DemoteLower, At
<1>2. /\ L.pred \in DOMAIN node /\ L.cur \in DOMAIN node /\ h \in Levels
      /\ Demotable(node, Off, zeroLevel, u, L) /\ zeroLevel < h
  BY <1>0, <1>1, WalkPlaces, Zenon DEF WalkOK, DemoteOK, OnLevel
<1>3. node[L.pred].zeroLevel <= h /\ node[L.cur].zeroLevel <= h
  BY <1>2 DEF Demotable, Walking, PredOK
<1>4. M.curAccess = L.curAccess /\ M.pc = "d_unlink"
  BY <1>0 DEF Fields
<1>5. /\ Hit(node, c, L.cur, zeroLevel) /\ DOMAIN c = NodeFields /\ c.hits \in [Levels -> Int]
      /\ Hit(node, p, L.pred, zeroLevel) /\ DOMAIN p = NodeFields /\ p.hits \in [Levels -> Int]
  BY <1>2, <1>3, UpdatedHit
<1>6. h # zeroLevel
  BY <1>2 DEF Inv, ListInv
<1> HIDE DEF M, v, c, p
<1>7. Hit(node, C, L.cur, zeroLevel) /\ Hit(node, P, L.pred, zeroLevel)
  BY <1>2, <1>5, <1>6, HitAbove
<1> HIDE DEF C, P
<1>8. Countable(node, zeroLevel)
  BY CountableNodes
<1>9. Counted(node, nodes, zeroLevel)
  BY <1>2, <1>7, <1>8, TwoCounted
<1> HIDE DEF nodes
<1> QED
  BY <1>1, <1>4, <1>9, DoHeight

\* A node that sinks behind pred from the bottom level is worth a new one.
LEMMA SinksOpens ==
  ASSUME Inv, HeightInv, NEW p \in DOMAIN node, NEW c \in DOMAIN node \ {head, tail}, NEW k, NEW a \in Int,
         node[c].lock = Nobody, node[p].zeroLevel <= zeroLevel, node[c].zeroLevel <= zeroLevel,
         Sinks(p, c, zeroLevel, k, a)
  PROVE  2^(MAX_LEVEL - 1 - zeroLevel) <= a
<1>0. /\ zeroLevel \in Int /\ 0 <= zeroLevel /\ zeroLevel < MAX_LEVEL /\ MAX_LEVEL \in Int
      /\ NodeOK(node, zeroLevel, c) /\ NodeOK(node, zeroLevel, p)
  BY SizeAssumption DEF Inv, ListInv, NodesOK
<1>1. node[c].zeroLevel = zeroLevel /\ node[p].zeroLevel = zeroLevel
  BY <1>0 DEF NodeOK
<1>2. /\ node[c].selfhits \in Int /\ node[p].selfhits \in Int
      /\ node[c].hits[zeroLevel] \in Int /\ node[p].hits[zeroLevel] \in Int
  BY CountableNodes DEF Countable
<1>3. /\ node[p].selfhits >= 0 /\ node[c].hits[zeroLevel] >= 0 /\ node[p].hits[zeroLevel] >= 0
  BY <1>1 DEF HeightInv, HitsInv, Nodes
<1>4. node[c].selfhits >= 1
  <2> SUFFICES ASSUME NEW t \in Threads, l[t].pc = "i_count", l[t].cur = c PROVE FALSE
    BY DEF HeightInv, SelfInv, Nodes
  <2>1. WalkOK(node, Off, zeroLevel, t, l[t]) /\ t # Nobody
    BY Start
  <2>2. node[c].lock = t
    BY <2>1 DEF WalkOK, InsertOK
  <2> QED
    BY <2>1, <2>2
<1> DEFINE b == 2^(MAX_LEVEL - 1 - zeroLevel)
<1>5. MAX_LEVEL - 1 - zeroLevel \in 0 .. MAX_LEVEL
  BY <1>0
<1>6. b \in Int /\ b > 0
  BY <1>0, <1>5, PowerAssumption
<1>7. getHits(node[c], zeroLevel) + getHits(node[p], zeroLevel) <= a \div b
  BY DEF Sinks
<1> HIDE DEF b
<1>8. 1 <= a \div b
  BY <1>0, <1>1, <1>2, <1>3, <1>4, <1>6, <1>7 DEF getHits
<1> QED
  BY <1>6, <1>8 DEF b

\* A demotion of cur: if it is from the bottom level, there are the accesses for a new one.
LEMMA DemoteLockCurHeight ==
  ASSUME Inv, HeightInv, NEW u \in Threads, DemoteLockCur(u)
  PROVE  HeightInv'
<1> DEFINE L == l[u]
           sinks == Sinks(L.pred, L.cur, L.h, L.key, L.curAccess) /\ node[L.pred].next[L.h] = L.cur
<1>0. DOMAIN L = Fields /\ WalkOK(node, Off, zeroLevel, u, L) /\ NodesOK(node, zeroLevel) /\ zeroLevel \in Int
  BY Start
<1>1. L.pc = "d_cur" /\ node[L.cur].lock = Nobody
  BY DEF DemoteLockCur, At, Free
<1>2. /\ L.pred \in DOMAIN node /\ L.cur \in DOMAIN node \ {head, tail} /\ L.h \in Levels
      /\ Demoting(node, Off, zeroLevel, u, L)
  BY <1>0, <1>1, WalkPlaces DEF WalkOK, DemoteOK, OnLevel
<1>3. node[L.pred].zeroLevel <= L.h /\ node[L.cur].zeroLevel <= L.h
  BY <1>2 DEF Demoting, Walking, PredOK
<1>4. \A m \in DOMAIN node : DOMAIN node[m] = NodeFields
  BY <1>0, NodeTypes
<1>5. CASE sinks
  <2> DEFINE M == [L EXCEPT !.pc = "d_zero"]
             nodes == [node EXCEPT ![L.cur].lock = u]
  <2>1. Do(u, nodes, M)
    BY <1>5 DEF DemoteLockCur
  <2>2. M.curAccess = L.curAccess /\ M.pc = "d_zero" /\ M.h = L.h
    BY <1>0 DEF Fields
  <2>3. L.curAccess \in Int
    BY DEF HeightInv, AccessInv
  <2>4. L.h = zeroLevel => 2^(MAX_LEVEL - 1 - L.h) <= L.curAccess
    BY <1>1, <1>2, <1>3, <1>5, <2>3, SinksOpens
  <2> HIDE DEF M
  <2>5. Mild(u, M) /\ node' = nodes
    BY <1>1, <2>1, <2>2, <2>4 DEF Mild, Do
  <2>6. \A m \in DOMAIN node : /\ nodes[m].selfhits = node[m].selfhits /\ nodes[m].hits = node[m].hits
                               /\ nodes[m].zeroLevel = node[m].zeroLevel
    BY <1>4 DEF NodeFields
  <2> QED
    BY <2>5, <2>6, LevelStep
<1>6. CASE ~sinks
  <2> DEFINE b == IF L.pred # L.predpred THEN Nobody ELSE node[L.pred].lock
  <2>1. Do(u, [node EXCEPT ![L.pred]["lock"] = b], [L EXCEPT !.pc = "d_next"])
    BY <1>6 DEF DemoteLockCur
  <2> HIDE DEF b
  <2> QED
    BY <1>1, <1>2, <2>1, PlainHeight
<1> QED
  BY <1>5, <1>6

\* A new bottom level: the accesses are worth it, and no node has hits there yet.
LEMMA DemoteZeroHeight ==
  ASSUME Inv, HeightInv, NEW u \in Threads, DemoteZero(u)
  PROVE  HeightInv'
<1> DEFINE L == l[u]
           M == [L EXCEPT !.pc = "d_low"]
<1>0. /\ DOMAIN l = Threads /\ DOMAIN L = Fields /\ zeroLevel \in Int /\ 0 <= zeroLevel /\ zeroLevel < MAX_LEVEL
      /\ MAX_LEVEL \in Int /\ NodesOK(node, zeroLevel)
  BY Start
<1>1. /\ L.pc = "d_zero" /\ node' = node /\ accessCounter' = accessCounter /\ l' = [l EXCEPT ![u] = M]
  BY DEF DemoteZero, At
<1>2. zeroLevel' = IF L.h = L.curZeroLevel2 /\ zeroLevel = L.curZeroLevel2 THEN zeroLevel - 1 ELSE zeroLevel
  BY SMTT(30) DEF DemoteZero
<1>3. M.curAccess = L.curAccess /\ M.pc = "d_low"
  BY <1>0 DEF Fields
<1> HIDE DEF M
<1>4. CASE zeroLevel' = zeroLevel
  <2>1. Mild(u, M)
    BY <1>1, <1>3, <1>4 DEF Mild
  <2> QED
    BY <1>1, <2>1, LevelStep
<1>5. CASE zeroLevel' = zeroLevel - 1 /\ L.h = zeroLevel
  <2>1. /\ accessCounter \in Nat /\ L.curAccess \in Int /\ L.curAccess <= accessCounter
        /\ 2^(MAX_LEVEL - 1 - zeroLevel) <= L.curAccess
    BY <1>1, <1>5 DEF HeightInv, AccessInv
  <2>2. MAX_LEVEL - 2 - zeroLevel' = MAX_LEVEL - 1 - zeroLevel /\ 2^(MAX_LEVEL - 1 - zeroLevel) \in Int
    BY <1>0, <1>5
  <2>3. HeightBound'
    BY <1>1, <2>1, <2>2 DEF HeightBound
  <2>4. HitsInv'
    <3>1. \A n \in DOMAIN node : node[n].zeroLevel # zeroLevel'
      BY <1>0, <1>5, NodeTypes
    <3> QED
      BY <1>1, <3>1 DEF HeightInv, HitsInv, Nodes
  <2>5. l'[u] = M /\ \A t \in Threads \ {u} : l'[t] = l[t]
    BY <1>0, <1>1
  <2>6. SelfInv'
    <3> SUFFICES ASSUME NEW n \in DOMAIN node \ {head, tail}
                 PROVE  node[n].selfhits >= 1 \/ \E t \in Threads : l'[t].pc = "i_count" /\ l'[t].cur = n
      BY <1>1 DEF SelfInv, Nodes
    <3>1. node[n].selfhits >= 1 \/ \E t \in Threads : l[t].pc = "i_count" /\ l[t].cur = n
      BY DEF HeightInv, SelfInv, Nodes
    <3> QED
      BY <1>1, <2>5, <3>1
  <2>7. AccessInv'
    <3> SUFFICES ASSUME NEW t \in Threads
                 PROVE  /\ l'[t].curAccess \in Int /\ l'[t].curAccess <= accessCounter
                        /\ ~(l'[t].pc = "d_zero" /\ l'[t].h = zeroLevel')
      BY <1>1 DEF AccessInv
    <3>1. CASE t = u
      BY <1>3, <2>1, <2>5, <3>1
    <3>2. CASE t # u
      <4>1. l[t].pc = "d_zero" => l[t].h \in Int /\ zeroLevel <= l[t].h
        BY WalkPlaces DEF OnLevel
      <4>2. l[t].curAccess \in Int /\ l[t].curAccess <= accessCounter
        BY DEF HeightInv, AccessInv
      <4> QED
        BY <1>0, <1>5, <2>5, <3>2, <4>1, <4>2
    <3> QED
      BY <3>1, <3>2
  <2>8. accessCounter' \in Nat
    BY <1>1, <2>1
  <2> QED
    BY <2>3, <2>4, <2>6, <2>7, <2>8 DEF HeightInv
<1> QED
  BY <1>0, <1>2, <1>4, <1>5

\* The access is counted.
LEMMA UpdateEnterHeight ==
  ASSUME Inv, HeightInv, NEW u \in Threads, UpdateEnter(u)
  PROVE  HeightInv'
<1> DEFINE R == [node[head] EXCEPT !.lock = u, !.hits[MAX_LEVEL] = @ + 1]
           M == [l[u] EXCEPT !.pc = "u_level", !.curAccess = accessCounter', !.pred = head, !.h = MAX_LEVEL - 1]
<1>0. /\ DOMAIN l = Threads /\ DOMAIN l[u] = Fields /\ zeroLevel \in Int /\ 0 <= zeroLevel /\ zeroLevel < MAX_LEVEL
      /\ MAX_LEVEL \in Int /\ NodesOK(node, zeroLevel)
  BY Start
<1>1. l[u].pc = "u_enter" /\ accessCounter' = accessCounter + 1 /\ zeroLevel' = zeroLevel
  BY DEF UpdateEnter, At
<1>2. head \in DOMAIN node /\ NodeOK(node, zeroLevel, head) /\ zeroLevel \in Levels /\ MAX_LEVEL \in Levels
  <2>1. head \in DOMAIN node
    BY <1>0, NodeTypes
  <2>2. zeroLevel \in Levels /\ MAX_LEVEL \in Levels
    BY <1>0 DEF Levels
  <2> QED
    BY <1>0, <2>1, <2>2 DEF NodesOK
<1>3. node' = [node EXCEPT ![head] = R]
  BY <1>2 DEF UpdateEnter
<1>4. l' = [l EXCEPT ![u] = M]
  BY <1>0 DEF UpdateEnter
<1>5. M.pc = "u_level" /\ M.curAccess = accessCounter'
  BY <1>0 DEF Fields
<1> HIDE DEF M
<1>6. Hit(node, R, head, zeroLevel)
  <2> DEFINE v == node[head].hits[MAX_LEVEL] + 1
  <2>1. R.selfhits = node[head].selfhits /\ R.zeroLevel = node[head].zeroLevel
        /\ R.hits = [node[head].hits EXCEPT ![MAX_LEVEL] = v]
    BY <1>2 DEF NodeOK, NodeFields
  <2>2. /\ node[head].selfhits \in Int /\ node[head].hits \in [Levels -> Int] /\ v \in Int
        /\ MAX_LEVEL # zeroLevel
    BY <1>0, <1>2 DEF NodeOK
  <2> HIDE DEF R, v
  <2> QED
    BY <1>2, <2>1, <2>2, HitSet
<1> HIDE DEF R
<1>7. Replaced(node, node', head, R)
  BY <1>2, <1>3 DEF Replaced
<1>8. Counted(node, node', zeroLevel)
  BY <1>6, <1>7, CountableNodes, OneCounted
<1>9. HitsInv'
  BY <1>1, <1>8, CountedHits DEF HeightInv
<1>10. accessCounter \in Nat
  BY DEF HeightInv
<1>11. l'[u] = M /\ \A t \in Threads \ {u} : l'[t] = l[t]
  BY <1>0, <1>4
<1>12. HeightBound'
  <2>1. 2^(MAX_LEVEL - 2 - zeroLevel) \in Int
    BY <1>0
  <2> QED
    BY <1>1, <1>10, <2>1 DEF HeightInv, HeightBound
<1>13. SelfInv'
  <2> SUFFICES ASSUME NEW n \in DOMAIN node \ {head, tail}
               PROVE  node'[n].selfhits >= 1 \/ \E t \in Threads : l'[t].pc = "i_count" /\ l'[t].cur = n
    BY <1>7 DEF SelfInv, Nodes, Replaced
  <2>1. node'[n] = node[n]
    BY <1>7 DEF Replaced
  <2>2. node[n].selfhits >= 1 \/ \E t \in Threads : l[t].pc = "i_count" /\ l[t].cur = n
    BY DEF HeightInv, SelfInv, Nodes
  <2> QED
    BY <1>1, <1>11, <2>1, <2>2
<1>14. AccessInv'
  <2> SUFFICES ASSUME NEW t \in Threads
               PROVE  /\ l'[t].curAccess \in Int /\ l'[t].curAccess <= accessCounter'
                      /\ l'[t].pc = "d_zero" /\ l'[t].h = zeroLevel => 2^(MAX_LEVEL - 1 - l'[t].h) <= l'[t].curAccess
    BY <1>1 DEF AccessInv
  <2>1. /\ l[t].curAccess \in Int /\ l[t].curAccess <= accessCounter
        /\ l[t].pc = "d_zero" /\ l[t].h = zeroLevel => 2^(MAX_LEVEL - 1 - l[t].h) <= l[t].curAccess
    BY DEF HeightInv, AccessInv
  <2>2. CASE t = u
    BY <1>1, <1>5, <1>10, <1>11, <2>2
  <2>3. CASE t # u
    BY <1>1, <1>10, <1>11, <2>1, <2>3
  <2> QED
    BY <2>2, <2>3
<1> QED
  BY <1>1, <1>9, <1>10, <1>12, <1>13, <1>14 DEF HeightInv

\* A new node has no hits yet, ...
LEMMA InsertLinkHeight ==
  ASSUME Inv, HeightInv, NEW u \in Threads, InsertLink(u)
  PROVE  HeightInv'
<1> DEFINE L == l[u]
           p == L.pred
           h == L.h
           k == L.key
           c == Cardinality(DOMAIN node)
           s == node[p].next[h]
           new == [createNode(h, k, Val(u)) EXCEPT !.next[h] = s, !.lock = u]
           M == [L EXCEPT !.pc = "i_count", !.cur = c]
<1>0. /\ DOMAIN l = Threads /\ DOMAIN L = Fields /\ zeroLevel \in Int /\ 0 <= zeroLevel /\ zeroLevel < MAX_LEVEL
      /\ MAX_LEVEL \in Int /\ NodesOK(node, zeroLevel) /\ zeroLevel \in Levels
  BY Start, SizeAssumption DEF Levels
<1>1. /\ L.pc = "i_link" /\ zeroLevel' = zeroLevel /\ accessCounter' = accessCounter
      /\ node' = [n \in DOMAIN node \cup {c} |->
                    CASE n = c -> new
                      [] n = p -> [node[n] EXCEPT !.next[h] = c]
                      [] OTHER -> node[n]]
  BY DEF InsertLink, At
<1>2. l' = [l EXCEPT ![u] = M]
  BY <1>0 DEF InsertLink
<1>3. M.pc = "i_count" /\ M.cur = c /\ M.curAccess = L.curAccess
  BY <1>0 DEF Fields
<1>4. c \notin DOMAIN node
  <2> HIDE DEF c
  <2>1. c = Cardinality(DOMAIN node)
    BY DEF c
  <2> QED
    BY <1>0, <2>1, Fresh
<1>5. p \in DOMAIN node /\ h \in Levels
  BY <1>1, WalkPlaces DEF OnLevel
<1>6. new.selfhits = 0 /\ new.hits = [i \in Levels |-> 0]
  <2> HIDE DEF h, k, s, p, L
  <2> QED
    BY DEF createNode
<1> HIDE DEF p, h, k, s, M, c, new
<1>7. /\ DOMAIN node' = DOMAIN node \cup {c} /\ node'[c] = new
      /\ \A n \in DOMAIN node : /\ node'[n].selfhits = node[n].selfhits /\ node'[n].hits = node[n].hits
                                /\ node'[n].zeroLevel = node[n].zeroLevel
  <2>1. DOMAIN node' = DOMAIN node \cup {c} /\ node'[c] = new
    BY <1>1, <1>4, <1>5
  <2>2. ASSUME NEW n \in DOMAIN node
        PROVE  /\ node'[n].selfhits = node[n].selfhits /\ node'[n].hits = node[n].hits
               /\ node'[n].zeroLevel = node[n].zeroLevel
    <3>1. DOMAIN node[n] = NodeFields /\ n # c
      BY <1>0, <1>4, NodeTypes
    <3>2. CASE n = p
      <4> DEFINE N == [node[n].next EXCEPT ![h] = c]
      <4>1. node'[n] = [node[n] EXCEPT !.next = N]
        BY <1>1, <3>1, <3>2
      <4> HIDE DEF N
      <4> QED
        BY <3>1, <4>1 DEF NodeFields
    <3>3. CASE n # p
      BY <1>1, <3>1, <3>3
    <3> QED
      BY <3>2, <3>3
  <2> QED
    BY <2>1, <2>2
<1>8. HitsInv'
  <2> SUFFICES ASSUME NEW n \in DOMAIN node \cup {c}
               PROVE  /\ node'[n].selfhits >= 0
                      /\ node'[n].zeroLevel = zeroLevel => node'[n].hits[zeroLevel] >= 0
    BY <1>1, <1>7 DEF HitsInv, Nodes
  <2>1. CASE n = c
    BY <1>0, <1>6, <1>7, <2>1
  <2>2. CASE n \in DOMAIN node
    BY <1>7, <2>2 DEF HeightInv, HitsInv, Nodes
  <2> QED
    BY <2>1, <2>2
<1>9. l'[u] = M /\ \A t \in Threads \ {u} : l'[t] = l[t]
  BY <1>0, <1>2
<1>10. SelfInv'
  <2> SUFFICES ASSUME NEW n \in DOMAIN node \cup {c}, n \notin {head, tail}
               PROVE  node'[n].selfhits >= 1 \/ \E t \in Threads : l'[t].pc = "i_count" /\ l'[t].cur = n
    BY <1>7 DEF SelfInv, Nodes
  <2>1. CASE n = c
    BY <1>3, <1>9, <2>1
  <2>2. CASE n \in DOMAIN node
    <3>1. node[n].selfhits >= 1 \/ \E t \in Threads : l[t].pc = "i_count" /\ l[t].cur = n
      BY <2>2 DEF HeightInv, SelfInv, Nodes
    <3> QED
      BY <1>1, <1>7, <1>9, <2>2, <3>1
  <2> QED
    BY <2>1, <2>2
<1>11. AccessInv'
  <2> SUFFICES ASSUME NEW t \in Threads
               PROVE  /\ l'[t].curAccess \in Int /\ l'[t].curAccess <= accessCounter
                      /\ l'[t].pc = "d_zero" /\ l'[t].h = zeroLevel => 2^(MAX_LEVEL - 1 - l'[t].h) <= l'[t].curAccess
    BY <1>1 DEF AccessInv
  <2>1. /\ l[t].curAccess \in Int /\ l[t].curAccess <= accessCounter
        /\ l[t].pc = "d_zero" /\ l[t].h = zeroLevel => 2^(MAX_LEVEL - 1 - l[t].h) <= l[t].curAccess
    BY DEF HeightInv, AccessInv
  <2> QED
    BY <1>3, <1>9, <2>1
<1>12. accessCounter' \in Nat /\ HeightBound'
  BY <1>1 DEF HeightInv, HeightBound
<1> QED
  BY <1>8, <1>10, <1>11, <1>12 DEF HeightInv

\* ... until its first access is counted.
LEMMA InsertCountHeight ==
  ASSUME Inv, HeightInv, NEW u \in Threads, InsertCount(u)
  PROVE  HeightInv'
<1> DEFINE L == l[u]
           q == L.predpred
           c == L.cur
           rises == node[q].next[L.h] = c /\ Ascends(q, L.h, L.curAccess)
           R == [node[c] EXCEPT !.selfhits = @ + 1]
           nd1 == [node EXCEPT ![c] = R]
           b == IF rises \/ q = L.pred THEN nd1[q].lock ELSE Nobody
           nd2 == [nd1 EXCEPT ![q].lock = b]
           M == [L EXCEPT !.pc = IF rises THEN "i_loop" ELSE "i_leave", !.curh = L.h]
<1>0. /\ DOMAIN l = Threads /\ DOMAIN L = Fields /\ zeroLevel \in Int /\ NodesOK(node, zeroLevel)
  BY Start
<1>1. /\ L.pc = "i_count" /\ zeroLevel' = zeroLevel /\ accessCounter' = accessCounter
      /\ l' = [l EXCEPT ![u] = M]
  BY SMTT(30) DEF InsertCount, At, Do
<1>2. node' = nd2
  <2>1. node' = [node EXCEPT ![c].selfhits = @ + 1,
                             ![q].lock = IF rises \/ q = L.pred THEN @ ELSE Nobody]
    BY DEF InsertCount, Do
  <2> QED
    BY <2>1, Zenon
<1>3. M.curAccess = L.curAccess /\ M.pc # "d_zero"
  <2> DEFINE w == IF rises THEN "i_loop" ELSE "i_leave"
  <2>1. w # "d_zero"
    OBVIOUS
  <2> HIDE DEF w
  <2> QED
    BY <1>0, <2>1 DEF Fields
<1>4. c \in DOMAIN node \ {head, tail} /\ q \in DOMAIN node
  BY <1>1, WalkPlaces DEF OnLevel
<1>5. \A m \in DOMAIN node : DOMAIN node[m] = NodeFields
  BY <1>0, NodeTypes
<1>6. Countable(node, zeroLevel)
  BY CountableNodes
<1>7. /\ R.selfhits = node[c].selfhits + 1 /\ R.hits = node[c].hits /\ R.zeroLevel = node[c].zeroLevel
      /\ DOMAIN R = NodeFields
  BY <1>4, <1>5 DEF NodeFields
<1> HIDE DEF R, b, M
<1>8. Hit(node, R, c, zeroLevel)
  BY <1>4, <1>6, <1>7 DEF Hit, Countable
<1>9. Replaced(node, nd1, c, R)
  BY <1>4 DEF Replaced
<1>10. Counted(node, nd1, zeroLevel) /\ Countable(nd1, zeroLevel)
  BY <1>6, <1>8, <1>9, OneCounted
<1>11. DOMAIN nd1 = DOMAIN node /\ nd1[c] = R /\ \A m \in DOMAIN node : DOMAIN nd1[m] = NodeFields
  BY <1>5, <1>7, <1>9 DEF Replaced
<1> HIDE DEF nd1
<1>12. /\ DOMAIN nd2 = DOMAIN nd1
       /\ \A m \in DOMAIN nd1 : /\ nd2[m].selfhits = nd1[m].selfhits /\ nd2[m].hits = nd1[m].hits
                                /\ nd2[m].zeroLevel = nd1[m].zeroLevel
  BY <1>11 DEF NodeFields
<1> HIDE DEF nd2
<1>13. Counted(nd1, nd2, zeroLevel)
  BY <1>10, <1>12, SameCounted
<1>14. Counted(node, node', zeroLevel)
  BY <1>2, <1>6, <1>10, <1>13, CountedTwice
<1>15. HitsInv'
  BY <1>1, <1>14, CountedHits DEF HeightInv
<1>16. l'[u] = M /\ \A t \in Threads \ {u} : l'[t] = l[t]
  BY <1>0, <1>1
<1>17. SelfInv'
  <2> SUFFICES ASSUME NEW n \in DOMAIN node \ {head, tail}
               PROVE  node'[n].selfhits >= 1 \/ \E t \in Threads : l'[t].pc = "i_count" /\ l'[t].cur = n
    BY <1>14 DEF SelfInv, Nodes, Counted
  <2>1. CASE n = c
    <3>1. node'[n].selfhits = node[n].selfhits + 1
      BY <1>2, <1>4, <1>7, <1>11, <1>12, <2>1
    <3>2. node[n].selfhits \in Int /\ node[n].selfhits >= 0
      BY <1>6 DEF Countable, HeightInv, HitsInv, Nodes
    <3> QED
      BY <3>1, <3>2
  <2>2. CASE n # c
    <3>1. node[n].selfhits >= 1 \/ \E t \in Threads : l[t].pc = "i_count" /\ l[t].cur = n
      BY DEF HeightInv, SelfInv, Nodes
    <3>2. node'[n].selfhits \in Int /\ node'[n].selfhits >= node[n].selfhits /\ node[n].selfhits \in Int
      BY <1>6, <1>14 DEF Countable, Counted, Hit
    <3>3. CASE node[n].selfhits >= 1
      BY <3>2, <3>3
    <3>4. CASE \E t \in Threads : l[t].pc = "i_count" /\ l[t].cur = n
      BY <1>16, <2>2, <3>4
    <3> QED
      BY <3>1, <3>3, <3>4
  <2> QED
    BY <2>1, <2>2
<1>18. AccessInv'
  <2> SUFFICES ASSUME NEW t \in Threads
               PROVE  /\ l'[t].curAccess \in Int /\ l'[t].curAccess <= accessCounter
                      /\ l'[t].pc = "d_zero" /\ l'[t].h = zeroLevel => 2^(MAX_LEVEL - 1 - l'[t].h) <= l'[t].curAccess
    BY <1>1 DEF AccessInv
  <2>1. /\ l[t].curAccess \in Int /\ l[t].curAccess <= accessCounter
        /\ l[t].pc = "d_zero" /\ l[t].h = zeroLevel => 2^(MAX_LEVEL - 1 - l[t].h) <= l[t].curAccess
    BY DEF HeightInv, AccessInv
  <2> QED
    BY <1>3, <1>16, <2>1
<1>19. accessCounter' \in Nat /\ HeightBound'
  BY <1>1 DEF HeightInv, HeightBound
<1> QED
  BY <1>15, <1>17, <1>18, <1>19 DEF HeightInv

\* The height stays below its bound in every step.
LEMMA HeightNext ==
  ASSUME Inv, HeightInv, [Next]_vars
  PROVE  HeightInv'
<1>0. Main \in Threads /\ Workers \subseteq Threads
  BY DEF Threads
<1>1. CASE PrefillNext \/ \E t \in Workers : Invoke(t)
  BY <1>0, <1>1, EnterHeight DEF PrefillNext, Invoke
<1>2. ASSUME NEW t \in Threads, Step(t) PROVE HeightInv'
  <2>1. CASE FindLevel(t) \/ FindRead(t) \/ FindCompare(t)
    BY <2>1, FindHeight
  <2>2. CASE \/ Found(t) \/ Miss(t) \/ Answer(t) \/ Revive(t) \/ Remove(t) \/ Swapped(t) \/ Reread(t)
             \/ UpdateReturn(t)
    BY <2>2, CallHeight
  <2>3. CASE FixZeroLevel(t) \/ UpdateEnter(t) \/ UpdateLevel(t) \/ UpdateCompare(t) \/ UpdateLeave(t)
    BY <2>3, FixHeight, UpdateEnterHeight, UpdateLevelHeight, UpdateCompareHeight, LeaveHeight
  <2>4. CASE WalkPeek(t) \/ WalkLock(t) \/ WalkTest(t) \/ WalkStep(t) \/ WalkExit(t)
    BY <2>4, WalkHeight, WalkLockHeight, WalkExitHeight
  <2>5. CASE PromoteLock(t) \/ PromoteLoop(t) \/ InsertLoop(t)
    BY <2>5, PromoteLockHeight, PromoteHeight
  <2>6. CASE DemoteLockPred(t) \/ DemoteLockCur(t) \/ DemoteZero(t) \/ DemoteLower(t)
    BY <2>6, DemotePredHeight, DemoteLockCurHeight, DemoteZeroHeight, DemoteLowerHeight
  <2>7. CASE DemoteUnlink(t) \/ DemoteNull(t) \/ DemoteTop(t) \/ DemoteNext(t)
    BY <2>7, DemoteUnlinkHeight, DemoteNullHeight, WalkHeight
  <2>8. CASE InsertLink(t) \/ InsertCount(t) \/ InsertLeave(t)
    BY <2>8, InsertLinkHeight, InsertCountHeight, InsertLeaveHeight
  <2> QED
    BY <1>2, <2>1, <2>2, <2>3, <2>4, <2>5, <2>6, <2>7, <2>8 DEF Step
<1>3. CASE Joined \/ UNCHANGED vars
  <2>1. UNCHANGED <<node, zeroLevel, accessCounter, l>>
    BY <1>3 DEF Joined, vars
  <2> QED
    BY <2>1 DEF HeightInv, HeightBound, HitsInv, SelfInv, AccessInv, Nodes
<1> QED
  BY <1>1, <1>2, <1>3 DEF Next

\* The height at first.
LEMMA HeightInit ==
  ASSUME Init
  PROVE  HeightInv
<1> DEFINE R(n) == [createNode(MAX_LEVEL - 1, IF n = head THEN minKey ELSE maxKey, NoValue)
                      EXCEPT !.topLevel = MAX_LEVEL,
                             !.next = [i \in Levels |-> IF n = head /\ i >= MAX_LEVEL - 1 THEN tail ELSE NULL]]
<1>1. /\ zeroLevel = MAX_LEVEL - 1 /\ DOMAIN node = {head, tail} /\ accessCounter = 0
      /\ \A n \in {head, tail} : node[n] = R(n)
  BY DEF Init
<1>2. zeroLevel \in Levels
  BY <1>1, SizeAssumption DEF Levels
<1>3. \A n \in {head, tail} : node[n].selfhits = 0 /\ node[n].hits = [i \in Levels |-> 0]
  <2>1. \A n \in {head, tail} : R(n).selfhits = 0 /\ R(n).hits = [i \in Levels |-> 0]
    BY DEF createNode
  <2> HIDE DEF R
  <2> QED
    BY <1>1, <2>1
<1>4. \A t \in Threads : l[t].curAccess = 0 /\ l[t].pc = "idle"
  BY DEF Init, Locals
<1> HIDE DEF R
<1>5. HitsInv /\ SelfInv
  BY <1>1, <1>2, <1>3 DEF HitsInv, SelfInv, Nodes
<1>6. AccessInv /\ HeightBound
  BY <1>1, <1>4 DEF AccessInv, HeightBound
<1> QED
  BY <1>1, <1>5, <1>6 DEF HeightInv

\* Accesses are only ever added, one at a time, and so are levels.
LEMMA CountersMove ==
  ASSUME [Next]_vars
  PROVE  /\ accessCounter' = accessCounter \/ accessCounter' = accessCounter + 1
         /\ zeroLevel' = zeroLevel \/ zeroLevel' = zeroLevel - 1
<1> DEFINE Goal == /\ accessCounter' = accessCounter \/ accessCounter' = accessCounter + 1
                   /\ zeroLevel' = zeroLevel \/ zeroLevel' = zeroLevel - 1
<1>1. CASE PrefillNext \/ \E t \in Workers : Invoke(t)
  BY <1>1 DEF PrefillNext, Invoke, Enter, list
<1>2. ASSUME NEW t \in Threads, Step(t) PROVE Goal
  <2>1. ASSUME NEW nodes, NEW L, Do(t, nodes, L) PROVE Goal
    BY <2>1 DEF Do
  <2>2. ASSUME NEW r, Return(t, r) PROVE Goal
    BY <2>2 DEF Return
  <2>3. ASSUME NEW v, NEW r, Store(t, v, r) PROVE Goal
    BY <2>3 DEF Store
  <2> HIDE DEF Goal
  <2>4. CASE FindLevel(t) \/ FindRead(t) \/ FindCompare(t) \/ FixZeroLevel(t)
    BY <2>1, <2>4 DEF FindLevel, FindRead, FindCompare, FixZeroLevel, Local, Goto
  <2>5. CASE Miss(t) \/ Answer(t) \/ Revive(t) \/ Remove(t) \/ Swapped(t) \/ Reread(t)
    BY <2>1, <2>2, <2>3, <2>5 DEF Miss, Answer, Revive, Remove, Swapped, Reread, Local, Goto
  <2>6. CASE Found(t)
    BY <2>6 DEF Found, list, Goal
  <2>7. CASE UpdateReturn(t)
    <3>1. (\E r : Return(t, r)) \/ UNCHANGED list
      BY <2>7 DEF UpdateReturn
    <3> QED
      BY <2>2, <3>1 DEF list, Goal
  <2>8. CASE UpdateEnter(t)
    BY <2>8 DEF UpdateEnter, Goal
  <2>9. CASE UpdateLevel(t) \/ UpdateCompare(t) \/ UpdateLeave(t)
    BY <2>1, <2>9, Zenon DEF UpdateLevel, UpdateCompare, UpdateLeave, Local, Goto
  <2>10. CASE WalkPeek(t) \/ WalkLock(t) \/ WalkTest(t) \/ WalkStep(t)
    BY <2>1, <2>10, Zenon DEF WalkPeek, WalkLock, WalkTest, WalkStep, Local, Goto
  <2>11. CASE WalkExit(t)
    <3>1. \E nodes, L : Do(t, nodes, L)
      BY <2>11, Zenon DEF WalkExit, Local
    <3> QED
      BY <2>1, <3>1, SMTT(30)
  <2>12. CASE PromoteLock(t) \/ PromoteLoop(t) \/ InsertLoop(t)
    BY <2>1, <2>12 DEF PromoteLock, PromoteLoop, InsertLoop, Local
  <2>13. CASE DemoteLockPred(t) \/ DemoteLockCur(t) \/ DemoteLower(t)
    BY <2>1, <2>13, Zenon DEF DemoteLockPred, DemoteLockCur, DemoteLower
  <2>14. CASE DemoteZero(t)
    BY <2>14, SMTT(30) DEF DemoteZero, Goal
  <2>15. CASE DemoteUnlink(t) \/ DemoteNull(t) \/ DemoteTop(t) \/ DemoteNext(t)
    BY <2>1, <2>15, Zenon DEF DemoteUnlink, DemoteNull, DemoteTop, DemoteNext, Local
  <2>16. CASE InsertLink(t)
    BY <2>16 DEF InsertLink, Goal
  <2>17. CASE InsertCount(t) \/ InsertLeave(t)
    BY <2>1, <2>17 DEF InsertCount, InsertLeave
  <2> QED
    BY <1>2, <2>4, <2>5, <2>6, <2>7, <2>8, <2>9, <2>10, <2>11, <2>12, <2>13, <2>14, <2>15, <2>16, <2>17 DEF Step
<1>3. CASE Joined \/ UNCHANGED vars
  BY <1>3 DEF Joined, vars
<1> QED
  BY <1>1, <1>2, <1>3 DEF Next

\* The bottom level is not below 0 while the accesses are left that a level takes.
LEMMA LevelsNext ==
  ASSUME Inv, [Next]_vars, HeightInv', AccessesLeft'
  PROVE  LevelsLeft'
<1>1. zeroLevel \in Int /\ 0 <= zeroLevel /\ MAX_LEVEL \in Int /\ MAX_LEVEL > 1
  BY SizeAssumption DEF Inv, ListInv
<1>2. zeroLevel' = zeroLevel \/ zeroLevel' = zeroLevel - 1
  BY CountersMove
<1> SUFFICES ASSUME zeroLevel' = -1 PROVE FALSE
  BY <1>1, <1>2 DEF LevelsLeft
<1>3. MAX_LEVEL - 2 - zeroLevel' = MAX_LEVEL - 1 /\ zeroLevel' # MAX_LEVEL - 1
  BY <1>1
<1>4. 2^(MAX_LEVEL - 1) <= accessCounter' /\ accessCounter' \in Nat
  BY <1>3 DEF HeightInv, HeightBound
<1>5. 2^(MAX_LEVEL - 1) \in Int /\ accessCounter' < 2^(MAX_LEVEL - 1)
  BY <1>1 DEF AccessesLeft
<1> QED
  BY <1>4, <1>5

\* The invariants hold as long as there are accesses left.
Safe == accessCounter \in Nat /\ (AccessesLeft => Inv /\ HeightInv)

LEMMA Invariance == Spec => []Safe
<1>1. Init => Safe
  BY InitInv, HeightInit DEF Safe, HeightInv
<1>2. Safe /\ [Next]_vars => Safe'
  <2> SUFFICES ASSUME Safe, [Next]_vars PROVE Safe'
    OBVIOUS
  <2>1. accessCounter' \in Nat /\ accessCounter <= accessCounter'
    BY CountersMove DEF Safe
  <2>2. ASSUME AccessesLeft' PROVE Inv' /\ HeightInv'
    <3>1. AccessesLeft
      <4>1. 2^(MAX_LEVEL - 1) \in Int /\ accessCounter \in Nat
        BY SizeAssumption DEF Safe
      <4> QED
        BY <2>1, <2>2, <4>1 DEF AccessesLeft
    <3>2. Inv /\ HeightInv
      BY <3>1 DEF Safe
    <3>3. HeightInv'
      BY <3>2, HeightNext
    <3>4. LevelsLeft'
      BY <2>2, <3>2, <3>3, LevelsNext
    <3> QED
      BY <3>2, <3>3, <3>4, NextInv
  <2> QED
    BY <2>1, <2>2 DEF Safe
<1> QED
  BY <1>1, <1>2, PTL DEF Spec

\* The list is never higher than the logarithm of the number of accesses, and its bottom level is
\* a level of the arrays next and hits: a level is opened only by a node that is not worth the one
\* it leaves, which takes an access for each of the nodes that a level could have.
THEOREM HeightBounded == Spec => [](AccessesLeft => HeightBound /\ LevelsLeft)
<1>1. Safe => (AccessesLeft => HeightBound /\ LevelsLeft)
  BY DEF Safe, HeightInv, Inv, ListInv, LevelsLeft
<1> QED
  BY <1>1, Invariance, PTL

\* A walk holds exactly the locks its place in update and updateWithInsert says, for any
\* number of threads, keys and calls.
THEOREM LocksHeld == Spec => [](AccessesLeft => HoldsItsLocks)
<1>1. Safe => (AccessesLeft => HoldsItsLocks)
  BY InvImplies DEF Safe
<1> QED
  BY <1>1, Invariance, PTL

\* No walk of update or updateWithInsert follows a NULL, though it passes nodes without their
\* locks, and the assert(0) at the end of insert is never reached.
THEOREM NoNull == Spec => [](AccessesLeft => NoNullDereference)
<1>1. Safe => (AccessesLeft => NoNullDereference)
  BY InvImplies DEF Safe
<1> QED
  BY <1>1, Invariance, PTL

\* Every node stays on the bottom level, once and in the order of the keys, whatever
\* promotions, demotions, insertions and lowerings are under way.
THEOREM BottomComplete == Spec => [](AccessesLeft => BottomLevelComplete)
<1>1. Safe => (AccessesLeft => BottomLevelComplete)
  BY InvImplies DEF Safe
<1> QED
  BY <1>1, Invariance, PTL
=============================================================================
