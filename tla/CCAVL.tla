------------------------------- MODULE CCAVL --------------------------------
(***************************************************************************)
(* The relaxed balanced tree of Bronson et al. as it is written in         *)
(* ds/bronson_pext_bst_occ/ccavl_impl.h.  Searches hold no lock: they go   *)
(* down hand over hand and validate each step against the version of the   *)
(* node they come from (changeOVL).  A rotation moves the version of the   *)
(* nodes that shrink; a removed key leaves a routing node, without a       *)
(* value, while it has two children.  Whoever damages the height or the    *)
(* balance of a node repairs it after its own change.                      *)
(*                                                                         *)
(* One action is one access to shared memory that another thread may race  *)
(* with: what the lock held protects is read together with the next such   *)
(* access, and locks are released with the last one.  A lock is taken in a *)
(* step that may also read and write what it protects.  Left and right are *)
(* symmetric in the code, and one action stands for both.                  *)
(***************************************************************************)
EXTENDS Integers, Sequences, FiniteSets, SequencesExt

CONSTANTS Threads,                   \* positive integers; 1 is main
          Keys, KEY_NEG_INFTY,
          OVL_BITS_BEFORE_OVERFLOW,  \* 8 in the code
          Scripts                    \* what the client may do: functions; thread t makes
                                     \* Len(s[t]) calls, the i-th one an operation
                                     \* <<op, key>> of s[t][i]; main makes its calls first

Operations == {"contains", "find", "insert", "insertIfAbsent", "erase"}

ASSUME ThreadsAssumption == Threads \subseteq Nat \ {0} /\ 1 \in Threads
ASSUME KeysAssumption == Keys \subseteq Int /\ \A k \in Keys : k > KEY_NEG_INFTY
ASSUME BitsAssumption == OVL_BITS_BEFORE_OVERFLOW \in Nat
ASSUME ScriptsAssumption == Scripts \subseteq [Threads -> Seq(SUBSET (Operations \X Keys))]

NULL == -1
NoValue == 0       \* the null pointer, as a value
Nobody == 0        \* the lock is free; else it names its owner
root == 0          \* the holder: the tree is its right child
main == 1

VARIABLES node,    \* the nodes, numbered in the order of their creation
          l,       \* local variables of the call each thread is in
          plan,    \* calls each thread still makes
          call,    \* the calls as their callers see them,
          dict     \* and the map that explains their answers: see Dictionary

vars == <<node, l, plan, call, dict>>
history == <<call, dict>>

rbnode_create(k, v, p) ==
  [key |-> k, value |-> v, left |-> NULL, right |-> NULL, parent |-> p,
   height |-> 1, changeOVL |-> 0, lock |-> Nobody]

\* stack: the node and version of each activation of attemptGet or attemptUpdate, the
\* holder first.  n, p: the node under repair and its parent.  c, inner: its taller child
\* on `side` and the child of c towards n; h: the height of the other child of n.
Locals ==
  [pc |-> "idle", op |-> "none", key |-> KEY_NEG_INFTY, stack |-> <<>>,
   child |-> NULL, ovl |-> 0, prev |-> NoValue, n |-> NULL, p |-> NULL, locked |-> FALSE,
   nL |-> NULL, nR |-> NULL, hN |-> 0, hL |-> 0, hR |-> 0, side |-> "none",
   c |-> NULL, inner |-> NULL, h |-> 0, writes |-> <<>>, damaged |-> NULL]

D == INSTANCE Dictionary WITH Values <- Threads

Init ==
  /\ node = [n \in {root} |-> rbnode_create(KEY_NEG_INFTY, NoValue, NULL)]
  /\ l = [t \in Threads |-> Locals]
  /\ plan \in Scripts
  /\ call = [t \in Threads |-> D!Answered(NoValue)]
  /\ dict = [k \in Keys |-> NoValue]

-----------------------------------------------------------------------------
(* Versions: two lock bits, a bit for unlinked nodes, a count of the times *)
(* the node has grown, which overflows into the count of the times it has  *)
(* shrunk.                                                                 *)

UnlinkedOVL == 1
GrowLock(v) == (v \div 2) % 2 = 1
ShrinkLock(v) == (v \div 4) % 2 = 1
OVLGrowCountShift == 3
OVLShrinkCountShift == OVLGrowCountShift + OVL_BITS_BEFORE_OVERFLOW

isChanging(v) == GrowLock(v) \/ ShrinkLock(v)
isUnlinked(v) == v = UnlinkedOVL
isShrinkingOrUnlinked(v) == ShrinkLock(v) \/ v % 2 = 1

\* They differ in more than the grow lock and the grow count.
hasShrunkOrUnlinked(v, w) ==
  \/ v % 2 # w % 2
  \/ ShrinkLock(v) # ShrinkLock(w)
  \/ v \div 2^OVLShrinkCountShift # w \div 2^OVLShrinkCountShift

beginGrow(v) == v + 2
beginShrink(v) == v + 4
endGrow(v) == v + 2^OVLGrowCountShift
endShrink(v) == v + 2^OVLShrinkCountShift

\* A fact of arithmetic, for the proofs, which know nothing of powers: shrinks are counted in a
\* field above the grow count, so the lock bits are out of its reach.
ASSUME ShiftAssumption ==
  /\ 2^OVLShrinkCountShift \in Nat
  /\ 2^OVLShrinkCountShift % 2^OVLGrowCountShift = 0

-----------------------------------------------------------------------------
At(t, p) == l[t].pc = p
Free(n) == node[n].lock = Nobody
Opposite(side) == IF side = "left" THEN "right" ELSE "left"
DirTo(k, n) == IF k < node[n].key THEN "left" ELSE "right"
height(n) == IF n = NULL THEN 0 ELSE node[n].height
Abs(x) == IF x < 0 THEN -x ELSE x
Maximum(x, y) == IF x > y THEN x ELSE y

\* The activation thread t is in, and the one that called it.
Top(t) == Last(l[t].stack)
Caller(t) == l[t].stack[Len(l[t].stack) - 1]
get_child(t) == node[Top(t).curr][DirTo(l[t].key, Top(t).curr)]

\* A step of t that leaves the nodes as `nodes` and its locals as L.
Do(t, nodes, L) ==
  /\ node' = nodes
  /\ l' = [l EXCEPT ![t] = L]
  /\ UNCHANGED <<plan, history>>

Local(t, L) == Do(t, node, L)
Goto(t, p) == Local(t, [l[t] EXCEPT !.pc = p])

\* The nodes with one lock more, and without those of t.
Locked(n, t) == [node EXCEPT ![n].lock = t]
Unlocked(nodes, t) ==
  [n \in DOMAIN nodes |-> IF nodes[n].lock = t THEN [nodes[n] EXCEPT !.lock = Nobody] ELSE nodes[n]]

\* Other threads start when main has filled the tree.
Invoke(t) ==
  /\ At(t, "idle") /\ plan[t] # <<>>
  /\ t # main => plan[main] = <<>> /\ At(main, "idle")
  /\ \E c \in Head(plan[t]) :
       /\ l' = [l EXCEPT ![t] = [Locals EXCEPT !.op = c[1], !.key = c[2], !.pc = "child",
                                               !.stack = <<[curr |-> root, ovl |-> 0]>>]]
       /\ call' = [call EXCEPT ![t] = D!Call(c[1], c[2], t)]
  /\ plan' = [plan EXCEPT ![t] = Tail(@)]
  /\ UNCHANGED <<node, dict>>

\* The call of t ends with the answer r; its locks are released.
Return(t, nodes, r) ==
  /\ node' = Unlocked(nodes, t)
  /\ l' = [l EXCEPT ![t] = Locals]
  /\ call' = [call EXCEPT ![t] = D!Answered(r)]
  /\ UNCHANGED <<plan, dict>>

\* The update of t takes effect: its key, which had the value r, has the value v.
Effect(t, v, r) ==
  /\ dict' = [dict EXCEPT ![l[t].key] = v]
  /\ call' = D!Witnessed(t, l[t].key, v, r)
  /\ UNCHANGED plan

-----------------------------------------------------------------------------
(* The way down: attemptGet and attemptUpdate, and getImpl and update for  *)
(* the holder, whose version never changes.                                *)

Reading(t) == l[t].op \in {"contains", "find"}
Shrunk(t) == hasShrunkOrUnlinked(Top(t).ovl, node[Top(t).curr].changeOVL)

\* Mutant of Retry: the activation itself tries again.
RetryHere(t) ==
  Do(t, Unlocked(node, t), [l[t] EXCEPT !.child = NULL, !.ovl = 0, !.pc = "child"])

\* SpecialRetry: the caller of the activation tries again.
Retry(t) ==
  Do(t, Unlocked(node, t), [l[t] EXCEPT !.stack = Front(@), !.child = NULL, !.ovl = 0, !.pc = "child"])

\* A search that meets the key takes its value however it got there.
ReadChild(t) ==
  LET child == get_child(t) IN
  /\ At(t, "child")
  /\ Local(t, [l[t] EXCEPT !.child = child,
                           !.pc = IF child = NULL \/ ~Reading(t) THEN "check"
                                  ELSE IF node[child].key = l[t].key THEN "value" ELSE "ovl"])

ReadValue(t) == At(t, "value") /\ Return(t, node, node[l[t].child].value)

\* Nobody is there, if the range of the node has not shrunk since it was entered.
CheckChild(t) ==
  LET L == l[t] IN
  /\ At(t, "check")
  /\ \/ Shrunk(t) /\ Retry(t)
     \/ ~Shrunk(t) /\ L.child # NULL /\ Goto(t, "ovl")
     \/ ~Shrunk(t) /\ L.child = NULL /\ (Reading(t) \/ L.op = "erase") /\ Return(t, node, NoValue)
     \/ ~Shrunk(t) /\ L.child = NULL /\ L.op \in {"insert", "insertIfAbsent"} /\ Goto(t, "lock")

\* After a wait and after a child that has changed a search validates, an update goes round.
Again(t) == Local(t, [l[t] EXCEPT !.child = NULL, !.ovl = 0,
                                  !.pc = IF Reading(t) THEN "valid" ELSE "child"])

ReadOVL(t) ==
  LET ovl == node[l[t].child].changeOVL IN
  /\ At(t, "ovl")
  /\ \/ ~isShrinkingOrUnlinked(ovl) /\ Local(t, [l[t] EXCEPT !.ovl = ovl, !.pc = "reread"])
     \/ isShrinkingOrUnlinked(ovl) /\ isChanging(ovl)
          /\ Local(t, [l[t] EXCEPT !.ovl = ovl, !.pc = "wait"])
     \/ isShrinkingOrUnlinked(ovl) /\ ~isChanging(ovl) /\ Again(t)

\* The loop never counts its tries: it spins until the version changes.
waitUntilChangeCompleted(t) ==
  At(t, "wait") /\ node[l[t].child].changeOVL # l[t].ovl /\ Again(t)

RereadChild(t) ==
  /\ At(t, "reread")
  /\ IF get_child(t) = l[t].child THEN Goto(t, "valid") ELSE Again(t)

\* Mutant of Descend: the step from the parent is not validated again.
DescendBlindly(t) ==
  LET L == l[t]
      arrived == ~Reading(t) /\ node[L.child].key = L.key
  IN
  /\ At(t, "valid")
  /\ IF L.child = NULL THEN Goto(t, "child")
     ELSE Local(t, [L EXCEPT !.stack = Append(@, [curr |-> L.child, ovl |-> L.ovl]),
                             !.child = NULL, !.ovl = 0,
                             !.pc = CASE ~arrived -> "child"
                                      [] arrived /\ L.op = "erase" -> "n_value"
                                      [] OTHER -> "n_lock"])

\* Both steps were valid just now: go on from the child, or update its node.
Descend(t) ==
  LET L == l[t]
      arrived == ~Reading(t) /\ node[L.child].key = L.key
  IN
  /\ At(t, "valid")
  /\ \/ Shrunk(t) /\ Retry(t)
     \/ ~Shrunk(t) /\ L.child = NULL /\ Goto(t, "child")
     \/ /\ ~Shrunk(t) /\ L.child # NULL
        /\ Local(t, [L EXCEPT !.stack = Append(@, [curr |-> L.child, ovl |-> L.ovl]),
                              !.child = NULL, !.ovl = 0,
                              !.pc = CASE ~arrived -> "child"
                                       [] arrived /\ L.op = "erase" -> "n_value"
                                       [] OTHER -> "n_lock"])

-----------------------------------------------------------------------------
(* Updates *)

\* The nodes with a new leaf under n.
setChild(n, t) ==
  LET c == Cardinality(DOMAIN node)
      dir == DirTo(l[t].key, n)
  IN [m \in DOMAIN node \cup {c} |->
        CASE m = c -> rbnode_create(l[t].key, t, n)
          [] m = n -> [node[m] EXCEPT ![dir] = c, !.lock = t]
          [] OTHER -> node[m]]

\* The insertion takes effect: attemptInsertIntoEmpty under the holder, or the insertion
\* of attemptUpdate.  The latter goes on to fixHeight_nl with the lock.
InsertLeaf(t) ==
  LET L == l[t]
      n == Top(t).curr
  IN
  /\ At(t, "lock") /\ Free(n)
  /\ \/ Shrunk(t) /\ Retry(t)
     \/ ~Shrunk(t) /\ get_child(t) # NULL /\ Local(t, [L EXCEPT !.pc = "child"])
     \/ /\ ~Shrunk(t) /\ get_child(t) = NULL
        /\ node' = IF n = root THEN Unlocked([setChild(n, t) EXCEPT ![n].height = 2], t)
                               ELSE setChild(n, t)
        /\ l' = [l EXCEPT ![t] = [L EXCEPT !.pc = IF n = root THEN "done" ELSE "c_left",
                                           !.stack = <<>>, !.n = n, !.locked = TRUE]]
        /\ Effect(t, t, NoValue)

\* An update that has nothing to repair returns.
Done(t) == At(t, "done") /\ Return(t, node, l[t].prev)

\* attemptNodeUpdate: a removal looks whether the node can be unlinked.
NodeValue(t) ==
  /\ At(t, "n_value")
  /\ IF node[Top(t).curr].value = NoValue THEN Return(t, node, NoValue) ELSE Goto(t, "n_left")

NodeLeft(t) ==
  /\ At(t, "n_left")
  /\ Goto(t, IF node[Top(t).curr].left = NULL THEN "n_plock" ELSE "n_right")

NodeRight(t) ==
  /\ At(t, "n_right")
  /\ Goto(t, IF node[Top(t).curr].right = NULL THEN "n_plock" ELSE "n_lock")

NodeLockParent(t) ==
  LET p == Caller(t).curr
      n == Top(t).curr
  IN
  /\ At(t, "n_plock") /\ Free(p)
  /\ IF isUnlinked(node[p].changeOVL) \/ node[n].parent # p THEN Retry(t)
     ELSE Do(t, Locked(p, t), [l[t] EXCEPT !.pc = "n_nlock", !.n = n, !.p = p])

\* attemptUnlink_nl, first half: the link to n is cut, under the locks of n and p.
CanUnlink(p, n) ==
  /\ n \in {node[p].left, node[p].right}
  /\ NULL \in {node[n].left, node[n].right}
Splice(n) == IF node[n].left # NULL THEN node[n].left ELSE node[n].right
CutLink(p, n, t) ==
  [Locked(n, t) EXCEPT ![p] = [@ EXCEPT ![IF node[p].left = n THEN "left" ELSE "right"] = Splice(n)]]
AfterCut(n) == IF Splice(n) = NULL THEN "k_ovl" ELSE "k_parent"

\* The removal takes effect.
NodeUnlink(t) ==
  LET L == l[t]
      prev == node[L.n].value
  IN
  /\ At(t, "n_nlock") /\ Free(L.n)
  /\ \/ prev = NoValue /\ Return(t, node, prev)
     \/ prev # NoValue /\ ~CanUnlink(L.p, L.n)
          /\ Do(t, Unlocked(node, t),
                [L EXCEPT !.stack = Front(@), !.n = NULL, !.p = NULL, !.pc = "child"])
     \/ /\ prev # NoValue /\ CanUnlink(L.p, L.n)
        /\ node' = CutLink(L.p, L.n, t)
        /\ l' = [l EXCEPT ![t] = [L EXCEPT !.prev = prev, !.pc = AfterCut(L.n)]]
        /\ Effect(t, NoValue, prev)

\* Mutant of UnlinkParent: the child keeps its parent link.
UnlinkParentKept(t) ==
  At(t, "k_parent") /\ Free(Splice(l[t].n)) /\ Goto(t, "k_ovl")

\* attemptUnlink_nl, second half.
UnlinkParent(t) ==
  LET L == l[t]
      splice == Splice(L.n)
  IN
  /\ At(t, "k_parent") /\ Free(splice)
  /\ Do(t, [node EXCEPT ![splice].parent = L.p], [L EXCEPT !.pc = "k_ovl"])

UnlinkOVL(t) ==
  /\ At(t, "k_ovl")
  /\ Do(t, [node EXCEPT ![l[t].n].changeOVL = UnlinkedOVL], [l[t] EXCEPT !.pc = "k_value"])

\* attemptNodeUpdate releases n, then both callers repair the height of the parent.
UnlinkValue(t) ==
  LET L == l[t]
      cleared == [node EXCEPT ![L.n].value = NoValue]
  IN
  /\ At(t, "k_value")
  /\ Do(t, IF L.stack # <<>> THEN [cleared EXCEPT ![L.n].lock = Nobody] ELSE cleared,
        [L EXCEPT !.n = L.p, !.p = NULL, !.locked = TRUE, !.stack = <<>>, !.pc = "c_left"])

\* Mutant of NodeUpdate: the children are not looked at again under the lock.
NodeUpdateBlindly(t) ==
  LET L == l[t]
      n == Top(t).curr
      prev == node[n].value
      new == IF L.op = "erase" THEN NoValue ELSE t
  IN
  /\ At(t, "n_lock") /\ Free(n)
  /\ IF isUnlinked(node[n].changeOVL) THEN Retry(t)
     ELSE IF \/ prev = NoValue /\ L.op = "erase"
             \/ prev # NoValue /\ L.op = "insertIfAbsent"
     THEN Return(t, node, prev)
     ELSE /\ node' = [node EXCEPT ![n].value = new]
          /\ l' = [l EXCEPT ![t] = [L EXCEPT !.stack = <<>>, !.prev = prev, !.pc = "done"]]
          /\ Effect(t, new, prev)

\* The update of a node that stays, under its lock.
NodeUpdate(t) ==
  LET L == l[t]
      n == Top(t).curr
      prev == node[n].value
      unlinkable == L.op = "erase" /\ NULL \in {node[n].left, node[n].right}
      new == IF L.op = "erase" THEN NoValue ELSE t
  IN
  /\ At(t, "n_lock") /\ Free(n)
  /\ \/ isUnlinked(node[n].changeOVL) /\ Retry(t)
     \/ /\ ~isUnlinked(node[n].changeOVL)
        /\ \/ L.op = "insertIfAbsent" /\ prev # NoValue /\ Return(t, node, prev)
           \/ unlinkable /\ Retry(t)
           \/ L.op = "erase" /\ ~unlinkable /\ prev = NoValue /\ Return(t, node, prev)
           \/ /\ ~unlinkable
              /\ L.op = "insertIfAbsent" => prev = NoValue
              /\ L.op = "erase" => prev # NoValue
              /\ node' = [node EXCEPT ![n].value = new]
              /\ l' = [l EXCEPT ![t] = [L EXCEPT !.stack = <<>>, !.prev = prev, !.pc = "done"]]
              /\ Effect(t, new, prev)

-----------------------------------------------------------------------------
(* Repairs: fixHeightAndRebalance, which looks at a node without locks,    *)
(* and fixHeight_nl, which has locked it, both through nodeCondition.      *)

UnlinkRequired == -1
RebalanceRequired == -2
NothingRequired == -3

\* The locals of a call that is about to look at n, with or without the lock.
LookAt(L, n, locked) ==
  [Locals EXCEPT !.op = L.op, !.key = L.key, !.prev = L.prev,
                 !.n = n, !.locked = locked, !.pc = "c_left"]

\* t releases its locks and goes on with the damaged node d; the holder is never repaired.
Repair(t, nodes, d) ==
  IF d \in {NULL, root} THEN Return(t, nodes, l[t].prev)
  ELSE Do(t, Unlocked(nodes, t), LookAt(l[t], d, FALSE))

\* t keeps its locks, that of n among them, and repairs the height of n.
fixHeight_nl(t, nodes, n) == Do(t, nodes, LookAt(l[t], n, TRUE))

Concluded(t, c) ==
  LET L == l[t] IN
  \/ ~L.locked /\ c = NothingRequired /\ Repair(t, node, NULL)
  \/ ~L.locked /\ c # NothingRequired /\ Local(t, [LookAt(L, L.n, FALSE) EXCEPT !.hN = c, !.pc = "r_ovl"])
  \/ L.locked /\ c = NothingRequired /\ Repair(t, node, NULL)
  \/ L.locked /\ c \in {UnlinkRequired, RebalanceRequired} /\ Repair(t, node, L.n)
  \/ L.locked /\ c >= 0 /\ Local(t, [LookAt(L, L.n, TRUE) EXCEPT !.hN = c, !.pc = "h_set"])

ConditionLeft(t) ==
  /\ At(t, "c_left")
  /\ Local(t, [l[t] EXCEPT !.nL = node[l[t].n].left, !.pc = "c_right"])

ConditionRight(t) ==
  LET nR == node[l[t].n].right IN
  /\ At(t, "c_right")
  /\ Local(t, [l[t] EXCEPT !.nR = nR, !.pc = IF NULL \in {l[t].nL, nR} THEN "c_value" ELSE "c_height"])

ConditionValue(t) ==
  /\ At(t, "c_value")
  /\ IF node[l[t].n].value = NoValue THEN Concluded(t, UnlinkRequired) ELSE Goto(t, "c_height")

ConditionHeight(t) ==
  /\ At(t, "c_height")
  /\ Local(t, [l[t] EXCEPT !.hN = node[l[t].n].height, !.pc = "c_hL"])

ConditionHL(t) ==
  /\ At(t, "c_hL")
  /\ Local(t, [l[t] EXCEPT !.hL = height(l[t].nL), !.pc = "c_hR"])

\* Mutant of ConditionHR: the balance of the children is not looked at.
ConditionNoBalance(t) ==
  LET L == l[t]
      hNRepl == 1 + Maximum(L.hL, height(L.nR))
  IN At(t, "c_hR") /\ Concluded(t, IF L.hN # hNRepl THEN hNRepl ELSE NothingRequired)

ConditionHR(t) ==
  LET L == l[t]
      hR == height(L.nR)
      hNRepl == 1 + Maximum(L.hL, hR)
  IN
  /\ At(t, "c_hR")
  /\ Concluded(t, CASE Abs(L.hL - hR) > 1 -> RebalanceRequired
                    [] Abs(L.hL - hR) <= 1 /\ L.hN # hNRepl -> hNRepl
                    [] OTHER -> NothingRequired)

\* fixHeight_nl stores the height and hands on the parent it reads then.
SetHeight(t) ==
  LET L == l[t] IN
  /\ At(t, "h_set")
  /\ Do(t, [node EXCEPT ![L.n].height = L.hN], [L EXCEPT !.pc = "h_parent"])

DamagedParent(t) == At(t, "h_parent") /\ Repair(t, node, node[l[t].n].parent)

\* fixHeightAndRebalance after nodeCondition: nothing can be done for an unlinked node, a
\* height is repaired under its lock, the rest needs the parent's lock too.
RepairKind(t) ==
  LET L == l[t] IN
  /\ At(t, "r_ovl")
  /\ \/ isUnlinked(node[L.n].changeOVL) /\ Repair(t, node, NULL)
     \/ ~isUnlinked(node[L.n].changeOVL) /\ L.hN >= 0 /\ Goto(t, "r_lock")
     \/ ~isUnlinked(node[L.n].changeOVL) /\ L.hN < 0 /\ Goto(t, "r_parent")

RepairHeight(t) ==
  At(t, "r_lock") /\ Free(l[t].n) /\ fixHeight_nl(t, Locked(l[t].n, t), l[t].n)

ReadParent(t) ==
  /\ At(t, "r_parent")
  /\ Local(t, [l[t] EXCEPT !.p = node[l[t].n].parent, !.pc = "r_plock"])

LockParent(t) ==
  LET L == l[t] IN
  /\ At(t, "r_plock") /\ Free(L.p)
  /\ IF ~isUnlinked(node[L.p].changeOVL) /\ node[L.n].parent = L.p
     THEN Do(t, Locked(L.p, t), [LookAt(L, L.n, FALSE) EXCEPT !.p = L.p, !.pc = "r_nlock"])
     ELSE Repair(t, node, L.n)

\* rebalance_nl: a routing node that has lost a child is unlinked.
LockNode(t) ==
  LET L == l[t]
      nodes == Locked(L.n, t)
      needless == NULL \in {node[L.n].left, node[L.n].right} /\ node[L.n].value = NoValue
  IN
  /\ At(t, "r_nlock") /\ Free(L.n)
  /\ \/ ~needless /\ Do(t, nodes, [L EXCEPT !.pc = "b_hL"])
     \/ needless /\ IF CanUnlink(L.p, L.n)
                    THEN Do(t, CutLink(L.p, L.n, t), [L EXCEPT !.pc = AfterCut(L.n)])
                    ELSE Repair(t, nodes, L.n)

BalanceLeft(t) ==
  At(t, "b_hL") /\ Local(t, [l[t] EXCEPT !.hL = height(node[l[t].n].left), !.pc = "b_hR"])

BalanceRight(t) ==
  LET L == l[t]
      hR == height(node[L.n].right)
      hNRepl == 1 + Maximum(L.hL, hR)
      side == IF L.hL > hR THEN "left" ELSE "right"
  IN
  /\ At(t, "b_hR")
  /\ \/ /\ Abs(L.hL - hR) > 1
        /\ Local(t, [LookAt(L, L.n, FALSE) EXCEPT
             !.p = L.p, !.side = side, !.c = node[L.n][side],
             !.h = IF L.hL > hR THEN hR ELSE L.hL, !.pc = "t_lock"])
     \/ /\ Abs(L.hL - hR) <= 1 /\ hNRepl # node[L.n].height
        /\ Local(t, [L EXCEPT !.hN = hNRepl, !.pc = "b_set"])
     \/ Abs(L.hL - hR) <= 1 /\ hNRepl = node[L.n].height /\ Repair(t, node, NULL)

BalanceHeight(t) ==
  LET L == l[t] IN
  At(t, "b_set") /\ fixHeight_nl(t, [node EXCEPT ![L.n].height = L.hN], L.p)

-----------------------------------------------------------------------------
(* Rotations: rebalanceToRight_nl (side = "left") and rebalanceToLeft_nl.  *)

\* c is locked: if it is no longer too tall, n is looked at again.
Toward(t, nodes, L) ==
  IF nodes[L.c].height - L.h <= 1 THEN Repair(t, nodes, L.n)
  ELSE Do(t, nodes, [L EXCEPT !.inner = nodes[L.c][Opposite(L.side)], !.pc = "t_hL"])

LockTaller(t) == At(t, "t_lock") /\ Free(l[t].c) /\ Toward(t, Locked(l[t].c, t), l[t])

\* The heights of the children of c, away from n and towards n.
Outer(L) == IF L.side = "left" THEN L.hL ELSE L.hR
Inner(L) == IF L.side = "left" THEN L.hR ELSE L.hL

\* The link from the parent of n leads to m.
Relink(L, m) == <<L.p, IF node[L.p].left = L.n THEN "left" ELSE "right", m>>
Reparent(m, p) == IF m = NULL THEN <<>> ELSE <<<<m, "parent", p>>>>

\* rotateRight_nl and rotateLeft_nl: the stores in their order, and the damaged node to go on
\* with, NULL if that is up to fixHeight_nl of the parent.  hI is the height of inner.
Rotation(L, hI) ==
  LET n == L.n  c == L.c  inner == L.inner
      hNRepl == 1 + Maximum(hI, L.h)
      nOVL == node[n].changeOVL
      cOVL == node[c].changeOVL
  IN [L EXCEPT
       !.writes = << <<n, "changeOVL", beginShrink(nOVL)>>, <<c, "changeOVL", beginGrow(cOVL)>>,
                     <<n, L.side, inner>>, <<c, Opposite(L.side), n>>, Relink(L, c),
                     <<c, "parent", L.p>>, <<n, "parent", c>> >> \o Reparent(inner, n) \o
                  << <<n, "height", hNRepl>>, <<c, "height", 1 + Maximum(Outer(L), hNRepl)>>,
                     <<c, "changeOVL", endGrow(cOVL)>>, <<n, "changeOVL", endShrink(nOVL)>> >>,
       !.damaged = CASE Abs(hI - L.h) > 1 -> n
                     [] Abs(hI - L.h) <= 1 /\ Abs(Outer(L) - hNRepl) > 1 -> c
                     [] OTHER -> NULL,
       !.pc = "write"]

\* rotateRightOverLeft_nl and rotateLeftOverRight_nl.  hF and hT are the heights of the
\* children of inner, away from n and towards n.
DoubleRotation(L, hF, hT) ==
  LET n == L.n  c == L.c  inner == L.inner
      far == node[inner][L.side]
      near == node[inner][Opposite(L.side)]
      hNRepl == 1 + Maximum(hT, L.h)
      hCRepl == 1 + Maximum(Outer(L), hF)
      nOVL == node[n].changeOVL
      cOVL == node[c].changeOVL
      iOVL == node[inner].changeOVL
  IN [L EXCEPT
       !.writes = << <<n, "changeOVL", beginShrink(nOVL)>>, <<c, "changeOVL", beginShrink(cOVL)>>,
                     <<inner, "changeOVL", beginGrow(iOVL)>>,
                     <<n, L.side, near>>, <<c, Opposite(L.side), far>>,
                     <<inner, L.side, c>>, <<inner, Opposite(L.side), n>>, Relink(L, inner),
                     <<inner, "parent", L.p>>, <<c, "parent", inner>>, <<n, "parent", inner>> >>
                  \o Reparent(near, n) \o Reparent(far, c) \o
                  << <<n, "height", hNRepl>>, <<c, "height", hCRepl>>,
                     <<inner, "height", 1 + Maximum(hCRepl, hNRepl)>>,
                     <<inner, "changeOVL", endGrow(iOVL)>>, <<c, "changeOVL", endShrink(cOVL)>>,
                     <<n, "changeOVL", endShrink(nOVL)>> >>,
       !.damaged = CASE Abs(hT - L.h) > 1 -> n
                     [] Abs(hT - L.h) <= 1 /\ Abs(hCRepl - hNRepl) > 1 -> inner
                     [] OTHER -> NULL,
       !.pc = "write"]

TallerLeft(t) ==
  At(t, "t_hL") /\ Local(t, [l[t] EXCEPT !.hL = height(node[l[t].c].left), !.pc = "t_hR"])

TallerRight(t) ==
  LET L == [l[t] EXCEPT !.hR = height(node[l[t].c].right)] IN
  /\ At(t, "t_hR")
  /\ Local(t, IF L.inner = NULL THEN Rotation(L, 0) ELSE [L EXCEPT !.pc = "t_inner"])

\* Mutant of LockInner: the lock is not taken.
LockInnerNot(t) ==
  LET L == l[t] IN
  /\ At(t, "t_inner")
  /\ Local(t, IF Outer(L) >= Inner(L) THEN Rotation(L, Inner(L)) ELSE [L EXCEPT !.pc = "t_far"])

\* The height of inner may have changed before it was locked.
LockInner(t) ==
  LET L == l[t]
      hI == node[L.inner].height
      nodes == Locked(L.inner, t)
  IN
  /\ At(t, "t_inner") /\ Free(L.inner)
  /\ Do(t, nodes, CASE Outer(L) >= Inner(L) -> Rotation(L, Inner(L))
                    [] Outer(L) < Inner(L) /\ Outer(L) >= hI -> Rotation(L, hI)
                    [] OTHER -> [L EXCEPT !.pc = "t_far"])

\* A double rotation, unless it would leave c damaged: then c is rotated on its own.
InnerFar(t) ==
  LET L == l[t]
      hF == height(node[L.inner][L.side])
  IN
  /\ At(t, "t_far")
  /\ IF Abs(Outer(L) - hF) <= 1 THEN Local(t, [L EXCEPT !.hN = hF, !.pc = "t_near"])
     ELSE Toward(t, node, [LookAt(L, L.c, FALSE) EXCEPT
                             !.p = L.n, !.side = Opposite(L.side), !.c = L.inner, !.h = Outer(L)])

InnerNear(t) ==
  LET L == l[t] IN
  /\ At(t, "t_near")
  /\ Local(t, DoubleRotation(L, L.hN, height(node[L.inner][Opposite(L.side)])))

\* The rotation makes one store after the other.
Write(t) ==
  LET L == l[t]
      w == Head(L.writes)
      nodes == [node EXCEPT ![w[1]] = [@ EXCEPT ![w[2]] = w[3]]]
  IN
  /\ At(t, "write")
  /\ \/ Len(L.writes) > 1 /\ Do(t, nodes, [L EXCEPT !.writes = Tail(@)])
     \/ Len(L.writes) = 1 /\ L.damaged # NULL /\ Repair(t, nodes, L.damaged)
     \/ Len(L.writes) = 1 /\ L.damaged = NULL /\ fixHeight_nl(t, nodes, L.p)

-----------------------------------------------------------------------------
Search(t) ==
  \/ ReadChild(t) \/ ReadValue(t) \/ CheckChild(t) \/ ReadOVL(t)
  \/ waitUntilChangeCompleted(t) \/ RereadChild(t) \/ Descend(t)

Update(t) ==
  \/ InsertLeaf(t) \/ Done(t)
  \/ NodeValue(t) \/ NodeLeft(t) \/ NodeRight(t) \/ NodeLockParent(t) \/ NodeUnlink(t)
  \/ UnlinkParent(t) \/ UnlinkOVL(t) \/ UnlinkValue(t) \/ NodeUpdate(t)

nodeCondition(t) ==
  \/ ConditionLeft(t) \/ ConditionRight(t) \/ ConditionValue(t)
  \/ ConditionHeight(t) \/ ConditionHL(t) \/ ConditionHR(t)

fixHeightAndRebalance(t) ==
  \/ SetHeight(t) \/ DamagedParent(t) \/ RepairKind(t) \/ RepairHeight(t)
  \/ ReadParent(t) \/ LockParent(t) \/ LockNode(t)
  \/ BalanceLeft(t) \/ BalanceRight(t) \/ BalanceHeight(t)

Rotate(t) ==
  \/ LockTaller(t) \/ TallerLeft(t) \/ TallerRight(t) \/ LockInner(t)
  \/ InnerFar(t) \/ InnerNear(t) \/ Write(t)

Step(t) == Search(t) \/ Update(t) \/ nodeCondition(t) \/ fixHeightAndRebalance(t) \/ Rotate(t)

\* The clients have made all their calls.
Quiet == \A t \in Threads : At(t, "idle")
Finished == Quiet /\ (\A t \in Threads : plan[t] = <<>>) /\ UNCHANGED vars

Next == (\E t \in Threads : Invoke(t) \/ Step(t)) \/ Finished

Spec == Init /\ [][Next]_vars

\* As long as a thread can run one does.  Spinning on a lock or a version is not a step, so
\* that a loop that goes round without the help of another thread would show as a livelock.
FairSpec == Spec /\ WF_vars(\E t \in Threads : Invoke(t) \/ Step(t))

-----------------------------------------------------------------------------
(* Properties *)

Linked == {n \in DOMAIN node : n # root /\ node[n].changeOVL # UnlinkedOVL}

\* The comment of waitUntilChangeCompleted: nobody gets the lock of a node before its change
\* is over (ccavl_impl.h, waitUntilChangeCompleted and the assertions of beginGrow).
ChangesUnderLock ==
  \A n \in DOMAIN node : isChanging(node[n].changeOVL) => node[n].lock # Nobody

\* The fields of a node that its lock protects; parent links are not among them.
Protected == {"left", "right", "height", "value", "changeOVL"}

\* What a thread has locked it may rely on: no step of another thread changes the children, the
\* height, the value or the version of the node (fixHeight_nl, rebalance_nl, the rotations
\* and attemptUnlink_nl, which read them again or use what they have read before).
OwnerChanges ==
  [][\A n \in DOMAIN node : LET t == node[n].lock IN
       t # Nobody /\ l'[t] = l[t] => \A f \in Protected : node'[n][f] = node[n][f]]_vars

\* When no call is under way the nodes that are not unlinked form a binary search tree
\* with the contents of the map, whose parent links match the child links.
SearchTreeWhenQuiet ==
  Quiet =>
    /\ \A k \in Keys : LET holding == {n \in Linked : node[n].key = k} IN
         IF holding = {} THEN dict[k] = NoValue ELSE {node[n].value : n \in holding} = {dict[k]}
    /\ \A n \in Linked : n \in {node[node[n].parent].left, node[node[n].parent].right}
    /\ \A n \in Linked \cup {root} : \A s \in {"left", "right"} :
         LET c == node[n][s] IN
         c # NULL => c \in Linked /\ node[c].parent = n /\ DirTo(node[c].key, n) = s

Balanced(n) ==
  LET hL == height(node[n].left)
      hR == height(node[n].right)
  IN node[n].height = 1 + Maximum(hL, hR) /\ Abs(hL - hR) <= 1
Needless(n) == NULL \in {node[n].left, node[n].right} /\ node[n].value = NoValue

\* When no call is under way the repairs are complete: heights are exact, and siblings
\* differ by at most one ("any thread that changes a node promises to fix it", nodeCondition).
BalancedWhenQuiet == Quiet => \A n \in Linked : Balanced(n)

\* After each call of a thread that works alone this is so, and no routing node has a
\* free side: its rotations are those of an AVL tree.
BalancedWhenAlone ==
  Quiet /\ plan[main] # <<>> => \A n \in Linked : Balanced(n) /\ ~Needless(n)

\* No routing node is left behind with a free side: of the two threads that empty its sides
\* and its value, the later one unlinks it (attemptNodeUpdate, fixHeight_nl, rebalance_nl).
NoNeedlessWhenQuiet == Quiet => \A n \in Linked : ~Needless(n)

\* Every call takes effect at one instant between its invocation and its return.
ImplementsDictionary == D!Spec

\* Every call returns: no search spins forever, no repair retries forever.
EveryCallReturns == \A t \in Threads : (call[t].op # "none") ~> (call[t].op = "none")
=============================================================================
