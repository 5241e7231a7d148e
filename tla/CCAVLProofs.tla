----------------------------- MODULE CCAVLProofs ----------------------------
(***************************************************************************)
(* What the locks of the relaxed balanced tree protect, for any number of  *)
(* threads, keys and calls.                                                *)
(*                                                                         *)
(* Only the owner of its lock changes a node's children, height, value and *)
(* version.  A version is changing only while a rotation is under way that *)
(* holds the lock of the node, and has still to make the store that ends   *)
(* the change.  That the nodes a call has locked exist, and that it never  *)
(* follows a NULL, is part of the invariant: a repair that took a height   *)
(* before it has locked the child it belongs to relies on the lock of the  *)
(* parent for the child to be there.                                       *)
(***************************************************************************)
EXTENDS CCAVL, FiniteSetTheorems, TLAPS

NodeFields == {"key", "value", "left", "right", "parent", "height", "changeOVL", "lock"}
Fields == {"pc", "op", "key", "stack", "child", "ovl", "prev", "n", "p", "locked", "nL", "nR",
           "hN", "hL", "hR", "side", "c", "inner", "h", "writes", "damaged"}

\* What a link to a child may be.
Children(nd) == (DOMAIN nd \ {root}) \cup {NULL}

NodeOK(nd, n) ==
  /\ DOMAIN nd[n] = NodeFields
  /\ nd[n].left \in Children(nd) /\ nd[n].right \in Children(nd)
  /\ nd[n].parent \in IF n = root THEN {NULL} ELSE DOMAIN nd
  /\ nd[n].height \in Nat /\ nd[n].changeOVL \in Nat
  /\ nd[n].lock \in Threads \cup {Nobody}

NodesOK(nd) ==
  /\ \E k \in Nat : k > 0 /\ DOMAIN nd = 0 .. k - 1
  /\ nd[root].changeOVL = 0
  /\ \A n \in DOMAIN nd : NodeOK(nd, n)

-----------------------------------------------------------------------------
(* What a call relies on, by its place.  L are its locals. *)

Has(nd, t, n) == n \in DOMAIN nd /\ nd[n].lock = t

Frames(nd) == [curr : DOMAIN nd, ovl : Nat]
StackOK(nd, s) ==
  /\ s \in Seq(Frames(nd)) /\ Len(s) > 0
  /\ s[1].curr = root /\ s[1].ovl = 0
  /\ \A i \in 2 .. Len(s) : s[i].curr # root

\* The way down, and an update that has found its node.
OnWay == {"child", "value", "check", "ovl", "wait", "reread", "valid", "lock"}
AtNode == {"n_value", "n_left", "n_right", "n_plock", "n_nlock", "n_lock"}

SearchOK(nd, t, L) ==
  /\ L.pc \in OnWay \cup AtNode => StackOK(nd, L.stack) /\ L.child \in Children(nd) /\ L.ovl \in Nat
  /\ L.pc \in {"value", "ovl", "wait", "reread"} => L.child # NULL
  /\ L.pc \in AtNode => Len(L.stack) > 1

UnlinkOK(nd, t, L) ==
  /\ L.pc \in {"n_nlock", "k_parent", "k_ovl", "k_value"} =>
       L.n \in DOMAIN nd \ {root} /\ Has(nd, t, L.p)
  /\ L.pc \in {"k_parent", "k_ovl", "k_value"} => Has(nd, t, L.n) /\ L.n # L.p
  /\ L.pc = "k_parent" => nd[L.n].left # NULL \/ nd[L.n].right # NULL

ConditionOK(nd, t, L) ==
  /\ L.pc \in {"c_left", "c_right", "c_value", "c_height", "c_hL", "c_hR"} =>
       /\ L.locked \in BOOLEAN
       /\ IF L.locked THEN Has(nd, t, L.n) ELSE L.n \in DOMAIN nd \ {root}
  /\ L.pc \in {"c_right", "c_value", "c_height", "c_hL", "c_hR"} => L.nL \in Children(nd)
  /\ L.pc \in {"c_value", "c_height", "c_hL", "c_hR"} => L.nR \in Children(nd)
  /\ L.pc = "c_hR" => L.hL \in Nat
  /\ L.pc \in {"h_set", "h_parent"} => Has(nd, t, L.n)
  /\ L.pc = "h_set" => L.hN \in Nat

Turning == {"t_lock", "t_hL", "t_hR", "t_inner", "t_far", "t_near"}

RepairOK(nd, t, L) ==
  /\ L.pc \in {"r_ovl", "r_lock", "r_parent", "r_plock", "r_nlock"} => L.n \in DOMAIN nd \ {root}
  /\ L.pc = "r_plock" => L.p \in DOMAIN nd
  /\ L.pc = "r_nlock" => Has(nd, t, L.p)
  /\ L.pc \in {"b_hL", "b_hR", "b_set"} \cup Turning =>
       L.n # root /\ Has(nd, t, L.n) /\ Has(nd, t, L.p)
  /\ L.pc = "b_hR" => L.hL \in Nat /\ (nd[L.n].left = NULL => L.hL = 0)
  /\ L.pc = "b_set" => L.hN \in Nat

RotateOK(nd, t, L) ==
  /\ L.pc \in Turning =>
       L.c \in DOMAIN nd \ {root} /\ L.h \in Nat /\ L.side \in {"left", "right"}
  /\ L.pc \in Turning \ {"t_lock"} => Has(nd, t, L.c) /\ L.inner \in Children(nd)
  /\ L.pc \in {"t_hR", "t_inner", "t_far", "t_near"} => L.hL \in Nat
  /\ L.pc \in {"t_inner", "t_far", "t_near"} => L.hR \in Nat /\ L.inner # NULL
  /\ L.pc \in {"t_far", "t_near"} => Has(nd, t, L.inner)
  /\ L.pc = "t_near" => L.hN \in Nat

\* A store of a rotation: the node, the field and the value.
Stores == Int \X {"left", "right", "parent", "height", "changeOVL"} \X Int

\* A store that a rotation of t still makes: only parents change without the lock.
StoreOK(nd, t, w) ==
  /\ w[1] \in DOMAIN nd
  /\ w[2] # "parent" => nd[w[1]].lock = t
  /\ w[2] \in {"left", "right"} => w[3] \in Children(nd)
  /\ w[2] = "parent" => w[1] # root /\ w[3] \in DOMAIN nd
  /\ w[2] = "height" => w[3] \in Nat
  /\ w[2] = "changeOVL" => w[1] # root /\ w[3] \in Nat

\* w ends the change of n.
Ends(w, n) == w[1] = n /\ w[2] = "changeOVL" /\ ~isChanging(w[3])

\* A change that a store begins is ended by a later one.
StoresOK(nd, t, W) ==
  /\ W \in Seq(Stores) /\ Len(W) > 0
  /\ \A i \in 1 .. Len(W) :
       /\ StoreOK(nd, t, W[i])
       /\ W[i][2] = "changeOVL" /\ isChanging(W[i][3]) => \E j \in i + 1 .. Len(W) : Ends(W[j], W[i][1])

WriteOK(nd, t, L) ==
  L.pc = "write" =>
    Has(nd, t, L.p) /\ L.damaged \in DOMAIN nd \cup {NULL} /\ StoresOK(nd, t, L.writes)

CallOK(nd, t, L) ==
  /\ SearchOK(nd, t, L) /\ UnlinkOK(nd, t, L) /\ ConditionOK(nd, t, L)
  /\ RepairOK(nd, t, L) /\ RotateOK(nd, t, L) /\ WriteOK(nd, t, L)

-----------------------------------------------------------------------------
(* The inductive invariant *)

LocalsInv == DOMAIN l = Threads /\ \A t \in Threads : DOMAIN l[t] = Fields

CallsInv == \A t \in Threads : CallOK(node, t, l[t])

\* Who changes a version has locked its node and will end the change.
VersionInv ==
  \A n \in DOMAIN node : isChanging(node[n].changeOVL) =>
    \E t \in Threads : /\ l[t].pc = "write" /\ node[n].lock = t
                       /\ \E j \in 1 .. Len(l[t].writes) : Ends(l[t].writes[j], n)

Inv == LocalsInv /\ NodesOK(node) /\ CallsInv /\ VersionInv

\* The step of OwnerChanges.
Guarded ==
  \A n \in DOMAIN node : LET t == node[n].lock IN
    t # Nobody /\ l'[t] = l[t] => \A f \in Protected : node'[n][f] = node[n][f]

-----------------------------------------------------------------------------
(* Facts about nodes, versions and stacks *)

\* Nodes are numbered from 0, and NULL is none of them.
LEMMA NodeTypes ==
  ASSUME NEW nd, NodesOK(nd)
  PROVE  /\ root \in DOMAIN nd /\ NULL \notin DOMAIN nd /\ DOMAIN nd \subseteq Nat
         /\ \A n \in DOMAIN nd : NodeOK(nd, n)
  BY DEF NodesOK, root, NULL

\* The next number is free.
LEMMA NewNode ==
  ASSUME NEW nd, NodesOK(nd)
  PROVE  LET c == Cardinality(DOMAIN nd) IN
         /\ c \in Nat \ {0} /\ c \notin DOMAIN nd /\ DOMAIN nd \cup {c} = 0 .. (c + 1) - 1
<1>1. PICK k \in Nat : k > 0 /\ DOMAIN nd = 0 .. k - 1
  BY DEF NodesOK
<1>2. Cardinality(0 .. k - 1) = k
  BY FS_Interval, <1>1
<1> QED
  BY <1>1, <1>2

\* Threads are not 0.
LEMMA ThreadsPositive == \A t \in Threads : t # Nobody
  BY ThreadsAssumption DEF Nobody

\* What the lock bits of a version are.
LEMMA Versions ==
  ASSUME NEW v \in Nat, ~isChanging(v)
  PROVE  /\ beginGrow(v) \in Nat /\ beginShrink(v) \in Nat
         /\ endGrow(v) \in Nat /\ ~isChanging(endGrow(v))
         /\ endShrink(v) \in Nat /\ ~isChanging(endShrink(v))
<1>1. 2^OVLGrowCountShift = 8
  BY DEF OVLGrowCountShift
<1> DEFINE b == 2^OVLShrinkCountShift
<1>2. b \in Nat /\ b % 8 = 0
  BY <1>1, ShiftAssumption
<1> HIDE DEF b
<1>3. PICK k \in Nat : b = 8 * k
  BY <1>2
<1>4. ~isChanging(v + 8) /\ ~isChanging(v + 8 * k)
  BY DEF isChanging, GrowLock, ShrinkLock
<1>5. endGrow(v) = v + 8 /\ endShrink(v) = v + 8 * k
  BY <1>1, <1>3 DEF endGrow, endShrink, b
<1> QED
  BY <1>4, <1>5 DEF beginGrow, beginShrink

\* A version that is marked as unlinked, or new, is not changing.
LEMMA StillVersions == ~isChanging(0) /\ ~isChanging(UnlinkedOVL)
  BY DEF isChanging, GrowLock, ShrinkLock, UnlinkedOVL

\* Sequences over a larger set.
LEMMA SeqLarger ==
  ASSUME NEW S, NEW T, S \subseteq T, NEW s \in Seq(S)
  PROVE  s \in Seq(T)
  OBVIOUS

\* The stack without its last activation.
LEMMA FrontOK ==
  ASSUME NEW nd, NEW s, StackOK(nd, s), Len(s) > 1
  PROVE  StackOK(nd, Front(s))
<1>1. s \in Seq(Frames(nd)) /\ Len(s) \in Nat
  BY DEF StackOK
<1>2. Front(s) = SubSeq(s, 1, Len(s) - 1)
  BY DEF Front
<1>3. Len(Front(s)) = Len(s) - 1 /\ \A i \in 1 .. Len(s) - 1 : Front(s)[i] = s[i]
  BY <1>1, <1>2
<1>4. Front(s) \in Seq(Frames(nd))
  BY <1>1, <1>2
<1> QED
  BY <1>1, <1>3, <1>4 DEF StackOK

\* The stack with one more activation, of a node that is not the holder.
LEMMA AppendOK ==
  ASSUME NEW nd, NEW s, StackOK(nd, s), NEW f \in Frames(nd), f.curr # root
  PROVE  StackOK(nd, Append(s, f)) /\ Len(Append(s, f)) > 1
<1>1. s \in Seq(Frames(nd)) /\ Len(s) \in Nat /\ Len(s) > 0
  BY DEF StackOK
<1>2. Append(s, f) \in Seq(Frames(nd)) /\ Len(Append(s, f)) = Len(s) + 1
  BY <1>1
<1>3. Append(s, f)[Len(s) + 1] = f /\ \A i \in 1 .. Len(s) : Append(s, f)[i] = s[i]
  BY <1>1
<1> QED
  BY <1>1, <1>2, <1>3 DEF StackOK

\* The activations: the last is of a node, of the holder only if it is the first.
LEMMA TopOK ==
  ASSUME NEW nd, NEW s, StackOK(nd, s)
  PROVE  /\ Last(s).curr \in DOMAIN nd /\ Last(s).ovl \in Nat
         /\ Len(s) > 1 => Last(s).curr # root /\ s[Len(s) - 1].curr \in DOMAIN nd
         /\ Last(s).curr = root => Last(s).ovl = 0
<1>1. s \in Seq(Frames(nd)) /\ Len(s) \in Nat /\ Len(s) > 0
  BY DEF StackOK
<1>2. Last(s) = s[Len(s)] /\ s[Len(s)] \in Frames(nd)
  BY <1>1 DEF Last
<1>3. Len(s) > 1 => s[Len(s) - 1] \in Frames(nd)
  BY <1>1
<1>4. CASE Len(s) = 1
  BY <1>2, <1>4 DEF StackOK, Frames
<1>5. CASE Len(s) > 1
  BY <1>1, <1>2, <1>3, <1>5 DEF StackOK, Frames
<1>6. \A k \in Nat : k > 0 => k = 1 \/ k > 1
  OBVIOUS
<1> QED
  BY <1>1, <1>4, <1>5, <1>6, Zenon

-----------------------------------------------------------------------------
(* What the steps of one thread leave to the others *)

\* A step of u adds nodes and changes those that are free or locked by u.
StepOf(nd, nd2, u) ==
  /\ DOMAIN nd \subseteq DOMAIN nd2
  /\ \A n \in DOMAIN nd : nd[n].lock \notin {u, Nobody} =>
       nd2[n].lock = nd[n].lock /\ \A f \in Protected : nd2[n][f] = nd[n][f]

\* Children stay children.
LEMMA ChildrenKept ==
  ASSUME NEW nd, NEW nd2, DOMAIN nd \subseteq DOMAIN nd2
  PROVE  Children(nd) \subseteq Children(nd2)
  BY DEF Children

\* A stack stays one.
LEMMA StackKept ==
  ASSUME NEW nd, NEW nd2, DOMAIN nd \subseteq DOMAIN nd2, NEW s, StackOK(nd, s)
  PROVE  StackOK(nd2, s)
<1>1. Frames(nd) \subseteq Frames(nd2)
  BY DEF Frames
<1>2. s \in Seq(Frames(nd))
  BY DEF StackOK
<1>3. s \in Seq(Frames(nd2))
  BY <1>1, <1>2, SeqLarger
<1> QED
  BY <1>3 DEF StackOK

\* What a thread has locked it keeps.
LEMMA LockedKept ==
  ASSUME NEW nd, NEW nd2, NEW u \in Threads, NEW t \in Threads, t # u, StepOf(nd, nd2, u),
         NEW n, Has(nd, t, n)
  PROVE  /\ Has(nd2, t, n)
         /\ nd2[n].left = nd[n].left /\ nd2[n].right = nd[n].right
  BY ThreadsPositive DEF StepOf, Has, Protected

\* The stores of a rotation stay what they are.
LEMMA StoresKept ==
  ASSUME NEW nd, NEW nd2, NEW u \in Threads, NEW t \in Threads, t # u, StepOf(nd, nd2, u),
         NEW W, StoresOK(nd, t, W)
  PROVE  StoresOK(nd2, t, W)
<1>1. ASSUME NEW i \in 1 .. Len(W) PROVE StoreOK(nd2, t, W[i])
  <2>1. StoreOK(nd, t, W[i])
    BY DEF StoresOK
  <2> DEFINE w == W[i]
  <2>2. w[1] \in DOMAIN nd2 /\ (w[2] # "parent" => nd2[w[1]].lock = t)
    BY <2>1, ThreadsPositive DEF StoreOK, StepOf
  <2>3. DOMAIN nd \subseteq DOMAIN nd2 /\ Children(nd) \subseteq Children(nd2)
    BY ChildrenKept DEF StepOf
  <2> QED
    BY <2>1, <2>2, <2>3 DEF StoreOK
<1> QED
  BY <1>1 DEF StoresOK

\* Nobody notices the steps of the others.
LEMMA OtherKept ==
  ASSUME NEW nd, NEW nd2, NEW u \in Threads, NEW t \in Threads, t # u, StepOf(nd, nd2, u),
         NEW L, CallOK(nd, t, L)
  PROVE  CallOK(nd2, t, L)
<1>1. DOMAIN nd \subseteq DOMAIN nd2 /\ Children(nd) \subseteq Children(nd2)
  BY ChildrenKept DEF StepOf
<1>2. SearchOK(nd2, t, L)
  BY <1>1, StackKept DEF CallOK, SearchOK
<1>3. \A n : Has(nd, t, n) => /\ Has(nd2, t, n)
                              /\ nd2[n].left = nd[n].left /\ nd2[n].right = nd[n].right
  BY LockedKept
<1>4. UnlinkOK(nd2, t, L)
  BY <1>1, <1>3 DEF CallOK, UnlinkOK
<1>5. ConditionOK(nd2, t, L)
  BY <1>1, <1>3 DEF CallOK, ConditionOK
<1>6. RepairOK(nd2, t, L)
  BY <1>1, <1>3 DEF CallOK, RepairOK
<1>7. RotateOK(nd2, t, L)
  BY <1>1, <1>3 DEF CallOK, RotateOK
<1>8. WriteOK(nd2, t, L)
  BY <1>1, <1>3, StoresKept DEF CallOK, WriteOK
<1> QED
  BY <1>2, <1>4, <1>5, <1>6, <1>7, <1>8 DEF CallOK

\* The changes that are under way after a step of u are changes of others.
Settled(nd, nd2, u) ==
  \A n \in DOMAIN nd2 : isChanging(nd2[n].changeOVL) =>
    n \in DOMAIN nd /\ nd2[n].changeOVL = nd[n].changeOVL /\ nd[n].lock # u

\* No change begins.
Calm(nd, nd2) ==
  \A n \in DOMAIN nd2 : isChanging(nd2[n].changeOVL) =>
    n \in DOMAIN nd /\ nd2[n].changeOVL = nd[n].changeOVL

\* Who makes no rotation has no change under way.
LEMMA CalmSettled ==
  ASSUME Inv, NEW u \in Threads, l[u].pc # "write", NEW nd2, Calm(node, nd2)
  PROVE  Settled(node, nd2, u)
  BY DEF Calm, Settled, Inv, VersionInv

\* The changes of the others stay locked and will be ended.
LEMMA SettledVersions ==
  ASSUME Inv, NEW u \in Threads, NEW M, l' = [l EXCEPT ![u] = M],
         StepOf(node, node', u), Settled(node, node', u)
  PROVE  VersionInv'
<1> SUFFICES ASSUME NEW n \in DOMAIN node', isChanging(node'[n].changeOVL)
             PROVE  \E t \in Threads : /\ l'[t].pc = "write" /\ node'[n].lock = t
                                       /\ \E j \in 1 .. Len(l'[t].writes) : Ends(l'[t].writes[j], n)
  BY DEF VersionInv
<1>1. n \in DOMAIN node /\ isChanging(node[n].changeOVL) /\ node[n].lock # u
  BY DEF Settled
<1>2. PICK t \in Threads : /\ l[t].pc = "write" /\ node[n].lock = t
                           /\ \E j \in 1 .. Len(l[t].writes) : Ends(l[t].writes[j], n)
  BY <1>1 DEF Inv, VersionInv
<1>3. l'[t] = l[t] /\ node'[n].lock = t
  BY <1>1, <1>2, ThreadsPositive DEF StepOf, Inv, LocalsInv
<1> QED
  BY <1>2, <1>3

\* A step of u keeps the invariant if it leaves the others alone and u at a place that fits.
LEMMA StepInv ==
  ASSUME Inv, NEW u \in Threads, NEW M, DOMAIN M = Fields, l' = [l EXCEPT ![u] = M],
         StepOf(node, node', u), NodesOK(node'), CallOK(node', u, M), VersionInv'
  PROVE  Inv'
<1>1. LocalsInv'
  BY DEF Inv, LocalsInv
<1>2. CallsInv'
  <2> SUFFICES ASSUME NEW t \in Threads PROVE CallOK(node', t, l'[t])
    BY DEF CallsInv
  <2>1. CASE t = u
    BY <2>1 DEF Inv, LocalsInv
  <2>2. CASE t # u
    <3>1. CallOK(node, t, l[t]) /\ l'[t] = l[t]
      BY <2>2 DEF Inv, LocalsInv, CallsInv
    <3> QED
      BY <2>2, <3>1, OtherKept
  <2> QED
    BY <2>1, <2>2
<1> QED
  BY <1>1, <1>2 DEF Inv

\* Such a step changes no node that another thread has locked.
LEMMA StepGuarded ==
  ASSUME Inv, NEW u \in Threads, NEW M, l' = [l EXCEPT ![u] = M], M # l[u], StepOf(node, node', u)
  PROVE  Guarded
<1> SUFFICES ASSUME NEW n \in DOMAIN node, node[n].lock # Nobody, l'[node[n].lock] = l[node[n].lock]
             PROVE  \A f \in Protected : node'[n][f] = node[n][f]
  BY DEF Guarded
<1>1. l'[u] = M
  BY DEF Inv, LocalsInv
<1>2. node[n].lock \notin {u, Nobody}
  BY <1>1
<1> QED
  BY <1>2 DEF StepOf

\* Both, for a step that begins no change.
LEMMA Stepped ==
  ASSUME Inv, NEW u \in Threads, NEW M, DOMAIN M = Fields, l' = [l EXCEPT ![u] = M],
         M.pc # l[u].pc, l[u].pc # "write",
         StepOf(node, node', u), NodesOK(node'), Calm(node, node'), CallOK(node', u, M)
  PROVE  Inv' /\ Guarded
<1>1. VersionInv'
  BY CalmSettled, SettledVersions
<1> QED
  BY <1>1, StepInv, StepGuarded

\* A step that changes no node.
LEMMA QuietStep ==
  ASSUME Inv, NEW u \in Threads, NEW M, DOMAIN M = Fields, l' = [l EXCEPT ![u] = M],
         l[u].pc # "write", node' = node, CallOK(node, u, M)
  PROVE  Inv' /\ Guarded
<1>1. StepOf(node, node', u) /\ Calm(node, node') /\ NodesOK(node')
  BY DEF StepOf, Calm, Inv
<1>2. VersionInv'
  BY <1>1, CalmSettled, SettledVersions
<1>3. Guarded
  BY DEF Guarded
<1> QED
  BY <1>1, <1>2, <1>3, StepInv

\* Steps one after the other.
LEMMA StepsCompose ==
  ASSUME NEW nd, NEW nd1, NEW nd2, NEW u, StepOf(nd, nd1, u), StepOf(nd1, nd2, u)
  PROVE  StepOf(nd, nd2, u)
  BY DEF StepOf

\* The locks of u are released.
LEMMA ReleasedNodes ==
  ASSUME NEW nd, NodesOK(nd), NEW u \in Threads
  PROVE  LET nd2 == Unlocked(nd, u) IN
         /\ DOMAIN nd2 = DOMAIN nd /\ NodesOK(nd2) /\ StepOf(nd, nd2, u)
         /\ \A n \in DOMAIN nd : nd2[n].changeOVL = nd[n].changeOVL
<1> DEFINE nd2 == Unlocked(nd, u)
<1>1. DOMAIN nd2 = DOMAIN nd
  BY DEF Unlocked
<1>2. ASSUME NEW n \in DOMAIN nd
      PROVE  /\ DOMAIN nd2[n] = NodeFields
             /\ \A f \in NodeFields \ {"lock"} : nd2[n][f] = nd[n][f]
             /\ nd2[n].lock = IF nd[n].lock = u THEN Nobody ELSE nd[n].lock
  <2>1. DOMAIN nd[n] = NodeFields
    BY NodeTypes DEF NodeOK
  <2>2. nd2[n] = IF nd[n].lock = u THEN [nd[n] EXCEPT !.lock = Nobody] ELSE nd[n]
    BY DEF Unlocked
  <2> QED
    BY <2>1, <2>2 DEF NodeFields
<1> HIDE DEF nd2
<1>3. StepOf(nd, nd2, u)
  BY <1>1, <1>2 DEF StepOf, Protected, NodeFields
<1>4. ASSUME NEW n \in DOMAIN nd PROVE NodeOK(nd2, n)
  <2>1. NodeOK(nd, n) /\ Children(nd2) = Children(nd)
    BY <1>1, NodeTypes DEF Children
  <2> QED
    BY <1>1, <1>2, <2>1 DEF NodeOK, NodeFields
<1>5. nd2[root].changeOVL = 0
  BY <1>2, NodeTypes DEF NodesOK, NodeFields
<1>6. NodesOK(nd2)
  BY <1>1, <1>4, <1>5 DEF NodesOK
<1> QED
  BY <1>1, <1>2, <1>3, <1>6 DEF nd2, NodeFields

-----------------------------------------------------------------------------
(* What a call relies on at each group of places *)

\* Calls that have returned, or are about to.
LEMMA IdleOK ==
  ASSUME NEW nd, NEW t, NEW M, M.pc \in {"idle", "done"}
  PROVE  CallOK(nd, t, M)
  BY DEF CallOK, SearchOK, UnlinkOK, ConditionOK, RepairOK, RotateOK, WriteOK, OnWay, AtNode, Turning

\* On the way down.
LEMMA WayOK ==
  ASSUME NEW nd, NEW t, NEW M, M.pc \in OnWay, SearchOK(nd, t, M)
  PROVE  CallOK(nd, t, M)
  BY DEF CallOK, UnlinkOK, ConditionOK, RepairOK, RotateOK, WriteOK, OnWay, Turning

\* At the node of the key.
LEMMA AtNodeOK ==
  ASSUME NEW nd, NEW t, NEW M, M.pc \in AtNode, SearchOK(nd, t, M), UnlinkOK(nd, t, M)
  PROVE  CallOK(nd, t, M)
  BY DEF CallOK, ConditionOK, RepairOK, RotateOK, WriteOK, AtNode, Turning

\* Unlinking a node.
LEMMA UnlinkingOK ==
  ASSUME NEW nd, NEW t, NEW M, M.pc \in {"k_parent", "k_ovl", "k_value"}, UnlinkOK(nd, t, M)
  PROVE  CallOK(nd, t, M)
  BY DEF CallOK, SearchOK, ConditionOK, RepairOK, RotateOK, WriteOK, OnWay, AtNode, Turning

\* In nodeCondition and fixHeight_nl.
LookPlaces == {"c_left", "c_right", "c_value", "c_height", "c_hL", "c_hR", "h_set", "h_parent"}

\* ... a call relies on the node it looks at.
LEMMA LookingOK ==
  ASSUME NEW nd, NEW t, NEW M, M.pc \in LookPlaces, ConditionOK(nd, t, M)
  PROVE  CallOK(nd, t, M)
  BY DEF CallOK, SearchOK, UnlinkOK, RepairOK, RotateOK, WriteOK, OnWay, AtNode, Turning, LookPlaces

\* In fixHeightAndRebalance and rebalance_nl.
RepairPlaces == {"r_ovl", "r_lock", "r_parent", "r_plock", "r_nlock", "b_hL", "b_hR", "b_set"}

\* ... a call relies on the node it repairs, and on its parent.
LEMMA RepairingOK ==
  ASSUME NEW nd, NEW t, NEW M, M.pc \in RepairPlaces, RepairOK(nd, t, M)
  PROVE  CallOK(nd, t, M)
  BY DEF CallOK, SearchOK, UnlinkOK, ConditionOK, RotateOK, WriteOK, OnWay, AtNode, Turning, RepairPlaces

\* Before a rotation.
LEMMA TurningOK ==
  ASSUME NEW nd, NEW t, NEW M, M.pc \in Turning, RepairOK(nd, t, M), RotateOK(nd, t, M)
  PROVE  CallOK(nd, t, M)
  BY DEF CallOK, SearchOK, UnlinkOK, ConditionOK, WriteOK, OnWay, AtNode, Turning

\* In a rotation.
LEMMA WritingOK ==
  ASSUME NEW nd, NEW t, NEW M, M.pc = "write", WriteOK(nd, t, M)
  PROVE  CallOK(nd, t, M)
  BY DEF CallOK, SearchOK, UnlinkOK, ConditionOK, RepairOK, RotateOK, OnWay, AtNode, Turning

-----------------------------------------------------------------------------
(* Steps that release all locks *)

\* A call that holds no locks relies only on the nodes being there.
LEMMA LooseOK ==
  ASSUME NEW nd, NEW nd2, DOMAIN nd2 = DOMAIN nd, NEW t, NEW M, CallOK(nd, t, M),
         M.pc \in {"idle", "done", "c_left"} \cup OnWay, M.pc = "c_left" => ~M.locked
  PROVE  CallOK(nd2, t, M)
<1>1. Children(nd2) = Children(nd)
  BY DEF Children
<1>2. CASE M.pc \in {"idle", "done"}
  BY <1>2, IdleOK
<1>3. CASE M.pc \in OnWay
  <2>1. SearchOK(nd2, t, M)
    BY <1>1, <1>3, StackKept DEF CallOK, SearchOK, OnWay, AtNode
  <2> QED
    BY <1>3, <2>1, WayOK
<1>4. CASE M.pc = "c_left"
  <2>1. ConditionOK(nd2, t, M)
    BY <1>4 DEF CallOK, ConditionOK
  <2> QED
    BY <1>4, <2>1, LookingOK DEF LookPlaces
<1> QED
  BY <1>2, <1>3, <1>4

\* The step to nd1, together with the release of the locks of u.
LEMMA ReleaseStep ==
  ASSUME Inv, NEW u \in Threads, NEW M, DOMAIN M = Fields, l' = [l EXCEPT ![u] = M], M # l[u],
         NEW nd1, StepOf(node, nd1, u), NodesOK(nd1), Settled(node, nd1, u), node' = Unlocked(nd1, u),
         CallOK(nd1, u, M), M.pc \in {"idle", "done", "c_left"} \cup OnWay, M.pc = "c_left" => ~M.locked
  PROVE  Inv' /\ Guarded
<1>1. /\ DOMAIN node' = DOMAIN nd1 /\ NodesOK(node') /\ StepOf(nd1, node', u)
      /\ \A n \in DOMAIN nd1 : node'[n].changeOVL = nd1[n].changeOVL
  BY ReleasedNodes
<1>2. StepOf(node, node', u)
  BY <1>1, StepsCompose
<1>3. CallOK(node', u, M)
  BY <1>1, LooseOK
<1>4. Settled(node, node', u)
  BY <1>1 DEF Settled
<1>5. VersionInv'
  BY <1>2, <1>4, SettledVersions
<1> QED
  BY <1>1, <1>2, <1>3, <1>5, StepInv, StepGuarded

\* As it is, a node has no change of u, who makes no rotation.
LEMMA Unmoved ==
  ASSUME Inv, NEW u \in Threads, l[u].pc # "write"
  PROVE  StepOf(node, node, u) /\ NodesOK(node) /\ Settled(node, node, u)
<1>1. Calm(node, node)
  BY DEF Calm
<1> QED
  BY <1>1, CalmSettled DEF StepOf, Inv

\* A call returns.
LEMMA ReturnStep ==
  ASSUME Inv, NEW u \in Threads, l[u].pc # "idle", NEW nd1, StepOf(node, nd1, u), NodesOK(nd1),
         Settled(node, nd1, u), NEW r, Return(u, nd1, r)
  PROVE  Inv' /\ Guarded
<1>1. DOMAIN Locals = Fields /\ Locals.pc = "idle"
  BY DEF Locals, Fields
<1>2. node' = Unlocked(nd1, u) /\ l' = [l EXCEPT ![u] = Locals]
  BY DEF Return
<1>3. CallOK(nd1, u, Locals)
  BY <1>1, IdleOK
<1> QED
  BY <1>1, <1>2, <1>3, ReleaseStep

\* The caller tries again.
LEMMA RetryStep ==
  ASSUME Inv, NEW u \in Threads, l[u].pc \notin {"child", "write"}, StackOK(node, l[u].stack),
         Len(l[u].stack) > 1, Retry(u)
  PROVE  Inv' /\ Guarded
<1> DEFINE L == l[u]
           M == [L EXCEPT !.stack = Front(L.stack), !.child = NULL, !.ovl = 0, !.pc = "child"]
<1>1. DOMAIN L = Fields
  BY DEF Inv, LocalsInv
<1>2. /\ DOMAIN M = Fields /\ M.pc = "child" /\ M.stack = Front(L.stack) /\ M.child = NULL /\ M.ovl = 0
      /\ node' = Unlocked(node, u) /\ l' = [l EXCEPT ![u] = M]
  BY <1>1 DEF Retry, Do, Fields
<1> HIDE DEF M
<1>3. StackOK(node, Front(L.stack))
  BY FrontOK
<1>4. CallOK(node, u, M)
  <2>1. SearchOK(node, u, M)
    BY <1>2, <1>3 DEF SearchOK, Children, OnWay, AtNode
  <2> QED
    BY <1>2, <2>1, WayOK DEF OnWay
<1> QED
  BY <1>2, <1>4, Unmoved, ReleaseStep DEF OnWay

\* A damaged node is handed on.
LEMMA RepairStep ==
  ASSUME Inv, NEW u \in Threads, l[u].pc \notin {"idle", "c_left"}, NEW nd1, StepOf(node, nd1, u), NodesOK(nd1),
         Settled(node, nd1, u), NEW d \in DOMAIN nd1 \cup {NULL}, Repair(u, nd1, d)
  PROVE  Inv' /\ Guarded
<1>1. CASE d \in {NULL, root}
  <2>1. Return(u, nd1, l[u].prev)
    BY <1>1 DEF Repair
  <2> QED
    BY <2>1, ReturnStep
<1>2. CASE d \notin {NULL, root}
  <2> DEFINE M == LookAt(l[u], d, FALSE)
  <2>1. /\ DOMAIN M = Fields /\ M.pc = "c_left" /\ M.n = d /\ M.locked = FALSE
        /\ node' = Unlocked(nd1, u) /\ l' = [l EXCEPT ![u] = M]
    BY <1>2 DEF Repair, Do, LookAt, Locals, Fields
  <2> HIDE DEF M
  <2>2. ConditionOK(nd1, u, M)
    BY <1>2, <2>1 DEF ConditionOK
  <2>3. CallOK(nd1, u, M)
    BY <2>1, <2>2, LookingOK DEF LookPlaces
  <2> QED
    BY <2>1, <2>3, ReleaseStep
<1> QED
  BY <1>1, <1>2

\* The height of a locked node is repaired, after a step that begins no change.
LEMMA FixHeightStep ==
  ASSUME Inv, NEW u \in Threads, l[u].pc # "c_left", NEW nd1, StepOf(node, nd1, u), NodesOK(nd1),
         Settled(node, nd1, u), NEW n, Has(nd1, u, n), fixHeight_nl(u, nd1, n)
  PROVE  Inv' /\ Guarded
<1> DEFINE M == LookAt(l[u], n, TRUE)
<1>1. /\ DOMAIN M = Fields /\ M.pc = "c_left" /\ M.n = n /\ M.locked = TRUE
      /\ node' = nd1 /\ l' = [l EXCEPT ![u] = M]
  BY DEF fixHeight_nl, Do, LookAt, Locals, Fields
<1> HIDE DEF M
<1>2. ConditionOK(nd1, u, M)
  BY <1>1 DEF ConditionOK
<1>3. CallOK(nd1, u, M)
  BY <1>1, <1>2, LookingOK DEF LookPlaces
<1>4. VersionInv'
  BY <1>1, SettledVersions
<1> QED
  BY <1>1, <1>3, <1>4, StepInv, StepGuarded

-----------------------------------------------------------------------------
(* The way down *)

\* What every step starts from.
LEMMA Start ==
  ASSUME Inv, NEW u \in Threads
  PROVE  DOMAIN l[u] = Fields /\ CallOK(node, u, l[u]) /\ NodesOK(node)
  BY DEF Inv, LocalsInv, CallsInv

\* The child towards the key.
LEMMA GetChildOK ==
  ASSUME Inv, NEW u \in Threads, StackOK(node, l[u].stack)
  PROVE  get_child(u) \in Children(node)
<1>1. Last(l[u].stack).curr \in DOMAIN node
  BY TopOK
<1>2. NodeOK(node, Last(l[u].stack).curr)
  BY <1>1, NodeTypes DEF Inv
<1> QED
  BY <1>2 DEF get_child, DirTo, Top, NodeOK

\* The holder never shrinks.
LEMMA ShrunkDeep ==
  ASSUME Inv, NEW u \in Threads, StackOK(node, l[u].stack), Shrunk(u)
  PROVE  Len(l[u].stack) > 1
<1> DEFINE s == l[u].stack
<1>1. s \in Seq(Frames(node)) /\ Len(s) \in Nat /\ Len(s) > 0
  BY DEF StackOK
<1>2. ASSUME Len(s) = 1 PROVE FALSE
  <2>1. Top(u) = s[1]
    BY <1>2 DEF Top, Last
  <2>2. Top(u).curr = root /\ Top(u).ovl = 0 /\ node[root].changeOVL = 0
    BY <2>1 DEF StackOK, Inv, NodesOK
  <2> QED
    BY <2>2 DEF Shrunk, hasShrunkOrUnlinked
<1>3. \A k \in Nat : k > 0 => k = 1 \/ k > 1
  OBVIOUS
<1> QED
  BY <1>1, <1>2, <1>3, Zenon

\* A step along the way down that changes no node.
LEMMA WayStep ==
  ASSUME Inv, NEW u \in Threads, l[u].pc # "write", NEW M, DOMAIN M = Fields, Local(u, M),
         M.pc \in OnWay, StackOK(node, M.stack), M.child \in Children(node), M.ovl \in Nat,
         M.pc \in {"value", "ovl", "wait", "reread"} => M.child # NULL
  PROVE  Inv' /\ Guarded
<1>1. node' = node /\ l' = [l EXCEPT ![u] = M]
  BY DEF Local, Do
<1>2. SearchOK(node, u, M)
  BY DEF SearchOK, OnWay, AtNode
<1>3. CallOK(node, u, M)
  BY <1>2, WayOK
<1> QED
  BY <1>1, <1>3, QuietStep

\* ReadChild: the child towards the key is a node or NULL.
LEMMA ReadChildInv ==
  ASSUME Inv, NEW u \in Threads, ReadChild(u)
  PROVE  Inv' /\ Guarded
<1> DEFINE L == l[u]
           c == get_child(u)
           q == IF c = NULL \/ ~Reading(u) THEN "check" ELSE IF node[c].key = L.key THEN "value" ELSE "ovl"
           M == [L EXCEPT !.child = c, !.pc = q]
<1>1. L.pc = "child" /\ Local(u, M)
  BY DEF ReadChild, At
<1>2. DOMAIN L = Fields /\ StackOK(node, L.stack) /\ L.ovl \in Nat
  BY <1>1, Start DEF CallOK, SearchOK, OnWay
<1>3. c \in Children(node)
  BY <1>2, GetChildOK
<1>4. q \in {"check", "value", "ovl"} /\ (q \in {"value", "ovl"} => c # NULL)
  OBVIOUS
<1> HIDE DEF c, q
<1>5. DOMAIN M = Fields /\ M.pc = q /\ M.child = c /\ M.stack = L.stack /\ M.ovl = L.ovl
  BY <1>2 DEF Fields
<1> HIDE DEF M
<1> QED
  BY <1>1, <1>2, <1>3, <1>4, <1>5, WayStep DEF OnWay

\* ReadValue: the call returns.
LEMMA ReadValueInv ==
  ASSUME Inv, NEW u \in Threads, ReadValue(u)
  PROVE  Inv' /\ Guarded
<1>1. l[u].pc = "value" /\ Return(u, node, node[l[u].child].value)
  BY DEF ReadValue, At
<1> QED
  BY <1>1, Unmoved, ReturnStep

\* On to p.
LEMMA GotoFacts ==
  ASSUME Inv, NEW u \in Threads, NEW p, Goto(u, p)
  PROVE  LET M == [l[u] EXCEPT !.pc = p] IN
         /\ Local(u, M) /\ node' = node /\ l' = [l EXCEPT ![u] = M] /\ DOMAIN M = Fields /\ M.pc = p
         /\ \A f \in Fields \ {"pc"} : M[f] = l[u][f]
  BY Start DEF Goto, Local, Do, Fields

\* CheckChild: only an activation below the holder retries.
LEMMA CheckChildInv ==
  ASSUME Inv, NEW u \in Threads, CheckChild(u)
  PROVE  Inv' /\ Guarded
<1> DEFINE L == l[u]
<1>1. L.pc = "check"
  BY DEF CheckChild, At
<1>2. DOMAIN L = Fields /\ StackOK(node, L.stack) /\ L.ovl \in Nat /\ L.child \in Children(node)
  BY <1>1, Start DEF CallOK, SearchOK, OnWay
<1>3. CASE Shrunk(u) /\ Retry(u)
  BY <1>1, <1>2, <1>3, ShrunkDeep, RetryStep
<1>4. ASSUME NEW p, Goto(u, p), p \in {"ovl", "lock"}, p = "ovl" => L.child # NULL
      PROVE  Inv' /\ Guarded
  <2> DEFINE M == [L EXCEPT !.pc = p]
  <2>1. Local(u, M) /\ DOMAIN M = Fields /\ M.pc = p /\ M.stack = L.stack /\ M.ovl = L.ovl /\ M.child = L.child
    BY <1>4, GotoFacts DEF Fields
  <2> HIDE DEF M
  <2> QED
    BY <1>1, <1>2, <1>4, <2>1, WayStep DEF OnWay
<1>5. CASE Return(u, node, NoValue)
  BY <1>1, <1>5, Unmoved, ReturnStep
<1> QED
  BY <1>3, <1>4, <1>5 DEF CheckChild

\* After a wait, and after a child that has changed.
LEMMA AgainStep ==
  ASSUME Inv, NEW u \in Threads, l[u].pc \in OnWay, Again(u)
  PROVE  Inv' /\ Guarded
<1> DEFINE L == l[u]
           q == IF Reading(u) THEN "valid" ELSE "child"
           M == [L EXCEPT !.child = NULL, !.ovl = 0, !.pc = q]
<1>1. Local(u, M) /\ q \in {"valid", "child"}
  BY DEF Again
<1>2. DOMAIN L = Fields /\ StackOK(node, L.stack)
  BY Start DEF CallOK, SearchOK
<1> HIDE DEF q
<1>3. DOMAIN M = Fields /\ M.pc = q /\ M.child = NULL /\ M.ovl = 0 /\ M.stack = L.stack
  BY <1>2 DEF Fields
<1> HIDE DEF M
<1>4. NULL \in Children(node)
  BY DEF Children
<1> QED
  BY <1>1, <1>2, <1>3, <1>4, WayStep DEF OnWay

\* ReadOVL: a version is read from a child that is there.
LEMMA ReadOVLInv ==
  ASSUME Inv, NEW u \in Threads, ReadOVL(u)
  PROVE  Inv' /\ Guarded
<1> DEFINE L == l[u]
           v == node[L.child].changeOVL
<1>1. L.pc = "ovl"
  BY DEF ReadOVL, At
<1>2. DOMAIN L = Fields /\ StackOK(node, L.stack) /\ L.child \in Children(node) /\ L.child # NULL
  BY <1>1, Start DEF CallOK, SearchOK, OnWay
<1>3. v \in Nat
  BY <1>2, Start, NodeTypes DEF Children, NodeOK
<1>4. ASSUME NEW p \in {"reread", "wait"}, Local(u, [L EXCEPT !.ovl = v, !.pc = p])
      PROVE  Inv' /\ Guarded
  <2> DEFINE M == [L EXCEPT !.ovl = v, !.pc = p]
  <2>1. DOMAIN M = Fields /\ M.pc = p /\ M.child = L.child /\ M.ovl = v /\ M.stack = L.stack
    BY <1>2 DEF Fields
  <2> HIDE DEF M
  <2> QED
    BY <1>1, <1>2, <1>3, <1>4, <2>1, WayStep DEF OnWay, M
<1>5. CASE Again(u)
  BY <1>1, <1>5, AgainStep DEF OnWay
<1> QED
  BY <1>4, <1>5 DEF ReadOVL

\* waitUntilChangeCompleted: the search goes round.
LEMMA WaitInv ==
  ASSUME Inv, NEW u \in Threads, waitUntilChangeCompleted(u)
  PROVE  Inv' /\ Guarded
  BY AgainStep DEF waitUntilChangeCompleted, At, OnWay

\* RereadChild: no node changes.
LEMMA RereadChildInv ==
  ASSUME Inv, NEW u \in Threads, RereadChild(u)
  PROVE  Inv' /\ Guarded
<1> DEFINE L == l[u]
<1>1. L.pc = "reread" /\ (Goto(u, "valid") \/ Again(u))
  BY DEF RereadChild, At
<1>2. DOMAIN L = Fields /\ StackOK(node, L.stack) /\ L.ovl \in Nat /\ L.child \in Children(node)
  BY <1>1, Start DEF CallOK, SearchOK, OnWay
<1>3. CASE Goto(u, "valid")
  <2> DEFINE M == [L EXCEPT !.pc = "valid"]
  <2>1. /\ Local(u, M) /\ DOMAIN M = Fields /\ M.pc = "valid"
        /\ M.stack = L.stack /\ M.ovl = L.ovl /\ M.child = L.child
    BY <1>3, GotoFacts DEF Fields
  <2> HIDE DEF M
  <2> QED
    BY <1>1, <1>2, <2>1, WayStep DEF OnWay
<1>4. CASE Again(u)
  BY <1>1, <1>4, AgainStep DEF OnWay
<1> QED
  BY <1>1, <1>3, <1>4

\* Descend: the child, which is not the holder, is on the stack.
LEMMA DescendInv ==
  ASSUME Inv, NEW u \in Threads, Descend(u)
  PROVE  Inv' /\ Guarded
<1> DEFINE L == l[u]
           arrived == ~Reading(u) /\ node[L.child].key = L.key
           f == [curr |-> L.child, ovl |-> L.ovl]
           q == CASE ~arrived -> "child" [] arrived /\ L.op = "erase" -> "n_value" [] OTHER -> "n_lock"
           M == [L EXCEPT !.stack = Append(L.stack, f), !.child = NULL, !.ovl = 0, !.pc = q]
<1>1. L.pc = "valid"
  BY DEF Descend, At
<1>2. DOMAIN L = Fields /\ StackOK(node, L.stack) /\ L.ovl \in Nat /\ L.child \in Children(node)
  BY <1>1, Start DEF CallOK, SearchOK, OnWay
<1>3. CASE Shrunk(u) /\ Retry(u)
  BY <1>1, <1>2, <1>3, ShrunkDeep, RetryStep
<1>4. CASE Goto(u, "child")
  <2> DEFINE K == [L EXCEPT !.pc = "child"]
  <2>1. /\ Local(u, K) /\ DOMAIN K = Fields /\ K.pc = "child"
        /\ K.stack = L.stack /\ K.ovl = L.ovl /\ K.child = L.child
    BY <1>4, GotoFacts DEF Fields
  <2> HIDE DEF K
  <2> QED
    BY <1>1, <1>2, <2>1, WayStep DEF OnWay
<1>5. CASE L.child # NULL /\ Local(u, M)
  <2>1. q \in {"child", "n_value", "n_lock"}
    OBVIOUS
  <2>2. f \in Frames(node) /\ f.curr # root
    BY <1>2, <1>5 DEF Frames, Children
  <2>3. StackOK(node, Append(L.stack, f)) /\ Len(Append(L.stack, f)) > 1
    BY <1>2, <2>2, AppendOK
  <2> HIDE DEF q, f
  <2>4. DOMAIN M = Fields /\ M.pc = q /\ M.child = NULL /\ M.ovl = 0 /\ M.stack = Append(L.stack, f)
    BY <1>2 DEF Fields
  <2>5. node' = node /\ l' = [l EXCEPT ![u] = M]
    BY <1>5 DEF Local, Do
  <2> HIDE DEF M
  <2>6. SearchOK(node, u, M)
    BY <2>1, <2>3, <2>4 DEF SearchOK, OnWay, AtNode, Children
  <2>7. UnlinkOK(node, u, M)
    BY <2>1, <2>4 DEF UnlinkOK
  <2>8. CallOK(node, u, M)
    BY <2>1, <2>4, <2>6, <2>7, WayOK, AtNodeOK DEF OnWay, AtNode
  <2> QED
    BY <1>1, <2>4, <2>5, <2>8, QuietStep
<1> QED
  BY <1>3, <1>4, <1>5 DEF Descend

-----------------------------------------------------------------------------
(* Changes of a node *)

\* R takes the place of the node n, which is free, locked by u, or has another parent in R.
LEMMA ReplacedNodes ==
  ASSUME NEW nd, NodesOK(nd), NEW u \in Threads, NEW n \in DOMAIN nd, NEW R, DOMAIN R = NodeFields,
         R.left \in Children(nd), R.right \in Children(nd),
         R.parent \in IF n = root THEN {NULL} ELSE DOMAIN nd,
         R.height \in Nat, R.changeOVL \in Nat, n = root => R.changeOVL = 0,
         R.lock \in Threads \cup {Nobody},
         \/ nd[n].lock \in {u, Nobody}
         \/ R.lock = nd[n].lock /\ \A f \in Protected : R[f] = nd[n][f]
  PROVE  LET nd2 == [nd EXCEPT ![n] = R] IN
         /\ DOMAIN nd2 = DOMAIN nd /\ NodesOK(nd2) /\ StepOf(nd, nd2, u)
         /\ nd2[n] = R /\ \A m \in DOMAIN nd \ {n} : nd2[m] = nd[m]
<1> DEFINE nd2 == [nd EXCEPT ![n] = R]
<1>1. DOMAIN nd2 = DOMAIN nd /\ nd2[n] = R /\ \A m \in DOMAIN nd \ {n} : nd2[m] = nd[m]
  OBVIOUS
<1> HIDE DEF nd2
<1>2. Children(nd2) = Children(nd)
  BY <1>1 DEF Children
<1>3. ASSUME NEW m \in DOMAIN nd PROVE NodeOK(nd2, m)
  <2>1. CASE m = n
    BY <1>1, <1>2, <2>1 DEF NodeOK
  <2>2. CASE m # n
    BY <1>1, <1>2, <2>2, NodeTypes DEF NodeOK
  <2> QED
    BY <2>1, <2>2
<1>4. nd2[root].changeOVL = 0
  BY <1>1, NodeTypes DEF NodesOK
<1>5. NodesOK(nd2)
  BY <1>1, <1>3, <1>4 DEF NodesOK
<1>6. StepOf(nd, nd2, u)
  BY <1>1 DEF StepOf
<1> QED
  BY <1>1, <1>5, <1>6 DEF nd2

\* The lock of a free node is taken.
LEMMA LockedNodes ==
  ASSUME Inv, NEW u \in Threads, NEW n \in DOMAIN node, Free(n)
  PROVE  LET nd2 == Locked(n, u) IN
         /\ DOMAIN nd2 = DOMAIN node /\ NodesOK(nd2) /\ StepOf(node, nd2, u) /\ Calm(node, nd2)
         /\ Has(nd2, u, n) /\ \A m \in DOMAIN node \ {n} : nd2[m] = node[m]
         /\ \A f \in NodeFields \ {"lock"} : nd2[n][f] = node[n][f]
         /\ DOMAIN nd2[n] = NodeFields
<1> DEFINE R == [node[n] EXCEPT !.lock = u]
           nd2 == [node EXCEPT ![n] = R]
<1>1. NodesOK(node) /\ NodeOK(node, n)
  BY Start, NodeTypes
<1>2. DOMAIN R = NodeFields /\ R.lock = u /\ \A f \in NodeFields \ {"lock"} : R[f] = node[n][f]
  BY <1>1 DEF NodeOK, NodeFields
<1>3. Locked(n, u) = nd2
  BY DEF Locked
<1> HIDE DEF R
<1>4. n = root => R.changeOVL = 0
  BY <1>1, <1>2 DEF NodesOK, NodeFields
<1>5. node[n].lock \in {u, Nobody}
  BY DEF Free
<1>6. /\ DOMAIN nd2 = DOMAIN node /\ NodesOK(nd2) /\ StepOf(node, nd2, u)
      /\ nd2[n] = R /\ \A m \in DOMAIN node \ {n} : nd2[m] = node[m]
  <2>1. /\ R.left \in Children(node) /\ R.right \in Children(node)
        /\ R.parent \in (IF n = root THEN {NULL} ELSE DOMAIN node)
        /\ R.height \in Nat /\ R.changeOVL \in Nat /\ R.lock \in Threads \cup {Nobody}
    BY <1>1, <1>2 DEF NodeOK, NodeFields
  <2> QED
    BY <1>1, <1>2, <1>4, <1>5, <2>1, ReplacedNodes
<1> HIDE DEF nd2
<1>7. Calm(node, nd2)
  BY <1>2, <1>6 DEF Calm, NodeFields
<1> QED
  BY <1>2, <1>3, <1>6, <1>7 DEF Has

\* The locks of the nodes that are not concerned stay.
LEMMA OwnKept ==
  ASSUME NEW nd, NEW nd2, NEW u, NEW n, DOMAIN nd2 = DOMAIN nd,
         nd2[n].lock = nd[n].lock \/ nd2[n].lock = u,
         \A m \in DOMAIN nd \ {n} : nd2[m] = nd[m], NEW q, Has(nd, u, q)
  PROVE  Has(nd2, u, q)
  BY DEF Has

\* The nodes after a store: the field f of n gets the value v.
Store(nd, n, f, v) == [nd EXCEPT ![n] = [nd[n] EXCEPT ![f] = v]]

\* A store to a field other than the lock.
LEMMA StoredNodes ==
  ASSUME NEW nd, NodesOK(nd), NEW u \in Threads, NEW n \in DOMAIN nd, NEW f \in NodeFields \ {"lock", "key"}, NEW v,
         f # "parent" => nd[n].lock \in {u, Nobody},
         f \in {"left", "right"} => v \in Children(nd),
         f = "parent" => n # root /\ v \in DOMAIN nd,
         f = "height" => v \in Nat,
         f = "changeOVL" => n # root /\ v \in Nat
  PROVE  LET nd2 == Store(nd, n, f, v) IN
         /\ DOMAIN nd2 = DOMAIN nd /\ NodesOK(nd2) /\ StepOf(nd, nd2, u)
         /\ \A m \in DOMAIN nd : nd2[m].lock = nd[m].lock
         /\ \A m \in DOMAIN nd : nd2[m].changeOVL = IF m = n /\ f = "changeOVL" THEN v ELSE nd[m].changeOVL
         /\ \A m \in DOMAIN nd \ {n} : nd2[m] = nd[m]
         /\ nd2[n][f] = v /\ \A g \in NodeFields \ {f} : nd2[n][g] = nd[n][g]
<1> DEFINE R == [nd[n] EXCEPT ![f] = v]
           nd2 == [nd EXCEPT ![n] = R]
<1>1. NodeOK(nd, n)
  BY NodeTypes
<1>2. DOMAIN R = NodeFields /\ R[f] = v /\ \A g \in NodeFields \ {f} : R[g] = nd[n][g]
  BY <1>1 DEF NodeOK
<1> HIDE DEF R
<1>3. /\ R.left \in Children(nd) /\ R.right \in Children(nd)
      /\ R.parent \in (IF n = root THEN {NULL} ELSE DOMAIN nd)
      /\ R.height \in Nat /\ R.changeOVL \in Nat
      /\ R.lock = nd[n].lock /\ R.lock \in Threads \cup {Nobody}
  BY <1>1, <1>2 DEF NodeOK, NodeFields
<1>4. n = root => R.changeOVL = 0
  BY <1>2 DEF NodesOK, NodeFields
<1>5. \/ nd[n].lock \in {u, Nobody}
      \/ R.lock = nd[n].lock /\ \A g \in Protected : R[g] = nd[n][g]
  BY <1>2 DEF NodeFields, Protected
<1>6. /\ DOMAIN nd2 = DOMAIN nd /\ NodesOK(nd2) /\ StepOf(nd, nd2, u)
      /\ nd2[n] = R /\ \A m \in DOMAIN nd \ {n} : nd2[m] = nd[m]
  BY <1>2, <1>3, <1>4, <1>5, ReplacedNodes
<1> HIDE DEF nd2
<1>7. \A m \in DOMAIN nd : nd2[m].lock = nd[m].lock
  BY <1>3, <1>6
<1>8. \A m \in DOMAIN nd : nd2[m].changeOVL = IF m = n /\ f = "changeOVL" THEN v ELSE nd[m].changeOVL
  BY <1>2, <1>6 DEF NodeFields
<1> QED
  BY <1>2, <1>6, <1>7, <1>8 DEF nd2, R, Store

-----------------------------------------------------------------------------
(* Updates *)

\* A new leaf under the free node n.
LEMMA LeafNodes ==
  ASSUME Inv, NEW u \in Threads, NEW n \in DOMAIN node, Free(n)
  PROVE  LET nd2 == setChild(n, u) IN
         /\ NodesOK(nd2) /\ StepOf(node, nd2, u) /\ Calm(node, nd2) /\ Has(nd2, u, n)
<1> DEFINE c == Cardinality(DOMAIN node)
           dir == DirTo(l[u].key, n)
           R == [node[n] EXCEPT ![dir] = c, !.lock = u]
           new == rbnode_create(l[u].key, u, n)
           nd2 == setChild(n, u)
<1>1. NodesOK(node) /\ NodeOK(node, n)
  BY Start, NodeTypes
<1>2. c \in Nat \ {0} /\ c \notin DOMAIN node /\ DOMAIN node \cup {c} = 0 .. (c + 1) - 1
  BY <1>1, NewNode
<1> HIDE DEF c
<1>3. dir \in {"left", "right"}
  BY DEF DirTo
<1>4. nd2 = [m \in DOMAIN node \cup {c} |-> CASE m = c -> new [] m = n -> R [] OTHER -> node[m]]
  BY DEF setChild, c
<1> HIDE DEF dir
<1>5. /\ DOMAIN R = NodeFields /\ R.lock = u /\ R.left \in {node[n].left, c} /\ R.right \in {node[n].right, c}
      /\ R.parent = node[n].parent /\ R.height = node[n].height /\ R.changeOVL = node[n].changeOVL
  BY <1>1, <1>3 DEF NodeOK, NodeFields
<1>6. /\ DOMAIN new = NodeFields /\ new.lock = Nobody /\ new.left = NULL /\ new.right = NULL
      /\ new.parent = n /\ new.height = 1 /\ new.changeOVL = 0
  BY DEF rbnode_create, NodeFields
<1> HIDE DEF R, new, nd2
<1>7. /\ DOMAIN nd2 = DOMAIN node \cup {c} /\ nd2[c] = new /\ nd2[n] = R
      /\ \A m \in DOMAIN node \ {n} : nd2[m] = node[m]
  BY <1>2, <1>4
<1>8. Children(node) \subseteq Children(nd2) /\ c \in Children(nd2) /\ NULL \in Children(nd2)
  BY <1>2, <1>7 DEF Children, root
<1>9. ASSUME NEW m \in DOMAIN nd2 PROVE NodeOK(nd2, m)
  <2>1. CASE m = c
    BY <1>2, <1>6, <1>7, <1>8, <2>1 DEF NodeOK, root
  <2>2. CASE m = n
    BY <1>1, <1>5, <1>7, <1>8, <2>2 DEF NodeOK
  <2>3. CASE m \notin {c, n}
    <3>1. NodeOK(node, m) /\ nd2[m] = node[m]
      BY <1>1, <1>7, <2>3, NodeTypes
    <3> QED
      BY <1>7, <1>8, <3>1 DEF NodeOK
  <2> QED
    BY <2>1, <2>2, <2>3
<1>10. nd2[root].changeOVL = 0
  BY <1>1, <1>5, <1>7, NodeTypes DEF NodesOK
<1>11. NodesOK(nd2)
  <2>1. c + 1 \in Nat /\ c + 1 > 0 /\ DOMAIN nd2 = 0 .. (c + 1) - 1
    BY <1>2, <1>7
  <2> QED
    BY <1>9, <1>10, <2>1 DEF NodesOK
<1>12. StepOf(node, nd2, u)
  BY <1>7 DEF StepOf, Free
<1>13. Calm(node, nd2)
  BY <1>5, <1>6, <1>7, StillVersions DEF Calm
<1> QED
  BY <1>5, <1>7, <1>11, <1>12, <1>13 DEF Has, nd2

\* InsertLeaf: the node that gets the leaf is locked, and was free.
LEMMA InsertLeafInv ==
  ASSUME Inv, NEW u \in Threads, InsertLeaf(u)
  PROVE  Inv' /\ Guarded
<1> DEFINE L == l[u]
           n == Top(u).curr
<1>1. L.pc = "lock" /\ Free(n)
  BY DEF InsertLeaf, At
<1>2. DOMAIN L = Fields /\ StackOK(node, L.stack) /\ L.ovl \in Nat /\ L.child \in Children(node)
  BY <1>1, Start DEF CallOK, SearchOK, OnWay
<1>3. n \in DOMAIN node
  BY <1>2, TopOK DEF Top
<1> HIDE DEF n
<1>4. CASE Shrunk(u) /\ Retry(u)
  BY <1>1, <1>2, <1>4, ShrunkDeep, RetryStep
<1>5. CASE Local(u, [L EXCEPT !.pc = "child"])
  <2> DEFINE M == [L EXCEPT !.pc = "child"]
  <2>1. /\ DOMAIN M = Fields /\ M.pc = "child"
        /\ M.stack = L.stack /\ M.ovl = L.ovl /\ M.child = L.child
    BY <1>2 DEF Fields
  <2> HIDE DEF M
  <2> QED
    BY <1>1, <1>2, <1>5, <2>1, WayStep DEF OnWay, M
<1> DEFINE nd1 == setChild(n, u)
           q == IF n = root THEN "done" ELSE "c_left"
           M == [L EXCEPT !.pc = q, !.stack = <<>>, !.n = n, !.locked = TRUE]
<1>6. DOMAIN M = Fields /\ M.pc = q /\ M.n = n /\ M.locked = TRUE
  BY <1>2 DEF Fields
<1>7. NodesOK(nd1) /\ StepOf(node, nd1, u) /\ Calm(node, nd1) /\ Has(nd1, u, n)
  BY <1>1, <1>3, LeafNodes
<1> HIDE DEF M, nd1
<1>8. CASE n = root /\ node' = Unlocked([nd1 EXCEPT ![n].height = 2], u) /\ l' = [l EXCEPT ![u] = M]
  <2> DEFINE nd2 == Store(nd1, n, "height", 2)
  <2>1. node' = Unlocked(nd2, u)
    BY <1>8 DEF Store
  <2>2. /\ NodesOK(nd2) /\ StepOf(nd1, nd2, u) /\ DOMAIN nd2 = DOMAIN nd1
        /\ \A m \in DOMAIN nd1 : nd2[m].changeOVL = nd1[m].changeOVL
    <3>1. n \in DOMAIN nd1 /\ nd1[n].lock \in {u, Nobody} /\ "height" \in NodeFields \ {"lock", "key"}
      BY <1>7 DEF Has, NodeFields
    <3> QED
      BY <1>7, <3>1, StoredNodes
  <2> HIDE DEF nd2
  <2>3. StepOf(node, nd2, u) /\ Calm(node, nd2)
    BY <1>7, <2>2, StepsCompose DEF Calm
  <2>4. Settled(node, nd2, u) /\ CallOK(nd2, u, M) /\ M # L
    BY <1>1, <1>6, <1>8, <2>3, CalmSettled, IdleOK
  <2> QED
    BY <1>6, <1>8, <2>1, <2>2, <2>3, <2>4, ReleaseStep
<1>9. CASE n # root /\ node' = nd1 /\ l' = [l EXCEPT ![u] = M]
  <2>1. ConditionOK(nd1, u, M)
    BY <1>6, <1>7, <1>9 DEF ConditionOK
  <2>2. CallOK(nd1, u, M)
    BY <1>6, <1>9, <2>1, LookingOK DEF LookPlaces
  <2> QED
    BY <1>1, <1>6, <1>7, <1>9, <2>2, Stepped
<1> QED
  BY <1>4, <1>5, <1>8, <1>9 DEF InsertLeaf, n, nd1, M

\* Done: the call returns.
LEMMA DoneInv ==
  ASSUME Inv, NEW u \in Threads, Done(u)
  PROVE  Inv' /\ Guarded
<1>1. l[u].pc = "done" /\ Return(u, node, l[u].prev)
  BY DEF Done, At
<1> QED
  BY <1>1, Unmoved, ReturnStep

\* On at the node of the key.
LEMMA AtNodeStep ==
  ASSUME Inv, NEW u \in Threads, l[u].pc \in AtNode, NEW p \in {"n_left", "n_right", "n_plock", "n_lock"}, Goto(u, p)
  PROVE  Inv' /\ Guarded
<1> DEFINE L == l[u]
           M == [L EXCEPT !.pc = p]
<1>1. StackOK(node, L.stack) /\ L.child \in Children(node) /\ L.ovl \in Nat /\ Len(L.stack) > 1
  BY Start DEF CallOK, SearchOK
<1>2. /\ node' = node /\ l' = [l EXCEPT ![u] = M] /\ DOMAIN M = Fields /\ M.pc = p
      /\ M.stack = L.stack /\ M.child = L.child /\ M.ovl = L.ovl
  BY GotoFacts, ZenonT(40) DEF Fields
<1> HIDE DEF M
<1>3. SearchOK(node, u, M) /\ UnlinkOK(node, u, M)
  BY <1>1, <1>2 DEF SearchOK, UnlinkOK, AtNode
<1>4. CallOK(node, u, M)
  BY <1>2, <1>3, AtNodeOK DEF AtNode
<1> QED
  BY <1>2, <1>4, QuietStep DEF AtNode

\* The removal looks at its node without locks.
LEMMA NodeReadsInv ==
  ASSUME Inv, NEW u \in Threads, NodeValue(u) \/ NodeLeft(u) \/ NodeRight(u)
  PROVE  Inv' /\ Guarded
<1>1. CASE NodeValue(u)
  <2>1. l[u].pc = "n_value" /\ (Return(u, node, NoValue) \/ Goto(u, "n_left"))
    BY <1>1 DEF NodeValue, At
  <2> QED
    BY <2>1, Unmoved, ReturnStep, AtNodeStep DEF AtNode
<1>2. CASE NodeLeft(u) \/ NodeRight(u)
  <2>1. /\ l[u].pc \in {"n_left", "n_right"}
        /\ \E p \in {"n_right", "n_plock", "n_lock"} : Goto(u, p)
    BY <1>2 DEF NodeLeft, NodeRight, At
  <2> QED
    BY <2>1, AtNodeStep DEF AtNode
<1> QED
  BY <1>1, <1>2

\* NodeLockParent: the parent is locked, or the caller tries again.
LEMMA NodeLockParentInv ==
  ASSUME Inv, NEW u \in Threads, NodeLockParent(u)
  PROVE  Inv' /\ Guarded
<1> DEFINE L == l[u]
           p == Caller(u).curr
           n == Top(u).curr
           M == [L EXCEPT !.pc = "n_nlock", !.n = n, !.p = p]
<1>1. L.pc = "n_plock" /\ Free(p)
  BY DEF NodeLockParent, At
<1>2. /\ DOMAIN L = Fields /\ StackOK(node, L.stack) /\ L.child \in Children(node) /\ L.ovl \in Nat
      /\ Len(L.stack) > 1
  BY <1>1, Start DEF CallOK, SearchOK, AtNode
<1>3. p \in DOMAIN node /\ n \in DOMAIN node /\ n # root
  BY <1>2, TopOK DEF Top, Caller
<1>4. Retry(u) \/ Do(u, Locked(p, u), M)
  BY DEF NodeLockParent
<1> HIDE DEF p, n
<1>5. /\ DOMAIN M = Fields /\ M.pc = "n_nlock" /\ M.n = n /\ M.p = p
      /\ M.stack = L.stack /\ M.child = L.child /\ M.ovl = L.ovl
  BY <1>2 DEF Fields
<1> HIDE DEF M
<1>6. CASE Retry(u)
  BY <1>1, <1>2, <1>6, RetryStep
<1>7. CASE Do(u, Locked(p, u), M)
  <2>1. node' = Locked(p, u) /\ l' = [l EXCEPT ![u] = M]
    BY <1>7 DEF Do
  <2>2. DOMAIN node' = DOMAIN node /\ NodesOK(node') /\ StepOf(node, node', u) /\ Calm(node, node') /\ Has(node', u, p)
    BY <1>1, <1>3, <2>1, LockedNodes
  <2>3. StackOK(node', L.stack) /\ Children(node') = Children(node)
    BY <1>2, <2>2, StackKept DEF Children
  <2>4. SearchOK(node', u, M) /\ UnlinkOK(node', u, M)
    BY <1>2, <1>3, <1>5, <2>2, <2>3 DEF SearchOK, UnlinkOK
  <2>5. CallOK(node', u, M)
    BY <1>5, <2>4, AtNodeOK DEF AtNode
  <2> QED
    BY <1>1, <1>5, <2>1, <2>2, <2>5, Stepped
<1> QED
  BY <1>4, <1>6, <1>7

\* The free node n is locked and the link to it cut, under the lock of p.
LEMMA CutNodes ==
  ASSUME Inv, NEW u \in Threads, NEW p, Has(node, u, p), NEW n \in DOMAIN node, Free(n)
  PROVE  LET nd2 == CutLink(p, n, u) IN
         /\ DOMAIN nd2 = DOMAIN node /\ NodesOK(nd2) /\ StepOf(node, nd2, u) /\ Calm(node, nd2)
         /\ n # p /\ Has(nd2, u, n) /\ Has(nd2, u, p)
         /\ nd2[n].left = node[n].left /\ nd2[n].right = node[n].right
<1> DEFINE nd1 == Locked(n, u)
           f == IF node[p].left = n THEN "left" ELSE "right"
           nd2 == Store(nd1, p, f, Splice(n))
<1>1. NodesOK(node) /\ NodeOK(node, n) /\ n # p /\ p \in DOMAIN node
  BY Start, NodeTypes, ThreadsPositive DEF Has, Free
<1>2. /\ DOMAIN nd1 = DOMAIN node /\ NodesOK(nd1) /\ StepOf(node, nd1, u) /\ Calm(node, nd1)
      /\ Has(nd1, u, n) /\ \A m \in DOMAIN node \ {n} : nd1[m] = node[m]
      /\ \A g \in NodeFields \ {"lock"} : nd1[n][g] = node[n][g]
  BY LockedNodes
<1>3. CutLink(p, n, u) = nd2
  BY <1>1, <1>2 DEF CutLink, Store
<1>4. f \in NodeFields \ {"lock", "key"} /\ f \in {"left", "right"} /\ nd1[p].lock = u /\ Has(nd1, u, p)
  BY <1>1, <1>2 DEF NodeFields, Has
<1>5. Splice(n) \in Children(nd1)
  BY <1>1, <1>2 DEF Splice, Children, NodeOK
<1> HIDE DEF nd1, f
<1>6. /\ DOMAIN nd2 = DOMAIN nd1 /\ NodesOK(nd2) /\ StepOf(nd1, nd2, u)
      /\ \A m \in DOMAIN nd1 : nd2[m].lock = nd1[m].lock
      /\ \A m \in DOMAIN nd1 : nd2[m].changeOVL = nd1[m].changeOVL
      /\ \A m \in DOMAIN nd1 \ {p} : nd2[m] = nd1[m]
  <2> DEFINE s == Splice(n)
  <2>1. /\ NodesOK(nd1) /\ p \in DOMAIN nd1 /\ f \in NodeFields \ {"lock", "key"} /\ nd1[p].lock \in {u, Nobody}
        /\ s \in Children(nd1) /\ f \notin {"parent", "height", "changeOVL"}
    BY <1>1, <1>2, <1>4, <1>5
  <2> HIDE DEF s
  <2>2. LET nd == Store(nd1, p, f, s) IN
        /\ DOMAIN nd = DOMAIN nd1 /\ NodesOK(nd) /\ StepOf(nd1, nd, u)
        /\ \A m \in DOMAIN nd1 : nd[m].lock = nd1[m].lock
        /\ \A m \in DOMAIN nd1 : nd[m].changeOVL = nd1[m].changeOVL
        /\ \A m \in DOMAIN nd1 \ {p} : nd[m] = nd1[m]
    BY <2>1, StoredNodes
  <2> QED
    BY <2>2 DEF s
<1> HIDE DEF nd2
<1>7. StepOf(node, nd2, u)
  BY <1>2, <1>6, StepsCompose
<1>8. Calm(node, nd2)
  BY <1>2, <1>6 DEF Calm
<1>9. Has(nd2, u, n) /\ Has(nd2, u, p)
  BY <1>2, <1>4, <1>6 DEF Has
<1>10. nd2[n].left = node[n].left /\ nd2[n].right = node[n].right
  BY <1>1, <1>2, <1>6 DEF NodeFields
<1> QED
  BY <1>1, <1>2, <1>3, <1>6, <1>7, <1>8, <1>9, <1>10

\* ... and the call goes on to the second half of attemptUnlink_nl.
LEMMA CutStep ==
  ASSUME Inv, NEW u \in Threads, NEW p, Has(node, u, p), NEW n \in DOMAIN node, n # root, Free(n),
         node' = CutLink(p, n, u), l[u].pc \in {"n_nlock", "r_nlock"},
         NEW M, DOMAIN M = Fields, l' = [l EXCEPT ![u] = M], M.pc = AfterCut(n), M.n = n, M.p = p
  PROVE  Inv' /\ Guarded
<1>1. /\ DOMAIN node' = DOMAIN node /\ NodesOK(node') /\ StepOf(node, node', u) /\ Calm(node, node')
      /\ n # p /\ Has(node', u, n) /\ Has(node', u, p)
      /\ node'[n].left = node[n].left /\ node'[n].right = node[n].right
  BY CutNodes
<1>2. M.pc \in {"k_ovl", "k_parent"}
      /\ (M.pc = "k_parent" => node[n].left # NULL \/ node[n].right # NULL)
  BY DEF AfterCut, Splice
<1>3. UnlinkOK(node', u, M)
  BY <1>1, <1>2 DEF UnlinkOK
<1>4. CallOK(node', u, M)
  BY <1>2, <1>3, UnlinkingOK
<1> QED
  BY <1>1, <1>2, <1>4, Stepped

\* NodeUnlink: with both locks the link is cut, or all locks are released.
LEMMA NodeUnlinkInv ==
  ASSUME Inv, NEW u \in Threads, NodeUnlink(u)
  PROVE  Inv' /\ Guarded
<1> DEFINE L == l[u]
           prev == node[L.n].value
<1>1. L.pc = "n_nlock" /\ Free(L.n)
  BY DEF NodeUnlink, At
<1>2. /\ DOMAIN L = Fields /\ StackOK(node, L.stack) /\ L.child \in Children(node) /\ L.ovl \in Nat
      /\ Len(L.stack) > 1 /\ L.n \in DOMAIN node \ {root} /\ Has(node, u, L.p)
  BY <1>1, Start DEF CallOK, SearchOK, UnlinkOK, AtNode
<1>3. CASE Return(u, node, prev)
  BY <1>1, <1>3, Unmoved, ReturnStep
<1>4. CASE Do(u, Unlocked(node, u), [L EXCEPT !.stack = Front(L.stack), !.n = NULL, !.p = NULL, !.pc = "child"])
  <2> DEFINE M == [L EXCEPT !.stack = Front(L.stack), !.n = NULL, !.p = NULL, !.pc = "child"]
  <2>1. /\ DOMAIN M = Fields /\ M.pc = "child" /\ M.stack = Front(L.stack)
        /\ M.child = L.child /\ M.ovl = L.ovl
        /\ node' = Unlocked(node, u) /\ l' = [l EXCEPT ![u] = M]
    BY <1>2, <1>4 DEF Fields, Do
  <2> HIDE DEF M
  <2>2. StackOK(node, Front(L.stack))
    BY <1>2, FrontOK
  <2>3. SearchOK(node, u, M)
    BY <1>2, <2>1, <2>2 DEF SearchOK, OnWay, AtNode
  <2>4. CallOK(node, u, M)
    BY <2>1, <2>3, WayOK DEF OnWay
  <2> QED
    BY <1>1, <2>1, <2>4, Unmoved, ReleaseStep DEF OnWay
<1>5. CASE node' = CutLink(L.p, L.n, u) /\ l' = [l EXCEPT ![u] = [L EXCEPT !.prev = prev, !.pc = AfterCut(L.n)]]
  <2> DEFINE M == [L EXCEPT !.prev = prev, !.pc = AfterCut(L.n)]
  <2>1. DOMAIN M = Fields /\ M.pc = AfterCut(L.n) /\ M.n = L.n /\ M.p = L.p
    BY <1>2 DEF Fields
  <2> HIDE DEF M
  <2> QED
    BY <1>1, <1>2, <1>5, <2>1, CutStep DEF M
<1> QED
  BY <1>3, <1>4, <1>5 DEF NodeUnlink

\* UnlinkParent: only the parent link of the child changes.
LEMMA UnlinkParentInv ==
  ASSUME Inv, NEW u \in Threads, UnlinkParent(u)
  PROVE  Inv' /\ Guarded
<1> DEFINE L == l[u]
           s == Splice(L.n)
           M == [L EXCEPT !.pc = "k_ovl"]
           nd2 == Store(node, s, "parent", L.p)
<1>1. /\ L.pc = "k_parent" /\ Free(s) /\ node' = nd2 /\ l' = [l EXCEPT ![u] = M]
  BY DEF UnlinkParent, At, Do, Store
<1>2. /\ DOMAIN L = Fields /\ Has(node, u, L.n) /\ Has(node, u, L.p) /\ L.n # root /\ L.n # L.p
      /\ node[L.n].left # NULL \/ node[L.n].right # NULL
  BY <1>1, Start DEF CallOK, UnlinkOK
<1>3. s \in DOMAIN node /\ s # root
  BY <1>2, Start, NodeTypes DEF Splice, Has, NodeOK, Children
<1> HIDE DEF s
<1>4. DOMAIN M = Fields /\ M.pc = "k_ovl" /\ M.n = L.n /\ M.p = L.p
  BY <1>2 DEF Fields
<1>5. /\ DOMAIN nd2 = DOMAIN node /\ NodesOK(nd2) /\ StepOf(node, nd2, u)
      /\ \A m \in DOMAIN node : nd2[m].lock = node[m].lock
      /\ \A m \in DOMAIN node : nd2[m].changeOVL = node[m].changeOVL
  <2>1. "parent" \in NodeFields \ {"lock", "key"} /\ L.p \in DOMAIN node /\ NodesOK(node)
    BY <1>2, Start DEF NodeFields, Has
  <2> QED
    BY <1>3, <2>1, StoredNodes
<1> HIDE DEF nd2, M
<1>6. Calm(node, nd2) /\ Has(nd2, u, L.n) /\ Has(nd2, u, L.p)
  BY <1>2, <1>5 DEF Calm, Has
<1>7. UnlinkOK(nd2, u, M)
  BY <1>2, <1>4, <1>5, <1>6 DEF UnlinkOK, Has
<1>8. CallOK(nd2, u, M)
  BY <1>4, <1>7, UnlinkingOK
<1> QED
  BY <1>1, <1>4, <1>5, <1>6, <1>8, Stepped

\* UnlinkOVL: an unlinked version is not changing.
LEMMA UnlinkOVLInv ==
  ASSUME Inv, NEW u \in Threads, UnlinkOVL(u)
  PROVE  Inv' /\ Guarded
<1> DEFINE L == l[u]
           n == L.n
           M == [L EXCEPT !.pc = "k_value"]
           nd2 == Store(node, n, "changeOVL", UnlinkedOVL)
<1>1. /\ L.pc = "k_ovl" /\ node' = nd2 /\ l' = [l EXCEPT ![u] = M]
  BY DEF UnlinkOVL, At, Do, Store
<1>2. DOMAIN L = Fields /\ Has(node, u, L.n) /\ Has(node, u, L.p) /\ L.n # root /\ L.n # L.p
  BY <1>1, Start DEF CallOK, UnlinkOK
<1>3. DOMAIN M = Fields /\ M.pc = "k_value" /\ M.n = L.n /\ M.p = L.p
  BY <1>2 DEF Fields
<1>4. /\ DOMAIN nd2 = DOMAIN node /\ NodesOK(nd2) /\ StepOf(node, nd2, u)
      /\ \A m \in DOMAIN node : nd2[m].lock = node[m].lock
      /\ \A m \in DOMAIN node : nd2[m].changeOVL = IF m = n THEN UnlinkedOVL ELSE node[m].changeOVL
  <2>1. /\ "changeOVL" \in NodeFields \ {"lock", "key"} /\ n \in DOMAIN node /\ NodesOK(node)
        /\ node[n].lock = u /\ n # root /\ UnlinkedOVL \in Nat
    BY <1>2, Start DEF NodeFields, Has, UnlinkedOVL
  <2> QED
    BY <2>1, StoredNodes
<1> HIDE DEF nd2, M
<1>5. Calm(node, nd2) /\ Has(nd2, u, L.n) /\ Has(nd2, u, L.p)
  BY <1>2, <1>4, StillVersions DEF Calm, Has
<1>6. UnlinkOK(nd2, u, M)
  BY <1>2, <1>3, <1>4, <1>5 DEF UnlinkOK, Has
<1>7. CallOK(nd2, u, M)
  BY <1>3, <1>6, UnlinkingOK
<1> QED
  BY <1>1, <1>3, <1>4, <1>5, <1>7, Stepped

\* UnlinkValue: the lock of the parent is kept for fixHeight_nl.
LEMMA UnlinkValueInv ==
  ASSUME Inv, NEW u \in Threads, UnlinkValue(u)
  PROVE  Inv' /\ Guarded
<1> DEFINE L == l[u]
           n == L.n
           M == [L EXCEPT !.n = L.p, !.p = NULL, !.locked = TRUE, !.stack = <<>>, !.pc = "c_left"]
           nd1 == Store(node, n, "value", NoValue)
           R == [nd1[n] EXCEPT !.lock = Nobody]
           nd2 == [nd1 EXCEPT ![n] = R]
<1>1. L.pc = "k_value" /\ node' \in {nd1, nd2} /\ l' = [l EXCEPT ![u] = M]
  BY DEF UnlinkValue, At, Do, Store
<1>2. DOMAIN L = Fields /\ Has(node, u, L.n) /\ Has(node, u, L.p) /\ L.n # root /\ L.n # L.p
  BY <1>1, Start DEF CallOK, UnlinkOK
<1>3. DOMAIN M = Fields /\ M.pc = "c_left" /\ M.n = L.p /\ M.locked = TRUE
  BY <1>2 DEF Fields
<1>4. /\ DOMAIN nd1 = DOMAIN node /\ NodesOK(nd1) /\ StepOf(node, nd1, u)
      /\ \A m \in DOMAIN node : nd1[m].lock = node[m].lock
      /\ \A m \in DOMAIN node : nd1[m].changeOVL = node[m].changeOVL
  <2>1. /\ "value" \in NodeFields \ {"lock", "key"} /\ n \in DOMAIN node /\ NodesOK(node)
        /\ node[n].lock = u
    BY <1>2, Start DEF NodeFields, Has
  <2> QED
    BY <2>1, StoredNodes
<1> HIDE DEF nd1
<1>5. n \in DOMAIN nd1 /\ NodeOK(nd1, n) /\ nd1[n].lock = u
  BY <1>2, <1>4, NodeTypes DEF Has
<1>6. DOMAIN R = NodeFields /\ R.lock = Nobody /\ \A g \in NodeFields \ {"lock"} : R[g] = nd1[n][g]
  BY <1>5 DEF NodeOK, NodeFields
<1> HIDE DEF R
<1>7. /\ DOMAIN nd2 = DOMAIN nd1 /\ NodesOK(nd2) /\ StepOf(nd1, nd2, u)
      /\ nd2[n] = R /\ \A m \in DOMAIN nd1 \ {n} : nd2[m] = nd1[m]
  <2>1. /\ R.left \in Children(nd1) /\ R.right \in Children(nd1)
        /\ R.parent \in (IF n = root THEN {NULL} ELSE DOMAIN nd1)
        /\ R.height \in Nat /\ R.changeOVL \in Nat /\ R.lock \in Threads \cup {Nobody}
    BY <1>5, <1>6 DEF NodeOK, NodeFields
  <2>2. n # root /\ nd1[n].lock \in {u, Nobody} /\ n \in DOMAIN nd1 /\ NodesOK(nd1) /\ DOMAIN R = NodeFields
    BY <1>2, <1>4, <1>5, <1>6
  <2> HIDE DEF n
  <2> QED
    BY <2>1, <2>2, ReplacedNodes
<1> HIDE DEF nd2, M
<1>8. StepOf(node, node', u) /\ NodesOK(node') /\ Has(node', u, L.p)
  BY <1>1, <1>2, <1>4, <1>7, StepsCompose DEF Has
<1>9. Calm(node, node')
  BY <1>1, <1>4, <1>6, <1>7 DEF Calm, NodeFields
<1>10. ConditionOK(node', u, M)
  BY <1>3, <1>8 DEF ConditionOK
<1>11. CallOK(node', u, M)
  BY <1>3, <1>10, LookingOK DEF LookPlaces
<1> QED
  BY <1>1, <1>3, <1>8, <1>9, <1>11, Stepped

\* NodeUpdate: the value of a free node changes under its lock.
LEMMA NodeUpdateInv ==
  ASSUME Inv, NEW u \in Threads, NodeUpdate(u)
  PROVE  Inv' /\ Guarded
<1> DEFINE L == l[u]
           n == Top(u).curr
           prev == node[n].value
           new == IF L.op = "erase" THEN NoValue ELSE u
           M == [L EXCEPT !.stack = <<>>, !.prev = prev, !.pc = "done"]
           nd2 == Store(node, n, "value", new)
<1>1. L.pc = "n_lock" /\ Free(n)
  BY DEF NodeUpdate, At
<1>2. DOMAIN L = Fields /\ StackOK(node, L.stack) /\ Len(L.stack) > 1
  BY <1>1, Start DEF CallOK, SearchOK, AtNode
<1>3. n \in DOMAIN node
  BY <1>2, TopOK DEF Top
<1>4. CASE Retry(u)
  BY <1>1, <1>2, <1>4, RetryStep
<1>5. CASE Return(u, node, prev)
  BY <1>1, <1>5, Unmoved, ReturnStep
<1>6. CASE node' = nd2 /\ l' = [l EXCEPT ![u] = M]
  <2>1. DOMAIN M = Fields /\ M.pc = "done"
    BY <1>2 DEF Fields
  <2>2. /\ DOMAIN nd2 = DOMAIN node /\ NodesOK(nd2) /\ StepOf(node, nd2, u)
        /\ \A m \in DOMAIN node : nd2[m].changeOVL = node[m].changeOVL
    <3>1. /\ "value" \in NodeFields \ {"lock", "key"} /\ NodesOK(node) /\ node[n].lock = Nobody
      BY <1>1, Start DEF NodeFields, Free
    <3> HIDE DEF n, new
    <3> QED
      BY <1>3, <3>1, StoredNodes
  <2> HIDE DEF nd2, M
  <2>3. Calm(node, nd2) /\ CallOK(nd2, u, M)
    BY <2>1, <2>2, IdleOK DEF Calm
  <2> QED
    BY <1>1, <1>6, <2>1, <2>2, <2>3, Stepped
<1> QED
  BY <1>4, <1>5, <1>6 DEF NodeUpdate, Store

-----------------------------------------------------------------------------
(* Repairs *)

\* A look at a node that goes on.
LEMMA LookStep ==
  ASSUME Inv, NEW u \in Threads, l[u].pc # "write", NEW M, DOMAIN M = Fields, Local(u, M),
         M.pc \in LookPlaces, ConditionOK(node, u, M)
  PROVE  Inv' /\ Guarded
<1>1. node' = node /\ l' = [l EXCEPT ![u] = M]
  BY DEF Local, Do
<1>2. CallOK(node, u, M)
  BY LookingOK
<1> QED
  BY <1>1, <1>2, QuietStep

\* A repair that goes on.
LEMMA RepairingStep ==
  ASSUME Inv, NEW u \in Threads, l[u].pc # "write", NEW M, DOMAIN M = Fields, Local(u, M),
         M.pc \in RepairPlaces, RepairOK(node, u, M)
  PROVE  Inv' /\ Guarded
<1>1. node' = node /\ l' = [l EXCEPT ![u] = M]
  BY DEF Local, Do
<1>2. CallOK(node, u, M)
  BY RepairingOK
<1> QED
  BY <1>1, <1>2, QuietStep

\* Heights are natural numbers.
LEMMA HeightOK ==
  ASSUME NodesOK(node), NEW n \in Children(node)
  PROVE  height(n) \in Nat
  BY NodeTypes DEF height, Children, NodeOK

\* nodeCondition ends with c.
LEMMA ConcludedStep ==
  ASSUME Inv, NEW u \in Threads, l[u].pc \in {"c_value", "c_hR"}, NEW c \in Int, Concluded(u, c)
  PROVE  Inv' /\ Guarded
<1> DEFINE L == l[u]
<1>1. /\ DOMAIN L = Fields /\ L.locked \in BOOLEAN
      /\ IF L.locked THEN Has(node, u, L.n) ELSE L.n \in DOMAIN node \ {root}
  BY Start DEF CallOK, ConditionOK
<1>2. L.n \in DOMAIN node
  BY <1>1 DEF Has
<1>3. CASE Repair(u, node, NULL) \/ Repair(u, node, L.n)
  BY <1>2, <1>3, Unmoved, RepairStep
<1>4. CASE ~L.locked /\ Local(u, [LookAt(L, L.n, FALSE) EXCEPT !.hN = c, !.pc = "r_ovl"])
  <2> DEFINE M == [LookAt(L, L.n, FALSE) EXCEPT !.hN = c, !.pc = "r_ovl"]
  <2>1. DOMAIN M = Fields /\ M.pc = "r_ovl" /\ M.n = L.n
    BY DEF LookAt, Locals, Fields
  <2> HIDE DEF M
  <2>2. RepairOK(node, u, M)
    BY <1>1, <1>4, <2>1 DEF RepairOK, Turning
  <2> QED
    BY <1>4, <2>1, <2>2, RepairingStep DEF M, RepairPlaces
<1>5. CASE L.locked /\ c >= 0 /\ Local(u, [LookAt(L, L.n, TRUE) EXCEPT !.hN = c, !.pc = "h_set"])
  <2> DEFINE M == [LookAt(L, L.n, TRUE) EXCEPT !.hN = c, !.pc = "h_set"]
  <2>1. DOMAIN M = Fields /\ M.pc = "h_set" /\ M.n = L.n /\ M.hN = c
    BY DEF LookAt, Locals, Fields
  <2> HIDE DEF M
  <2>2. ConditionOK(node, u, M)
    BY <1>1, <1>5, <2>1 DEF ConditionOK
  <2> QED
    BY <1>5, <2>1, <2>2, LookStep DEF M, LookPlaces
<1> QED
  BY <1>3, <1>4, <1>5 DEF Concluded

\* ConditionLeft: a child is read, locked or not.
LEMMA ConditionLeftInv ==
  ASSUME Inv, NEW u \in Threads, ConditionLeft(u)
  PROVE  Inv' /\ Guarded
<1> DEFINE L == l[u]
           M == [L EXCEPT !.nL = node[L.n].left, !.pc = "c_right"]
<1>1. L.pc = "c_left" /\ Local(u, M)
  BY DEF ConditionLeft, At
<1>2. /\ DOMAIN L = Fields /\ L.locked \in BOOLEAN
      /\ IF L.locked THEN Has(node, u, L.n) ELSE L.n \in DOMAIN node \ {root}
  BY <1>1, Start DEF CallOK, ConditionOK
<1>3. node[L.n].left \in Children(node)
  BY <1>2, Start, NodeTypes DEF Has, NodeOK
<1>4. DOMAIN M = Fields /\ M.pc = "c_right" /\ M.n = L.n /\ M.locked = L.locked /\ M.nL = node[L.n].left
  BY <1>2 DEF Fields
<1> HIDE DEF M
<1>5. ConditionOK(node, u, M)
  BY <1>2, <1>3, <1>4 DEF ConditionOK
<1> QED
  BY <1>1, <1>4, <1>5, LookStep DEF LookPlaces

\* ConditionRight: the other child.
LEMMA ConditionRightInv ==
  ASSUME Inv, NEW u \in Threads, ConditionRight(u)
  PROVE  Inv' /\ Guarded
<1> DEFINE L == l[u]
           r == node[L.n].right
           q == IF NULL \in {L.nL, r} THEN "c_value" ELSE "c_height"
           M == [L EXCEPT !.nR = r, !.pc = q]
<1>1. L.pc = "c_right" /\ Local(u, M)
  BY DEF ConditionRight, At
<1>2. /\ DOMAIN L = Fields /\ L.locked \in BOOLEAN /\ L.nL \in Children(node)
      /\ IF L.locked THEN Has(node, u, L.n) ELSE L.n \in DOMAIN node \ {root}
  BY <1>1, Start DEF CallOK, ConditionOK
<1>3. r \in Children(node) /\ q \in {"c_value", "c_height"}
  BY <1>2, Start, NodeTypes DEF Has, NodeOK
<1> HIDE DEF q, r
<1>4. DOMAIN M = Fields /\ M.pc = q /\ M.n = L.n /\ M.locked = L.locked /\ M.nL = L.nL /\ M.nR = r
  BY <1>2 DEF Fields
<1> HIDE DEF M
<1>5. ConditionOK(node, u, M)
  BY <1>2, <1>3, <1>4 DEF ConditionOK
<1> QED
  BY <1>1, <1>3, <1>4, <1>5, LookStep DEF LookPlaces

\* ConditionValue: a node with a free side may be needless.
LEMMA ConditionValueInv ==
  ASSUME Inv, NEW u \in Threads, ConditionValue(u)
  PROVE  Inv' /\ Guarded
<1> DEFINE L == l[u]
           M == [L EXCEPT !.pc = "c_height"]
<1>1. L.pc = "c_value" /\ (Concluded(u, UnlinkRequired) \/ Goto(u, "c_height"))
  BY DEF ConditionValue, At
<1>2. CASE Concluded(u, UnlinkRequired)
  BY <1>1, <1>2, ConcludedStep DEF UnlinkRequired
<1>3. CASE Goto(u, "c_height")
  <2>1. /\ L.locked \in BOOLEAN /\ L.nL \in Children(node) /\ L.nR \in Children(node)
        /\ IF L.locked THEN Has(node, u, L.n) ELSE L.n \in DOMAIN node \ {root}
    BY <1>1, Start DEF CallOK, ConditionOK
  <2>2. /\ Local(u, M) /\ DOMAIN M = Fields /\ M.pc = "c_height"
        /\ M.n = L.n /\ M.locked = L.locked /\ M.nL = L.nL /\ M.nR = L.nR
    BY <1>3, GotoFacts DEF Fields
  <2> HIDE DEF M
  <2>3. ConditionOK(node, u, M)
    BY <2>1, <2>2 DEF ConditionOK
  <2> QED
    BY <1>1, <2>2, <2>3, LookStep DEF LookPlaces
<1> QED
  BY <1>1, <1>2, <1>3

\* ConditionHeight and ConditionHL: heights are natural numbers.
LEMMA ConditionHeightsInv ==
  ASSUME Inv, NEW u \in Threads, ConditionHeight(u) \/ ConditionHL(u)
  PROVE  Inv' /\ Guarded
<1> DEFINE L == l[u]
<1>1. L.pc \in {"c_height", "c_hL"}
  BY DEF ConditionHeight, ConditionHL, At
<1>2. /\ DOMAIN L = Fields /\ L.locked \in BOOLEAN /\ L.nL \in Children(node) /\ L.nR \in Children(node)
      /\ IF L.locked THEN Has(node, u, L.n) ELSE L.n \in DOMAIN node \ {root}
  BY <1>1, Start DEF CallOK, ConditionOK
<1>3. CASE ConditionHeight(u)
  <2> DEFINE h == node[L.n].height
             M == [L EXCEPT !.hN = h, !.pc = "c_hL"]
  <2>1. Local(u, M)
    BY <1>3 DEF ConditionHeight
  <2> HIDE DEF h
  <2>2. /\ DOMAIN M = Fields /\ M.pc = "c_hL" /\ M.n = L.n /\ M.locked = L.locked /\ M.nL = L.nL /\ M.nR = L.nR
    BY <1>2 DEF Fields
  <2> HIDE DEF M
  <2>3. ConditionOK(node, u, M)
    BY <1>2, <2>2 DEF ConditionOK
  <2> QED
    BY <1>1, <2>1, <2>2, <2>3, LookStep DEF LookPlaces
<1>4. CASE ConditionHL(u)
  <2> DEFINE h == height(L.nL)
             M == [L EXCEPT !.hL = h, !.pc = "c_hR"]
  <2>1. Local(u, M) /\ h \in Nat
    BY <1>2, <1>4, Start, HeightOK DEF ConditionHL
  <2> HIDE DEF h
  <2>2. /\ DOMAIN M = Fields /\ M.pc = "c_hR" /\ M.n = L.n /\ M.locked = L.locked
        /\ M.nL = L.nL /\ M.nR = L.nR /\ M.hL = h
    BY <1>2 DEF Fields
  <2> HIDE DEF M
  <2>3. ConditionOK(node, u, M)
    BY <1>2, <2>1, <2>2 DEF ConditionOK
  <2> QED
    BY <1>1, <2>1, <2>2, <2>3, LookStep DEF LookPlaces
<1> QED
  BY <1>3, <1>4

\* ConditionHR: the condition is an integer, a height if it is not negative.
LEMMA ConditionHRInv ==
  ASSUME Inv, NEW u \in Threads, ConditionHR(u)
  PROVE  Inv' /\ Guarded
<1> DEFINE L == l[u]
           hR == height(L.nR)
           hNRepl == 1 + Maximum(L.hL, hR)
           c == CASE Abs(L.hL - hR) > 1 -> RebalanceRequired
                  [] Abs(L.hL - hR) <= 1 /\ L.hN # hNRepl -> hNRepl
                  [] OTHER -> NothingRequired
<1>1. L.pc = "c_hR" /\ Concluded(u, c)
  BY DEF ConditionHR, At
<1>2. L.hL \in Nat /\ L.nR \in Children(node)
  BY <1>1, Start DEF CallOK, ConditionOK
<1>3. hR \in Nat
  BY <1>2, Start, HeightOK
<1> HIDE DEF hR
<1>4. hNRepl \in Nat /\ Abs(L.hL - hR) \in Nat
  BY <1>2, <1>3 DEF Maximum, Abs
<1> HIDE DEF hNRepl
<1>5. c \in Int
  BY <1>4 DEF RebalanceRequired, NothingRequired
<1> HIDE DEF c
<1> QED
  BY <1>1, <1>5, ConcludedStep

\* SetHeight: under the lock of the node.
LEMMA SetHeightInv ==
  ASSUME Inv, NEW u \in Threads, SetHeight(u)
  PROVE  Inv' /\ Guarded
<1> DEFINE L == l[u]
           M == [L EXCEPT !.pc = "h_parent"]
           nd2 == Store(node, L.n, "height", L.hN)
<1>1. L.pc = "h_set" /\ node' = nd2 /\ l' = [l EXCEPT ![u] = M]
  BY DEF SetHeight, At, Do, Store
<1>2. DOMAIN L = Fields /\ Has(node, u, L.n) /\ L.hN \in Nat
  BY <1>1, Start DEF CallOK, ConditionOK
<1>3. DOMAIN M = Fields /\ M.pc = "h_parent" /\ M.n = L.n
  BY <1>2 DEF Fields
<1>4. /\ DOMAIN nd2 = DOMAIN node /\ NodesOK(nd2) /\ StepOf(node, nd2, u)
      /\ \A m \in DOMAIN node : nd2[m].lock = node[m].lock
      /\ \A m \in DOMAIN node : nd2[m].changeOVL = node[m].changeOVL
  <2>1. "height" \in NodeFields \ {"lock", "key"} /\ L.n \in DOMAIN node /\ NodesOK(node) /\ node[L.n].lock = u
    BY <1>2, Start DEF NodeFields, Has
  <2> QED
    BY <1>2, <2>1, StoredNodes
<1> HIDE DEF nd2, M
<1>5. Calm(node, nd2) /\ Has(nd2, u, L.n)
  BY <1>2, <1>4 DEF Calm, Has
<1>6. ConditionOK(nd2, u, M)
  BY <1>3, <1>5 DEF ConditionOK
<1>7. CallOK(nd2, u, M)
  BY <1>3, <1>6, LookingOK DEF LookPlaces
<1> QED
  BY <1>1, <1>3, <1>4, <1>5, <1>7, Stepped

\* DamagedParent: the parent, which only the holder has not.
LEMMA DamagedParentInv ==
  ASSUME Inv, NEW u \in Threads, DamagedParent(u)
  PROVE  Inv' /\ Guarded
<1> DEFINE p == node[l[u].n].parent
<1>1. l[u].pc = "h_parent" /\ Repair(u, node, p)
  BY DEF DamagedParent, At
<1>2. Has(node, u, l[u].n)
  BY <1>1, Start DEF CallOK, ConditionOK
<1>3. p \in DOMAIN node \cup {NULL}
  BY <1>2, Start, NodeTypes DEF Has, NodeOK
<1> HIDE DEF p
<1> QED
  BY <1>1, <1>3, Unmoved, RepairStep

\* RepairKind: no node changes.
LEMMA RepairKindInv ==
  ASSUME Inv, NEW u \in Threads, RepairKind(u)
  PROVE  Inv' /\ Guarded
<1> DEFINE L == l[u]
<1>1. L.pc = "r_ovl" /\ (Repair(u, node, NULL) \/ \E p \in {"r_lock", "r_parent"} : Goto(u, p))
  BY DEF RepairKind, At
<1>2. L.n \in DOMAIN node \ {root}
  BY <1>1, Start DEF CallOK, RepairOK
<1>3. CASE Repair(u, node, NULL)
  BY <1>1, <1>3, Unmoved, RepairStep
<1>4. ASSUME NEW p \in {"r_lock", "r_parent"}, Goto(u, p)
      PROVE  Inv' /\ Guarded
  <2> DEFINE M == [L EXCEPT !.pc = p]
  <2>1. Local(u, M) /\ DOMAIN M = Fields /\ M.pc = p /\ M.n = L.n
    BY <1>4, GotoFacts DEF Fields
  <2> HIDE DEF M
  <2>2. RepairOK(node, u, M)
    BY <1>2, <2>1 DEF RepairOK, Turning
  <2> QED
    BY <1>1, <2>1, <2>2, RepairingStep DEF RepairPlaces
<1> QED
  BY <1>1, <1>3, <1>4

\* The locals of a call that looks at n.
LEMMA LookAtFacts ==
  ASSUME NEW L, NEW n
  PROVE  DOMAIN LookAt(L, n, FALSE) = Fields /\ LookAt(L, n, FALSE).n = n
  BY DEF LookAt, Locals, Fields

\* The lock of the node whose height is repaired.
LEMMA RepairHeightInv ==
  ASSUME Inv, NEW u \in Threads, RepairHeight(u)
  PROVE  Inv' /\ Guarded
<1> DEFINE n == l[u].n
           nd1 == Locked(n, u)
<1>1. l[u].pc = "r_lock" /\ Free(n) /\ fixHeight_nl(u, nd1, n)
  BY DEF RepairHeight, At
<1>2. n \in DOMAIN node
  BY <1>1, Start DEF CallOK, RepairOK
<1> HIDE DEF n
<1>3. NodesOK(nd1) /\ StepOf(node, nd1, u) /\ Calm(node, nd1) /\ Has(nd1, u, n)
  BY <1>1, <1>2, LockedNodes
<1> HIDE DEF nd1
<1>4. Settled(node, nd1, u)
  BY <1>1, <1>3, CalmSettled
<1> QED
  BY <1>1, <1>3, <1>4, FixHeightStep

\* The parent is read without a lock.
LEMMA ReadParentInv ==
  ASSUME Inv, NEW u \in Threads, ReadParent(u)
  PROVE  Inv' /\ Guarded
<1> DEFINE L == l[u]
           p == node[L.n].parent
           M == [L EXCEPT !.p = p, !.pc = "r_plock"]
<1>1. L.pc = "r_parent" /\ Local(u, M)
  BY DEF ReadParent, At
<1>2. DOMAIN L = Fields /\ L.n \in DOMAIN node \ {root}
  BY <1>1, Start DEF CallOK, RepairOK
<1>3. p \in DOMAIN node
  BY <1>2, Start, NodeTypes DEF NodeOK
<1> HIDE DEF p
<1>4. DOMAIN M = Fields /\ M.pc = "r_plock" /\ M.n = L.n /\ M.p = p
  BY <1>2 DEF Fields
<1> HIDE DEF M
<1>5. RepairOK(node, u, M)
  BY <1>2, <1>3, <1>4 DEF RepairOK, Turning
<1> QED
  BY <1>1, <1>4, <1>5, RepairingStep DEF RepairPlaces

\* The parent is locked, or the repair looks again.
LEMMA LockParentInv ==
  ASSUME Inv, NEW u \in Threads, LockParent(u)
  PROVE  Inv' /\ Guarded
<1> DEFINE L == l[u]
           p == L.p
           n == L.n
           nd2 == Locked(p, u)
           M == [LookAt(L, n, FALSE) EXCEPT !.p = p, !.pc = "r_nlock"]
<1>1. L.pc = "r_plock" /\ Free(p) /\ (Do(u, nd2, M) \/ Repair(u, node, n))
  BY DEF LockParent, At
<1>2. DOMAIN L = Fields /\ n \in DOMAIN node \ {root} /\ p \in DOMAIN node
  BY <1>1, Start DEF CallOK, RepairOK
<1>3. CASE Repair(u, node, n)
  BY <1>1, <1>2, <1>3, Unmoved, RepairStep
<1>4. CASE Do(u, nd2, M)
  <2>1. DOMAIN M = Fields /\ M.pc = "r_nlock" /\ M.n = n /\ M.p = p
    <3>1. PICK K : K = LookAt(L, n, FALSE)
      OBVIOUS
    <3>2. DOMAIN K = Fields /\ K.n = n /\ M = [K EXCEPT !.p = p, !.pc = "r_nlock"]
      BY <3>1, LookAtFacts
    <3> HIDE DEF M
    <3> QED
      BY <3>2 DEF Fields
  <2>2. node' = nd2 /\ l' = [l EXCEPT ![u] = M]
    BY <1>4 DEF Do
  <2> HIDE DEF M, n, p
  <2>3. NodesOK(nd2) /\ StepOf(node, nd2, u) /\ Calm(node, nd2) /\ Has(nd2, u, p) /\ DOMAIN nd2 = DOMAIN node
    BY <1>1, <1>2, LockedNodes
  <2> HIDE DEF nd2
  <2>4. RepairOK(nd2, u, M)
    BY <1>2, <2>1, <2>3 DEF RepairOK, Turning
  <2>5. CallOK(nd2, u, M)
    BY <2>1, <2>4, RepairingOK DEF RepairPlaces
  <2> QED
    BY <1>1, <2>1, <2>2, <2>3, <2>5, Stepped
<1> QED
  BY <1>1, <1>3, <1>4

\* The node is locked too, and unlinked if it is needless.
LEMMA LockNodeInv ==
  ASSUME Inv, NEW u \in Threads, LockNode(u)
  PROVE  Inv' /\ Guarded
<1> DEFINE L == l[u]
           n == L.n
           p == L.p
           nd2 == Locked(n, u)
           M == [L EXCEPT !.pc = "b_hL"]
           C == [L EXCEPT !.pc = AfterCut(n)]
<1>1. /\ L.pc = "r_nlock" /\ Free(n)
      /\ Do(u, nd2, M) \/ Do(u, CutLink(p, n, u), C) \/ Repair(u, nd2, n)
  BY DEF LockNode, At
<1>2. DOMAIN L = Fields /\ n \in DOMAIN node \ {root} /\ Has(node, u, p)
  BY <1>1, Start DEF CallOK, RepairOK
<1>3. n # p
  BY <1>1, <1>2, ThreadsPositive DEF Free, Has
<1>4. /\ DOMAIN M = Fields /\ M.pc = "b_hL" /\ M.n = n /\ M.p = p
      /\ DOMAIN C = Fields /\ C.pc = AfterCut(n) /\ C.n = n /\ C.p = p
  BY <1>2 DEF Fields
<1> HIDE DEF M, C, n, p
<1>5. /\ NodesOK(nd2) /\ StepOf(node, nd2, u) /\ Calm(node, nd2) /\ Has(nd2, u, n)
      /\ DOMAIN nd2 = DOMAIN node /\ \A m \in DOMAIN node \ {n} : nd2[m] = node[m]
  BY <1>1, <1>2, LockedNodes
<1> HIDE DEF nd2
<1>6. Has(nd2, u, p)
  BY <1>2, <1>3, <1>5 DEF Has
<1>7. CASE Do(u, nd2, M)
  <2>1. node' = nd2 /\ l' = [l EXCEPT ![u] = M]
    BY <1>7 DEF Do
  <2>2. RepairOK(nd2, u, M)
    BY <1>2, <1>3, <1>4, <1>5, <1>6 DEF RepairOK, Turning
  <2>3. CallOK(nd2, u, M)
    BY <1>4, <2>2, RepairingOK DEF RepairPlaces
  <2> QED
    BY <1>1, <1>4, <1>5, <2>1, <2>3, Stepped
<1>8. CASE Do(u, CutLink(p, n, u), C)
  <2>1. node' = CutLink(p, n, u) /\ l' = [l EXCEPT ![u] = C]
    BY <1>8 DEF Do
  <2> QED
    BY <1>1, <1>2, <1>4, <2>1, CutStep
<1>9. CASE Repair(u, nd2, n)
  <2>1. Settled(node, nd2, u) /\ n \in DOMAIN nd2 \cup {NULL}
    BY <1>1, <1>2, <1>5, CalmSettled
  <2> QED
    BY <1>1, <1>5, <1>9, <2>1, RepairStep
<1> QED
  BY <1>1, <1>7, <1>8, <1>9

\* The height of the left child is read: a child that is not there has none.
LEMMA BalanceLeftInv ==
  ASSUME Inv, NEW u \in Threads, BalanceLeft(u)
  PROVE  Inv' /\ Guarded
<1> DEFINE L == l[u]
           h == height(node[L.n].left)
           M == [L EXCEPT !.hL = h, !.pc = "b_hR"]
<1>1. L.pc = "b_hL" /\ Local(u, M)
  BY DEF BalanceLeft, At
<1>2. DOMAIN L = Fields /\ L.n # root /\ Has(node, u, L.n) /\ Has(node, u, L.p)
  BY <1>1, Start DEF CallOK, RepairOK
<1>3. node[L.n].left \in Children(node)
  BY <1>2, Start, NodeTypes DEF Has, NodeOK
<1>4. h \in Nat /\ (node[L.n].left = NULL => h = 0)
  BY <1>3, Start, HeightOK DEF height
<1> HIDE DEF h
<1>5. DOMAIN M = Fields /\ M.pc = "b_hR" /\ M.n = L.n /\ M.p = L.p /\ M.hL = h
  BY <1>2 DEF Fields
<1> HIDE DEF M
<1>6. RepairOK(node, u, M)
  BY <1>2, <1>4, <1>5 DEF RepairOK, Turning
<1> QED
  BY <1>1, <1>5, <1>6, RepairingStep DEF RepairPlaces

\* On to a rotation.
LEMMA TurnStep ==
  ASSUME Inv, NEW u \in Threads, l[u].pc # "write", NEW M, DOMAIN M = Fields, Local(u, M),
         M.pc \in Turning, RepairOK(node, u, M), RotateOK(node, u, M)
  PROVE  Inv' /\ Guarded
<1>1. node' = node /\ l' = [l EXCEPT ![u] = M]
  BY DEF Local, Do
<1>2. CallOK(node, u, M)
  BY TurningOK
<1> QED
  BY <1>1, <1>2, QuietStep

\* The taller child is there: its height is not 0.
LEMMA TallerThere ==
  ASSUME Inv, NEW u \in Threads, l[u].pc = "b_hR", NEW hR, hR = height(node[l[u].n].right), Abs(l[u].hL - hR) > 1
  PROVE  LET side == IF l[u].hL > hR THEN "left" ELSE "right" IN
         node[l[u].n][side] \in DOMAIN node \ {root}
<1> DEFINE n == l[u].n
           hL == l[u].hL
<1>1. n \in DOMAIN node /\ hL \in Nat /\ (node[n].left = NULL => hL = 0)
  BY Start DEF CallOK, RepairOK, Has
<1>2. node[n].left \in Children(node) /\ node[n].right \in Children(node)
  BY <1>1, Start, NodeTypes DEF NodeOK
<1>3. hR \in Nat /\ (node[n].right = NULL => hR = 0)
  BY <1>2, Start, HeightOK DEF height
<1> HIDE DEF n, hL
<1>4. Abs(hL - hR) > 1 /\ Abs(hL - hR) = (IF hL - hR < 0 THEN -(hL - hR) ELSE hL - hR)
  BY DEF Abs, hL
<1>5. CASE hL > hR
  <2>1. node[n].left # NULL
    BY <1>1, <1>3, <1>5
  <2> QED
    BY <1>2, <1>5, <2>1 DEF Children, n, hL
<1>6. CASE ~(hL > hR)
  <2>1. hR > 0
    BY <1>1, <1>3, <1>4, <1>6
  <2>2. node[n].right # NULL
    BY <1>3, <2>1
  <2> QED
    BY <1>2, <1>6, <2>2 DEF Children, n, hL
<1> QED
  BY <1>5, <1>6

\* The balance of the locked node decides.
LEMMA BalanceRightInv ==
  ASSUME Inv, NEW u \in Threads, BalanceRight(u)
  PROVE  Inv' /\ Guarded
<1> DEFINE L == l[u]
           hR == height(node[L.n].right)
           hNRepl == 1 + Maximum(L.hL, hR)
           side == IF L.hL > hR THEN "left" ELSE "right"
           h == IF L.hL > hR THEN hR ELSE L.hL
           c == node[L.n][side]
           T == [LookAt(L, L.n, FALSE) EXCEPT !.p = L.p, !.side = side, !.c = c, !.h = h, !.pc = "t_lock"]
           M == [L EXCEPT !.hN = hNRepl, !.pc = "b_set"]
<1>1. /\ L.pc = "b_hR"
      /\ (Abs(L.hL - hR) > 1 /\ Local(u, T)) \/ Local(u, M) \/ Repair(u, node, NULL)
  BY DEF BalanceRight, At
<1>2. /\ DOMAIN L = Fields /\ L.n # root /\ Has(node, u, L.n) /\ Has(node, u, L.p)
      /\ L.hL \in Nat
  BY <1>1, Start DEF CallOK, RepairOK
<1>3. node[L.n].right \in Children(node)
  BY <1>2, Start, NodeTypes DEF Has, NodeOK
<1>4. hR \in Nat
  BY <1>3, Start, HeightOK
<1>5. CASE Abs(L.hL - hR) > 1 /\ Local(u, T)
  <2>1. c \in DOMAIN node \ {root}
    BY <1>1, <1>5, TallerThere
  <2>2. h \in Nat /\ side \in {"left", "right"}
    BY <1>2, <1>4
  <2> HIDE DEF h, c, side, hR
  <2>3. DOMAIN T = Fields /\ T.n = L.n /\ T.p = L.p /\ T.side = side /\ T.c = c /\ T.h = h /\ T.pc = "t_lock"
    <3>1. PICK K : K = LookAt(L, L.n, FALSE)
      OBVIOUS
    <3>2. /\ DOMAIN K = Fields /\ K.n = L.n
          /\ T = [K EXCEPT !.p = L.p, !.side = side, !.c = c, !.h = h, !.pc = "t_lock"]
      BY <3>1, LookAtFacts
    <3> HIDE DEF T
    <3> QED
      BY <3>2 DEF Fields
  <2> HIDE DEF T
  <2>4. RepairOK(node, u, T) /\ RotateOK(node, u, T)
    BY <1>2, <2>1, <2>2, <2>3 DEF RepairOK, RotateOK, Turning
  <2> QED
    BY <1>1, <1>5, <2>3, <2>4, TurnStep DEF Turning
<1>6. CASE Local(u, M)
  <2>1. hNRepl \in Nat
    BY <1>2, <1>4 DEF Maximum
  <2> HIDE DEF hNRepl
  <2>2. DOMAIN M = Fields /\ M.n = L.n /\ M.p = L.p /\ M.hN = hNRepl /\ M.pc = "b_set"
    BY <1>2 DEF Fields
  <2> HIDE DEF M
  <2>3. RepairOK(node, u, M)
    BY <1>2, <2>1, <2>2 DEF RepairOK, Turning
  <2> QED
    BY <1>1, <1>6, <2>2, <2>3, RepairingStep DEF RepairPlaces
<1>7. CASE Repair(u, node, NULL)
  BY <1>1, <1>7, Unmoved, RepairStep
<1> QED
  BY <1>1, <1>5, <1>6, <1>7

\* The height is stored, and that of the parent is next.
LEMMA BalanceHeightInv ==
  ASSUME Inv, NEW u \in Threads, BalanceHeight(u)
  PROVE  Inv' /\ Guarded
<1> DEFINE L == l[u]
           nd2 == Store(node, L.n, "height", L.hN)
<1>1. L.pc = "b_set" /\ fixHeight_nl(u, nd2, L.p)
  BY DEF BalanceHeight, At, Store
<1>2. Has(node, u, L.n) /\ Has(node, u, L.p) /\ L.hN \in Nat
  BY <1>1, Start DEF CallOK, RepairOK
<1>3. /\ DOMAIN nd2 = DOMAIN node /\ NodesOK(nd2) /\ StepOf(node, nd2, u)
      /\ \A m \in DOMAIN node : nd2[m].lock = node[m].lock
      /\ \A m \in DOMAIN node : nd2[m].changeOVL = node[m].changeOVL
  <2>1. "height" \in NodeFields \ {"lock", "key"} /\ L.n \in DOMAIN node /\ NodesOK(node) /\ node[L.n].lock = u
    BY <1>2, Start DEF NodeFields, Has
  <2> QED
    BY <1>2, <2>1, StoredNodes
<1> HIDE DEF nd2
<1>4. Calm(node, nd2) /\ Has(nd2, u, L.p)
  BY <1>2, <1>3 DEF Calm, Has
<1>5. Settled(node, nd2, u)
  BY <1>1, <1>4, CalmSettled
<1> QED
  BY <1>1, <1>3, <1>4, <1>5, FixHeightStep

-----------------------------------------------------------------------------
(* Rotations *)

\* With the taller child of n locked, the rotation goes on or n is looked at again.
LEMMA TowardStep ==
  ASSUME Inv, NEW u \in Threads, l[u].pc \in {"t_lock", "t_far"}, NEW nd1, DOMAIN nd1 = DOMAIN node,
         StepOf(node, nd1, u), NodesOK(nd1), Calm(node, nd1), NEW L, DOMAIN L = Fields,
         L.n # root, Has(nd1, u, L.n), Has(nd1, u, L.p), Has(nd1, u, L.c), L.c # root,
         L.h \in Nat, L.side \in {"left", "right"}, Toward(u, nd1, L)
  PROVE  Inv' /\ Guarded
<1> DEFINE inner == nd1[L.c][Opposite(L.side)]
           M == [L EXCEPT !.inner = inner, !.pc = "t_hL"]
<1>1. CASE Repair(u, nd1, L.n)
  <2>1. Settled(node, nd1, u) /\ L.n \in DOMAIN nd1 \cup {NULL}
    BY CalmSettled DEF Has
  <2> QED
    BY <1>1, <2>1, RepairStep
<1>2. CASE Do(u, nd1, M)
  <2>1. inner \in Children(nd1)
    BY NodeTypes DEF Has, NodeOK, Opposite
  <2> HIDE DEF inner
  <2>2. /\ DOMAIN M = Fields /\ M.pc = "t_hL" /\ M.inner = inner
        /\ M.n = L.n /\ M.p = L.p /\ M.c = L.c /\ M.h = L.h /\ M.side = L.side
    BY DEF Fields
  <2>3. node' = nd1 /\ l' = [l EXCEPT ![u] = M]
    BY <1>2 DEF Do
  <2> HIDE DEF M
  <2>4. L.c \in DOMAIN nd1
    BY DEF Has
  <2>5. RepairOK(nd1, u, M) /\ RotateOK(nd1, u, M)
    BY <2>1, <2>2, <2>4 DEF RepairOK, RotateOK, Turning
  <2>6. CallOK(nd1, u, M)
    BY <2>2, <2>5, TurningOK DEF Turning
  <2> QED
    BY <2>2, <2>3, <2>6, Stepped
<1> QED
  BY <1>1, <1>2 DEF Toward

\* The taller child is locked.
LEMMA LockTallerInv ==
  ASSUME Inv, NEW u \in Threads, LockTaller(u)
  PROVE  Inv' /\ Guarded
<1> DEFINE L == l[u]
           nd1 == Locked(L.c, u)
<1>1. L.pc = "t_lock" /\ Free(L.c) /\ Toward(u, nd1, L)
  BY DEF LockTaller, At
<1>2. /\ DOMAIN L = Fields /\ L.n # root /\ Has(node, u, L.n) /\ Has(node, u, L.p)
      /\ L.c \in DOMAIN node \ {root} /\ L.h \in Nat /\ L.side \in {"left", "right"}
  BY <1>1, Start DEF CallOK, RepairOK, RotateOK, Turning
<1>3. /\ NodesOK(nd1) /\ StepOf(node, nd1, u) /\ Calm(node, nd1) /\ Has(nd1, u, L.c)
      /\ DOMAIN nd1 = DOMAIN node /\ \A m \in DOMAIN node \ {L.c} : nd1[m] = node[m]
  BY <1>1, <1>2, LockedNodes
<1> HIDE DEF nd1
<1>4. Has(nd1, u, L.n) /\ Has(nd1, u, L.p)
  BY <1>2, <1>3 DEF Has
<1> QED
  BY <1>1, <1>2, <1>3, <1>4, TowardStep

\* The height of its left child is read.
LEMMA TallerLeftInv ==
  ASSUME Inv, NEW u \in Threads, TallerLeft(u)
  PROVE  Inv' /\ Guarded
<1> DEFINE L == l[u]
           h == height(node[L.c].left)
           M == [L EXCEPT !.hL = h, !.pc = "t_hR"]
<1>1. L.pc = "t_hL" /\ Local(u, M)
  BY DEF TallerLeft, At
<1>2. DOMAIN L = Fields /\ RepairOK(node, u, L) /\ RotateOK(node, u, L) /\ Has(node, u, L.c)
  BY <1>1, Start DEF CallOK, RotateOK, Turning
<1>3. node[L.c].left \in Children(node)
  BY <1>2, Start, NodeTypes DEF Has, NodeOK
<1>4. h \in Nat
  BY <1>3, Start, HeightOK
<1> HIDE DEF h
<1>5. /\ DOMAIN M = Fields /\ M.pc = "t_hR" /\ M.hL = h /\ M.inner = L.inner
      /\ M.n = L.n /\ M.p = L.p /\ M.c = L.c /\ M.h = L.h /\ M.side = L.side
  BY <1>2 DEF Fields
<1> HIDE DEF M
<1>6. RepairOK(node, u, M) /\ RotateOK(node, u, M)
  BY <1>1, <1>2, <1>4, <1>5 DEF RepairOK, RotateOK, Turning
<1> QED
  BY <1>1, <1>5, <1>6, TurnStep DEF Turning

\* No change is under way at a node that is free, or locked by who makes no rotation.
LEMMA StillNode ==
  ASSUME Inv, NEW u \in Threads, l[u].pc # "write", NEW n \in DOMAIN node, node[n].lock \in {u, Nobody}
  PROVE  ~isChanging(node[n].changeOVL) /\ node[n].changeOVL \in Nat
<1>1. node[n].changeOVL \in Nat
  BY NodeTypes DEF Inv, NodeOK
<1>2. ~isChanging(node[n].changeOVL)
  BY ThreadsPositive DEF Inv, VersionInv
<1> QED
  BY <1>1, <1>2

\* The stores of a rotation: those at its end, and those before them, whose changes they end.
Changing(w) == w[2] = "changeOVL" /\ isChanging(w[3])
Ending(nd, t) == {w \in Stores : StoreOK(nd, t, w) /\ ~Changing(w)}
Begun(nd, t, B) ==
  {w \in Stores : StoreOK(nd, t, w) /\ (Changing(w) => \E j \in 1 .. Len(B) : Ends(B[j], w[1]))}

\* The ones and then the others.
LEMMA StoresJoined ==
  ASSUME NEW nd, NEW t, NEW B \in Seq(Ending(nd, t)), Len(B) > 0, NEW F \in Seq(Begun(nd, t, B))
  PROVE  StoresOK(nd, t, F \o B)
<1> DEFINE W == F \o B
<1>1. Len(F) \in Nat /\ Len(B) \in Nat /\ Len(W) = Len(F) + Len(B)
  OBVIOUS
<1>2. \A i \in 1 .. Len(F) : W[i] = F[i] /\ F[i] \in Begun(nd, t, B)
  BY <1>1
<1>3. \A j \in 1 .. Len(B) : W[Len(F) + j] = B[j] /\ B[j] \in Ending(nd, t)
  BY <1>1
<1>4. W \in Seq(Stores)
  <2>1. F \in Seq(Stores) /\ B \in Seq(Stores)
    BY SeqLarger DEF Begun, Ending
  <2> QED
    BY <2>1
<1> HIDE DEF W
<1>5. ASSUME NEW i \in 1 .. Len(W)
      PROVE  /\ StoreOK(nd, t, W[i])
             /\ Changing(W[i]) => \E j \in i + 1 .. Len(W) : Ends(W[j], W[i][1])
  <2>1. CASE i <= Len(F)
    <3>1. i \in 1 .. Len(F) /\ W[i] \in Begun(nd, t, B)
      BY <1>1, <1>2, <2>1
    <3>2. ASSUME Changing(W[i]) PROVE \E j \in i + 1 .. Len(W) : Ends(W[j], W[i][1])
      <4>1. PICK j \in 1 .. Len(B) : Ends(B[j], W[i][1])
        BY <3>1, <3>2 DEF Begun
      <4>2. Len(F) + j \in i + 1 .. Len(W) /\ W[Len(F) + j] = B[j]
        BY <1>1, <1>3, <3>1
      <4> QED
        BY <4>1, <4>2
    <3> QED
      BY <3>1, <3>2 DEF Begun
  <2>2. CASE i > Len(F)
    <3>1. i - Len(F) \in 1 .. Len(B) /\ Len(F) + (i - Len(F)) = i
      BY <1>1, <2>2
    <3>2. W[i] \in Ending(nd, t)
      BY <1>3, <3>1
    <3> QED
      BY <3>2 DEF Ending
  <2> QED
    BY <1>1, <2>1, <2>2
<1>6. Len(W) > 0
  BY <1>1
<1> QED
  BY <1>4, <1>5, <1>6 DEF StoresOK, Changing, W

\* The stores of a rotation that are not versions.
LEMMA PlainStores ==
  ASSUME NEW nd, NodesOK(nd), NEW t, NEW B
  PROVE  /\ \A n \in DOMAIN nd, m \in Children(nd), s \in {"left", "right"} :
              nd[n].lock = t => <<n, s, m>> \in Begun(nd, t, B)
         /\ \A n \in DOMAIN nd \ {root}, m \in DOMAIN nd : <<n, "parent", m>> \in Begun(nd, t, B)
         /\ \A n \in DOMAIN nd, h \in Nat : nd[n].lock = t => <<n, "height", h>> \in Ending(nd, t)
<1>1. DOMAIN nd \subseteq Int /\ Children(nd) \subseteq Int
  BY NodeTypes DEF Children, NULL
<1>2. ASSUME NEW n \in DOMAIN nd, NEW m \in Children(nd), NEW s \in {"left", "right"}, nd[n].lock = t
      PROVE  <<n, s, m>> \in Begun(nd, t, B)
  <2>1. <<n, s, m>> \in Stores
    BY <1>1 DEF Stores
  <2> QED
    BY <1>2, <2>1 DEF Begun, StoreOK, Changing
<1>3. ASSUME NEW n \in DOMAIN nd \ {root}, NEW m \in DOMAIN nd
      PROVE  <<n, "parent", m>> \in Begun(nd, t, B)
  <2>1. <<n, "parent", m>> \in Stores
    BY <1>1 DEF Stores
  <2> QED
    BY <2>1 DEF Begun, StoreOK, Changing
<1>4. ASSUME NEW n \in DOMAIN nd, NEW h \in Nat, nd[n].lock = t
      PROVE  <<n, "height", h>> \in Ending(nd, t)
  <2>1. <<n, "height", h>> \in Stores
    BY <1>1 DEF Stores
  <2> QED
    BY <1>4, <2>1 DEF Ending, StoreOK, Changing
<1> QED
  BY <1>2, <1>3, <1>4

\* The version of a node that a rotation changes: what it stores first and last.
LEMMA VersionStores ==
  ASSUME NEW nd, NodesOK(nd), NEW t, NEW B, NEW n \in DOMAIN nd, n # root, nd[n].lock = t,
         NEW v \in Nat, NEW w \in Nat
  PROVE  /\ ~isChanging(w) => <<n, "changeOVL", w>> \in Ending(nd, t) /\ Ends(<<n, "changeOVL", w>>, n)
         /\ (\E j \in 1 .. Len(B) : Ends(B[j], n)) => <<n, "changeOVL", v>> \in Begun(nd, t, B)
<1>1. <<n, "changeOVL", w>> \in Stores /\ <<n, "changeOVL", v>> \in Stores
  BY NodeTypes DEF Stores
<1> QED
  BY <1>1 DEF Ending, Begun, StoreOK, Changing, Ends

\* The link of a grandchild to its parent, if there is one.
LEMMA ReparentStores ==
  ASSUME NEW nd, NodesOK(nd), NEW t, NEW B, NEW m \in Children(nd), NEW p \in DOMAIN nd
  PROVE  Reparent(m, p) \in Seq(Begun(nd, t, B))
<1>1. CASE m = NULL
  BY <1>1 DEF Reparent
<1>2. CASE m # NULL
  <2>1. m \in DOMAIN nd \ {root}
    BY <1>2 DEF Children
  <2>2. <<m, "parent", p>> \in Begun(nd, t, B)
    BY <2>1, PlainStores
  <2> QED
    BY <1>2, <2>2 DEF Reparent
<1> QED
  BY <1>1, <1>2

\* What a thread that is about to rotate has: its locals, and the nodes as they are then.
Ready(nd, u, L) ==
  /\ DOMAIN nd = DOMAIN node /\ NodesOK(nd) /\ DOMAIN L = Fields
  /\ L.n # root /\ L.c # root /\ Has(nd, u, L.n) /\ Has(nd, u, L.c) /\ Has(nd, u, L.p)
  /\ node[L.n].lock \in {u, Nobody} /\ node[L.c].lock \in {u, Nobody}
  /\ L.inner \in Children(nd) /\ L.side \in {"left", "right"} /\ L.h \in Nat /\ Outer(L) \in Nat

\* rotateRight_nl and rotateLeft_nl end the changes they begin, under the locks of the nodes.
LEMMA RotationOK ==
  ASSUME Inv, NEW u \in Threads, l[u].pc # "write", NEW nd, NEW L, Ready(nd, u, L), NEW hI \in Nat
  PROVE  LET M == Rotation(L, hI) IN DOMAIN M = Fields /\ M.pc = "write" /\ CallOK(nd, u, M)
<1> DEFINE n == L.n
           c == L.c
           p == L.p
           inner == L.inner
           side == L.side
           over == Opposite(L.side)
           hN == 1 + Maximum(hI, L.h)
           hC == 1 + Maximum(Outer(L), hN)
           nOVL == node[n].changeOVL
           cOVL == node[c].changeOVL
           A == << <<n, "changeOVL", beginShrink(nOVL)>>, <<c, "changeOVL", beginGrow(cOVL)>>,
                   <<n, side, inner>>, <<c, over, n>>, Relink(L, c),
                   <<c, "parent", p>>, <<n, "parent", c>> >>
           R == Reparent(inner, n)
           B == << <<n, "height", hN>>, <<c, "height", hC>>,
                   <<c, "changeOVL", endGrow(cOVL)>>, <<n, "changeOVL", endShrink(nOVL)>> >>
           d == CASE Abs(hI - L.h) > 1 -> n
                  [] Abs(hI - L.h) <= 1 /\ Abs(Outer(L) - hN) > 1 -> c
                  [] OTHER -> NULL
<1>1. /\ n \in DOMAIN nd /\ nd[n].lock = u /\ n # root /\ c \in DOMAIN nd /\ nd[c].lock = u /\ c # root
      /\ p \in DOMAIN nd /\ nd[p].lock = u /\ inner \in Children(nd) /\ NodesOK(nd)
      /\ L.h \in Nat /\ Outer(L) \in Nat /\ side \in {"left", "right"} /\ over \in {"left", "right"}
  BY DEF Ready, Has, Opposite
<1>2. /\ ~isChanging(nOVL) /\ nOVL \in Nat /\ ~isChanging(cOVL) /\ cOVL \in Nat
  BY StillNode, <1>1 DEF Ready
<1>3. /\ beginShrink(nOVL) \in Nat /\ endShrink(nOVL) \in Nat /\ ~isChanging(endShrink(nOVL))
      /\ beginGrow(cOVL) \in Nat /\ endGrow(cOVL) \in Nat /\ ~isChanging(endGrow(cOVL))
  BY <1>2, Versions
<1>4. hN \in Nat /\ hC \in Nat
  BY <1>1 DEF Maximum
<1>5. d \in DOMAIN nd \cup {NULL}
  BY <1>1
<1>6. PICK s \in {"left", "right"} : Relink(L, c) = <<p, s, c>>
  BY DEF Relink
<1>7. Rotation(L, hI) = [L EXCEPT !.writes = A \o R \o B, !.damaged = d, !.pc = "write"]
  BY DEF Rotation
<1>8. n \in Children(nd) /\ c \in Children(nd)
  BY <1>1 DEF Children
<1> HIDE DEF nOVL, cOVL, hN, hC, over, side, d, n, c, p, inner
<1>9. /\ B \in Seq(Ending(nd, u)) /\ Len(B) = 4
      /\ Ends(B[3], c) /\ Ends(B[4], n)
  <2>1. /\ <<n, "height", hN>> \in Ending(nd, u) /\ <<c, "height", hC>> \in Ending(nd, u)
    BY <1>1, <1>4, PlainStores
  <2>2. /\ <<c, "changeOVL", endGrow(cOVL)>> \in Ending(nd, u) /\ Ends(<<c, "changeOVL", endGrow(cOVL)>>, c)
        /\ <<n, "changeOVL", endShrink(nOVL)>> \in Ending(nd, u) /\ Ends(<<n, "changeOVL", endShrink(nOVL)>>, n)
    BY <1>1, <1>3, VersionStores
  <2> QED
    BY <2>1, <2>2
<1> HIDE DEF B
<1>10. (\E j \in 1 .. Len(B) : Ends(B[j], n)) /\ (\E j \in 1 .. Len(B) : Ends(B[j], c))
  BY <1>9
<1>11. A \in Seq(Begun(nd, u, B))
  <2>1. /\ <<n, "changeOVL", beginShrink(nOVL)>> \in Begun(nd, u, B)
        /\ <<c, "changeOVL", beginGrow(cOVL)>> \in Begun(nd, u, B)
    BY <1>1, <1>3, <1>10, VersionStores
  <2>2. /\ <<n, side, inner>> \in Begun(nd, u, B) /\ <<c, over, n>> \in Begun(nd, u, B)
        /\ Relink(L, c) \in Begun(nd, u, B)
    BY <1>1, <1>6, <1>8, PlainStores
  <2>3. <<c, "parent", p>> \in Begun(nd, u, B) /\ <<n, "parent", c>> \in Begun(nd, u, B)
    BY <1>1, PlainStores
  <2> QED
    BY <2>1, <2>2, <2>3
<1>12. R \in Seq(Begun(nd, u, B))
  BY <1>1, ReparentStores
<1> HIDE DEF A, R
<1> DEFINE F == A \o R
           W == F \o B
<1>13. F \in Seq(Begun(nd, u, B)) /\ Len(B) > 0
  BY <1>9, <1>11, <1>12
<1> HIDE DEF F
<1>14. StoresOK(nd, u, W)
  BY <1>9, <1>13, StoresJoined
<1> HIDE DEF W
<1> DEFINE M == Rotation(L, hI)
<1>15. DOMAIN M = Fields /\ M.pc = "write" /\ M.p = L.p /\ M.writes = W /\ M.damaged = d
  <2>1. M = [L EXCEPT !.writes = W, !.damaged = d, !.pc = "write"] /\ DOMAIN L = Fields
    BY <1>7 DEF F, W, Ready
  <2> HIDE DEF M
  <2> QED
    BY <2>1 DEF Fields
<1> HIDE DEF M
<1>16. WriteOK(nd, u, M)
  BY <1>5, <1>14, <1>15 DEF Ready, WriteOK
<1> QED
  BY <1>15, <1>16, WritingOK DEF M

\* rotateRightOverLeft_nl and rotateLeftOverRight_nl too.
LEMMA DoubleRotationOK ==
  ASSUME Inv, NEW u \in Threads, l[u].pc # "write", NEW L, Ready(node, u, L), Has(node, u, L.inner),
         NEW hF \in Nat, NEW hT \in Nat
  PROVE  LET M == DoubleRotation(L, hF, hT) IN DOMAIN M = Fields /\ M.pc = "write" /\ CallOK(node, u, M)
<1> DEFINE n == L.n
           c == L.c
           p == L.p
           inner == L.inner
           side == L.side
           over == Opposite(L.side)
           far == node[inner][side]
           near == node[inner][over]
           hN == 1 + Maximum(hT, L.h)
           hC == 1 + Maximum(Outer(L), hF)
           hI == 1 + Maximum(hC, hN)
           nOVL == node[n].changeOVL
           cOVL == node[c].changeOVL
           iOVL == node[inner].changeOVL
           A == << <<n, "changeOVL", beginShrink(nOVL)>>, <<c, "changeOVL", beginShrink(cOVL)>>,
                   <<inner, "changeOVL", beginGrow(iOVL)>>,
                   <<n, side, near>>, <<c, over, far>>, <<inner, side, c>>, <<inner, over, n>>, Relink(L, inner),
                   <<inner, "parent", p>>, <<c, "parent", inner>>, <<n, "parent", inner>> >>
           R == Reparent(near, n)
           S == Reparent(far, c)
           B == << <<n, "height", hN>>, <<c, "height", hC>>, <<inner, "height", hI>>,
                   <<inner, "changeOVL", endGrow(iOVL)>>, <<c, "changeOVL", endShrink(cOVL)>>,
                   <<n, "changeOVL", endShrink(nOVL)>> >>
           d == CASE Abs(hT - L.h) > 1 -> n
                  [] Abs(hT - L.h) <= 1 /\ Abs(hC - hN) > 1 -> inner
                  [] OTHER -> NULL
<1>1. /\ n \in DOMAIN node /\ node[n].lock = u /\ n # root /\ c \in DOMAIN node /\ node[c].lock = u /\ c # root
      /\ p \in DOMAIN node /\ node[p].lock = u /\ inner \in DOMAIN node /\ node[inner].lock = u
      /\ inner \in Children(node) /\ NodesOK(node)
      /\ L.h \in Nat /\ Outer(L) \in Nat /\ side \in {"left", "right"} /\ over \in {"left", "right"}
  BY DEF Ready, Has, Opposite
<1>2. inner # root
  BY <1>1 DEF Children, root, NULL
<1>3. /\ ~isChanging(nOVL) /\ nOVL \in Nat /\ ~isChanging(cOVL) /\ cOVL \in Nat
      /\ ~isChanging(iOVL) /\ iOVL \in Nat
  BY StillNode, <1>1
<1>4. /\ beginShrink(nOVL) \in Nat /\ endShrink(nOVL) \in Nat /\ ~isChanging(endShrink(nOVL))
      /\ beginShrink(cOVL) \in Nat /\ endShrink(cOVL) \in Nat /\ ~isChanging(endShrink(cOVL))
      /\ beginGrow(iOVL) \in Nat /\ endGrow(iOVL) \in Nat /\ ~isChanging(endGrow(iOVL))
  BY <1>3, Versions
<1>5. hN \in Nat /\ hC \in Nat
  BY <1>1 DEF Maximum
<1>6. d \in DOMAIN node \cup {NULL}
  BY <1>1
<1>7. PICK s \in {"left", "right"} : Relink(L, inner) = <<p, s, inner>>
  BY DEF Relink
<1>8. DoubleRotation(L, hF, hT) = [L EXCEPT !.writes = A \o R \o S \o B, !.damaged = d, !.pc = "write"]
  BY DEF DoubleRotation
<1>9. n \in Children(node) /\ c \in Children(node) /\ far \in Children(node) /\ near \in Children(node)
  BY <1>1, NodeTypes DEF Children, NodeOK
<1> HIDE DEF nOVL, cOVL, iOVL, hN, hC, over, side, d, n, c, p, inner, far, near
<1>10. hI \in Nat
  BY <1>5 DEF Maximum
<1> HIDE DEF hI
<1>11. /\ B \in Seq(Ending(node, u)) /\ Len(B) = 6
       /\ Ends(B[4], inner) /\ Ends(B[5], c) /\ Ends(B[6], n)
  <2>1. /\ <<n, "height", hN>> \in Ending(node, u) /\ <<c, "height", hC>> \in Ending(node, u)
        /\ <<inner, "height", hI>> \in Ending(node, u)
    BY <1>1, <1>5, <1>10, PlainStores
  <2>2. /\ <<inner, "changeOVL", endGrow(iOVL)>> \in Ending(node, u) /\ Ends(<<inner, "changeOVL", endGrow(iOVL)>>, inner)
        /\ <<c, "changeOVL", endShrink(cOVL)>> \in Ending(node, u) /\ Ends(<<c, "changeOVL", endShrink(cOVL)>>, c)
        /\ <<n, "changeOVL", endShrink(nOVL)>> \in Ending(node, u) /\ Ends(<<n, "changeOVL", endShrink(nOVL)>>, n)
    BY <1>1, <1>2, <1>4, VersionStores
  <2> QED
    BY <2>1, <2>2
<1> HIDE DEF B
<1>12. \A m \in {n, c, inner} : \E j \in 1 .. Len(B) : Ends(B[j], m)
  BY <1>11
<1>13. A \in Seq(Begun(node, u, B))
  <2>1. /\ <<n, "changeOVL", beginShrink(nOVL)>> \in Begun(node, u, B)
        /\ <<c, "changeOVL", beginShrink(cOVL)>> \in Begun(node, u, B)
        /\ <<inner, "changeOVL", beginGrow(iOVL)>> \in Begun(node, u, B)
    BY <1>1, <1>2, <1>4, <1>12, VersionStores
  <2>2. /\ <<n, side, near>> \in Begun(node, u, B) /\ <<c, over, far>> \in Begun(node, u, B)
        /\ <<inner, side, c>> \in Begun(node, u, B) /\ <<inner, over, n>> \in Begun(node, u, B)
        /\ Relink(L, inner) \in Begun(node, u, B)
    BY <1>1, <1>7, <1>9, PlainStores
  <2>3. /\ <<inner, "parent", p>> \in Begun(node, u, B) /\ <<c, "parent", inner>> \in Begun(node, u, B)
        /\ <<n, "parent", inner>> \in Begun(node, u, B)
    BY <1>1, <1>2, PlainStores
  <2> QED
    BY <2>1, <2>2, <2>3
<1>14. R \in Seq(Begun(node, u, B)) /\ S \in Seq(Begun(node, u, B))
  BY <1>1, <1>9, ReparentStores
<1> HIDE DEF A, R, S
<1> DEFINE F == A \o R \o S
           W == F \o B
<1>15. F \in Seq(Begun(node, u, B)) /\ Len(B) > 0
  BY <1>11, <1>13, <1>14
<1> HIDE DEF F
<1>16. StoresOK(node, u, W)
  BY <1>11, <1>15, StoresJoined
<1> HIDE DEF W
<1> DEFINE M == DoubleRotation(L, hF, hT)
<1>17. DOMAIN M = Fields /\ M.pc = "write" /\ M.p = L.p /\ M.writes = W /\ M.damaged = d
  <2>1. M = [L EXCEPT !.writes = W, !.damaged = d, !.pc = "write"] /\ DOMAIN L = Fields
    BY <1>8 DEF F, W, Ready
  <2> HIDE DEF M
  <2> QED
    BY <2>1 DEF Fields
<1> HIDE DEF M
<1>18. WriteOK(node, u, M)
  BY <1>6, <1>16, <1>17 DEF Ready, WriteOK
<1> QED
  BY <1>17, <1>18, WritingOK DEF M

\* What a thread has once it has locked the taller child.
LEMMA TurningFacts ==
  ASSUME Inv, NEW u \in Threads, l[u].pc \in Turning \ {"t_lock"}
  PROVE  LET L == l[u] IN
         /\ DOMAIN L = Fields /\ L.n # root /\ Has(node, u, L.n) /\ Has(node, u, L.p)
         /\ Has(node, u, L.c) /\ L.c # root /\ L.h \in Nat /\ L.side \in {"left", "right"}
         /\ L.inner \in Children(node) /\ NodesOK(node)
         /\ L.pc \in {"t_hR", "t_inner", "t_far", "t_near"} => L.hL \in Nat
         /\ L.pc \in {"t_inner", "t_far", "t_near"} => L.hR \in Nat /\ L.inner # NULL
         /\ L.pc \in {"t_far", "t_near"} => Has(node, u, L.inner)
         /\ L.pc = "t_near" => L.hN \in Nat
  BY Start DEF CallOK, RepairOK, RotateOK, Turning

\* The height of its right child is read: the rotation begins, or its inner child is locked first.
LEMMA TallerRightInv ==
  ASSUME Inv, NEW u \in Threads, TallerRight(u)
  PROVE  Inv' /\ Guarded
<1> DEFINE h == height(node[l[u].c].right)
           L == [l[u] EXCEPT !.hR = h]
           M == [L EXCEPT !.pc = "t_inner"]
<1>1. l[u].pc = "t_hR"
  BY DEF TallerRight, At
<1>2. (L.inner = NULL /\ Local(u, Rotation(L, 0))) \/ (L.inner # NULL /\ Local(u, M))
  BY DEF TallerRight
<1>3. /\ DOMAIN l[u] = Fields /\ l[u].n # root /\ Has(node, u, l[u].n) /\ Has(node, u, l[u].p)
      /\ Has(node, u, l[u].c) /\ l[u].c # root /\ l[u].h \in Nat /\ l[u].side \in {"left", "right"}
      /\ l[u].inner \in Children(node) /\ NodesOK(node) /\ l[u].hL \in Nat
  BY <1>1, TurningFacts DEF Turning
<1>4. node[l[u].c].right \in Children(node)
  BY <1>3, NodeTypes DEF Has, NodeOK
<1>5. h \in Nat
  BY <1>3, <1>4, HeightOK
<1> HIDE DEF h
<1>6. /\ DOMAIN L = Fields /\ L.hR = h /\ L.hL = l[u].hL /\ L.inner = l[u].inner
      /\ L.n = l[u].n /\ L.p = l[u].p /\ L.c = l[u].c /\ L.h = l[u].h /\ L.side = l[u].side
  BY <1>3 DEF Fields
<1> HIDE DEF L
<1>7. CASE Local(u, Rotation(L, 0))
  <2>1. Outer(L) \in Nat
    BY <1>3, <1>5, <1>6 DEF Outer
  <2>2. Ready(node, u, L)
    BY <1>3, <1>6, <2>1 DEF Ready, Has
  <2>3. LET T == Rotation(L, 0) IN DOMAIN T = Fields /\ T.pc = "write" /\ CallOK(node, u, T)
    BY <1>1, <2>2, RotationOK
  <2>4. node' = node /\ l' = [l EXCEPT ![u] = Rotation(L, 0)]
    BY <1>7 DEF Local, Do
  <2> QED
    BY <1>1, <2>3, <2>4, QuietStep
<1>8. CASE L.inner # NULL /\ Local(u, M)
  <2>1. /\ DOMAIN M = Fields /\ M.pc = "t_inner" /\ M.hR = h /\ M.hL = L.hL /\ M.inner = L.inner
        /\ M.n = L.n /\ M.p = L.p /\ M.c = L.c /\ M.h = L.h /\ M.side = L.side
    BY <1>6 DEF Fields
  <2> HIDE DEF M
  <2>2. RepairOK(node, u, M) /\ RotateOK(node, u, M)
    BY <1>3, <1>5, <1>6, <1>8, <2>1 DEF RepairOK, RotateOK, Turning, Has
  <2> QED
    BY <1>1, <1>8, <2>1, <2>2, TurnStep DEF Turning
<1> QED
  BY <1>2, <1>7, <1>8

\* The inner child is locked: the rotation begins, single if the heights have changed meanwhile.
LEMMA LockInnerInv ==
  ASSUME Inv, NEW u \in Threads, LockInner(u)
  PROVE  Inv' /\ Guarded
<1> DEFINE L == l[u]
           inner == L.inner
           hI == node[inner].height
           nd == Locked(inner, u)
           M == [L EXCEPT !.pc = "t_far"]
<1>1. L.pc = "t_inner" /\ Free(inner)
  BY DEF LockInner, At
<1>2. /\ DOMAIN L = Fields /\ L.n # root /\ Has(node, u, L.n) /\ Has(node, u, L.p)
      /\ Has(node, u, L.c) /\ L.c # root /\ L.h \in Nat /\ L.side \in {"left", "right"}
      /\ inner \in Children(node) /\ NodesOK(node) /\ L.hL \in Nat /\ L.hR \in Nat /\ inner # NULL
  BY <1>1, TurningFacts DEF Turning
<1>3. inner \in DOMAIN node /\ hI \in Nat /\ Outer(L) \in Nat /\ Inner(L) \in Nat
  BY <1>2, NodeTypes DEF Children, NodeOK, Outer, Inner
<1>4. /\ \/ Do(u, nd, Rotation(L, Inner(L)))
         \/ Do(u, nd, Rotation(L, hI))
         \/ Do(u, nd, M)
  <2> HIDE DEF M, nd, hI
  <2>1. Outer(L) >= Inner(L) \/ (Outer(L) < Inner(L) /\ Outer(L) >= hI) \/ (Outer(L) < Inner(L) /\ Outer(L) < hI)
    BY <1>3
  <2>2. ~(Outer(L) < Inner(L) /\ Outer(L) >= Inner(L)) /\ ~(Outer(L) < hI /\ Outer(L) >= hI)
    BY <1>3
  <2> QED
    BY <2>1, <2>2 DEF LockInner, M, nd, hI
<1> HIDE DEF hI, inner
<1>5. /\ NodesOK(nd) /\ StepOf(node, nd, u) /\ Calm(node, nd) /\ Has(nd, u, inner)
      /\ DOMAIN nd = DOMAIN node /\ \A m \in DOMAIN node \ {inner} : nd[m] = node[m]
  BY <1>1, <1>3, LockedNodes
<1> HIDE DEF nd
<1>6. Has(nd, u, L.n) /\ Has(nd, u, L.p) /\ Has(nd, u, L.c) /\ inner \in Children(nd)
  BY <1>2, <1>5 DEF Has, Children
<1>7. ASSUME NEW h \in Nat, Do(u, nd, Rotation(L, h)) PROVE Inv' /\ Guarded
  <2>1. Ready(nd, u, L)
    BY <1>2, <1>3, <1>5, <1>6 DEF Ready, Has, inner
  <2> DEFINE T == Rotation(L, h)
  <2>2. DOMAIN T = Fields /\ T.pc = "write" /\ CallOK(nd, u, T)
    BY <1>1, <2>1, RotationOK
  <2>3. node' = nd /\ l' = [l EXCEPT ![u] = T]
    BY <1>7 DEF Do
  <2> HIDE DEF T
  <2> QED
    BY <1>1, <1>5, <2>2, <2>3, Stepped
<1>8. CASE Do(u, nd, M)
  <2>1. /\ DOMAIN M = Fields /\ M.pc = "t_far" /\ M.hR = L.hR /\ M.hL = L.hL /\ M.inner = inner
        /\ M.n = L.n /\ M.p = L.p /\ M.c = L.c /\ M.h = L.h /\ M.side = L.side
    BY <1>2 DEF Fields, inner
  <2>2. node' = nd /\ l' = [l EXCEPT ![u] = M]
    BY <1>8 DEF Do
  <2> HIDE DEF M
  <2>3. RepairOK(nd, u, M) /\ RotateOK(nd, u, M)
    BY <1>2, <1>5, <1>6, <2>1 DEF RepairOK, RotateOK, Turning, Has
  <2>4. CallOK(nd, u, M)
    BY <2>1, <2>3, TurningOK DEF Turning
  <2> QED
    BY <1>1, <1>5, <2>1, <2>2, <2>4, Stepped
<1> QED
  BY <1>3, <1>4, <1>7, <1>8

\* The far child of inner decides between a double rotation and one of c on its own.
LEMMA InnerFarInv ==
  ASSUME Inv, NEW u \in Threads, InnerFar(u)
  PROVE  Inv' /\ Guarded
<1> DEFINE L == l[u]
           hF == height(node[L.inner][L.side])
           M == [L EXCEPT !.hN = hF, !.pc = "t_near"]
           over == Opposite(L.side)
           out == Outer(L)
           T == [LookAt(L, L.c, FALSE) EXCEPT !.p = L.n, !.side = over, !.c = L.inner, !.h = out]
<1>1. L.pc = "t_far" /\ (Local(u, M) \/ Toward(u, node, T))
  BY DEF InnerFar, At
<1>2. /\ DOMAIN L = Fields /\ L.n # root /\ Has(node, u, L.n) /\ Has(node, u, L.p)
      /\ Has(node, u, L.c) /\ L.c # root /\ L.h \in Nat /\ L.side \in {"left", "right"}
      /\ L.inner \in Children(node) /\ NodesOK(node) /\ L.hL \in Nat /\ L.hR \in Nat /\ L.inner # NULL
      /\ Has(node, u, L.inner)
  BY <1>1, TurningFacts DEF Turning
<1>3. node[L.inner][L.side] \in Children(node) /\ L.inner # root
  BY <1>2, NodeTypes DEF Has, NodeOK, Children, root, NULL
<1>4. hF \in Nat /\ out \in Nat /\ over \in {"left", "right"}
  BY <1>2, <1>3, HeightOK DEF Outer, Opposite
<1> HIDE DEF hF, out, over
<1>5. CASE Local(u, M)
  <2>1. /\ DOMAIN M = Fields /\ M.pc = "t_near" /\ M.hR = L.hR /\ M.hL = L.hL /\ M.inner = L.inner /\ M.hN = hF
        /\ M.n = L.n /\ M.p = L.p /\ M.c = L.c /\ M.h = L.h /\ M.side = L.side
    BY <1>2 DEF Fields
  <2> HIDE DEF M
  <2>2. RepairOK(node, u, M) /\ RotateOK(node, u, M)
    BY <1>2, <1>4, <2>1 DEF RepairOK, RotateOK, Turning, Has
  <2> QED
    BY <1>1, <1>5, <2>1, <2>2, TurnStep DEF Turning
<1>6. CASE Toward(u, node, T)
  <2>1. DOMAIN T = Fields /\ T.n = L.c /\ T.p = L.n /\ T.side = over /\ T.c = L.inner /\ T.h = out
    <3>1. PICK K : K = LookAt(L, L.c, FALSE)
      OBVIOUS
    <3>2. /\ DOMAIN K = Fields /\ K.n = L.c
          /\ T = [K EXCEPT !.p = L.n, !.side = over, !.c = L.inner, !.h = out]
      BY <3>1, LookAtFacts
    <3> HIDE DEF T
    <3> QED
      BY <3>2 DEF Fields
  <2> HIDE DEF T
  <2>2. StepOf(node, node, u) /\ Calm(node, node)
    BY DEF StepOf, Calm
  <2> QED
    BY <1>1, <1>2, <1>3, <1>4, <1>6, <2>1, <2>2, TowardStep
<1> QED
  BY <1>1, <1>5, <1>6

\* The double rotation begins.
LEMMA InnerNearInv ==
  ASSUME Inv, NEW u \in Threads, InnerNear(u)
  PROVE  Inv' /\ Guarded
<1> DEFINE L == l[u]
           hT == height(node[L.inner][Opposite(L.side)])
           T == DoubleRotation(L, L.hN, hT)
<1>1. L.pc = "t_near" /\ Local(u, T)
  BY DEF InnerNear, At
<1>2. /\ DOMAIN L = Fields /\ L.n # root /\ Has(node, u, L.n) /\ Has(node, u, L.p)
      /\ Has(node, u, L.c) /\ L.c # root /\ L.h \in Nat /\ L.side \in {"left", "right"}
      /\ L.inner \in Children(node) /\ NodesOK(node) /\ L.hL \in Nat /\ L.hR \in Nat
      /\ Has(node, u, L.inner) /\ L.hN \in Nat
  BY <1>1, TurningFacts DEF Turning
<1>3. node[L.inner][Opposite(L.side)] \in Children(node)
  BY <1>2, NodeTypes DEF Has, NodeOK, Opposite
<1>4. hT \in Nat /\ Outer(L) \in Nat
  BY <1>2, <1>3, HeightOK DEF Outer
<1> HIDE DEF hT
<1>5. Ready(node, u, L)
  BY <1>2, <1>4 DEF Ready, Has
<1>6. DOMAIN T = Fields /\ T.pc = "write" /\ CallOK(node, u, T)
  BY <1>1, <1>2, <1>4, <1>5, DoubleRotationOK
<1>7. node' = node /\ l' = [l EXCEPT ![u] = T]
  BY <1>1 DEF Local, Do
<1> HIDE DEF T
<1> QED
  BY <1>1, <1>6, <1>7, QuietStep

\* The store that is next: v to the field f of n.
NextStore(u, n, f, v) ==
  LET w == Head(l[u].writes) IN n = w[1] /\ f = w[2] /\ v = w[3]

\* What it is about, and what the stores after it are for.
LEMMA FirstStore ==
  ASSUME Inv, NEW u \in Threads, l[u].pc = "write", NEW n, NEW f, NEW v, NextStore(u, n, f, v)
  PROVE  LET W == l[u].writes IN
         /\ W \in Seq(Stores) /\ Len(W) \in Nat /\ Len(W) > 0
         /\ n \in DOMAIN node /\ f \in NodeFields \ {"lock", "key"}
         /\ f # "parent" => node[n].lock = u
         /\ f \in {"left", "right"} => v \in Children(node)
         /\ f = "parent" => n # root /\ v \in DOMAIN node
         /\ f = "height" => v \in Nat
         /\ f = "changeOVL" => n # root /\ v \in Nat
         /\ f = "changeOVL" /\ isChanging(v) => \E j \in 2 .. Len(W) : Ends(W[j], n)
         /\ \A m : \A j \in 1 .. Len(W) : Ends(W[j], m) => (m = n /\ f = "changeOVL") \/ j \in 2 .. Len(W)
<1> DEFINE W == l[u].writes
<1>1. StoresOK(node, u, W)
  BY Start DEF CallOK, WriteOK
<1>2. W \in Seq(Stores) /\ Len(W) \in Nat /\ Len(W) > 0
  BY <1>1 DEF StoresOK
<1>3. n = W[1][1] /\ f = W[1][2] /\ v = W[1][3] /\ W[1] \in Stores
  <2>1. Head(W) = W[1] /\ W[1] \in Stores
    BY <1>2
  <2> QED
    BY <2>1 DEF NextStore
<1> HIDE DEF W
<1>4. /\ StoreOK(node, u, W[1])
      /\ W[1][2] = "changeOVL" /\ isChanging(W[1][3]) => \E j \in 1 + 1 .. Len(W) : Ends(W[j], W[1][1])
  <2>1. 1 \in 1 .. Len(W)
    BY <1>2
  <2> QED
    BY <1>1, <2>1 DEF StoresOK
<1>5. f = "changeOVL" /\ isChanging(v) => \E j \in 2 .. Len(W) : Ends(W[j], n)
  BY <1>3, <1>4
<1>6. ASSUME NEW m, NEW j \in 1 .. Len(W), Ends(W[j], m) PROVE (m = n /\ f = "changeOVL") \/ j \in 2 .. Len(W)
  <2>1. CASE j = 1
    BY <1>3, <1>6, <2>1 DEF Ends
  <2>2. CASE j # 1
    BY <1>2, <2>2
  <2> QED
    BY <2>1, <2>2
<1>7. f \in NodeFields \ {"lock", "key"}
  BY <1>3 DEF Stores, NodeFields
<1>8. /\ n \in DOMAIN node
      /\ f # "parent" => node[n].lock = u
      /\ f \in {"left", "right"} => v \in Children(node)
      /\ f = "parent" => n # root /\ v \in DOMAIN node
      /\ f = "height" => v \in Nat
      /\ f = "changeOVL" => n # root /\ v \in Nat
  BY <1>3, <1>4 DEF StoreOK
<1> QED
  BY <1>2, <1>5, <1>6, <1>7, <1>8 DEF W

\* The nodes after it.
LEMMA WriteNodes ==
  ASSUME Inv, NEW u \in Threads, l[u].pc = "write", NEW n, NEW f, NEW v, NextStore(u, n, f, v)
  PROVE  LET nd == Store(node, n, f, v) IN
         /\ DOMAIN nd = DOMAIN node /\ NodesOK(nd) /\ StepOf(node, nd, u)
         /\ \A m \in DOMAIN node : nd[m].lock = node[m].lock
         /\ \A m \in DOMAIN node : ~(m = n /\ f = "changeOVL") => nd[m].changeOVL = node[m].changeOVL
         /\ f = "changeOVL" => nd[n].changeOVL = v
<1>1. /\ n \in DOMAIN node /\ f \in NodeFields \ {"lock", "key"}
      /\ f # "parent" => node[n].lock \in {u, Nobody}
      /\ f \in {"left", "right"} => v \in Children(node)
      /\ f = "parent" => n # root /\ v \in DOMAIN node
      /\ f = "height" => v \in Nat
      /\ f = "changeOVL" => n # root /\ v \in Nat
  BY FirstStore
<1>2. NodesOK(node)
  BY Start
<1> DEFINE nd == Store(node, n, f, v)
<1>3. /\ DOMAIN nd = DOMAIN node /\ NodesOK(nd) /\ StepOf(node, nd, u)
      /\ \A m \in DOMAIN node : nd[m].lock = node[m].lock
      /\ \A m \in DOMAIN node : nd[m].changeOVL = IF m = n /\ f = "changeOVL" THEN v ELSE node[m].changeOVL
  BY <1>1, <1>2, StoredNodes
<1> HIDE DEF nd
<1> QED
  BY <1>1, <1>3 DEF nd

\* The stores that are left stay in order.
LEMMA TailOK ==
  ASSUME NEW nd, NEW nd2, DOMAIN nd2 = DOMAIN nd, \A m \in DOMAIN nd : nd2[m].lock = nd[m].lock,
         NEW t, NEW W, StoresOK(nd, t, W), Len(W) > 1
  PROVE  StoresOK(nd2, t, Tail(W))
<1> DEFINE V == Tail(W)
<1>1. W \in Seq(Stores) /\ Len(W) \in Nat
  BY DEF StoresOK
<1>2. V \in Seq(Stores) /\ Len(V) = Len(W) - 1 /\ \A i \in 1 .. Len(W) - 1 : V[i] = W[i + 1]
  BY <1>1
<1> HIDE DEF V
<1>3. ASSUME NEW i \in 1 .. Len(V)
      PROVE  /\ StoreOK(nd2, t, V[i])
             /\ V[i][2] = "changeOVL" /\ isChanging(V[i][3]) => \E j \in i + 1 .. Len(V) : Ends(V[j], V[i][1])
  <2>1. i + 1 \in 1 .. Len(W) /\ V[i] = W[i + 1]
    BY <1>1, <1>2
  <2>2. StoreOK(nd, t, V[i])
    BY <2>1 DEF StoresOK
  <2>3. Children(nd2) = Children(nd)
    BY DEF Children
  <2>4. StoreOK(nd2, t, V[i])
    BY <2>2, <2>3 DEF StoreOK
  <2>5. ASSUME V[i][2] = "changeOVL", isChanging(V[i][3])
        PROVE  \E j \in i + 1 .. Len(V) : Ends(V[j], V[i][1])
    <3>1. PICK j \in (i + 1) + 1 .. Len(W) : Ends(W[j], V[i][1])
      BY <2>1, <2>5 DEF StoresOK
    <3>2. j - 1 \in i + 1 .. Len(V) /\ V[j - 1] = W[(j - 1) + 1] /\ (j - 1) + 1 = j
      BY <1>1, <1>2, <3>1
    <3> QED
      BY <3>1, <3>2
  <2> QED
    BY <2>4, <2>5
<1>4. Len(V) > 0
  BY <1>1, <1>2
<1> QED
  BY <1>2, <1>3, <1>4 DEF StoresOK, V

\* After a store that is not the last, its change or another is still to be ended.
LEMMA WriteOn ==
  ASSUME Inv, NEW u \in Threads, l[u].pc = "write", Len(l[u].writes) > 1,
         NEW n, NEW f, NEW v, NextStore(u, n, f, v),
         Do(u, Store(node, n, f, v), [l[u] EXCEPT !.writes = Tail(l[u].writes)])
  PROVE  Inv' /\ Guarded
<1> DEFINE L == l[u]
           W == L.writes
           V == Tail(W)
           M == [L EXCEPT !.writes = V]
           nd == Store(node, n, f, v)
<1>1. /\ DOMAIN L = Fields /\ Has(node, u, L.p) /\ L.damaged \in DOMAIN node \cup {NULL}
      /\ StoresOK(node, u, W)
  BY Start DEF CallOK, WriteOK
<1>2. W \in Seq(Stores) /\ Len(W) \in Nat
  BY <1>1 DEF StoresOK
<1>3. Len(V) = Len(W) - 1 /\ \A i \in 1 .. Len(W) - 1 : V[i] = W[i + 1]
  BY <1>2
<1>4. /\ DOMAIN nd = DOMAIN node /\ NodesOK(nd) /\ StepOf(node, nd, u)
      /\ \A m \in DOMAIN node : nd[m].lock = node[m].lock
      /\ \A m \in DOMAIN node : ~(m = n /\ f = "changeOVL") => nd[m].changeOVL = node[m].changeOVL
      /\ f = "changeOVL" => nd[n].changeOVL = v
  BY WriteNodes
<1>5. node' = nd /\ l' = [l EXCEPT ![u] = M]
  BY DEF Do
<1> HIDE DEF nd
<1>6. StoresOK(nd, u, V)
  BY <1>1, <1>4, TailOK
<1> HIDE DEF V
<1>7. DOMAIN M = Fields /\ M.pc = "write" /\ M.p = L.p /\ M.damaged = L.damaged /\ M.writes = V
  BY <1>1 DEF Fields
<1> HIDE DEF M
<1>8. M # L
  <2> SUFFICES ASSUME M = L PROVE FALSE
    OBVIOUS
  <2>1. Len(V) = Len(W)
    BY <1>7
  <2> QED
    BY <1>2, <1>3, <2>1
<1>9. CallOK(nd, u, M)
  <2>1. WriteOK(nd, u, M)
    BY <1>1, <1>4, <1>6, <1>7 DEF WriteOK, Has
  <2> QED
    BY <1>7, <2>1, WritingOK
<1>10. \A j \in 2 .. Len(W) : j - 1 \in 1 .. Len(V) /\ V[j - 1] = W[j]
  BY <1>2, <1>3
<1>11. /\ n \in DOMAIN node /\ (f = "changeOVL" => node[n].lock = u)
       /\ f = "changeOVL" /\ isChanging(v) => \E j \in 2 .. Len(W) : Ends(W[j], n)
       /\ \A m : \A j \in 1 .. Len(W) : Ends(W[j], m) => (m = n /\ f = "changeOVL") \/ j \in 2 .. Len(W)
  BY FirstStore, ZenonT(30)
<1>12. l'[u] = M /\ \A t \in Threads : t # u => l'[t] = l[t]
  BY <1>5 DEF Inv, LocalsInv
<1> HIDE DEF W
<1>13. ASSUME NEW m \in DOMAIN node, isChanging(nd[m].changeOVL)
       PROVE  \E t \in Threads : /\ l'[t].pc = "write" /\ nd[m].lock = t
                                 /\ \E j \in 1 .. Len(l'[t].writes) : Ends(l'[t].writes[j], m)
  <2>1. ASSUME node[m].lock = u, \E j \in 2 .. Len(W) : Ends(W[j], m)
        PROVE  \E t \in Threads : /\ l'[t].pc = "write" /\ nd[m].lock = t
                                  /\ \E i \in 1 .. Len(l'[t].writes) : Ends(l'[t].writes[i], m)
    <3>1. \E i \in 1 .. Len(V) : Ends(V[i], m)
      BY <1>10, <2>1
    <3> QED
      BY <1>4, <1>7, <1>12, <2>1, <3>1
  <2>2. CASE m = n /\ f = "changeOVL"
    BY <1>4, <1>11, <1>13, <2>1, <2>2
  <2>3. CASE ~(m = n /\ f = "changeOVL")
    <3>1. isChanging(node[m].changeOVL)
      BY <1>4, <1>13, <2>3
    <3>2. PICK t \in Threads : /\ l[t].pc = "write" /\ node[m].lock = t
                               /\ \E j \in 1 .. Len(l[t].writes) : Ends(l[t].writes[j], m)
      BY <3>1 DEF Inv, VersionInv
    <3>3. CASE t # u
      BY <1>4, <1>12, <3>2, <3>3
    <3>4. CASE t = u
      <4>1. PICK j \in 1 .. Len(W) : Ends(W[j], m)
        BY <3>2, <3>4 DEF W
      <4>2. j \in 2 .. Len(W)
        BY <1>11, <2>3, <4>1
      <4> QED
        BY <2>1, <3>2, <3>4, <4>1, <4>2
    <3> QED
      BY <3>3, <3>4
  <2> QED
    BY <2>2, <2>3
<1>14. VersionInv'
  BY <1>4, <1>5, <1>13 DEF VersionInv
<1>15. Inv'
  BY <1>4, <1>5, <1>7, <1>9, <1>14, StepInv
<1>16. Guarded
  BY <1>4, <1>5, <1>8, StepGuarded
<1> QED
  BY <1>15, <1>16

\* After the last store no change of the rotation is under way.
LEMMA WriteLast ==
  ASSUME Inv, NEW u \in Threads, l[u].pc = "write", Len(l[u].writes) = 1,
         NEW n, NEW f, NEW v, NextStore(u, n, f, v)
  PROVE  Settled(node, Store(node, n, f, v), u)
<1> DEFINE W == l[u].writes
           nd == Store(node, n, f, v)
<1>1. /\ DOMAIN nd = DOMAIN node
      /\ \A m \in DOMAIN node : ~(m = n /\ f = "changeOVL") => nd[m].changeOVL = node[m].changeOVL
      /\ f = "changeOVL" => nd[n].changeOVL = v
  BY WriteNodes
<1>2. /\ f = "changeOVL" /\ isChanging(v) => \E j \in 2 .. Len(W) : Ends(W[j], n)
      /\ \A m : \A j \in 1 .. Len(W) : Ends(W[j], m) => (m = n /\ f = "changeOVL") \/ j \in 2 .. Len(W)
  BY FirstStore
<1>3. \A j \in 2 .. Len(W) : FALSE
  OBVIOUS
<1> HIDE DEF nd
<1>4. ASSUME NEW m \in DOMAIN node, isChanging(nd[m].changeOVL)
      PROVE  nd[m].changeOVL = node[m].changeOVL /\ node[m].lock # u
  <2>1. ~(m = n /\ f = "changeOVL")
    BY <1>1, <1>2, <1>3, <1>4
  <2>2. nd[m].changeOVL = node[m].changeOVL
    BY <1>1, <2>1
  <2>3. ASSUME node[m].lock = u PROVE FALSE
    <3>1. PICK j \in 1 .. Len(W) : Ends(W[j], m)
      BY <1>4, <2>2, <2>3 DEF Inv, VersionInv
    <3> QED
      BY <1>2, <1>3, <2>1, <3>1
  <2> QED
    BY <2>2, <2>3
<1>5. Settled(node, nd, u)
  BY <1>1, <1>4 DEF Settled
<1> QED
  BY <1>5 DEF nd

\* The stores of a rotation.
LEMMA WriteInv ==
  ASSUME Inv, NEW u \in Threads, Write(u)
  PROVE  Inv' /\ Guarded
<1> DEFINE L == l[u]
<1>1. L.pc = "write"
  BY DEF Write, At
<1>2. /\ Has(node, u, L.p) /\ L.damaged \in DOMAIN node \cup {NULL}
  BY <1>1, Start DEF CallOK, WriteOK
<1>3. PICK n, f, v : NextStore(u, n, f, v)
  BY DEF NextStore
<1> DEFINE nd == Store(node, n, f, v)
<1>4. \/ Len(L.writes) > 1 /\ Do(u, nd, [L EXCEPT !.writes = Tail(L.writes)])
      \/ Len(L.writes) = 1 /\ Repair(u, nd, L.damaged)
      \/ Len(L.writes) = 1 /\ fixHeight_nl(u, nd, L.p)
  BY <1>3 DEF Write, Store, NextStore
<1>5. CASE Len(L.writes) > 1 /\ Do(u, nd, [L EXCEPT !.writes = Tail(L.writes)])
  BY <1>1, <1>3, <1>5, WriteOn
<1>6. CASE Len(L.writes) = 1 /\ (Repair(u, nd, L.damaged) \/ fixHeight_nl(u, nd, L.p))
  <2>1. Settled(node, nd, u)
    BY <1>1, <1>3, <1>6, WriteLast
  <2>2. /\ DOMAIN nd = DOMAIN node /\ NodesOK(nd) /\ StepOf(node, nd, u)
        /\ \A m \in DOMAIN node : nd[m].lock = node[m].lock
    BY <1>1, <1>3, WriteNodes
  <2> HIDE DEF nd
  <2>3. Has(nd, u, L.p) /\ L.damaged \in DOMAIN nd \cup {NULL}
    BY <1>2, <2>2 DEF Has
  <2> QED
    BY <1>1, <1>6, <2>1, <2>2, <2>3, RepairStep, FixHeightStep
<1> QED
  BY <1>4, <1>5, <1>6

-----------------------------------------------------------------------------
(* The theorems *)

\* A call begins at the holder.
LEMMA InvokeInv ==
  ASSUME Inv, NEW u \in Threads, Invoke(u)
  PROVE  Inv' /\ Guarded
<1> DEFINE s == <<[curr |-> root, ovl |-> 0]>>
<1>1. PICK c \in Head(plan[u]) :
        /\ l' = [l EXCEPT ![u] = [Locals EXCEPT !.op = c[1], !.key = c[2], !.pc = "child", !.stack = s]]
        /\ call' = [call EXCEPT ![u] = D!Call(c[1], c[2], u)]
  BY Zenon DEF Invoke
<1> DEFINE M == [Locals EXCEPT !.op = c[1], !.key = c[2], !.pc = "child", !.stack = s]
<1>2. node' = node /\ l[u].pc # "write"
  BY DEF Invoke, At
<1>3. StackOK(node, s)
  <2>1. [curr |-> root, ovl |-> 0] \in Frames(node)
    BY Start, NodeTypes DEF Frames
  <2> QED
    BY <2>1 DEF StackOK
<1> HIDE DEF s
<1>4. /\ DOMAIN M = Fields /\ M.pc = "child" /\ M.stack = s /\ M.child = NULL /\ M.ovl = 0
  BY DEF Locals, Fields
<1>5. l' = [l EXCEPT ![u] = M]
  BY <1>1
<1> HIDE DEF M
<1>6. SearchOK(node, u, M)
  BY <1>3, <1>4 DEF SearchOK, OnWay, AtNode, Children
<1>7. CallOK(node, u, M)
  BY <1>4, <1>6, WayOK DEF OnWay
<1> QED
  BY <1>2, <1>4, <1>5, <1>7, QuietStep

\* It holds when there is only the holder.
LEMMA InitInv == Init => Inv
<1> SUFFICES ASSUME Init PROVE Inv
  OBVIOUS
<1>1. LocalsInv
  BY DEF Init, LocalsInv, Locals, Fields
<1>2. DOMAIN node = {root} /\ node[root] = rbnode_create(KEY_NEG_INFTY, NoValue, NULL)
  BY DEF Init
<1>3. NodesOK(node)
  <2>1. {root} = 0 .. 1 - 1
    BY DEF root
  <2>2. NodeOK(node, root)
    BY <1>2 DEF NodeOK, rbnode_create, NodeFields, Children
  <2>3. node[root].changeOVL = 0
    BY <1>2 DEF rbnode_create
  <2> QED
    BY <1>2, <2>1, <2>2, <2>3 DEF NodesOK
<1>4. CallsInv
  <2> SUFFICES ASSUME NEW t \in Threads PROVE CallOK(node, t, l[t])
    BY DEF CallsInv
  <2>1. l[t].pc = "idle"
    BY DEF Init, Locals
  <2> QED
    BY <2>1, IdleOK
<1>5. VersionInv
  BY <1>2, <1>3, StillVersions DEF VersionInv, NodesOK
<1> QED
  BY <1>1, <1>3, <1>4, <1>5 DEF Inv

\* Every step keeps it, and changes no node that another thread has locked.
LEMMA NextInv == Inv /\ [Next]_vars => Inv' /\ (Guarded \/ UNCHANGED vars)
<1> SUFFICES ASSUME Inv, [Next]_vars PROVE Inv' /\ (Guarded \/ UNCHANGED vars)
  OBVIOUS
<1>1. CASE UNCHANGED vars
  <2>1. node' = node /\ l' = l
    BY <1>1 DEF vars
  <2>2. Inv'
    BY <2>1 DEF Inv, LocalsInv, CallsInv, VersionInv
  <2> QED
    BY <1>1, <2>2
<1>2. ASSUME NEW u \in Threads, Invoke(u) PROVE Inv' /\ Guarded
  BY <1>2, InvokeInv
<1>3. ASSUME NEW u \in Threads, Search(u) PROVE Inv' /\ Guarded
  BY <1>3, ReadChildInv, ReadValueInv, CheckChildInv, ReadOVLInv, WaitInv, RereadChildInv, DescendInv DEF Search
<1>4. ASSUME NEW u \in Threads, Update(u) PROVE Inv' /\ Guarded
  BY <1>4, InsertLeafInv, DoneInv, NodeReadsInv, NodeLockParentInv, NodeUnlinkInv, UnlinkParentInv,
     UnlinkOVLInv, UnlinkValueInv, NodeUpdateInv DEF Update
<1>5. ASSUME NEW u \in Threads, nodeCondition(u) PROVE Inv' /\ Guarded
  BY <1>5, ConditionLeftInv, ConditionRightInv, ConditionValueInv, ConditionHeightsInv, ConditionHRInv
     DEF nodeCondition
<1>6. ASSUME NEW u \in Threads, fixHeightAndRebalance(u) PROVE Inv' /\ Guarded
  BY <1>6, SetHeightInv, DamagedParentInv, RepairKindInv, RepairHeightInv, ReadParentInv, LockParentInv,
     LockNodeInv, BalanceLeftInv, BalanceRightInv, BalanceHeightInv DEF fixHeightAndRebalance
<1>7. ASSUME NEW u \in Threads, Rotate(u) PROVE Inv' /\ Guarded
  BY <1>7, LockTallerInv, TallerLeftInv, TallerRightInv, LockInnerInv, InnerFarInv, InnerNearInv, WriteInv
     DEF Rotate
<1> QED
  BY <1>1, <1>2, <1>3, <1>4, <1>5, <1>6, <1>7 DEF Next, Step, Finished

\* Nobody gets the lock of a node before its change is over (waitUntilChangeCompleted, beginGrow):
\* a version that is changing belongs to a locked node.
THEOREM VersionsLocked == Spec => []ChangesUnderLock
<1>1. Inv => ChangesUnderLock
  BY ThreadsPositive DEF Inv, VersionInv, ChangesUnderLock
<1> QED
  BY <1>1, InitInv, NextInv, PTL DEF Spec

\* Only the owner of its lock changes the children, the height, the value and the version of a
\* node: what fixHeight_nl, rebalance_nl, the rotations and attemptUnlink_nl have read stays true.
THEOREM OwnersChange == Spec => OwnerChanges
<1>1. Inv /\ [Next]_vars => [Guarded]_vars
  BY NextInv
<1>2. Spec => [][Guarded]_vars
  BY <1>1, InitInv, NextInv, PTL DEF Spec
<1> QED
  BY <1>2 DEF OwnerChanges, Guarded
=============================================================================
