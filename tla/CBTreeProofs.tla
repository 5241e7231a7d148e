---------------------------- MODULE CBTreeProofs ----------------------------
(***************************************************************************)
(* In the trees that take the lock on every access, a search that          *)
(* restructures the tree is alone in it: for every number of threads, any  *)
(* keys, calls, prefills and period cops.                                  *)
(***************************************************************************)
EXTENDS CBTree, TLAPS

Fields == {"pc", "op", "key", "mode", "inserting", "z", "z_par", "node"}

\* The locals are records with their fields.
Shape == DOMAIN l = Threads /\ \A t \in Threads : DOMAIN l[t] = Fields

\* A call that has not ended takes one of the two locks, and an insertion the exclusive one.
ModeInv == \A t \in Threads : l[t].pc # "idle" =>
  /\ l[t].mode \in {"shared", "exclusive"}
  /\ l[t].inserting \in BOOLEAN
  /\ l[t].inserting => l[t].mode = "exclusive"

\* The lock is held by those who are in the tree.
HolderInv == \A t \in Threads :
  /\ t \in readers <=> InTree(t) /\ l[t].mode = "shared"
  /\ t \in writers <=> InTree(t) /\ l[t].mode = "exclusive"

\* The lock is a readers-writer lock.
LockInv == /\ writers # {} => readers = {}
           /\ \A s, t \in writers : s = t

\* Which tree this is; the ideal one is left out.
Locked == Variant \in {"concurrent", "fair", "sequential"}

Inv == Shape /\ ModeInv /\ HolderInv /\ LockInv

\* The invariant is enough: the writer of the lock is the only thread in the tree.
LEMMA InvAlone == Inv => Alone
  BY DEF Inv, ModeInv, HolderInv, LockInv, Alone, InTree, Restructures

\* It holds when the tree has been constructed and nobody has called it.
LEMMA InvInit == Init => Inv
  BY DEF Init, R!Init, Inv, Shape, ModeInv, HolderInv, LockInv, Locals, InTree, Fields

\* What a step does to the locals of t and to the lock.
Moves(t, p, m, i) ==
  /\ DOMAIN l' = Threads
  /\ \A s \in Threads \ {t} : l'[s] = l[s]
  /\ DOMAIN l'[t] = Fields
  /\ l'[t].pc = p /\ l'[t].mode = m /\ l'[t].inserting = i

\* The fields of Locals that the invariant is about.
LEMMA LocalsFields ==
  /\ DOMAIN Locals = Fields
  /\ Locals.pc = "idle" /\ Locals.mode = "none" /\ Locals.inserting = FALSE
  BY DEF Locals, Fields

\* A step that sets the locals of t moves it where they say.
LEMMA LocalMoves ==
  ASSUME Shape, NEW t \in Threads, NEW L, Local(t, L), DOMAIN L = Fields
  PROVE  Moves(t, L.pc, L.mode, L.inserting)
  BY DEF Shape, Local, Moves

\* A step inside the tree, or inside or outside a call, keeps the invariant.
LEMMA StayInv ==
  ASSUME Inv, NEW t \in Threads, NEW p, Moves(t, p, l[t].mode, l[t].inserting),
         InTree(t), p \in {"search", "leave", "linked"}, UNCHANGED lock
  PROVE  Inv'
  BY DEF Inv, Shape, ModeInv, HolderInv, LockInv, Moves, InTree, lock

\* So does a step that leaves the tree and gives back the lock.
LEMMA OutInv ==
  ASSUME Inv, NEW t \in Threads, NEW p \in {"idle", "enter"}, NEW m, NEW i, Moves(t, p, m, i),
         InTree(t), Unlock(t, l[t].mode),
         p = "enter" => m = "exclusive" /\ i = TRUE
  PROVE  Inv'
<1>1. CASE l[t].mode = "shared"
  <2>1. R!LeaveShared(t)
    BY <1>1 DEF Unlock
  <2>. QED BY <1>1, <2>1, ZenonT(40) DEF R!LeaveShared, Inv, Shape, ModeInv, HolderInv, LockInv, Moves, InTree
<1>2. CASE l[t].mode = "exclusive"
  <2>1. R!LeaveExclusive(t)
    BY <1>2 DEF Unlock
  <2>. QED BY <1>2, <2>1, ZenonT(40) DEF R!LeaveExclusive, Inv, Shape, ModeInv, HolderInv, LockInv, Moves, InTree
<1>. QED BY <1>1, <1>2 DEF Inv, ModeInv, InTree

\* Every step of a tree that takes the lock on every access keeps the invariant.
LEMMA InvNext == ASSUME Locked, Inv, [Next]_vars PROVE Inv'
<1>. USE DEF Inv
<1>1. ASSUME NEW t \in Threads, Prefill(t) \/ Invoke(t) PROVE Inv'
  <2>1. At(t, "idle") /\ UNCHANGED lock /\ \E op, k : Start(t, op, k)
    BY <1>1 DEF Prefill, Invoke, Start
  <2>2. PICK op, k : Start(t, op, k)
    BY <2>1
  <2>3. Mode(t, op) \in {"shared", "exclusive"}
    BY Locked DEF Locked, Mode
  <2>. DEFINE i == Direct /\ op = "insertIfAbsent"
  <2>4. i \in BOOLEAN /\ (i => Mode(t, op) = "exclusive")
    BY Locked DEF Locked, Mode, Direct
  <2>5. Moves(t, "enter", Mode(t, op), i)
    <3>. DEFINE L == [Locals EXCEPT !.pc = "enter", !.op = op, !.key = k, !.mode = Mode(t, op),
                                    !.inserting = i]
    <3>1. Local(t, L)
      BY <2>2 DEF Start
    <3>. HIDE DEF i
    <3>2. DOMAIN L = Fields /\ L.pc = "enter" /\ L.mode = Mode(t, op) /\ L.inserting = i
      BY DEF Locals, Fields
    <3>. HIDE DEF L
    <3>. QED BY <3>1, <3>2, LocalMoves
  <2>. HIDE DEF i
  <2>. QED BY <2>1, <2>3, <2>4, <2>5 DEF Shape, ModeInv, HolderInv, LockInv, Moves, InTree, lock, At
<1>2. ASSUME NEW t \in Threads, warmupEnd(t) PROVE Inv'
  BY <1>2 DEF warmupEnd, Shape, ModeInv, HolderInv, LockInv, InTree, lock
<1>3. ASSUME NEW t \in Threads, Enter(t) PROVE Inv'
  <2>. DEFINE L == [l[t] EXCEPT !.pc = "search", !.z = root, !.z_par = NULL]
  <2>1. Moves(t, "search", l[t].mode, l[t].inserting)
    <3>1. Local(t, L) /\ DOMAIN L = Fields
      BY <1>3 DEF Enter, Shape
    <3>2. L.pc = "search" /\ L.mode = l[t].mode /\ L.inserting = l[t].inserting
      BY DEF Shape, Fields
    <3>. HIDE DEF L
    <3>. QED BY <3>1, <3>2, LocalMoves
  <2>2. CASE l[t].mode = "shared"
    <3>1. R!EnterShared(t)
      BY <1>3, <2>2 DEF Enter
    <3>. QED BY <1>3, <2>1, <2>2, <3>1
             DEF Enter, At, R!EnterShared, Shape, ModeInv, HolderInv, LockInv, Moves, InTree
  <2>3. CASE l[t].mode = "exclusive"
    <3>1. R!EnterExclusive(t)
      BY <1>3, <2>3 DEF Enter
    <3>. QED BY <1>3, <2>1, <2>3, <3>1
             DEF Enter, At, R!EnterExclusive, Shape, ModeInv, HolderInv, LockInv, Moves, InTree
  <2>. QED BY <1>3, <2>2, <2>3 DEF Enter, At, ModeInv
<1>4. ASSUME NEW t \in Threads, Search(t) PROVE Inv'
  <2>. DEFINE L == l[t]
              y == get_child(L.z, L.key)
              x == get_child(y, L.key)
              M == IF y = NULL THEN EndedAt(L, L.z)
                   ELSE IF x = NULL THEN EndedAt(L, y) ELSE [L EXCEPT !.z = x]
  <2>1. Local(t, M)
    BY <1>4 DEF Search
  <2>2. /\ DOMAIN M = Fields /\ M.mode = l[t].mode /\ M.inserting = l[t].inserting
        /\ M.pc \in {"search", "leave"}
    <3>. HIDE DEF y, x
    <3>. QED BY <1>4 DEF Search, EndedAt, Shape, Fields, At
  <2>. HIDE DEF M
  <2>3. Moves(t, M.pc, l[t].mode, l[t].inserting)
    BY <2>1, <2>2, LocalMoves
  <2>. QED BY <1>4, <2>2, <2>3, StayInv DEF Search, InTree, At
<1>5. ASSUME NEW t \in Threads, SearchEnds(t) PROVE Inv'
  <2>. DEFINE y == get_child(l[t].z, l[t].key)
              n == IF y = NULL THEN l[t].z ELSE y
              M == EndedAt(l[t], n)
  <2>1. Local(t, M)
    BY <1>5 DEF SearchEnds
  <2>2. /\ DOMAIN M = Fields /\ M.mode = l[t].mode /\ M.inserting = l[t].inserting
        /\ M.pc = "leave"
    <3>. HIDE DEF n
    <3>. QED BY DEF EndedAt, Shape, Fields
  <2>. HIDE DEF M
  <2>3. Moves(t, M.pc, l[t].mode, l[t].inserting)
    BY <2>1, <2>2, LocalMoves
  <2>. QED BY <1>5, <2>2, <2>3, StayInv DEF SearchEnds, InTree, At
<1>6. ASSUME NEW t \in Threads, SearchPasses(t) PROVE Inv'
  <2>. DEFINE y == get_child(l[t].z, l[t].key)
              x == get_child(y, l[t].key)
              M == [l[t] EXCEPT !.z_par = y, !.z = x]
  <2>1. Local(t, M)
    BY <1>6 DEF SearchPasses
  <2>2. /\ DOMAIN M = Fields /\ M.mode = l[t].mode /\ M.inserting = l[t].inserting
        /\ M.pc = l[t].pc
    <3>. HIDE DEF y, x
    <3>. QED BY DEF Shape, Fields
  <2>. HIDE DEF M
  <2>3. Moves(t, "search", l[t].mode, l[t].inserting)
    BY <1>6, <2>1, <2>2, LocalMoves DEF SearchPasses, At
  <2>. QED BY <1>6, <2>3, StayInv DEF SearchPasses, InTree, At
<1>7. ASSUME NEW t \in Threads, SearchRotates(t) PROVE Inv'
  <2>. DEFINE y == get_child(l[t].z, l[t].key)
              x == get_child(y, l[t].key)
              n == IF (l[t].key < l[t].z) = (l[t].key < y) THEN y ELSE x
              M == [l[t] EXCEPT !.z = n]
  <2>1. Local(t, M)
    BY <1>7 DEF SearchRotates
  <2>2. /\ DOMAIN M = Fields /\ M.mode = l[t].mode /\ M.inserting = l[t].inserting
        /\ M.pc = l[t].pc
    <3>. HIDE DEF n
    <3>. QED BY DEF Shape, Fields
  <2>. HIDE DEF M
  <2>3. Moves(t, "search", l[t].mode, l[t].inserting)
    BY <1>7, <2>1, <2>2, LocalMoves DEF SearchRotates, At
  <2>. QED BY <1>7, <2>3, StayInv DEF SearchRotates, InTree, At
<1>8. ASSUME NEW t \in Threads, InsertLink(t) PROVE Inv'
  <2>. DEFINE M == [l[t] EXCEPT !.pc = "linked"]
  <2>1. Local(t, M)
    BY <1>8 DEF InsertLink
  <2>2. DOMAIN M = Fields /\ M.mode = l[t].mode /\ M.inserting = l[t].inserting /\ M.pc = "linked"
    BY DEF Shape, Fields
  <2>. HIDE DEF M
  <2>3. Moves(t, "linked", l[t].mode, l[t].inserting)
    BY <2>1, <2>2, LocalMoves
  <2>. QED BY <1>8, <2>3, StayInv DEF InsertLink, InTree, At
<1>9. ASSUME NEW t \in Threads, InsertFound(t) \/ InsertLeave(t) PROVE Inv'
  <2>1. InTree(t) /\ Unlock(t, l[t].mode) /\ Local(t, Locals)
    BY <1>9 DEF InsertFound, InsertLeave, Return, InTree, At
  <2>2. Moves(t, "idle", "none", FALSE)
    BY <2>1, LocalMoves, LocalsFields
  <2>. QED BY <2>1, <2>2, OutInv
<1>10. ASSUME NEW t \in Threads, FindLeave(t) PROVE Inv'
  <2>1. InTree(t) /\ Unlock(t, l[t].mode)
    BY <1>10 DEF FindLeave, InTree, At
  <2>2. CASE Local(t, Locals)
    <3>1. Moves(t, "idle", "none", FALSE)
      BY <2>2, LocalMoves, LocalsFields
    <3>. QED BY <2>1, <3>1, OutInv
  <2>3. CASE Local(t, [l[t] EXCEPT !.pc = "enter", !.mode = "exclusive", !.inserting = TRUE])
    <3>. DEFINE M == [l[t] EXCEPT !.pc = "enter", !.mode = "exclusive", !.inserting = TRUE]
    <3>1. DOMAIN M = Fields /\ M.pc = "enter" /\ M.mode = "exclusive" /\ M.inserting = TRUE
      BY DEF Shape, Fields
    <3>. HIDE DEF M
    <3>2. Moves(t, "enter", "exclusive", TRUE)
      BY <2>3, <3>1, LocalMoves DEF M
    <3>. QED BY <2>1, <3>2, OutInv
  <2>. QED BY <1>10, <2>2, <2>3 DEF FindLeave, Return
<1>11. ASSUME UNCHANGED vars PROVE Inv'
  BY <1>11 DEF vars, lock, Shape, ModeInv, HolderInv, LockInv, InTree
<1>. QED
  BY [Next]_vars, <1>1, <1>2, <1>3, <1>4, <1>5, <1>6, <1>7, <1>8, <1>9, <1>10, <1>11
     DEF Next, Step, Joined

\* A tree stays the tree it was built as.
LEMMA SameTree == ASSUME [Next]_vars PROVE Variant' = Variant
<1>1. CASE UNCHANGED vars
  BY <1>1 DEF vars, build
<1>2. ASSUME NEW t \in Threads, Prefill(t) \/ Invoke(t) PROVE Variant' = Variant
  BY <1>2 DEF Prefill, Invoke, Start, build
<1>3. ASSUME NEW t \in Threads, warmupEnd(t) \/ Step(t) PROVE Variant' = Variant
  BY <1>3 DEF warmupEnd, Step, build
<1>. QED BY [Next]_vars, <1>1, <1>2, <1>3 DEF Next, Joined

\* The lock works for the tree: a thread that counts, rotates or links nodes has no other
\* thread in the tree with it, so no search can lose its way.
THEOREM Exclusion == Spec => []Alone
<1>. DEFINE I == Variant = "ideal" \/ (Locked /\ Inv)
<1>1. Init => I
  BY InvInit, ScriptsAssumption DEF Init, Locked
<1>2. I /\ [Next]_vars => I'
  BY InvNext, SameTree DEF Locked
<1>3. I => Alone
  BY InvAlone DEF Alone
<1>. QED BY <1>1, <1>2, <1>3, PTL DEF Spec
=============================================================================
