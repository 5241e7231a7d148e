----------------------------- MODULE MCFlexList -----------------------------
(***************************************************************************)
(* Instances of FlexList.  Each prefill leaves the list in a shape where   *)
(* the next accesses promote or demote nodes.                              *)
(***************************************************************************)
EXTENDS FlexList

\* Worker t makes n(t) calls of ops(t) after each of the prefills.
Each(cops, prefills, n(_), ops(_)) ==
  {[cops |-> cops, prefill |-> p,
    plan |-> [t \in Workers |-> [i \in 1 .. n(t) |-> ops(t)]]] : p \in prefills}

\* As in test1.cpp, every key is written by one thread and read by all.
Own(t) == {k \in Keys : k % NumWorkers = t % NumWorkers}
Inserts(t) == ({"contains"} \X Keys) \cup ({"insertIfAbsent"} \X Own(t))
Anything(t) == ({"contains", "find"} \X Keys) \cup ({"insertIfAbsent", "erase"} \X Own(t))

\* Sinking behind pred, opening a level; rising at an insertion; rising and then
\* opening a level; rising under a node that is not the head.
Shapes == {<<1, 1, 5, 2, 1, 2, 1, 4, 3, 5>>, <<3, 4, 2, 4, 2, 3, 2, 2>>,
           <<3, 5, 3, 4, 1, 5, 4, 2>>, <<5, 3, 4, 5, 2, 4, 3, 1, 2>>}

\* A short list: the next access opens a level, or the insertions are neighbours.
Flat == {<<2, 3>>, <<1>>}
Near(ops) == {c \in ops : c[2] <= 4}

\* Worker 1 makes one access, to a node that is about to rise above its neighbour;
\* worker 2 makes several meanwhile, after which the neighbour is about to sink.
Slow == {<<6, 3, 3, 5, 4, 3, 3, 6, 3, 5, 2, 5, 3, 3>>}
BothEnds(t) == IF t = 1 THEN {<<"contains", 3>>} ELSE {"insertIfAbsent"} \X {1, 5}

\* All threads write the same key, which main has inserted; or insert neighbours.
Contend == Each(2, {<<2, 3>>}, LAMBDA t : 2, LAMBDA t : Operations \X {2})
           \cup Each(2, Flat, LAMBDA t : 1, LAMBDA t : Near(Inserts(t)))

MCAll == Each(1, Shapes, LAMBDA t : 1, Inserts)
         \cup Each(1, Flat, LAMBDA t : 1, LAMBDA t : Near(Anything(t)))
         \cup Each(1, Slow, LAMBDA t : IF t = 1 THEN 1 ELSE 4, BothEnds) \cup Contend

\* As in test2.cpp, two threads insert the same key.
MCSameInsert == Each(1, {<<>>}, LAMBDA t : 1, LAMBDA t : {<<"insertIfAbsent", 1>>})
=============================================================================
