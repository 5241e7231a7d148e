------------------------------ MODULE MCCBTree ------------------------------
(* Instances of CBTree. *)
EXTENDS CBTree

\* Thread t makes n(t) calls of ops(t) after each of the prefills.
Each(variant, cops_, prefills, n(_), ops(_)) ==
  {[variant |-> variant, cops |-> cops_, prefill |-> p, plan |-> [t \in Threads |-> [i \in 1 .. n(t) |-> ops(t)]]] :
     p \in prefills}

\* The next searches rotate, once or twice, to the left or to the right, and move a
\* subtree with it.
Shapes == {<<1, 2, 4, 3, 5, 6>>, <<1, 6, 4, 2, 3, 5>>, <<1, 2, 5, 3, 4>>, <<1, 5, 2, 3, 4>>}

Searchers(t) == CASE t \in {0, 3} -> 0 [] t = 1 -> 2 [] t = 2 -> 1
Searches(t) == {"contains"} \X Keys

\* Every search restructures.
Fair == Each("fair", 1, Shapes, Searchers, Searches)

\* Thread 1 restructures until the warm-up is over; main may insert a key again.
Ideal == Each("ideal", 1, Shapes \cup {<<1, 4, 2, 4>>}, Searchers, Searches)

\* After a chain or a zigzag, thread 1 searches and restructures every other time; the
\* others search and insert.
Concurrent ==
  Each("concurrent", 2, {<<1, 2, 3, 4>>, <<4, 1, 3, 2>>},
       LAMBDA t : IF t = 0 THEN 0 ELSE IF t = 1 THEN 4 ELSE 1,
       LAMBDA t : IF t = 1 THEN {"find"} \X {2, 4}
                  ELSE ({"contains"} \X {2, 3, 4}) \cup ({"insertIfAbsent"} \X {5}))

\* One thread makes all the calls.
Sequential ==
  Each("sequential", 0, Shapes, LAMBDA t : IF t = 1 THEN 3 ELSE 0,
       LAMBDA t : ({"contains"} \X Keys) \cup ({"insertIfAbsent"} \X {3, 6}))

MCAll == Fair \cup Ideal \cup Concurrent \cup Sequential
=============================================================================
