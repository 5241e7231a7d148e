------------------------------- MODULE MCCCAVL ------------------------------
(* Instances of CCAVL. *)
EXTENDS CCAVL

Ins(k) == <<"insertIfAbsent", k>>
Put(k) == <<"insert", k>>
Del(k) == <<"erase", k>>
Get(k) == <<"find", k>>

\* main inserts the keys of the sequence ks, then the others make one call each.
Fill(ks) == [i \in 1 .. Len(ks) |-> {Ins(ks[i])}]
After(ks, a, b, c) == <<Fill(ks), <<a>>, <<b>>, <<c>>>>
Pair(ks, a, b) == <<Fill(ks), <<a>>, <<b>>, <<>>>>

\* A routing node is made, filled again and unlinked; a key is replaced.
Routing == {After(<<2, 1, 3>>, {Del(2)}, {Del(1)}, {Get(2), Ins(2)}),
            Pair(<<2, 1, 3>>, {Del(2)}, {Put(2), Del(3)})}

\* A removal rotates, once or twice, under searches and updates of the nodes that move.
Rotating == {Pair(<<4, 2, 5, 1, 3>>, {Del(5)}, {Ins(6), Get(4), Get(1)}),
             After(<<4, 2, 5, 3>>, {Del(5)}, {Del(3), Del(4)}, {Get(4)}),
             Pair(<<2, 1, 4, 3, 5>>, {Del(1)}, {Get(5), Ins(6), Del(4)})}

\* Two removals in a larger tree: the taller child is itself out of balance.
Nested == {Pair(<<8, 3, 10, 2, 5, 9, 11, 1, 4, 6, 12, 7>>, {Del(12)}, {Del(4)})}

\* Insertions of the same key into an empty tree, and next to each other.
Growing == {<<<<>>, <<{Ins(1)}, {Del(1)}>>, <<{Ins(1), Put(1)}>>, <<>>>>,
            Pair(<<1>>, {Ins(2)}, {Ins(3), Del(1)})}

\* main alone inserts and removes.
Alone == {<<[i \in 1 .. 8 |-> IF i <= 4 THEN {Ins(2 * i), Ins(9 - 2 * i)}
                              ELSE {Del(i), Del(9 - i), Get(1)}], <<>>, <<>>, <<>>>>}

MCAll == Routing \cup Rotating \cup Nested \cup Growing \cup Alone

\* An insertion and a removal whose repairs meet.
MCRepair == {Pair(<<4, 2, 5, 1>>, {Ins(3)}, {Del(2)})}
=============================================================================
