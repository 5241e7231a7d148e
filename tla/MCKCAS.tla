------------------------------- MODULE MCKCAS -------------------------------
(* Instances of KCAS. *)
EXTENDS KCAS

Word(a, o, n) == [addr |-> a, old |-> o, new |-> n]
CAS(entries) == [op |-> "kcas", entries |-> entries]
Read(a) == [op |-> "read", addr |-> a]

One(o, n) == {CAS(<<Word(1, o, n), Word(2, o, n)>>), CAS(<<Word(2, o, n), Word(1, o, n)>>)}

\* Two threads write two words, given in either order, to and fro, or one of them, or read.
Two == {<<<<One(0, 1), One(1, 0)>>,
          <<One(0, 2) \cup {CAS(<<Word(2, 0, 1)>>), Read(2)},
            {CAS(<<Word(2, 1, 0)>>), CAS(<<Word(1, 0, 1)>>), Read(1)}>>>>}

\* While a thread writes two words another one changes the second word to and fro, so that the
\* first may fail, and then helps it; the first uses its descriptor again before the helper is
\* through.  The last call of the first thread may meet a word that has been left locked.
Late == {<<<<One(0, 1), {CAS(<<Word(1, 0, 1)>>), CAS(<<Word(1, 5, 5)>>)},
             {CAS(<<Word(2, 0, 1)>>), Read(2)}>>,
           <<{CAS(<<Word(2, 0, 2)>>)}, {CAS(<<Word(2, 2, 0)>>)},
             {Read(1), CAS(<<Word(1, 0, 2)>>)}>>>>}

\* The same with a helper that is a third thread, on an operation that may also succeed.
Three == {<<<<{CAS(<<Word(1, 0, 1), Word(2, 0, 1)>>)}, {CAS(<<Word(2, 1, 0)>>)}>>,
            <<{CAS(<<Word(2, 0, 2)>>)}, {CAS(<<Word(2, 2, 0)>>)}>>,
            <<{Read(1)}>>>>}

All == {s \o <<<<>>>> : s \in Two \cup Late} \cup Three
=============================================================================
