----------------------------- MODULE MCSkipLists -----------------------------
(* Instances of the two skip lists: of each, what its users do with it. *)
EXTENDS SkipList

VARIABLE list   \* which list this is

Locks == INSTANCE SkipListLocks
Lazy == INSTANCE SkipListLazy

ASSUME ListsAssumption == \A s \in Scripts : s.list \in {"locks", "lazy"}

\* Thread t makes n(t) calls of ops(t).
Each(name, loopKept, prefill, n(_), ops(_)) ==
  {[list |-> name, loopKept |-> loopKept, prefill |-> prefill,
    plan |-> [t \in Threads |-> [i \in 1 .. n(t) |-> ops(t)]]]}

TwoOne(t) == IF t = 1 THEN 2 ELSE IF t = 2 THEN 1 ELSE 0
One(t) == 1
First(n, t) == IF t <= 2 THEN n ELSE 0
Updates(keys) == {"insertIfAbsent", "erase"} \X keys

\* As in test1.cpp, every key is written by one thread and read by all; or one thread
\* erases a key, while the others read and insert it.
Own(t) == ({"contains", "find"} \X {1, 2}) \cup Updates({k \in {1, 2} : k % 2 = t % 2})
OneEraser(t) == (IF t = 1 THEN {"erase"} ELSE {"insertIfAbsent", "find", "contains"}) \X {2}

LocksScripts == Each("locks", FALSE, {2}, TwoOne, LAMBDA t : Updates({1, 2}))
                \cup Each("locks", TRUE, {2}, TwoOne, Own)
                \cup Each("locks", TRUE, {2}, One, OneEraser)

\* Any update of any key; all threads write and read a key that is there; or they insert
\* neighbours of a key that is erased meanwhile.
LazyScripts == Each("lazy", FALSE, {}, One,
                    LAMBDA t : IF t = 3 THEN {<<"erase", 1>>} ELSE Updates({1, 2}))
               \cup Each("lazy", TRUE, {2}, LAMBDA t : First(2, t),
                         LAMBDA t : {"insertIfAbsent", "erase", "find"} \X {2})
               \cup Each("lazy", TRUE, {2}, LAMBDA t : First(1, t),
                         LAMBDA t : ({"insertIfAbsent"} \X Keys) \cup {<<"erase", 2>>})

MCAll == LocksScripts \cup LazyScripts

\* As in test1.cpp, a thread asks for the keys it writes.
MCAsks == Each("lazy", TRUE, {2}, LAMBDA t : IF t = 1 THEN 2 ELSE 0,
               LAMBDA t : {"erase", "contains"} \X {2})

allVars == <<vars, list>>

Init1 == \E s \in Scripts : Init(s) /\ list = s.list
Next1 == \/ list = "locks" /\ Locks!Next /\ UNCHANGED list
         \/ list = "lazy" /\ Lazy!Next /\ UNCHANGED list

Spec == Init1 /\ [][Next1]_allVars

\* Thread t runs.
Runs(t) == /\ Invoke(t) \/ (list = "locks" /\ Locks!Step(t)) \/ (list = "lazy" /\ Lazy!Step(t))
           /\ UNCHANGED list

\* The operating system runs every thread; a spin lock that stays free is taken.
FairSpec == Spec /\ \A t \in Threads : WF_allVars(Runs(t))

\* Every call returns: the clients make finitely many calls, and in the end none is running.
\* There is one exception: in the list with removal under locks an insertion next to a
\* marked node searches again at once, and may do so for ever if it always comes before
\* the eraser at the lock that both need.
EveryCallReturns ==
  \/ <>[]Quiescent
  \/ []<>(list = "locks" /\ \E t \in Threads : At(t, "find") /\ l[t].op = "insertIfAbsent")
=============================================================================
