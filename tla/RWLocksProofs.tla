---------------------------- MODULE RWLocksProofs --------------------------
(***************************************************************************)
(* The two other readers-writer locks, for every number of threads: the    *)
(* words of rwlock.h and the queue of CLHRWLock.h implement the abstract   *)
(* lock, and the queue never frees a node that somebody still needs.       *)
(*                                                                         *)
(* Each invariant is proved per action.  For a word, an action says where  *)
(* the thread goes (WordMoves); the sum that the word stands for follows   *)
(* from the place it leaves and the place it enters (WordMove).  For the   *)
(* queue, the readers are counted in the same way (CLHMoves).              *)
(***************************************************************************)
EXTENDS MCRWLocks, FiniteSetTheorems, WellFoundedInduction, NaturalsInduction, TLAPS

USE ThreadsAssumption

\* The number of threads in a set when only t may enter or leave it.
LEMMA MoveCounts ==
  ASSUME NEW A \in SUBSET Threads, NEW B \in SUBSET Threads, NEW t \in Threads,
         \A s \in Threads : s # t => (s \in B <=> s \in A)
  PROVE  /\ Cardinality(A) \in Nat /\ Cardinality(B) \in Nat
         /\ Cardinality(A) = 0 <=> A = {}
         /\ Cardinality(B) + (IF t \in A THEN 1 ELSE 0) = Cardinality(A) + (IF t \in B THEN 1 ELSE 0)
<1>1. IsFiniteSet(A) /\ IsFiniteSet(B)
  BY FS_Subset
<1>2. /\ Cardinality(A) \in Nat /\ Cardinality(B) \in Nat
      /\ Cardinality(A) = 0 <=> A = {}
  BY <1>1, FS_CardinalityType, FS_EmptySet
<1>3. CASE t \in B
  <2>1. B = A \cup {t}
    BY <1>3
  <2>2. Cardinality(B) = IF t \in A THEN Cardinality(A) ELSE Cardinality(A) + 1
    BY <1>1, <2>1, FS_AddElement
  <2> QED
    BY <1>2, <1>3, <2>2
<1>4. CASE t \notin B
  <2>1. B = A \ {t}
    BY <1>4
  <2>2. Cardinality(B) = IF t \in A THEN Cardinality(A) - 1 ELSE Cardinality(A)
    BY <1>1, <2>1, FS_RemoveElement
  <2> QED
    BY <1>2, <1>4, <2>2
<1> QED
  BY <1>2, <1>3, <1>4

\* The components take their cardinalities from the same module.
LEMMA SameCardinality ==
  \A S : W!Cardinality(S) = Cardinality(S) /\ C!Cardinality(S) = Cardinality(S)
BY DEF W!Cardinality, C!Cardinality, Cardinality

-----------------------------------------------------------------------------
(* rwlock.h *)

\* What the word counts when thread t goes to x.
LEMMA WordCounts ==
  ASSUME W!TypeOK, NEW t \in Threads, NEW x \in W!Places, wordpc' = [wordpc EXCEPT ![t] = x],
         NEW n, n = W!Cardinality(W!At(W!Announced))
  PROVE  /\ n \in Nat
         /\ n = 0 <=> W!At(W!Announced) = {}
         /\ wordpc[t] \in W!Announced => n > 0
         /\ W!Cardinality(W!At(W!Announced))' =
              IF x \in W!Announced THEN IF wordpc[t] \in W!Announced THEN n ELSE n + 1
                                   ELSE IF wordpc[t] \in W!Announced THEN n - 1 ELSE n
<1> DEFINE A == W!At(W!Announced)
           B == W!At(W!Announced)'
<1>1. /\ A \in SUBSET Threads /\ B \in SUBSET Threads
      /\ \A s \in Threads : s # t => (s \in B <=> s \in A)
      /\ t \in A <=> wordpc[t] \in W!Announced
      /\ t \in B <=> x \in W!Announced
  BY DEF W!TypeOK, W!At, W!Announced
<1>2. n = Cardinality(A) /\ W!Cardinality(W!At(W!Announced))' = Cardinality(B)
  BY SameCardinality
<1> HIDE DEF A, B
<1>3. /\ Cardinality(A) \in Nat /\ Cardinality(B) \in Nat
      /\ Cardinality(A) = 0 <=> A = {}
      /\ Cardinality(B) + (IF t \in A THEN 1 ELSE 0) = Cardinality(A) + (IF t \in B THEN 1 ELSE 0)
  BY <1>1, MoveCounts
<1> QED
  BY <1>1, <1>2, <1>3 DEF A, B

\* The word starts at 0 with nobody inside.
LEMMA WordInit == W!Init => W!IInv
<1> SUFFICES ASSUME W!Init PROVE W!IInv
  OBVIOUS
<1>1. W!At(W!Announced) = {} /\ W!At(W!Upgrading) = {} /\ W!At(W!Owning) = {}
  BY DEF W!Init, W!At, W!Announced, W!Upgrading, W!Owning
<1>2. W!Cardinality(W!At(W!Announced)) = 0
  BY <1>1, FS_EmptySet, SameCardinality
<1>3. W!WordInv
  BY <1>1, <1>2 DEF W!Init, W!WordInv, W!Reader
<1> QED
  BY <1>1, <1>3 DEF W!Init, W!IInv, W!TypeOK, W!Places, W!OneInv, W!AloneInv, W!CasInv,
                    W!writers, W!At, W!Upgrading, W!Owning

\* What a thread at a place adds to the word.
Weight(place) == (IF place \in W!Announced THEN W!Reader ELSE 0)
                 + (IF place \in W!Upgrading THEN 2 ELSE 0) + (IF place \in W!Owning THEN 1 ELSE 0)

\* What the word says about the threads.
LEMMA WordSays ==
  ASSUME W!TypeOK, W!WordInv
  PROVE  /\ W!isWriteLocked(lock) <=> W!At(W!Owning) # {}
         /\ favour = "readers" => (W!isUpgrading(lock) <=> W!At(W!Upgrading) # {})
         /\ lock \in {0, 1} => W!At(W!Announced) = {} /\ W!At(W!Upgrading) = {}
         /\ lock = 2 /\ favour = "readers" => W!At(W!Announced) = {} /\ W!At(W!Owning) = {}
<1> DEFINE n == W!Cardinality(W!At(W!Announced))
<1>1. n \in Nat /\ (n = 0 <=> W!At(W!Announced) = {})
  <2>1. IsFiniteSet(W!At(W!Announced))
    BY FS_Subset DEF W!At
  <2> QED
    BY <2>1, SameCardinality, FS_CardinalityType, FS_EmptySet
<1>2. favour \in {"readers", "writers"} /\ (favour = "writers" => W!At(W!Upgrading) = {})
  BY DEF W!TypeOK, W!Places, W!At, W!Upgrading
<1>3. lock = W!Reader * n + (IF W!At(W!Upgrading) = {} THEN 0 ELSE 2)
                          + (IF W!At(W!Owning) = {} THEN 0 ELSE 1)
  BY DEF W!WordInv
<1> HIDE DEF n
<1>4. CASE favour = "readers"
  BY <1>1, <1>3, <1>4 DEF W!Reader, W!isWriteLocked, W!isUpgrading
<1>5. CASE favour = "writers"
  BY <1>1, <1>2, <1>3, <1>5 DEF W!Reader, W!isWriteLocked
<1> QED
  BY <1>2, <1>4, <1>5

One(b) == IF b THEN 1 ELSE 0

\* What a move takes from one side of the sum it adds to the other.
Balance(R, w, w2, n, n2, u, u2, o, o2, a, a2, b, b2, c, c2) ==
  /\ R \in {2, 4}
  /\ w \in Int /\ w2 \in Int /\ n \in Int /\ n2 \in Int /\ u \in Int /\ u2 \in Int
  /\ o \in Int /\ o2 \in Int /\ a \in Int /\ a2 \in Int /\ b \in Int /\ b2 \in Int
  /\ c \in Int /\ c2 \in Int
  /\ w = R * n + u + o
  /\ w2 + (R * a + 2 * b + c) = w + (R * a2 + 2 * b2 + c2)
  /\ n2 + a = n + a2 /\ u2 + 2 * b = u + 2 * b2 /\ o2 + c = o + c2

\* Hence the word is the sum of its parts again.
LEMMA BalanceKept ==
  \A R, w, w2, n, n2, u, u2, o, o2, a, a2, b, b2, c, c2 :
    Balance(R, w, w2, n, n2, u, u2, o, o2, a, a2, b, b2, c, c2) =>
      w2 = R * n2 + u2 + o2 /\ (n2 \in Nat /\ u2 \in Nat /\ o2 \in Nat => w2 \in Nat)
<1> SUFFICES ASSUME NEW R, NEW w, NEW w2, NEW n, NEW n2, NEW u, NEW u2, NEW o, NEW o2,
                    NEW a, NEW a2, NEW b, NEW b2, NEW c, NEW c2,
                    Balance(R, w, w2, n, n2, u, u2, o, o2, a, a2, b, b2, c, c2)
             PROVE  w2 = R * n2 + u2 + o2 /\ (n2 \in Nat /\ u2 \in Nat /\ o2 \in Nat => w2 \in Nat)
  OBVIOUS
<1>1. CASE R = 2
  BY <1>1 DEF Balance
<1>2. CASE R = 4
  BY <1>2 DEF Balance
<1> QED
  BY <1>1, <1>2 DEF Balance

\* The word follows a thread that goes to x, if it takes no bit that another thread has.
LEMMA WordMove ==
  ASSUME W!TypeOK, W!WordInv, W!OneInv, NEW t \in Threads, NEW x \in W!Places,
         wordpc' = [wordpc EXCEPT ![t] = x], favour' = favour,
         lock' + Weight(wordpc[t]) = lock + Weight(x), lock' \in Int, v' \in [Threads -> Nat],
         x \in W!Upgrading => wordpc[t] \in W!Upgrading \/ W!At(W!Upgrading) = {},
         x \in W!Owning => wordpc[t] \in W!Owning \/ W!At(W!Owning) = {}
  PROVE  W!TypeOK' /\ W!WordInv' /\ W!OneInv'
<1> DEFINE n == W!Cardinality(W!At(W!Announced))
           u == IF W!At(W!Upgrading) = {} THEN 0 ELSE 2
           o == IF W!At(W!Owning) = {} THEN 0 ELSE 1
<1>1. W!OneInv'
  BY DEF W!TypeOK, W!OneInv, W!At, W!Upgrading, W!Owning
<1>2. /\ n \in Nat /\ n' \in Nat
      /\ n' + One(wordpc[t] \in W!Announced) = n + One(x \in W!Announced)
  <2>1. /\ n \in Nat /\ (wordpc[t] \in W!Announced => n > 0)
        /\ n' = IF x \in W!Announced THEN IF wordpc[t] \in W!Announced THEN n ELSE n + 1
                                     ELSE IF wordpc[t] \in W!Announced THEN n - 1 ELSE n
    BY WordCounts
  <2> QED
    BY <2>1 DEF One
<1>3. u' + 2 * One(wordpc[t] \in W!Upgrading) = u + 2 * One(x \in W!Upgrading)
  BY DEF W!TypeOK, W!OneInv, W!At, W!Upgrading, One
<1>4. o' + One(wordpc[t] \in W!Owning) = o + One(x \in W!Owning)
  BY DEF W!TypeOK, W!OneInv, W!At, W!Owning, One
<1>5. /\ lock = W!Reader * n + u + o
      /\ lock \in Nat /\ W!Reader \in {2, 4} /\ W!Reader' = W!Reader
  BY DEF W!WordInv, W!TypeOK, W!Reader
<1>9. u \in Nat /\ o \in Nat /\ u' \in Nat /\ o' \in Nat /\ lock \in Int
  BY DEF W!TypeOK
<1>6. W!WordInv' <=> lock' = W!Reader' * n' + u' + o'
  BY DEF W!WordInv
<1>7. \A place : /\ Weight(place) = W!Reader * One(place \in W!Announced)
                                 + 2 * One(place \in W!Upgrading) + One(place \in W!Owning)
                 /\ One(place \in W!Announced) \in Int /\ One(place \in W!Upgrading) \in Int
                 /\ One(place \in W!Owning) \in Int
  BY <1>5 DEF Weight, One
<1> HIDE DEF n, u, o
<1>8. lock' = W!Reader * n' + u' + o' /\ lock' \in Nat
  <2> DEFINE a(place) == One(place \in W!Announced)
             b(place) == One(place \in W!Upgrading)
             c(place) == One(place \in W!Owning)
  <2>1. Balance(W!Reader, lock, lock', n, n', u, u', o, o', a(wordpc[t]), a(x), b(wordpc[t]), b(x),
                c(wordpc[t]), c(x))
    BY <1>2, <1>3, <1>4, <1>5, <1>7, <1>9 DEF Balance
  <2> HIDE DEF a, b, c
  <2> QED
    BY <1>2, <1>9, <2>1, BalanceKept
<1>10. W!TypeOK'
  BY <1>8 DEF W!TypeOK, W!Places
<1> QED
  BY <1>1, <1>5, <1>6, <1>8, <1>10

ReaderPlaces == {"reading", "u_read", "u_cas", "u_failed"}

\* A thread that goes to x leaves the writer alone, if it found the place empty.
LEMMA WordAlone ==
  ASSUME W!TypeOK, W!OneInv, W!AloneInv, NEW t \in Threads, NEW x \in W!Places,
         wordpc' = [wordpc EXCEPT ![t] = x],
         x = "writing" =>
           W!readers = {} /\ W!At(W!Upgrading) \subseteq {t} /\ W!At(W!Owning) \subseteq {t},
         x \in ReaderPlaces \cup W!Upgrading =>
           wordpc[t] \in ReaderPlaces \cup W!Upgrading \/ W!At(W!Owning) = {}
  PROVE  W!AloneInv' /\ [W!R!Next]_(W!R!vars)
<1> USE DEF W!readers, W!writers, W!At, W!Upgrading, W!Owning, ReaderPlaces, W!TypeOK
<1>1. W!AloneInv'
  BY DEF W!AloneInv
<1>2. /\ wordpc[t] \in ReaderPlaces => x # "writing"
      /\ wordpc[t] = "writing" => x \notin ReaderPlaces
  OBVIOUS
<1>3. /\ W!readers' = IF x \in ReaderPlaces THEN W!readers \cup {t} ELSE W!readers \ {t}
      /\ W!writers' = IF x = "writing" THEN W!writers \cup {t} ELSE W!writers \ {t}
      /\ t \in W!readers <=> wordpc[t] \in ReaderPlaces
      /\ t \in W!writers <=> wordpc[t] = "writing"
  OBVIOUS
<1>4. CASE x = "writing" /\ wordpc[t] # "writing"
  <2>1. W!readers = {} /\ W!writers = {}
    BY <1>4
  <2>2. W!R!EnterExclusive(t)
    BY <1>3, <1>4, <2>1 DEF W!R!EnterExclusive
  <2> QED
    BY <1>1, <2>2 DEF W!R!Next
<1>5. CASE x # "writing" /\ wordpc[t] = "writing"
  <2>1. W!R!LeaveExclusive(t)
    BY <1>2, <1>3, <1>5 DEF W!R!LeaveExclusive
  <2> QED
    BY <1>1, <2>1 DEF W!R!Next
<1>6. CASE x \in ReaderPlaces /\ wordpc[t] \notin ReaderPlaces
  <2>1. W!writers = {}
    BY <1>6 DEF W!AloneInv
  <2>2. W!R!EnterShared(t)
    BY <1>2, <1>3, <1>6, <2>1 DEF W!R!EnterShared
  <2> QED
    BY <1>1, <2>2 DEF W!R!Next
<1>7. CASE x \notin ReaderPlaces /\ wordpc[t] \in ReaderPlaces
  <2>1. W!R!LeaveShared(t)
    BY <1>2, <1>3, <1>7 DEF W!R!LeaveShared
  <2> QED
    BY <1>1, <2>1 DEF W!R!Next
<1>8. CASE (x = "writing" <=> wordpc[t] = "writing")
           /\ (x \in ReaderPlaces <=> wordpc[t] \in ReaderPlaces)
  BY <1>1, <1>3, <1>8 DEF W!R!vars
<1> QED
  BY <1>4, <1>5, <1>6, <1>7, <1>8

\* What a step of the code has to show: where the thread goes, what the word becomes, and that
\* nobody is in its way.
WordMoves(t, x) ==
  /\ x \in W!Places /\ wordpc' = [wordpc EXCEPT ![t] = x] /\ favour' = favour
  /\ lock' + Weight(wordpc[t]) = lock + Weight(x) /\ lock' \in Int
  /\ v' \in [Threads -> Nat]
  /\ x \in W!Upgrading => wordpc[t] \in W!Upgrading \/ W!At(W!Upgrading) = {}
  /\ x \in W!Owning => wordpc[t] \in W!Owning \/ W!At(W!Owning) = {}
  /\ x = "writing" =>
       W!readers = {} /\ W!At(W!Upgrading) \subseteq {t} /\ W!At(W!Owning) \subseteq {t}
  /\ x \in ReaderPlaces \cup W!Upgrading =>
       wordpc[t] \in ReaderPlaces \cup W!Upgrading \/ W!At(W!Owning) = {}
  /\ \A s \in Threads : s # t => v'[s] = v[s]
  /\ x = "u_cas" => ~W!isUpgrading(v'[t])

\* Such a step keeps the invariant and is a step of the abstract lock.
LEMMA WordMoved ==
  ASSUME W!IInv, NEW t \in Threads, NEW x, WordMoves(t, x)
  PROVE  W!IInv' /\ [W!R!Next]_(W!R!vars)
<1>1. W!TypeOK' /\ W!WordInv' /\ W!OneInv'
  BY WordMove DEF W!IInv, WordMoves
<1>2. W!AloneInv' /\ [W!R!Next]_(W!R!vars)
  BY WordAlone DEF W!IInv, WordMoves
<1>3. W!CasInv'
  BY DEF W!IInv, WordMoves, W!CasInv, W!TypeOK, W!isUpgrading
<1> QED
  BY <1>1, <1>2, <1>3 DEF W!IInv

\* Every step of rwlock.h is one of them.
LEMMA WordStep ==
  ASSUME W!IInv, W!Next
  PROVE  W!IInv' /\ [W!R!Next]_(W!R!vars)
<1>1. PICK t \in Threads : W!Call(t) \/ W!ReadAnnounce(t) \/ W!Step(t)
  BY DEF W!Next
<1>2. /\ W!isWriteLocked(lock) <=> W!At(W!Owning) # {}
      /\ favour = "readers" => (W!isUpgrading(lock) <=> W!At(W!Upgrading) # {})
      /\ lock \in {0, 1} => W!At(W!Announced) = {} /\ W!At(W!Upgrading) = {}
      /\ lock = 2 /\ favour = "readers" => W!At(W!Announced) = {} /\ W!At(W!Owning) = {}
  BY WordSays DEF W!IInv
<1>3. /\ wordpc \in [Threads -> W!Places] /\ lock \in Nat /\ v \in [Threads -> Nat]
      /\ favour \in {"readers", "writers"} /\ W!OneInv /\ W!CasInv
  BY DEF W!IInv, W!TypeOK
<1>4. CASE W!Call(t)
  <2>1. CASE favour = "writers" /\ W!Goto(t, "idle", "r_spin")
    <3>1. WordMoves(t, "r_spin")
      BY <1>2, <1>3, <1>4, <2>1 DEF W!Call, WordMoves, Weight, W!Goto, W!Quietly, W!Reader, W!Places, W!At, W!Announced, W!Upgrading, W!Owning, ReaderPlaces
    <3> QED
      BY <3>1, WordMoved
  <2>2. CASE W!Goto(t, "idle", "w_spin")
    <3>1. WordMoves(t, "w_spin")
      BY <1>2, <1>3, <1>4, <2>2 DEF W!Call, WordMoves, Weight, W!Goto, W!Quietly, W!Reader, W!Places, W!At, W!Announced, W!Upgrading, W!Owning, ReaderPlaces
    <3> QED
      BY <3>1, WordMoved
  <2>3. CASE favour = "readers" /\ W!Goto(t, "reading", "u_read")
    <3>1. WordMoves(t, "u_read")
      BY <1>2, <1>3, <1>4, <2>3 DEF W!Call, WordMoves, Weight, W!Goto, W!Quietly, W!Reader, W!Places, W!At, W!Announced, W!Upgrading, W!Owning, ReaderPlaces
    <3> QED
      BY <3>1, WordMoved
  <2> QED
    BY <2>1, <2>2, <2>3, <1>4 DEF W!Call
<1>5. CASE W!ReadAnnounce(t)
  <2>1. WordMoves(t, "r_wait")
    BY <1>2, <1>3, <1>5 DEF W!ReadAnnounce, WordMoves, Weight, W!Goto, W!Quietly, W!Reader, W!Places, W!At, W!Announced, W!Upgrading, W!Owning, ReaderPlaces
  <2> QED
    BY <2>1, WordMoved
<1>6. CASE W!ReadEnter(t)
  <2>1. WordMoves(t, "reading")
    BY <1>2, <1>3, <1>6 DEF W!ReadEnter, WordMoves, Weight, W!Goto, W!Quietly, W!Reader, W!Places, W!At, W!Announced, W!Upgrading, W!Owning, ReaderPlaces
  <2> QED
    BY <2>1, WordMoved
<1>7. CASE W!ReadSpin(t)
  <2>1. WordMoves(t, "r_add")
    BY <1>2, <1>3, <1>7 DEF W!ReadSpin, WordMoves, Weight, W!Goto, W!Quietly, W!Reader, W!Places, W!At, W!Announced, W!Upgrading, W!Owning, ReaderPlaces
  <2> QED
    BY <2>1, WordMoved
<1>8. CASE W!ReadTry(t)
  <2>1. CASE W!isWriteLocked(lock)
    <3>1. WordMoves(t, "r_undo")
      BY <1>2, <1>3, <1>8, <2>1 DEF W!ReadTry, WordMoves, Weight, W!Goto, W!Quietly, W!Reader, W!Places, W!At, W!Announced, W!Upgrading, W!Owning, ReaderPlaces
    <3> QED
      BY <3>1, WordMoved
  <2>2. CASE ~W!isWriteLocked(lock)
    <3>1. WordMoves(t, "reading")
      BY <1>2, <1>3, <1>8, <2>2 DEF W!ReadTry, WordMoves, Weight, W!Goto, W!Quietly, W!Reader, W!Places, W!At, W!Announced, W!Upgrading, W!Owning, ReaderPlaces
    <3> QED
      BY <3>1, WordMoved
  <2> QED
    BY <2>1, <2>2, <1>3
<1>9. CASE W!ReadUndo(t)
  <2>1. WordMoves(t, "r_spin")
    BY <1>2, <1>3, <1>9 DEF W!ReadUndo, W!OneInv, WordMoves, Weight, W!Goto, W!Quietly, W!Reader, W!Places, W!At, W!Announced, W!Upgrading, W!Owning, ReaderPlaces
  <2> QED
    BY <2>1, WordMoved
<1>10. CASE W!readUnlock(t)
  <2>1. WordMoves(t, "idle")
    BY <1>2, <1>3, <1>10 DEF W!readUnlock, W!OneInv, WordMoves, Weight, W!Goto, W!Quietly, W!Reader, W!Places, W!At, W!Announced, W!Upgrading, W!Owning, ReaderPlaces
  <2> QED
    BY <2>1, WordMoved
<1>11. CASE W!UpgradeRead(t)
  <2>1. CASE W!isUpgrading(lock)
    <3>1. WordMoves(t, "u_failed")
      BY <1>2, <1>3, <1>11, <2>1 DEF W!UpgradeRead, W!Load, WordMoves, Weight, W!Goto, W!Quietly, W!Reader, W!Places, W!At, W!Announced, W!Upgrading, W!Owning, ReaderPlaces
    <3> QED
      BY <3>1, WordMoved
  <2>2. CASE ~W!isUpgrading(lock)
    <3>1. WordMoves(t, "u_cas")
      BY <1>2, <1>3, <1>11, <2>2 DEF W!UpgradeRead, W!Load, WordMoves, Weight, W!Goto, W!Quietly, W!Reader, W!Places, W!At, W!Announced, W!Upgrading, W!Owning, ReaderPlaces
    <3> QED
      BY <3>1, WordMoved
  <2> QED
    BY <2>1, <2>2, <1>3
<1>12. CASE W!UpgradeCAS(t)
  <2>1. CASE lock = v[t]
    <3>1. WordMoves(t, "u_wait")
      BY <1>2, <1>3, <1>12, <2>1 DEF W!UpgradeCAS, W!Forget, W!CasInv, W!OneInv, W!readers, WordMoves, Weight, W!Goto, W!Quietly, W!Reader, W!Places, W!At, W!Announced, W!Upgrading, W!Owning, ReaderPlaces
    <3> QED
      BY <3>1, WordMoved
  <2>2. CASE lock # v[t]
    <3>1. WordMoves(t, "u_read")
      BY <1>2, <1>3, <1>12, <2>2 DEF W!UpgradeCAS, W!Forget, W!CasInv, W!OneInv, W!readers, WordMoves, Weight, W!Goto, W!Quietly, W!Reader, W!Places, W!At, W!Announced, W!Upgrading, W!Owning, ReaderPlaces
    <3> QED
      BY <3>1, WordMoved
  <2> QED
    BY <2>1, <2>2, <1>3
<1>13. CASE W!UpgradeWait(t)
  <2>1. WordMoves(t, "u_set")
    BY <1>2, <1>3, <1>13 DEF W!UpgradeWait, WordMoves, Weight, W!Goto, W!Quietly, W!Reader, W!Places, W!At, W!Announced, W!Upgrading, W!Owning, ReaderPlaces
  <2> QED
    BY <2>1, WordMoved
<1>14. CASE W!UpgradeSet(t)
  <2>1. CASE lock = 2
    <3>1. WordMoves(t, "writing")
      BY <1>2, <1>3, <1>14, <2>1 DEF W!UpgradeSet, W!OneInv, W!readers, WordMoves, Weight, W!Goto, W!Quietly, W!Reader, W!Places, W!At, W!Announced, W!Upgrading, W!Owning, ReaderPlaces
    <3> QED
      BY <3>1, WordMoved
  <2>2. CASE lock # 2
    <3>1. WordMoves(t, "u_wait")
      BY <1>2, <1>3, <1>14, <2>2 DEF W!UpgradeSet, W!OneInv, W!readers, WordMoves, Weight, W!Goto, W!Quietly, W!Reader, W!Places, W!At, W!Announced, W!Upgrading, W!Owning, ReaderPlaces
    <3> QED
      BY <3>1, WordMoved
  <2> QED
    BY <2>1, <2>2, <1>3
<1>15. CASE W!WriteSpin(t)
  <2>1. WordMoves(t, "w_set")
    BY <1>2, <1>3, <1>15 DEF W!WriteSpin, WordMoves, Weight, W!Goto, W!Quietly, W!Reader, W!Places, W!At, W!Announced, W!Upgrading, W!Owning, ReaderPlaces
  <2> QED
    BY <2>1, WordMoved
<1>16. CASE W!WriteSet(t)
  <2>1. CASE lock = 0
    <3>0. W!At(W!Owning) = {}
      BY <1>2, <2>1 DEF W!isWriteLocked
    <3>1. WordMoves(t, "writing")
      BY <1>2, <1>3, <1>16, <2>1, <3>0 DEF W!WriteSet, W!OneInv, W!readers, WordMoves, Weight, W!Goto, W!Quietly, W!Reader, W!Places, W!At, W!Announced, W!Upgrading, W!Owning, ReaderPlaces
    <3> QED
      BY <3>1, WordMoved
  <2>2. CASE lock # 0
    <3>1. WordMoves(t, "w_spin")
      BY <1>2, <1>3, <1>16, <2>2 DEF W!WriteSet, W!OneInv, W!readers, WordMoves, Weight, W!Goto, W!Quietly, W!Reader, W!Places, W!At, W!Announced, W!Upgrading, W!Owning, ReaderPlaces
    <3> QED
      BY <3>1, WordMoved
  <2> QED
    BY <2>1, <2>2, <1>3
<1>17. CASE W!WriteRead(t)
  <2>1. WordMoves(t, "w_cas")
    BY <1>2, <1>3, <1>17 DEF W!WriteRead, W!Load, WordMoves, Weight, W!Goto, W!Quietly, W!Reader, W!Places, W!At, W!Announced, W!Upgrading, W!Owning, ReaderPlaces
  <2> QED
    BY <2>1, WordMoved
<1>18. CASE W!WriteCAS(t)
  <2>1. CASE lock = v[t] - (v[t] % 2) /\ lock = 0
    <3>0. W!At(W!Owning) = {}
      <4>1. (v[t] - (v[t] % 2)) % 2 = 0
        BY <1>3
      <4> QED
        BY <1>2, <2>1, <4>1 DEF W!isWriteLocked
    <3>1. WordMoves(t, "writing")
      BY <1>2, <1>3, <1>18, <2>1, <3>0 DEF W!WriteCAS, W!Forget, W!OneInv, W!readers, WordMoves, Weight, W!Goto, W!Quietly, W!Reader, W!Places, W!At, W!Announced, W!Upgrading, W!Owning, ReaderPlaces
    <3> QED
      BY <3>1, WordMoved
  <2>2. CASE lock = v[t] - (v[t] % 2) /\ lock # 0
    <3>0. W!At(W!Owning) = {}
      <4>1. (v[t] - (v[t] % 2)) % 2 = 0
        BY <1>3
      <4> QED
        BY <1>2, <2>2, <4>1 DEF W!isWriteLocked
    <3>1. WordMoves(t, "w_drain")
      BY <1>2, <1>3, <1>18, <2>2, <3>0 DEF W!WriteCAS, W!Forget, W!OneInv, W!readers, WordMoves, Weight, W!Goto, W!Quietly, W!Reader, W!Places, W!At, W!Announced, W!Upgrading, W!Owning, ReaderPlaces
    <3> QED
      BY <3>1, WordMoved
  <2>3. CASE lock # v[t] - (v[t] % 2)
    <3>1. WordMoves(t, "w_spin")
      BY <1>2, <1>3, <1>18, <2>3 DEF W!WriteCAS, W!Forget, W!OneInv, W!readers, WordMoves, Weight, W!Goto, W!Quietly, W!Reader, W!Places, W!At, W!Announced, W!Upgrading, W!Owning, ReaderPlaces
    <3> QED
      BY <3>1, WordMoved
  <2> QED
    BY <2>1, <2>2, <2>3, <1>3
<1>19. CASE W!WriteDrain(t)
  <2>1. WordMoves(t, "writing")
    BY <1>2, <1>3, <1>19 DEF W!WriteDrain, W!OneInv, W!readers, WordMoves, Weight, W!Goto, W!Quietly, W!Reader, W!Places, W!At, W!Announced, W!Upgrading, W!Owning, ReaderPlaces
  <2> QED
    BY <2>1, WordMoved
<1>20. CASE W!writeUnlock(t)
  <2>1. WordMoves(t, "idle")
    BY <1>2, <1>3, <1>20 DEF W!writeUnlock, W!OneInv, WordMoves, Weight, W!Goto, W!Quietly, W!Reader, W!Places, W!At, W!Announced, W!Upgrading, W!Owning, ReaderPlaces
  <2> QED
    BY <2>1, WordMoved
<1> QED
  BY <1>1, <1>4, <1>5, <1>6, <1>7, <1>8, <1>9, <1>10, <1>11, <1>12, <1>13, <1>14, <1>15, <1>16, <1>17, <1>18, <1>19, <1>20 DEF W!Step

-----------------------------------------------------------------------------
(* CLHRWLock.h *)

\* The least element that malloc's choice of a node is about.
LEMMA LeastElement ==
  ASSUME NEW S \in SUBSET Nat, S # {}
  PROVE  \E n \in S : \A m \in S : n <= m
<1>1. \E R : IsWellFoundedOn(R, Nat) /\ \A m, n \in Nat : <<m, n>> \in R <=> m < n
  <2>1. \A m, n \in Nat : <<m, n>> \in OpToRel(<, Nat) <=> m < n
    BY DEF OpToRel
  <2> QED
    BY <2>1, NatLessThanWellFounded, Zenon
<1>2. PICK R : IsWellFoundedOn(R, Nat) /\ \A m, n \in Nat : <<m, n>> \in R <=> m < n
  BY <1>1, Zenon
<1>3. S \subseteq Nat
  OBVIOUS
<1>4. IsWellFoundedOn(R, Nat)
  BY <1>2, Zenon
<1>5. \E n \in S : \A m \in S : ~(<<m, n>> \in R)
  BY <1>3, <1>4, WFMin
<1>6. PICK n \in S : \A m \in S : ~(<<m, n>> \in R)
  BY <1>5, Zenon
<1>7. \A m \in S : ~(m < n)
  BY <1>2, <1>3, <1>6, Zenon
<1> QED
  BY <1>3, <1>6, <1>7, SMT

\* When t is idle the queue has fewer nodes than there are numbers: malloc finds one.
LEMMA FreeNode ==
  ASSUME C!IInv, NEW t \in Threads, clhpc[t] = "idle"
  PROVE  \E n \in C!Nodes \ C!allocated : \A m \in C!Nodes \ C!allocated : n <= m
<1> DEFINE f == [s \in Threads |-> IF s = t THEN tail ELSE prev[s]]
           A == {f[s] : s \in Threads}
           N == Cardinality(Threads)
<1>1. C!allocated \subseteq A
  BY DEF C!IInv, C!TypeOK, C!PrevInv, C!At, C!Waiting, C!Past
<1>2. IsFiniteSet(A) /\ Cardinality(A) <= N
  <2>1. f \in Surjection(Threads, A)
    BY DEF Surjection
  <2> QED
    BY <2>1, FS_Surjection
<1>3. N \in Nat /\ Cardinality(A) \in Nat
  BY <1>2, FS_CardinalityType
<1>4. C!Nodes = 0 .. N
  BY SameCardinality DEF C!Nodes
<1>5. IsFiniteSet(0 .. N) /\ Cardinality(0 .. N) = N + 1
  BY <1>3, FS_Interval
<1>6. ~(C!Nodes \subseteq C!allocated)
  <2> SUFFICES ASSUME 0 .. N \subseteq A PROVE FALSE
    BY <1>1, <1>4
  <2>1. Cardinality(0 .. N) <= Cardinality(A)
    <3> HIDE DEF A, N
    <3> QED
      BY <1>2, FS_Subset
  <2> QED
    BY <1>2, <1>3, <1>5, <2>1
<1>7. C!Nodes \ C!allocated \in SUBSET Nat /\ C!Nodes \ C!allocated # {}
  BY <1>3, <1>4, <1>6
<1> QED
  BY <1>7, LeastElement

CLHReading == {"r_pass", "r_free", "reading"}
CLHWriting == {"w_free", "writing"}

\* What a step of the code has to show about the readers and the writer: where the thread goes,
\* what it counts, and that nobody is in its way.
CLHMoves(t, x) ==
  /\ x \in C!Places /\ clhpc' = [clhpc EXCEPT ![t] = x]
  /\ readers_counter' + One(clhpc[t] \in CLHReading) = readers_counter + One(x \in CLHReading)
  /\ readers_counter' \in Int
  /\ x \in CLHReading => clhpc[t] \in CLHReading \/ C!writers = {}
  /\ x \in CLHWriting => clhpc[t] \in CLHWriting \/ (C!writers = {} /\ C!readers = {})

\* Such a step keeps the count of the readers, leaves the writer alone, and is a step of the
\* abstract lock.
LEMMA CLHMoved ==
  ASSUME C!TypeOK, C!CountInv, C!AloneInv, NEW t \in Threads, NEW x, CLHMoves(t, x)
  PROVE  C!CountInv' /\ C!AloneInv' /\ [C!R!Next]_(C!R!vars)
<1>1. /\ C!readers' = IF x \in CLHReading THEN C!readers \cup {t} ELSE C!readers \ {t}
      /\ C!writers' = IF x \in CLHWriting THEN C!writers \cup {t} ELSE C!writers \ {t}
      /\ t \in C!readers <=> clhpc[t] \in CLHReading
      /\ t \in C!writers <=> clhpc[t] \in CLHWriting
      /\ C!readers \in SUBSET Threads /\ C!readers' \in SUBSET Threads
  BY DEF CLHMoves, C!TypeOK, C!readers, C!writers, CLHReading, CLHWriting
<1>2. x \in CLHReading => x \notin CLHWriting
  BY DEF CLHReading, CLHWriting
<1>3. C!AloneInv'
  BY <1>1, <1>2 DEF C!AloneInv, CLHMoves
<1>4. C!CountInv'
  <2> DEFINE m == Cardinality(C!readers)
             k == Cardinality(C!readers')
  <2>1. /\ m \in Nat /\ k \in Nat
        /\ k + One(t \in C!readers) = m + One(t \in C!readers')
    BY <1>1, MoveCounts DEF One
  <2>2. t \in C!readers' <=> x \in CLHReading
    BY <1>1
  <2>3. readers_counter = m /\ (C!CountInv' <=> readers_counter' = k)
    BY SameCardinality DEF C!CountInv
  <2>4. PICK a \in Nat, b \in Nat : /\ a = One(t \in C!readers) /\ a = One(clhpc[t] \in CLHReading)
                                    /\ b = One(t \in C!readers') /\ b = One(x \in CLHReading)
    BY <1>1, <2>2 DEF One
  <2>5. PICK r \in Int : r = readers_counter' /\ r + a = readers_counter + b
    BY <2>4 DEF CLHMoves
  <2> HIDE DEF m, k
  <2>6. m \in Nat /\ k \in Nat /\ k + a = m + b /\ r + a = m + b
    BY <2>1, <2>3, <2>4, <2>5
  <2>7. r = k
    BY <2>6
  <2> QED
    BY <2>3, <2>5, <2>7
<1>5. CASE x \in CLHWriting /\ clhpc[t] \notin CLHWriting
  <2>1. C!R!EnterExclusive(t)
    BY <1>1, <1>2, <1>5 DEF C!R!EnterExclusive, CLHMoves
  <2> QED
    BY <1>3, <1>4, <2>1 DEF C!R!Next
<1>6. CASE x \notin CLHWriting /\ clhpc[t] \in CLHWriting
  <2>1. C!R!LeaveExclusive(t)
    BY <1>1, <1>6 DEF C!R!LeaveExclusive, CLHMoves, C!AloneInv
  <2> QED
    BY <1>3, <1>4, <2>1 DEF C!R!Next
<1>7. CASE x \in CLHReading /\ clhpc[t] \notin CLHReading
  <2>1. C!R!EnterShared(t)
    BY <1>1, <1>2, <1>7 DEF C!R!EnterShared, CLHMoves
  <2> QED
    BY <1>3, <1>4, <2>1 DEF C!R!Next
<1>8. CASE x \notin CLHReading /\ clhpc[t] \in CLHReading
  <2>1. C!R!LeaveShared(t)
    BY <1>1, <1>8 DEF C!R!LeaveShared, CLHMoves, C!AloneInv
  <2> QED
    BY <1>3, <1>4, <2>1 DEF C!R!Next
<1>9. CASE (x \in CLHWriting <=> clhpc[t] \in CLHWriting) /\ (x \in CLHReading <=> clhpc[t] \in CLHReading)
  BY <1>1, <1>3, <1>4, <1>9 DEF C!R!vars
<1> QED
  BY <1>5, <1>6, <1>7, <1>8, <1>9

\* The queue starts with the sentinel, which nobody has to wait for.
LEMMA CLHInit == C!Init => C!IInv
<1> SUFFICES ASSUME C!Init PROVE C!IInv
  OBVIOUS
<1>1. Cardinality(Threads) \in Nat
  BY FS_CardinalityType
<1>2. 0 \in C!Nodes
  BY <1>1, SameCardinality DEF C!Nodes
<1>3. C!TypeOK
  BY <1>2 DEF C!Init, C!TypeOK, C!allocated, C!Places
<1>4. C!PrevInv /\ C!HoldInv
  BY DEF C!Init, C!PrevInv, C!HoldInv, C!allocated, C!At, C!Waiting, C!Past, C!Holds
<1>5. C!TurnInv
  BY DEF C!Init, C!TurnInv, C!allocated, C!At, C!Past, C!Heads, C!Open
<1>6. C!readers = {} /\ C!writers = {}
  BY DEF C!Init, C!readers, C!writers
<1>7. C!CountInv /\ C!AloneInv
  BY <1>6, FS_EmptySet, SameCardinality DEF C!Init, C!CountInv, C!AloneInv
<1> QED
  BY <1>3, <1>4, <1>5, <1>7 DEF C!IInv

\* A step of the queue lock keeps its invariant and is a step of the abstract lock.
LEMMA CLHStep ==
  ASSUME C!IInv, C!Next
  PROVE  C!IInv' /\ [C!R!Next]_(C!R!vars)
<1>1. PICK t \in Threads : C!readlock(t) \/ C!writelock(t) \/ C!Step(t)
  BY DEF C!Next
<1>2. C!TypeOK /\ C!PrevInv /\ C!HoldInv /\ C!TurnInv /\ C!CountInv /\ C!AloneInv
  BY DEF C!IInv
<1>3. /\ readers_counter \in Int
      /\ C!None \notin C!Nodes
      /\ readers_counter = 0 => C!readers = {}
  <2>1. IsFiniteSet(C!readers)
    BY FS_Subset DEF C!readers
  <2>2. Cardinality(C!readers) \in Nat /\ (Cardinality(C!readers) = 0 => C!readers = {})
    BY <2>1, FS_CardinalityType, FS_EmptySet
  <2> QED
    BY <1>2, <2>2, SameCardinality DEF C!CountInv, C!None, C!Nodes
<1>4. CASE C!readlock(t)
  <2> DEFINE n == CHOOSE n \in C!Nodes \ C!allocated : \A m \in C!Nodes \ C!allocated : n <= m
  <2>0. /\ n \in C!Nodes /\ n \notin C!allocated
        /\ C!Goto(t, "idle", "r_turn")
        /\ succ_must_wait' = [m \in C!allocated \cup {n} |-> IF m = n THEN TRUE ELSE succ_must_wait[m]]
        /\ mynode' = [mynode EXCEPT ![t] = n]
        /\ prev' = [prev EXCEPT ![t] = tail]
        /\ tail' = n
        /\ writer_node' = writer_node /\ readers_counter' = readers_counter
    <3>1. \E k \in C!Nodes \ C!allocated : \A m \in C!Nodes \ C!allocated : k <= m
      BY <1>4, FreeNode DEF C!readlock, C!writelock, C!Enqueue, C!Goto
    <3>2. n \in C!Nodes \ C!allocated
      BY <3>1
    <3> HIDE DEF n
    <3> QED
      BY <1>4, <3>2 DEF C!readlock, C!writelock, C!Enqueue, n
  <2> HIDE DEF n
  <2>1. C!TypeOK'
    BY <1>2, <1>3, <1>4, <2>0 DEF C!Goto, C!TypeOK, C!allocated, C!Places, C!PrevInv, C!HoldInv
  <2>2. C!PrevInv'
    BY <1>2, <1>3, <1>4, <2>0 DEF C!Goto, C!PrevInv, C!TypeOK, C!allocated, C!At, C!Waiting, C!Past, C!Places
  <2>3. C!HoldInv'
    <3>1. \A s \in Threads, m \in C!Nodes : C!Holds(s, m)' => m \in C!allocated' /\ succ_must_wait'[m]
      BY <1>2, <1>3, <2>0 DEF C!Goto, C!HoldInv, C!TypeOK, C!allocated, C!Holds, C!Places
    <3>2. \A r, s \in Threads, m \in C!Nodes : C!Holds(r, m)' /\ C!Holds(s, m)' => r = s
      BY <1>2, <1>3, <2>0 DEF C!Goto, C!HoldInv, C!TypeOK, C!allocated, C!Holds, C!Places
    <3>3. \A s \in Threads : IF clhpc'[s] \in {"r_turn", "r_count", "r_pass", "w_turn", "w_drain"}
                                  THEN mynode'[s] \in C!Nodes ELSE mynode'[s] = C!None
      BY <1>2, <1>3, <2>0 DEF C!Goto, C!HoldInv, C!TypeOK, C!allocated, C!Holds, C!Places
    <3>4. C!Nodes' = C!Nodes /\ C!None' = C!None
      BY DEF C!Nodes, C!None
    <3> QED
      BY <3>1, <3>2, <3>3, <3>4 DEF C!HoldInv
  <2>4. C!TurnInv'
    <3>1. \A s \in C!At(C!Past)' : ~succ_must_wait'[prev'[s]]
      BY <1>2, <1>3, <2>0 DEF C!Goto, C!TurnInv, C!PrevInv, C!TypeOK, C!allocated, C!At, C!Past, C!Heads, C!Waiting, C!Places
    <3>2. \A r, s \in C!At(C!Heads)' : r = s
      BY <1>2, <1>3, <2>0 DEF C!Goto, C!TurnInv, C!PrevInv, C!TypeOK, C!allocated, C!At, C!Past, C!Heads, C!Waiting, C!Places
    <3>3. \A m \in C!allocated' : C!Open(m)' => m \in C!allocated /\ C!Open(m)
      BY <1>2, <1>3, <2>0 DEF C!Goto, C!TurnInv, C!PrevInv, C!TypeOK, C!allocated, C!At, C!Past, C!Heads, C!Waiting, C!Places, C!Open
    <3>4. C!At(C!Heads)' = C!At(C!Heads)
      BY <1>2, <2>0 DEF C!Goto, C!TypeOK, C!At, C!Heads
    <3> QED
      BY <1>2, <3>1, <3>2, <3>3, <3>4 DEF C!TurnInv
  <2>5. CLHMoves(t, "r_turn")
    BY <1>2, <1>3, <2>0 DEF C!Goto, CLHMoves, CLHReading, CLHWriting, One, C!Places, C!readers, C!writers, C!TurnInv, C!At, C!Heads
  <2> QED
    BY <1>2, <2>1, <2>2, <2>3, <2>4, <2>5, CLHMoved DEF C!IInv
<1>5. CASE C!writelock(t)
  <2> DEFINE n == CHOOSE n \in C!Nodes \ C!allocated : \A m \in C!Nodes \ C!allocated : n <= m
  <2>0. /\ n \in C!Nodes /\ n \notin C!allocated
        /\ C!Goto(t, "idle", "w_turn")
        /\ succ_must_wait' = [m \in C!allocated \cup {n} |-> IF m = n THEN TRUE ELSE succ_must_wait[m]]
        /\ mynode' = [mynode EXCEPT ![t] = n]
        /\ prev' = [prev EXCEPT ![t] = tail]
        /\ tail' = n
        /\ writer_node' = writer_node /\ readers_counter' = readers_counter
    <3>1. \E k \in C!Nodes \ C!allocated : \A m \in C!Nodes \ C!allocated : k <= m
      BY <1>5, FreeNode DEF C!readlock, C!writelock, C!Enqueue, C!Goto
    <3>2. n \in C!Nodes \ C!allocated
      BY <3>1
    <3> HIDE DEF n
    <3> QED
      BY <1>5, <3>2 DEF C!readlock, C!writelock, C!Enqueue, n
  <2> HIDE DEF n
  <2>1. C!TypeOK'
    BY <1>2, <1>3, <1>5, <2>0 DEF C!Goto, C!TypeOK, C!allocated, C!Places, C!PrevInv, C!HoldInv
  <2>2. C!PrevInv'
    BY <1>2, <1>3, <1>5, <2>0 DEF C!Goto, C!PrevInv, C!TypeOK, C!allocated, C!At, C!Waiting, C!Past, C!Places
  <2>3. C!HoldInv'
    <3>1. \A s \in Threads, m \in C!Nodes : C!Holds(s, m)' => m \in C!allocated' /\ succ_must_wait'[m]
      BY <1>2, <1>3, <2>0 DEF C!Goto, C!HoldInv, C!TypeOK, C!allocated, C!Holds, C!Places
    <3>2. \A r, s \in Threads, m \in C!Nodes : C!Holds(r, m)' /\ C!Holds(s, m)' => r = s
      BY <1>2, <1>3, <2>0 DEF C!Goto, C!HoldInv, C!TypeOK, C!allocated, C!Holds, C!Places
    <3>3. \A s \in Threads : IF clhpc'[s] \in {"r_turn", "r_count", "r_pass", "w_turn", "w_drain"}
                                  THEN mynode'[s] \in C!Nodes ELSE mynode'[s] = C!None
      BY <1>2, <1>3, <2>0 DEF C!Goto, C!HoldInv, C!TypeOK, C!allocated, C!Holds, C!Places
    <3>4. C!Nodes' = C!Nodes /\ C!None' = C!None
      BY DEF C!Nodes, C!None
    <3> QED
      BY <3>1, <3>2, <3>3, <3>4 DEF C!HoldInv
  <2>4. C!TurnInv'
    <3>1. \A s \in C!At(C!Past)' : ~succ_must_wait'[prev'[s]]
      BY <1>2, <1>3, <2>0 DEF C!Goto, C!TurnInv, C!PrevInv, C!TypeOK, C!allocated, C!At, C!Past, C!Heads, C!Waiting, C!Places
    <3>2. \A r, s \in C!At(C!Heads)' : r = s
      BY <1>2, <1>3, <2>0 DEF C!Goto, C!TurnInv, C!PrevInv, C!TypeOK, C!allocated, C!At, C!Past, C!Heads, C!Waiting, C!Places
    <3>3. \A m \in C!allocated' : C!Open(m)' => m \in C!allocated /\ C!Open(m)
      BY <1>2, <1>3, <2>0 DEF C!Goto, C!TurnInv, C!PrevInv, C!TypeOK, C!allocated, C!At, C!Past, C!Heads, C!Waiting, C!Places, C!Open
    <3>4. C!At(C!Heads)' = C!At(C!Heads)
      BY <1>2, <2>0 DEF C!Goto, C!TypeOK, C!At, C!Heads
    <3> QED
      BY <1>2, <3>1, <3>2, <3>3, <3>4 DEF C!TurnInv
  <2>5. CLHMoves(t, "w_turn")
    BY <1>2, <1>3, <2>0 DEF C!Goto, CLHMoves, CLHReading, CLHWriting, One, C!Places, C!readers, C!writers, C!TurnInv, C!At, C!Heads
  <2> QED
    BY <1>2, <2>1, <2>2, <2>3, <2>4, <2>5, CLHMoved DEF C!IInv
<1>6. CASE C!Turn(t, "r_turn", "r_count")
  <2>1. C!TypeOK'
    BY <1>2, <1>3, <1>6 DEF C!Turn, C!Goto, C!TypeOK, C!allocated, C!Places, C!PrevInv, C!HoldInv
  <2>2. C!PrevInv'
    BY <1>2, <1>3, <1>6 DEF C!Turn, C!Goto, C!PrevInv, C!TypeOK, C!allocated, C!At, C!Waiting, C!Past, C!Places
  <2>3. C!HoldInv'
    BY <1>2, <1>3, <1>6 DEF C!Turn, C!Goto, C!HoldInv, C!TypeOK, C!allocated, C!Holds, C!Places
  <2>4. C!TurnInv'
    BY <1>2, <1>3, <1>6 DEF C!Turn, C!Goto, C!TurnInv, C!PrevInv, C!HoldInv, C!TypeOK, C!allocated, C!At, C!Waiting, C!Past, C!Heads, C!Open, C!Holds, C!Places
  <2>5. CLHMoves(t, "r_count")
    BY <1>2, <1>3, <1>6 DEF C!Turn, C!Goto, CLHMoves, CLHReading, CLHWriting, One, C!Places, C!readers, C!writers, C!TurnInv, C!At, C!Heads
  <2> QED
    BY <1>2, <2>1, <2>2, <2>3, <2>4, <2>5, CLHMoved DEF C!IInv
<1>7. CASE C!Count(t)
  <2>1. C!TypeOK'
    BY <1>2, <1>3, <1>7 DEF C!Count, C!Goto, C!TypeOK, C!allocated, C!Places, C!PrevInv, C!HoldInv
  <2>2. C!PrevInv'
    BY <1>2, <1>3, <1>7 DEF C!Count, C!Goto, C!PrevInv, C!TypeOK, C!allocated, C!At, C!Waiting, C!Past, C!Places
  <2>3. C!HoldInv'
    BY <1>2, <1>3, <1>7 DEF C!Count, C!Goto, C!HoldInv, C!TypeOK, C!allocated, C!Holds, C!Places
  <2>4. C!TurnInv'
    BY <1>2, <1>3, <1>7 DEF C!Count, C!Goto, C!TurnInv, C!PrevInv, C!HoldInv, C!TypeOK, C!allocated, C!At, C!Waiting, C!Past, C!Heads, C!Open, C!Holds, C!Places
  <2>5. CLHMoves(t, "r_pass")
    BY <1>2, <1>3, <1>7 DEF C!Count, C!Goto, CLHMoves, CLHReading, CLHWriting, One, C!Places, C!readers, C!writers, C!TurnInv, C!At, C!Heads
  <2> QED
    BY <1>2, <2>1, <2>2, <2>3, <2>4, <2>5, CLHMoved DEF C!IInv
<1>8. CASE C!Pass(t)
  <2>1. C!TypeOK'
    BY <1>2, <1>3, <1>8 DEF C!Pass, C!Goto, C!TypeOK, C!allocated, C!Places, C!PrevInv, C!HoldInv
  <2>2. C!PrevInv'
    BY <1>2, <1>3, <1>8 DEF C!Pass, C!Goto, C!PrevInv, C!TypeOK, C!allocated, C!At, C!Waiting, C!Past, C!Places
  <2>3. C!HoldInv'
    BY <1>2, <1>3, <1>8 DEF C!Pass, C!Goto, C!HoldInv, C!TypeOK, C!allocated, C!Holds, C!Places
  <2>4. C!TurnInv'
    BY <1>2, <1>3, <1>8 DEF C!Pass, C!Goto, C!TurnInv, C!PrevInv, C!HoldInv, C!TypeOK, C!allocated, C!At, C!Waiting, C!Past, C!Heads, C!Open, C!Holds, C!Places
  <2>5. CLHMoves(t, "r_free")
    BY <1>2, <1>3, <1>8 DEF C!Pass, C!Goto, CLHMoves, CLHReading, CLHWriting, One, C!Places, C!readers, C!writers, C!TurnInv, C!At, C!Heads
  <2> QED
    BY <1>2, <2>1, <2>2, <2>3, <2>4, <2>5, CLHMoved DEF C!IInv
<1>9. CASE C!FreePrev(t)
  <2>1. C!TypeOK'
    BY <1>2, <1>3, <1>9 DEF C!FreePrev, C!Freed, C!Goto, C!TypeOK, C!allocated, C!Places, C!PrevInv, C!HoldInv
  <2>2. C!PrevInv'
    BY <1>2, <1>3, <1>9 DEF C!FreePrev, C!Freed, C!Goto, C!PrevInv, C!TypeOK, C!allocated, C!At, C!Waiting, C!Past, C!Places
  <2>3. C!HoldInv'
    <3>1. \A s \in Threads, m \in C!Nodes : C!Holds(s, m)' => m \in C!allocated' /\ succ_must_wait'[m]
      BY <1>2, <1>3, <1>9 DEF C!FreePrev, C!Freed, C!TurnInv, C!At, C!Past, C!Goto, C!HoldInv, C!TypeOK, C!allocated, C!Holds, C!Places
    <3>2. \A r, s \in Threads, m \in C!Nodes : C!Holds(r, m)' /\ C!Holds(s, m)' => r = s
      BY <1>2, <1>3, <1>9 DEF C!FreePrev, C!Freed, C!TurnInv, C!At, C!Past, C!Goto, C!HoldInv, C!TypeOK, C!allocated, C!Holds, C!Places
    <3>3. \A s \in Threads : IF clhpc'[s] \in {"r_turn", "r_count", "r_pass", "w_turn", "w_drain"}
                                  THEN mynode'[s] \in C!Nodes ELSE mynode'[s] = C!None
      BY <1>2, <1>3, <1>9 DEF C!FreePrev, C!Freed, C!TurnInv, C!At, C!Past, C!Goto, C!HoldInv, C!TypeOK, C!allocated, C!Holds, C!Places
    <3>4. C!Nodes' = C!Nodes /\ C!None' = C!None
      BY DEF C!Nodes, C!None
    <3> QED
      BY <3>1, <3>2, <3>3, <3>4 DEF C!HoldInv
  <2>4. C!TurnInv'
    BY <1>2, <1>3, <1>9, SMTT(30) DEF C!FreePrev, C!Freed, C!Goto, C!TurnInv, C!PrevInv, C!HoldInv, C!TypeOK, C!allocated, C!At, C!Waiting, C!Past, C!Heads, C!Open, C!Holds, C!Places
  <2>5. CLHMoves(t, IF clhpc[t] = "r_free" THEN "reading" ELSE "writing")
    BY <1>2, <1>3, <1>9 DEF C!FreePrev, C!Freed, C!Goto, CLHMoves, CLHReading, CLHWriting, One, C!Places, C!readers, C!writers, C!TurnInv, C!At, C!Heads
  <2> QED
    BY <1>2, <2>1, <2>2, <2>3, <2>4, <2>5, CLHMoved DEF C!IInv
<1>10. CASE C!readunlock(t)
  <2>1. C!TypeOK'
    BY <1>2, <1>3, <1>10 DEF C!readunlock, C!Goto, C!TypeOK, C!allocated, C!Places, C!PrevInv, C!HoldInv
  <2>2. C!PrevInv'
    BY <1>2, <1>3, <1>10 DEF C!readunlock, C!Goto, C!PrevInv, C!TypeOK, C!allocated, C!At, C!Waiting, C!Past, C!Places
  <2>3. C!HoldInv'
    BY <1>2, <1>3, <1>10 DEF C!readunlock, C!Goto, C!HoldInv, C!TypeOK, C!allocated, C!Holds, C!Places
  <2>4. C!TurnInv'
    BY <1>2, <1>3, <1>10 DEF C!readunlock, C!Goto, C!TurnInv, C!PrevInv, C!HoldInv, C!TypeOK, C!allocated, C!At, C!Waiting, C!Past, C!Heads, C!Open, C!Holds, C!Places
  <2>5. CLHMoves(t, "idle")
    BY <1>2, <1>3, <1>10 DEF C!readunlock, C!Goto, CLHMoves, CLHReading, CLHWriting, One, C!Places, C!readers, C!writers, C!TurnInv, C!At, C!Heads
  <2> QED
    BY <1>2, <2>1, <2>2, <2>3, <2>4, <2>5, CLHMoved DEF C!IInv
<1>11. CASE C!Turn(t, "w_turn", "w_drain")
  <2>1. C!TypeOK'
    BY <1>2, <1>3, <1>11 DEF C!Turn, C!Goto, C!TypeOK, C!allocated, C!Places, C!PrevInv, C!HoldInv
  <2>2. C!PrevInv'
    BY <1>2, <1>3, <1>11 DEF C!Turn, C!Goto, C!PrevInv, C!TypeOK, C!allocated, C!At, C!Waiting, C!Past, C!Places
  <2>3. C!HoldInv'
    BY <1>2, <1>3, <1>11 DEF C!Turn, C!Goto, C!HoldInv, C!TypeOK, C!allocated, C!Holds, C!Places
  <2>4. C!TurnInv'
    BY <1>2, <1>3, <1>11 DEF C!Turn, C!Goto, C!TurnInv, C!PrevInv, C!HoldInv, C!TypeOK, C!allocated, C!At, C!Waiting, C!Past, C!Heads, C!Open, C!Holds, C!Places
  <2>5. CLHMoves(t, "w_drain")
    BY <1>2, <1>3, <1>11 DEF C!Turn, C!Goto, CLHMoves, CLHReading, CLHWriting, One, C!Places, C!readers, C!writers, C!TurnInv, C!At, C!Heads
  <2> QED
    BY <1>2, <2>1, <2>2, <2>3, <2>4, <2>5, CLHMoved DEF C!IInv
<1>12. CASE C!Drain(t)
  <2>1. C!TypeOK'
    BY <1>2, <1>3, <1>12 DEF C!Drain, C!Goto, C!TypeOK, C!allocated, C!Places, C!PrevInv, C!HoldInv
  <2>2. C!PrevInv'
    BY <1>2, <1>3, <1>12 DEF C!Drain, C!Goto, C!PrevInv, C!TypeOK, C!allocated, C!At, C!Waiting, C!Past, C!Places
  <2>3. C!HoldInv'
    <3>1. \A s \in Threads, m \in C!Nodes : C!Holds(s, m)' => m \in C!allocated' /\ succ_must_wait'[m]
      BY <1>2, <1>3, <1>12 DEF C!Drain, C!TurnInv, C!At, C!Heads, C!Goto, C!HoldInv, C!TypeOK, C!allocated, C!Holds, C!Places
    <3>2. \A r, s \in Threads, m \in C!Nodes : C!Holds(r, m)' /\ C!Holds(s, m)' => r = s
      BY <1>2, <1>3, <1>12 DEF C!Drain, C!TurnInv, C!At, C!Heads, C!Goto, C!HoldInv, C!TypeOK, C!allocated, C!Holds, C!Places
    <3>3. \A s \in Threads : IF clhpc'[s] \in {"r_turn", "r_count", "r_pass", "w_turn", "w_drain"}
                                  THEN mynode'[s] \in C!Nodes ELSE mynode'[s] = C!None
      BY <1>2, <1>3, <1>12 DEF C!Drain, C!TurnInv, C!At, C!Heads, C!Goto, C!HoldInv, C!TypeOK, C!allocated, C!Holds, C!Places
    <3>4. C!Nodes' = C!Nodes /\ C!None' = C!None
      BY DEF C!Nodes, C!None
    <3> QED
      BY <3>1, <3>2, <3>3, <3>4 DEF C!HoldInv
  <2>4. C!TurnInv'
    BY <1>2, <1>3, <1>12 DEF C!Drain, C!Goto, C!TurnInv, C!PrevInv, C!HoldInv, C!TypeOK, C!allocated, C!At, C!Waiting, C!Past, C!Heads, C!Open, C!Holds, C!Places
  <2>5. CLHMoves(t, "w_free")
    BY <1>2, <1>3, <1>12 DEF C!Drain, C!Goto, CLHMoves, CLHReading, CLHWriting, One, C!Places, C!readers, C!writers, C!TurnInv, C!At, C!Heads
  <2> QED
    BY <1>2, <2>1, <2>2, <2>3, <2>4, <2>5, CLHMoved DEF C!IInv
<1>13. CASE C!writeunlock(t)
  <2>1. C!TypeOK'
    BY <1>2, <1>3, <1>13 DEF C!writeunlock, C!Goto, C!TypeOK, C!allocated, C!Places, C!PrevInv, C!HoldInv
  <2>2. C!PrevInv'
    BY <1>2, <1>3, <1>13 DEF C!writeunlock, C!Goto, C!PrevInv, C!TypeOK, C!allocated, C!At, C!Waiting, C!Past, C!Places
  <2>3. C!HoldInv'
    BY <1>2, <1>3, <1>13 DEF C!writeunlock, C!Goto, C!HoldInv, C!TypeOK, C!allocated, C!Holds, C!Places
  <2>4. C!TurnInv'
    BY <1>2, <1>3, <1>13, SMTT(30) DEF C!writeunlock, C!Goto, C!TurnInv, C!PrevInv, C!HoldInv, C!TypeOK, C!allocated, C!At, C!Waiting, C!Past, C!Heads, C!Open, C!Holds, C!Places
  <2>5. CLHMoves(t, "idle")
    BY <1>2, <1>3, <1>13 DEF C!writeunlock, C!Goto, CLHMoves, CLHReading, CLHWriting, One, C!Places, C!readers, C!writers, C!TurnInv, C!At, C!Heads
  <2> QED
    BY <1>2, <2>1, <2>2, <2>3, <2>4, <2>5, CLHMoved DEF C!IInv
<1> QED
  BY <1>1, <1>4, <1>5, <1>6, <1>7, <1>8, <1>9, <1>10, <1>11, <1>12, <1>13 DEF C!Step

-----------------------------------------------------------------------------
(* The build that uses them. *)

\* In every build the word and the queue keep their invariants: the one the build has chosen
\* moves by its own steps, the other one stays as it was initialised.
LEMMA AnyInvariant == AnySpec => [](W!IInv /\ C!IInv)
<1>1. AnyInit => W!IInv /\ C!IInv
  BY WordInit, CLHInit DEF AnyInit
<1>2. W!IInv /\ C!IInv /\ [AnyNext]_allVars => (W!IInv /\ C!IInv)'
  <2> SUFFICES ASSUME W!IInv, C!IInv, [AnyNext]_allVars PROVE W!IInv' /\ C!IInv'
    OBVIOUS
  <2>1. UNCHANGED wordVars => W!IInv'
    BY DEF wordVars, W!IInv, W!TypeOK, W!WordInv, W!OneInv, W!AloneInv, W!CasInv, W!Reader, W!At,
           W!Places, W!readers, W!writers, W!isUpgrading
  <2>2. UNCHANGED clhVars => C!IInv'
    BY DEF clhVars, C!IInv, C!TypeOK, C!PrevInv, C!HoldInv, C!TurnInv, C!CountInv, C!AloneInv,
           C!At, C!allocated, C!Nodes, C!Holds, C!Open, C!readers, C!writers
  <2> QED
    BY <2>1, <2>2, WordStep, CLHStep DEF AnyNext, allVars
<1> QED
  BY <1>1, <1>2, PTL DEF AnySpec

\* CLHRWLock.h never frees a node twice, and never one that a thread still waits for or that the
\* writer will store to when it unlocks, for every number of threads: a node is kept by exactly
\* one thread behind it, which frees it after its own turn has come.
THEOREM NodesStayAllocated == AnySpec => []NodesAllocated
<1>1. C!IInv => NodesAllocated
  BY DEF NodesAllocated, C!NodesAllocated, C!IInv, C!TypeOK, C!PrevInv, C!HoldInv, C!Holds, C!Places,
         C!Waiting, C!Past
<1> QED
  BY <1>1, AnyInvariant, PTL

\* The words of rwlock.h, whichever side they favour and with the upgrade of a reader, and the
\* queue of CLHRWLock.h implement the abstract readers-writer lock for every number of threads:
\* readers together, or one writer alone.
THEOREM OthersRefineRWLock == AnySpec => OthersImplementRWLock
<1>1. AnyInit => W!R!Init /\ C!R!Init
  BY DEF AnyInit, W!Init, C!Init, W!R!Init, C!R!Init, W!readers, W!writers, C!readers, C!writers
<1>2. W!IInv /\ C!IInv /\ [AnyNext]_allVars => [W!R!Next]_(W!R!vars) /\ [C!R!Next]_(C!R!vars)
  <2> SUFFICES ASSUME W!IInv, C!IInv, [AnyNext]_allVars
               PROVE  [W!R!Next]_(W!R!vars) /\ [C!R!Next]_(C!R!vars)
    OBVIOUS
  <2>1. UNCHANGED wordVars => UNCHANGED W!R!vars
    BY DEF wordVars, W!R!vars, W!readers, W!writers
  <2>2. UNCHANGED clhVars => UNCHANGED C!R!vars
    BY DEF clhVars, C!R!vars, C!readers, C!writers
  <2> QED
    BY <2>1, <2>2, WordStep, CLHStep DEF AnyNext, allVars
<1> QED
  BY <1>1, <1>2, AnyInvariant, PTL DEF AnySpec, OthersImplementRWLock, W!R!Spec, C!R!Spec
=============================================================================
