-------------------------- MODULE CBTreeOrderProofs -------------------------
(***************************************************************************)
(* The counting-based trees keep their order and their weights, and are    *)
(* dictionaries: for any number of threads, keys, calls and rotations.     *)
(*                                                                         *)
(* The argument is by the range of a node, the interval of the keys that   *)
(* belong below it.  Ranges says of a tree and its ranges that it is a     *)
(* search tree, without reference to paths; a rotation changes two ranges  *)
(* and a new leaf adds one.  OrderInv adds where the searches are: at a    *)
(* node whose range holds their key, and owing one to the weight of the    *)
(* node above.  What a path finds then follows from the number of nodes in *)
(* the range, which gets smaller with every step down.                     *)
(***************************************************************************)
EXTENDS CBTreeProofs, FiniteSetTheorems, WellFoundedInduction, NaturalsInduction

-----------------------------------------------------------------------------
(* Search trees: N is the set of nodes, lf and rt give the children *)

Outer == max_key + 1

\* The keys below n are between lo[n] and hi[n], which are the nodes that n is to the right
\* and to the left of, or the ends.
Ranges(N, lf, rt, lo, hi) ==
  /\ \A n \in N :
       /\ n \in Nat /\ n # 0 /\ n < Outer
       /\ lo[n] \in Nat /\ hi[n] \in Nat /\ lo[n] < n /\ n < hi[n]
       /\ lf[n] # NULL => lf[n] \in N /\ lo[lf[n]] = lo[n] /\ hi[lf[n]] = n
       /\ rt[n] # NULL => rt[n] \in N /\ lo[rt[n]] = n /\ hi[rt[n]] = hi[n]
       /\ lo[n] # 0 => lo[n] \in N /\ n < hi[lo[n]]
       /\ hi[n] # Outer => hi[n] \in N /\ lo[hi[n]] < n
  /\ \A m, n \in N :
       /\ lo[n] < m /\ m < n => lf[n] # NULL /\ lo[n] <= lo[m] /\ hi[m] <= n
       /\ n < m /\ m < hi[n] => rt[n] # NULL /\ n <= lo[m] /\ hi[m] <= hi[n]

\* x, the left child of y, takes its place below z, and y goes to the right of x.
TurnedRight(N, lf, rt, lf2, rt2, x, y, z) ==
  /\ y \in N /\ z \in N /\ x = lf[y] /\ x # NULL
  /\ lf2[x] = lf[x] /\ rt2[x] = y
  /\ lf2[y] = rt[x] /\ rt2[y] = rt[y]
  /\ \/ lf[z] = y /\ lf2[z] = x /\ rt2[z] = rt[z]
     \/ rt[z] = y /\ lf2[z] = lf[z] /\ rt2[z] = x
  /\ \A n \in N : n # x /\ n # y /\ n # z => lf2[n] = lf[n] /\ rt2[n] = rt[n]

\* The same to the left.
TurnedLeft(N, lf, rt, lf2, rt2, x, y, z) ==
  /\ y \in N /\ z \in N /\ x = rt[y] /\ x # NULL
  /\ rt2[x] = rt[x] /\ lf2[x] = y
  /\ rt2[y] = lf[x] /\ lf2[y] = lf[y]
  /\ \/ rt[z] = y /\ rt2[z] = x /\ lf2[z] = lf[z]
     \/ lf[z] = y /\ rt2[z] = rt[z] /\ lf2[z] = x
  /\ \A n \in N : n # x /\ n # y /\ n # z => lf2[n] = lf[n] /\ rt2[n] = rt[n]

\* A node has one parent.
LEMMA OneParent ==
  ASSUME NEW N, NEW lf, NEW rt, NEW lo, NEW hi, Ranges(N, lf, rt, lo, hi),
         max_key \in Nat,
         NEW m \in N, NEW n \in N, NEW k, k # NULL, k = lf[m] \/ k = rt[m], k = lf[n] \/ k = rt[n]
  PROVE  m = n /\ k # m /\ lf[n] # rt[n]
<1> USE DEF NULL, Outer
<1>1. \A i \in N :
       /\ i \in Nat /\ i # 0 /\ i < Outer
       /\ lo[i] \in Nat /\ hi[i] \in Nat /\ lo[i] < i /\ i < hi[i]
       /\ lf[i] # NULL => lf[i] \in N /\ lo[lf[i]] = lo[i] /\ hi[lf[i]] = i
       /\ rt[i] # NULL => rt[i] \in N /\ lo[rt[i]] = i /\ hi[rt[i]] = hi[i]
       /\ lo[i] # 0 => lo[i] \in N /\ i < hi[lo[i]]
       /\ hi[i] # Outer => hi[i] \in N /\ lo[hi[i]] < i
  BY DEF Ranges
<1>2. ASSUME NEW i \in N, k = lf[i]
      PROVE  k \in N /\ lo[k] = lo[i] /\ hi[k] = i /\ k # i
  BY <1>1, <1>2
<1>3. ASSUME NEW i \in N, k = rt[i]
      PROVE  k \in N /\ lo[k] = i /\ hi[k] = hi[i] /\ k # i
  BY <1>1, <1>3
<1>4. ASSUME NEW i \in N, NEW j \in N, k = lf[i], k = rt[j] PROVE FALSE
  <2>1. lo[i] = j /\ hi[j] = i
    BY <1>2, <1>3, <1>4
  <2>2. i < hi[j]
    BY <1>1, <2>1
  <2> QED
    BY <1>1, <2>1, <2>2
<1>5. m = n
  BY <1>2, <1>3, <1>4
<1> QED
  BY <1>2, <1>3, <1>4, <1>5

\* A rotation to the right keeps the order: only the range of x grows, by y and what is to the
\* right of it, and that of y shrinks.
LEMMA TurnRight ==
  ASSUME NEW N, NEW lf, NEW rt, NEW lf2, NEW rt2, NEW lo, NEW hi, NEW x, NEW y, NEW z,
         max_key \in Nat, Ranges(N, lf, rt, lo, hi), TurnedRight(N, lf, rt, lf2, rt2, x, y, z)
  PROVE  Ranges(N, lf2, rt2, [n \in N |-> IF n = y THEN x ELSE lo[n]],
                             [n \in N |-> IF n = x THEN hi[y] ELSE hi[n]])
<1> USE DEF NULL, Outer
<1> DEFINE lo2 == [n \in N |-> IF n = y THEN x ELSE lo[n]]
           hi2 == [n \in N |-> IF n = x THEN hi[y] ELSE hi[n]]
<1>1. \A n \in N :
       /\ n \in Nat /\ n # 0 /\ n < Outer
       /\ lo[n] \in Nat /\ hi[n] \in Nat /\ lo[n] < n /\ n < hi[n]
       /\ lf[n] # NULL => lf[n] \in N /\ lo[lf[n]] = lo[n] /\ hi[lf[n]] = n
       /\ rt[n] # NULL => rt[n] \in N /\ lo[rt[n]] = n /\ hi[rt[n]] = hi[n]
       /\ lo[n] # 0 => lo[n] \in N /\ n < hi[lo[n]]
       /\ hi[n] # Outer => hi[n] \in N /\ lo[hi[n]] < n
  BY DEF Ranges
<1>2. \A m, n \in N :
       /\ lo[n] < m /\ m < n => lf[n] # NULL /\ lo[n] <= lo[m] /\ hi[m] <= n
       /\ n < m /\ m < hi[n] => rt[n] # NULL /\ n <= lo[m] /\ hi[m] <= hi[n]
  BY DEF Ranges
<1>3. /\ y \in N /\ z \in N /\ x = lf[y] /\ x # NULL
      /\ lf2[x] = lf[x] /\ rt2[x] = y
      /\ lf2[y] = rt[x] /\ rt2[y] = rt[y]
      /\ \A n \in N : n # x /\ n # y /\ n # z => lf2[n] = lf[n] /\ rt2[n] = rt[n]
  BY DEF TurnedRight
<1>4. \/ lf[z] = y /\ lf2[z] = x /\ rt2[z] = rt[z]
      \/ rt[z] = y /\ lf2[z] = lf[z] /\ rt2[z] = x
  BY DEF TurnedRight
<1>5. /\ x \in N /\ x \in Nat /\ y \in Nat /\ x < y /\ lo[x] = lo[y] /\ hi[x] = y
      /\ lo[y] < x /\ y < hi[y] /\ z # x /\ z # y /\ y # NULL
  <2>1. x \in N /\ x \in Nat /\ y \in Nat /\ x < y /\ lo[x] = lo[y] /\ hi[x] = y /\ y # NULL
    BY <1>1, <1>3
  <2>2. z # y
    BY <1>1, <1>3, <1>4
  <2>3. z # x
    BY <1>1, <1>3, <1>4, <2>1
  <2> QED
    BY <1>1, <1>3, <2>1, <2>2, <2>3
<1>6. /\ \A n \in N : n # y => lo2[n] = lo[n]
      /\ \A n \in N : n # x => hi2[n] = hi[n]
      /\ lo2[y] = x /\ hi2[x] = hi[y] /\ lo2[x] = lo[y] /\ hi2[y] = hi[y]
  BY <1>3, <1>5
<1>7. \A n \in N : /\ n # z => y # lf[n] /\ y # rt[n]
                   /\ n # y => x # lf[n] /\ x # rt[n]
  <2>1. \A n \in N : n # z => y # lf[n] /\ y # rt[n]
    BY <1>3, <1>4, <1>5, OneParent
  <2>2. \A n \in N : n # y => x # lf[n] /\ x # rt[n]
    BY <1>3, <1>5, OneParent
  <2> QED
    BY <2>1, <2>2
<1> HIDE DEF lo2, hi2
<1>8. ASSUME NEW n \in N
      PROVE  /\ lo2[n] \in Nat /\ hi2[n] \in Nat /\ lo2[n] < n /\ n < hi2[n]
             /\ lf2[n] # NULL => lf2[n] \in N /\ lo2[lf2[n]] = lo2[n] /\ hi2[lf2[n]] = n
             /\ rt2[n] # NULL => rt2[n] \in N /\ lo2[rt2[n]] = n /\ hi2[rt2[n]] = hi2[n]
  <2>1. lo2[n] \in Nat /\ hi2[n] \in Nat /\ lo2[n] < n /\ n < hi2[n]
    BY <1>1, <1>3, <1>5, <1>6
  <2>2. CASE n = x
    <3>1. lf[x] # x /\ lf[x] # y
      BY <1>1, <1>5, <1>7
    <3>2. lf[x] # NULL => lf[x] \in N /\ lo[lf[x]] = lo[x] /\ hi[lf[x]] = x
      BY <1>1, <1>5
    <3>3. lf2[x] # NULL => lf2[x] \in N /\ lo2[lf2[x]] = lo2[x] /\ hi2[lf2[x]] = x
      BY <1>3, <1>5, <1>6, <3>1, <3>2
    <3>4. rt2[x] \in N /\ lo2[rt2[x]] = x /\ hi2[rt2[x]] = hi2[x]
      BY <1>3, <1>6
    <3> QED
      BY <2>1, <2>2, <3>3, <3>4
  <2>3. CASE n = y
    <3>1. rt[x] # NULL => rt[x] \in N /\ rt[x] # x /\ rt[x] # y /\ lo[rt[x]] = x /\ hi[rt[x]] = y
      BY <1>1, <1>5, <1>7
    <3>2. rt[y] # NULL => rt[y] \in N /\ rt[y] # x /\ rt[y] # y /\ lo[rt[y]] = y /\ hi[rt[y]] = hi[y]
      BY <1>1, <1>3, <1>5, <1>7
    <3> QED
      BY <1>3, <1>5, <1>6, <2>1, <2>3, <3>1, <3>2
  <2>4. CASE n = z
    <3>1. CASE lf[z] = y /\ lf2[z] = x /\ rt2[z] = rt[z]
      <4>1. rt[z] # x /\ rt[z] # y
        BY <1>1, <1>3, <1>5, <1>7, <3>1, OneParent
      <4> QED
        <5>1. lo[y] = lo[z] /\ hi[y] = z
          BY <1>1, <1>3, <1>5, <3>1
        <5>2. rt[z] # NULL => rt[z] \in N /\ lo[rt[z]] = z /\ hi[rt[z]] = hi[z]
          BY <1>1, <1>3
        <5>3. lo2[z] = lo[z] /\ hi2[z] = hi[z]
          BY <1>3, <1>5, <1>6
        <5>4. rt2[z] # NULL => rt2[z] \in N /\ lo2[rt2[z]] = lo[rt[z]] /\ hi2[rt2[z]] = hi[rt[z]]
          BY <1>6, <3>1, <4>1, <5>2
        <5> QED
          BY <1>5, <1>6, <2>1, <2>4, <3>1, <5>1, <5>2, <5>3, <5>4
    <3>2. CASE rt[z] = y /\ lf2[z] = lf[z] /\ rt2[z] = x
      <4>1. lf[z] # x /\ lf[z] # y
        BY <1>1, <1>3, <1>5, <1>7, <3>2, OneParent
      <4> QED
        <5>1. lo[y] = z /\ hi[y] = hi[z]
          BY <1>1, <1>3, <1>5, <3>2
        <5>2. lf[z] # NULL => lf[z] \in N /\ lo[lf[z]] = lo[z] /\ hi[lf[z]] = z
          BY <1>1, <1>3
        <5>3. lo2[z] = lo[z] /\ hi2[z] = hi[z]
          BY <1>3, <1>5, <1>6
        <5>4. lf2[z] # NULL => lf2[z] \in N /\ lo2[lf2[z]] = lo[lf[z]] /\ hi2[lf2[z]] = hi[lf[z]]
          BY <1>6, <3>2, <4>1, <5>2
        <5> QED
          BY <1>5, <1>6, <2>1, <2>4, <3>2, <5>1, <5>2, <5>3, <5>4
    <3> QED
      BY <1>4, <3>1, <3>2
  <2>5. CASE n # x /\ n # y /\ n # z
    BY <1>1, <1>3, <1>6, <1>7, <2>1, <2>5
  <2> QED
    BY <2>2, <2>3, <2>4, <2>5
<1>9. ASSUME NEW n \in N
      PROVE  /\ lo2[n] # 0 => lo2[n] \in N /\ n < hi2[lo2[n]]
             /\ hi2[n] # Outer => hi2[n] \in N /\ lo2[hi2[n]] < n
  <2>1. lo2[n] # 0 => lo2[n] \in N /\ n < hi2[lo2[n]]
    <3>1. CASE n = y
      BY <1>1, <1>3, <1>5, <1>6, <3>1
    <3>2. CASE n # y
      BY <1>1, <1>3, <1>5, <1>6, <3>2
    <3> QED
      BY <3>1, <3>2
  <2>2. hi2[n] # Outer => hi2[n] \in N /\ lo2[hi2[n]] < n
    <3>1. CASE n = x
      <4>1. hi[y] # Outer => hi[y] \in N /\ lo[hi[y]] < y /\ y < hi[y] /\ hi[y] # y
        BY <1>1, <1>3
      <4>2. hi[y] # Outer => lo[hi[y]] <= lo[y]
        BY <1>2, <1>3, <4>1
      <4>3. hi[y] # Outer => lo[hi[y]] < x
        BY <1>1, <1>3, <1>5, <4>1, <4>2
      <4> QED
        BY <1>6, <3>1, <4>1, <4>3
    <3>2. CASE n # x /\ hi[n] = y
      <4>1. lo[y] < n /\ n < y
        BY <1>1, <1>3, <1>5, <3>2
      <4>2. ~(n < x)
        BY <1>1, <1>2, <1>5, <3>2, <4>1
      <4> QED
        BY <1>1, <1>3, <1>5, <1>6, <3>2, <4>1, <4>2
    <3>3. CASE n # x /\ hi[n] # y
      BY <1>1, <1>6, <3>3
    <3> QED
      BY <3>1, <3>2, <3>3
  <2> QED
    BY <2>1, <2>2
<1>10. ASSUME NEW m \in N, NEW n \in N
       PROVE  /\ lo2[n] < m /\ m < n => lf2[n] # NULL /\ lo2[n] <= lo2[m] /\ hi2[m] <= n
              /\ n < m /\ m < hi2[n] => rt2[n] # NULL /\ n <= lo2[m] /\ hi2[m] <= hi2[n]
  <2>1. CASE n = x
    BY <1>1, <1>2, <1>3, <1>5, <1>6, <2>1
  <2>2. CASE n = y
    BY <1>1, <1>2, <1>3, <1>5, <1>6, <2>2
  <2>3. CASE n # x /\ n # y
    <3>1. lf2[n] # NULL <=> lf[n] # NULL
      BY <1>3, <1>4, <1>5, <2>3
    <3>2. rt2[n] # NULL <=> rt[n] # NULL
      BY <1>3, <1>4, <1>5, <2>3
    <3>3. CASE m = x
      <4>1. lo[n] < x /\ x < n => hi[y] <= n
        <5>1. lo[n] < x /\ x < n => y < n /\ lo[n] < y
          BY <1>1, <1>2, <1>3, <1>5, <2>3
        <5> QED
          BY <1>2, <1>3, <5>1
      <4>2. n < x /\ x < hi[n] => hi[y] <= hi[n]
        <5>1. n < x /\ x < hi[n] => y <= hi[n] /\ n <= lo[y]
          BY <1>1, <1>2, <1>3, <1>5, <2>3
        <5>2. n < x /\ y = hi[n] => lo[y] < n
          <6>1. y # Outer
            BY <1>1, <1>3
          <6> QED
            BY <1>1, <6>1
        <5>3. n < x /\ x < hi[n] => n < y /\ y < hi[n]
          BY <1>1, <1>3, <1>5, <5>1, <5>2
        <5> QED
          BY <1>2, <1>3, <5>3
      <4> QED
        BY <1>1, <1>2, <1>5, <1>6, <2>3, <3>1, <3>2, <3>3, <4>1, <4>2
    <3>4. CASE m = y
      BY <1>1, <1>2, <1>3, <1>5, <1>6, <2>3, <3>1, <3>2, <3>4
    <3>5. CASE m # x /\ m # y
      BY <1>2, <1>6, <2>3, <3>1, <3>2, <3>5
    <3> QED
      BY <3>3, <3>4, <3>5
  <2> QED
    BY <2>1, <2>2, <2>3
<1> QED
  BY <1>1, <1>8, <1>9, <1>10 DEF Ranges, lo2, hi2

\* A rotation to the left keeps the order: only the range of x grows, by y and what is to the
\* left of it, and that of y shrinks.
LEMMA TurnLeft ==
  ASSUME NEW N, NEW lf, NEW rt, NEW lf2, NEW rt2, NEW lo, NEW hi, NEW x, NEW y, NEW z,
         max_key \in Nat, Ranges(N, lf, rt, lo, hi), TurnedLeft(N, lf, rt, lf2, rt2, x, y, z)
  PROVE  Ranges(N, lf2, rt2, [n \in N |-> IF n = x THEN lo[y] ELSE lo[n]],
                             [n \in N |-> IF n = y THEN x ELSE hi[n]])
<1> USE DEF NULL, Outer
<1> DEFINE hi2 == [n \in N |-> IF n = y THEN x ELSE hi[n]]
           lo2 == [n \in N |-> IF n = x THEN lo[y] ELSE lo[n]]
<1>1. \A n \in N :
       /\ n \in Nat /\ n # 0 /\ n < Outer
       /\ lo[n] \in Nat /\ hi[n] \in Nat /\ lo[n] < n /\ n < hi[n]
       /\ lf[n] # NULL => lf[n] \in N /\ lo[lf[n]] = lo[n] /\ hi[lf[n]] = n
       /\ rt[n] # NULL => rt[n] \in N /\ lo[rt[n]] = n /\ hi[rt[n]] = hi[n]
       /\ lo[n] # 0 => lo[n] \in N /\ n < hi[lo[n]]
       /\ hi[n] # Outer => hi[n] \in N /\ lo[hi[n]] < n
  BY DEF Ranges
<1>2. \A m, n \in N :
       /\ lo[n] < m /\ m < n => lf[n] # NULL /\ lo[n] <= lo[m] /\ hi[m] <= n
       /\ n < m /\ m < hi[n] => rt[n] # NULL /\ n <= lo[m] /\ hi[m] <= hi[n]
  BY DEF Ranges
<1>3. /\ y \in N /\ z \in N /\ x = rt[y] /\ x # NULL
      /\ rt2[x] = rt[x] /\ lf2[x] = y
      /\ rt2[y] = lf[x] /\ lf2[y] = lf[y]
      /\ \A n \in N : n # x /\ n # y /\ n # z => rt2[n] = rt[n] /\ lf2[n] = lf[n]
  BY DEF TurnedLeft
<1>4. \/ rt[z] = y /\ rt2[z] = x /\ lf2[z] = lf[z]
      \/ lf[z] = y /\ rt2[z] = rt[z] /\ lf2[z] = x
  BY DEF TurnedLeft
<1>5. /\ x \in N /\ x \in Nat /\ y \in Nat /\ x > y /\ hi[x] = hi[y] /\ lo[x] = y
      /\ hi[y] > x /\ y > lo[y] /\ z # x /\ z # y /\ y # NULL
  <2>1. x \in N /\ x \in Nat /\ y \in Nat /\ x > y /\ hi[x] = hi[y] /\ lo[x] = y /\ y # NULL
    BY <1>1, <1>3
  <2>2. z # y
    BY <1>1, <1>3, <1>4
  <2>3. z # x
    BY <1>1, <1>3, <1>4, <2>1
  <2> QED
    BY <1>1, <1>3, <2>1, <2>2, <2>3
<1>6. /\ \A n \in N : n # y => hi2[n] = hi[n]
      /\ \A n \in N : n # x => lo2[n] = lo[n]
      /\ hi2[y] = x /\ lo2[x] = lo[y] /\ hi2[x] = hi[y] /\ lo2[y] = lo[y]
  BY <1>3, <1>5
<1>7. \A n \in N : /\ n # z => y # rt[n] /\ y # lf[n]
                   /\ n # y => x # rt[n] /\ x # lf[n]
  <2>1. \A n \in N : n # z => y # rt[n] /\ y # lf[n]
    BY <1>3, <1>4, <1>5, OneParent
  <2>2. \A n \in N : n # y => x # rt[n] /\ x # lf[n]
    BY <1>3, <1>5, OneParent
  <2> QED
    BY <2>1, <2>2
<1> HIDE DEF hi2, lo2
<1>8. ASSUME NEW n \in N
      PROVE  /\ hi2[n] \in Nat /\ lo2[n] \in Nat /\ hi2[n] > n /\ n > lo2[n]
             /\ rt2[n] # NULL => rt2[n] \in N /\ hi2[rt2[n]] = hi2[n] /\ lo2[rt2[n]] = n
             /\ lf2[n] # NULL => lf2[n] \in N /\ hi2[lf2[n]] = n /\ lo2[lf2[n]] = lo2[n]
  <2>1. hi2[n] \in Nat /\ lo2[n] \in Nat /\ hi2[n] > n /\ n > lo2[n]
    BY <1>1, <1>3, <1>5, <1>6
  <2>2. CASE n = x
    <3>1. rt[x] # x /\ rt[x] # y
      BY <1>1, <1>5, <1>7
    <3>2. rt[x] # NULL => rt[x] \in N /\ hi[rt[x]] = hi[x] /\ lo[rt[x]] = x
      BY <1>1, <1>5
    <3>3. rt2[x] # NULL => rt2[x] \in N /\ hi2[rt2[x]] = hi2[x] /\ lo2[rt2[x]] = x
      BY <1>3, <1>5, <1>6, <3>1, <3>2
    <3>4. lf2[x] \in N /\ hi2[lf2[x]] = x /\ lo2[lf2[x]] = lo2[x]
      BY <1>3, <1>6
    <3> QED
      BY <2>1, <2>2, <3>3, <3>4
  <2>3. CASE n = y
    <3>1. lf[x] # NULL => lf[x] \in N /\ lf[x] # x /\ lf[x] # y /\ hi[lf[x]] = x /\ lo[lf[x]] = y
      BY <1>1, <1>5, <1>7
    <3>2. lf[y] # NULL => lf[y] \in N /\ lf[y] # x /\ lf[y] # y /\ hi[lf[y]] = y /\ lo[lf[y]] = lo[y]
      BY <1>1, <1>3, <1>5, <1>7
    <3> QED
      BY <1>3, <1>5, <1>6, <2>1, <2>3, <3>1, <3>2, ZenonT(40)
  <2>4. CASE n = z
    <3>1. CASE rt[z] = y /\ rt2[z] = x /\ lf2[z] = lf[z]
      <4>1. lf[z] # x /\ lf[z] # y
        BY <1>1, <1>3, <1>5, <1>7, <3>1, OneParent
      <4> QED
        <5>1. hi[y] = hi[z] /\ lo[y] = z
          BY <1>1, <1>3, <1>5, <3>1
        <5>2. lf[z] # NULL => lf[z] \in N /\ hi[lf[z]] = z /\ lo[lf[z]] = lo[z]
          BY <1>1, <1>3
        <5>3. hi2[z] = hi[z] /\ lo2[z] = lo[z]
          BY <1>3, <1>5, <1>6
        <5>4. lf2[z] # NULL => lf2[z] \in N /\ hi2[lf2[z]] = hi[lf[z]] /\ lo2[lf2[z]] = lo[lf[z]]
          BY <1>6, <3>1, <4>1, <5>2
        <5> QED
          BY <1>5, <1>6, <2>1, <2>4, <3>1, <5>1, <5>2, <5>3, <5>4
    <3>2. CASE lf[z] = y /\ rt2[z] = rt[z] /\ lf2[z] = x
      <4>1. rt[z] # x /\ rt[z] # y
        BY <1>1, <1>3, <1>5, <1>7, <3>2, OneParent
      <4> QED
        <5>1. hi[y] = z /\ lo[y] = lo[z]
          BY <1>1, <1>3, <1>5, <3>2
        <5>2. rt[z] # NULL => rt[z] \in N /\ hi[rt[z]] = hi[z] /\ lo[rt[z]] = z
          BY <1>1, <1>3
        <5>3. hi2[z] = hi[z] /\ lo2[z] = lo[z]
          BY <1>3, <1>5, <1>6
        <5>4. rt2[z] # NULL => rt2[z] \in N /\ hi2[rt2[z]] = hi[rt[z]] /\ lo2[rt2[z]] = lo[rt[z]]
          BY <1>6, <3>2, <4>1, <5>2
        <5> QED
          BY <1>5, <1>6, <2>1, <2>4, <3>2, <5>1, <5>2, <5>3, <5>4
    <3> QED
      BY <1>4, <3>1, <3>2
  <2>5. CASE n # x /\ n # y /\ n # z
    BY <1>1, <1>3, <1>6, <1>7, <2>1, <2>5
  <2> QED
    BY <2>2, <2>3, <2>4, <2>5
<1>9. ASSUME NEW n \in N
      PROVE  /\ hi2[n] # Outer => hi2[n] \in N /\ n > lo2[hi2[n]]
             /\ lo2[n] # 0 => lo2[n] \in N /\ hi2[lo2[n]] > n
  <2>1. hi2[n] # Outer => hi2[n] \in N /\ n > lo2[hi2[n]]
    <3>1. CASE n = y
      BY <1>1, <1>3, <1>5, <1>6, <3>1
    <3>2. CASE n # y
      BY <1>1, <1>3, <1>5, <1>6, <3>2
    <3> QED
      BY <3>1, <3>2
  <2>2. lo2[n] # 0 => lo2[n] \in N /\ hi2[lo2[n]] > n
    <3>1. CASE n = x
      <4>1. lo[y] # 0 => lo[y] \in N /\ hi[lo[y]] > y /\ y > lo[y] /\ lo[y] # y
        BY <1>1, <1>3
      <4>2. lo[y] # 0 => hi[lo[y]] >= hi[y]
        BY <1>2, <1>3, <4>1
      <4>3. lo[y] # 0 => hi[lo[y]] > x
        BY <1>1, <1>3, <1>5, <4>1, <4>2
      <4> QED
        BY <1>6, <3>1, <4>1, <4>3
    <3>2. CASE n # x /\ lo[n] = y
      <4>1. hi[y] > n /\ n > y
        BY <1>1, <1>3, <1>5, <3>2
      <4>2. ~(n > x)
        BY <1>1, <1>2, <1>5, <3>2, <4>1
      <4> QED
        BY <1>1, <1>3, <1>5, <1>6, <3>2, <4>1, <4>2
    <3>3. CASE n # x /\ lo[n] # y
      BY <1>1, <1>6, <3>3
    <3> QED
      BY <3>1, <3>2, <3>3
  <2> QED
    BY <2>1, <2>2
<1>10. ASSUME NEW m \in N, NEW n \in N
       PROVE  /\ hi2[n] > m /\ m > n => rt2[n] # NULL /\ hi2[n] >= hi2[m] /\ lo2[m] >= n
              /\ n > m /\ m > lo2[n] => lf2[n] # NULL /\ n >= hi2[m] /\ lo2[m] >= lo2[n]
  <2>1. CASE n = x
    BY <1>1, <1>2, <1>3, <1>5, <1>6, <2>1
  <2>2. CASE n = y
    BY <1>1, <1>2, <1>3, <1>5, <1>6, <2>2
  <2>3. CASE n # x /\ n # y
    <3>1. rt2[n] # NULL <=> rt[n] # NULL
      BY <1>3, <1>4, <1>5, <2>3
    <3>2. lf2[n] # NULL <=> lf[n] # NULL
      BY <1>3, <1>4, <1>5, <2>3
    <3>3. CASE m = x
      <4>1. hi[n] > x /\ x > n => lo[y] >= n
        <5>1. hi[n] > x /\ x > n => y > n /\ hi[n] > y
          BY <1>1, <1>2, <1>3, <1>5, <2>3
        <5> QED
          BY <1>2, <1>3, <5>1
      <4>2. n > x /\ x > lo[n] => lo[y] >= lo[n]
        <5>1. n > x /\ x > lo[n] => y >= lo[n] /\ n >= hi[y]
          BY <1>1, <1>2, <1>3, <1>5, <2>3
        <5>2. n > x /\ y = lo[n] => hi[y] > n
          <6>1. y # 0
            BY <1>1, <1>3
          <6> QED
            BY <1>1, <6>1
        <5>3. n > x /\ x > lo[n] => n > y /\ y > lo[n]
          BY <1>1, <1>3, <1>5, <5>1, <5>2
        <5> QED
          BY <1>2, <1>3, <5>3
      <4> QED
        BY <1>1, <1>2, <1>5, <1>6, <2>3, <3>1, <3>2, <3>3, <4>1, <4>2
    <3>4. CASE m = y
      BY <1>1, <1>2, <1>3, <1>5, <1>6, <2>3, <3>1, <3>2, <3>4
    <3>5. CASE m # x /\ m # y
      BY <1>2, <1>6, <2>3, <3>1, <3>2, <3>5
    <3> QED
      BY <3>3, <3>4, <3>5
  <2> QED
    BY <2>1, <2>2, <2>3
<1> QED
  BY <1>1, <1>8, <1>9, <1>10, SMTT(30) DEF Ranges, hi2, lo2

-----------------------------------------------------------------------------
(* Weights *)

Weight(wt, n) == IF n = NULL THEN 0 ELSE wt[n]

\* The weight of n alone.
Own(lf, rt, wt, n) == wt[n] - Weight(wt, lf[n]) - Weight(wt, rt[n])

\* What a rotation of x up to the place of y does to the weights; the subtree s changes sides.
Reweighed(N, wt, wt2, x, y, s) ==
  /\ \A n \in N : wt[n] \in Int
  /\ wt2[x] = wt[y] /\ wt2[y] = wt[y] - wt[x] + Weight(wt, s)
  /\ \A n \in N : n # x /\ n # y => wt2[n] = wt[n]

\* A rotation to the right does not change the weights of the nodes alone.
LEMMA TurnRightWeights ==
  ASSUME NEW N, NEW lf, NEW rt, NEW lf2, NEW rt2, NEW lo, NEW hi, NEW x, NEW y, NEW z,
         NEW wt, NEW wt2, max_key \in Nat, Ranges(N, lf, rt, lo, hi),
         TurnedRight(N, lf, rt, lf2, rt2, x, y, z), Reweighed(N, wt, wt2, x, y, rt[x])
  PROVE  \A n \in N : wt2[n] \in Int /\ Own(lf2, rt2, wt2, n) = Own(lf, rt, wt, n)
<1> USE DEF NULL, Outer
<1>1. \A n \in N : /\ n \in Nat /\ n # 0
                   /\ lf[n] # NULL => lf[n] \in N
                   /\ rt[n] # NULL => rt[n] \in N
  BY DEF Ranges
<1>2. /\ y \in N /\ z \in N /\ x = lf[y] /\ x # NULL /\ x \in N
      /\ lf2[x] = lf[x] /\ rt2[x] = y
      /\ lf2[y] = rt[x] /\ rt2[y] = rt[y]
      /\ \A n \in N : n # x /\ n # y /\ n # z => lf2[n] = lf[n] /\ rt2[n] = rt[n]
  BY <1>1 DEF TurnedRight
<1>3. \/ lf[z] = y /\ lf2[z] = x /\ rt2[z] = rt[z]
      \/ rt[z] = y /\ lf2[z] = lf[z] /\ rt2[z] = x
  BY DEF TurnedRight
<1>4. /\ \A n \in N : n # z => y # lf[n] /\ y # rt[n]
      /\ \A n \in N : n # y => x # lf[n] /\ x # rt[n]
      /\ x # y /\ z # y /\ z # x /\ y # 0
  <2>1. \A n \in N : n # z => y # lf[n] /\ y # rt[n]
    <3>1. y # NULL /\ (y = lf[z] \/ y = rt[z])
      BY <1>1, <1>2, <1>3
    <3> QED
      BY <1>2, <3>1, OneParent
  <2>2. \A n \in N : n # y => x # lf[n] /\ x # rt[n]
    BY <1>2, OneParent
  <2>3. x # y /\ z # y
    BY <1>1, <1>2, <1>3, OneParent
  <2>4. z # x
    BY <1>1, <1>2, <1>3, <2>3 DEF Ranges
  <2> QED
    BY <1>1, <1>2, <2>1, <2>2, <2>3, <2>4
<1>5. /\ \A n \in N : wt[n] \in Int /\ (n # x /\ n # y => wt2[n] = wt[n])
      /\ wt2[x] = wt[y] /\ wt2[y] = wt[y] - wt[x] + Weight(wt, rt[x])
  BY DEF Reweighed
<1>6. Weight(wt, rt[x]) \in Int
  BY <1>1, <1>2, <1>5 DEF Weight
<1>7. \A n \in N : wt2[n] \in Int
  BY <1>2, <1>5, <1>6
<1>8. \A n \in N : /\ Weight(wt, lf[n]) \in Int /\ Weight(wt, rt[n]) \in Int
                   /\ lf[n] # x /\ lf[n] # y => Weight(wt2, lf[n]) = Weight(wt, lf[n])
                   /\ rt[n] # x /\ rt[n] # y => Weight(wt2, rt[n]) = Weight(wt, rt[n])
  BY <1>1, <1>5 DEF Weight
<1>9. Weight(wt2, x) = wt[y] /\ Weight(wt2, y) = wt2[y] /\ Weight(wt, x) = wt[x] /\ Weight(wt, y) = wt[y]
  BY <1>2, <1>4, <1>5 DEF Weight
<1>10. Own(lf2, rt2, wt2, x) = Own(lf, rt, wt, x)
  <2>1. Own(lf2, rt2, wt2, x) = wt[y] - Weight(wt, lf[x]) - (wt[y] - wt[x] + Weight(wt, rt[x]))
    BY <1>2, <1>4, <1>5, <1>8, <1>9 DEF Own
  <2> QED
    BY <1>2, <1>5, <1>8, <2>1 DEF Own
<1>11. Own(lf2, rt2, wt2, y) = Own(lf, rt, wt, y)
  <2>1. rt[y] # x /\ rt[y] # y /\ rt[x] # x /\ rt[x] # y
    BY <1>2, <1>4, OneParent
  <2>2. Own(lf2, rt2, wt2, y) = (wt[y] - wt[x] + Weight(wt, rt[x])) - Weight(wt, rt[x]) - Weight(wt, rt[y])
    BY <1>2, <1>5, <1>8, <2>1 DEF Own
  <2>3. Own(lf, rt, wt, y) = wt[y] - wt[x] - Weight(wt, rt[y])
    BY <1>2, <1>9 DEF Own
  <2> QED
    BY <1>2, <1>5, <1>8, <2>2, <2>3
<1>12. Own(lf2, rt2, wt2, z) = Own(lf, rt, wt, z)
  <2>1. CASE lf[z] = y /\ lf2[z] = x /\ rt2[z] = rt[z]
    <3>1. rt[z] # x /\ rt[z] # y
      BY <1>2, <1>4, <2>1, OneParent
    <3> QED
      BY <1>2, <1>4, <1>5, <1>8, <1>9, <2>1, <3>1 DEF Own
  <2>2. CASE rt[z] = y /\ lf2[z] = lf[z] /\ rt2[z] = x
    <3>1. lf[z] # x /\ lf[z] # y
      BY <1>2, <1>4, <2>2, OneParent
    <3> QED
      BY <1>2, <1>4, <1>5, <1>8, <1>9, <2>2, <3>1 DEF Own
  <2> QED
    BY <1>3, <2>1, <2>2
<1>13. \A n \in N : n # x /\ n # y /\ n # z => Own(lf2, rt2, wt2, n) = Own(lf, rt, wt, n)
  BY <1>2, <1>4, <1>5, <1>8 DEF Own
<1> QED
  BY <1>7, <1>10, <1>11, <1>12, <1>13

\* A rotation to the left does not change the weights of the nodes alone.
LEMMA TurnLeftWeights ==
  ASSUME NEW N, NEW lf, NEW rt, NEW lf2, NEW rt2, NEW lo, NEW hi, NEW x, NEW y, NEW z,
         NEW wt, NEW wt2, max_key \in Nat, Ranges(N, lf, rt, lo, hi),
         TurnedLeft(N, lf, rt, lf2, rt2, x, y, z), Reweighed(N, wt, wt2, x, y, lf[x])
  PROVE  \A n \in N : wt2[n] \in Int /\ Own(lf2, rt2, wt2, n) = Own(lf, rt, wt, n)
<1> USE DEF NULL, Outer
<1>1. \A n \in N : /\ n \in Nat /\ n # 0
                   /\ rt[n] # NULL => rt[n] \in N
                   /\ lf[n] # NULL => lf[n] \in N
  BY DEF Ranges
<1>2. /\ y \in N /\ z \in N /\ x = rt[y] /\ x # NULL /\ x \in N
      /\ rt2[x] = rt[x] /\ lf2[x] = y
      /\ rt2[y] = lf[x] /\ lf2[y] = lf[y]
      /\ \A n \in N : n # x /\ n # y /\ n # z => rt2[n] = rt[n] /\ lf2[n] = lf[n]
  BY <1>1 DEF TurnedLeft
<1>3. \/ rt[z] = y /\ rt2[z] = x /\ lf2[z] = lf[z]
      \/ lf[z] = y /\ rt2[z] = rt[z] /\ lf2[z] = x
  BY DEF TurnedLeft
<1>4. /\ \A n \in N : n # z => y # rt[n] /\ y # lf[n]
      /\ \A n \in N : n # y => x # rt[n] /\ x # lf[n]
      /\ x # y /\ z # y /\ z # x /\ y # 0
  <2>1. \A n \in N : n # z => y # rt[n] /\ y # lf[n]
    <3>1. y # NULL /\ (y = rt[z] \/ y = lf[z])
      BY <1>1, <1>2, <1>3
    <3> QED
      BY <1>2, <3>1, OneParent
  <2>2. \A n \in N : n # y => x # rt[n] /\ x # lf[n]
    BY <1>2, OneParent
  <2>3. x # y /\ z # y
    BY <1>1, <1>2, <1>3, OneParent
  <2>4. z # x
    BY <1>1, <1>2, <1>3, <2>3 DEF Ranges
  <2> QED
    BY <1>1, <1>2, <2>1, <2>2, <2>3, <2>4
<1>5. /\ \A n \in N : wt[n] \in Int /\ (n # x /\ n # y => wt2[n] = wt[n])
      /\ wt2[x] = wt[y] /\ wt2[y] = wt[y] - wt[x] + Weight(wt, lf[x])
  BY DEF Reweighed
<1>6. Weight(wt, lf[x]) \in Int
  BY <1>1, <1>2, <1>5 DEF Weight
<1>7. \A n \in N : wt2[n] \in Int
  BY <1>2, <1>5, <1>6
<1>8. \A n \in N : /\ Weight(wt, rt[n]) \in Int /\ Weight(wt, lf[n]) \in Int
                   /\ rt[n] # x /\ rt[n] # y => Weight(wt2, rt[n]) = Weight(wt, rt[n])
                   /\ lf[n] # x /\ lf[n] # y => Weight(wt2, lf[n]) = Weight(wt, lf[n])
  BY <1>1, <1>5 DEF Weight
<1>9. Weight(wt2, x) = wt[y] /\ Weight(wt2, y) = wt2[y] /\ Weight(wt, x) = wt[x] /\ Weight(wt, y) = wt[y]
  BY <1>2, <1>4, <1>5 DEF Weight
<1>10. Own(lf2, rt2, wt2, x) = Own(lf, rt, wt, x)
  <2>1. Own(lf2, rt2, wt2, x) = wt[y] - Weight(wt, rt[x]) - (wt[y] - wt[x] + Weight(wt, lf[x]))
    BY <1>2, <1>4, <1>5, <1>8, <1>9 DEF Own
  <2> QED
    BY <1>2, <1>5, <1>8, <2>1 DEF Own
<1>11. Own(lf2, rt2, wt2, y) = Own(lf, rt, wt, y)
  <2>1. lf[y] # x /\ lf[y] # y /\ lf[x] # x /\ lf[x] # y
    BY <1>2, <1>4, OneParent
  <2>2. Own(lf2, rt2, wt2, y) = (wt[y] - wt[x] + Weight(wt, lf[x])) - Weight(wt, lf[x]) - Weight(wt, lf[y])
    BY <1>2, <1>5, <1>8, <2>1 DEF Own
  <2>3. Own(lf, rt, wt, y) = wt[y] - wt[x] - Weight(wt, lf[y])
    BY <1>2, <1>5, <1>8, <1>9 DEF Own
  <2> QED
    BY <1>2, <1>5, <1>8, <2>2, <2>3
<1>12. Own(lf2, rt2, wt2, z) = Own(lf, rt, wt, z)
  <2>1. CASE rt[z] = y /\ rt2[z] = x /\ lf2[z] = lf[z]
    <3>1. lf[z] # x /\ lf[z] # y
      BY <1>2, <1>4, <2>1, OneParent
    <3> QED
      BY <1>2, <1>4, <1>5, <1>8, <1>9, <2>1, <3>1 DEF Own
  <2>2. CASE lf[z] = y /\ rt2[z] = rt[z] /\ lf2[z] = x
    <3>1. rt[z] # x /\ rt[z] # y
      BY <1>2, <1>4, <2>2, OneParent
    <3> QED
      BY <1>2, <1>4, <1>5, <1>8, <1>9, <2>2, <3>1 DEF Own
  <2> QED
    BY <1>3, <2>1, <2>2
<1>13. \A n \in N : n # x /\ n # y /\ n # z => Own(lf2, rt2, wt2, n) = Own(lf, rt, wt, n)
  BY <1>2, <1>4, <1>5, <1>8 DEF Own
<1> QED
  BY <1>7, <1>10, <1>11, <1>12, <1>13

-----------------------------------------------------------------------------
(* New leaves *)

\* k, which is smaller than z and in its range, becomes its left child.
LinkedLeft(N, lf, rt, lo, hi, lf2, rt2, z, k) ==
  /\ z \in N /\ k \in Nat /\ k \notin N /\ lf[z] = NULL /\ lo[z] < k /\ k < z
  /\ lf2[k] = NULL /\ rt2[k] = NULL /\ lf2[z] = k /\ rt2[z] = rt[z]
  /\ \A n \in N : n # z => lf2[n] = lf[n] /\ rt2[n] = rt[n]

\* A new left leaf keeps the order.
LEMMA LinkLeft ==
  ASSUME NEW N, NEW lf, NEW rt, NEW lf2, NEW rt2, NEW lo, NEW hi, NEW lo2, NEW hi2, NEW z, NEW k,
         max_key \in Nat, Ranges(N, lf, rt, lo, hi), LinkedLeft(N, lf, rt, lo, hi, lf2, rt2, z, k),
         \A n \in N : lo2[n] = lo[n] /\ hi2[n] = hi[n], lo2[k] = lo[z], hi2[k] = z
  PROVE  Ranges(N \cup {k}, lf2, rt2, lo2, hi2)
<1> USE DEF NULL, Outer
<1>1. \A n \in N :
       /\ n \in Nat /\ n # 0 /\ n < Outer
       /\ lo[n] \in Nat /\ hi[n] \in Nat /\ lo[n] < n /\ n < hi[n]
       /\ lf[n] # NULL => lf[n] \in N /\ lo[lf[n]] = lo[n] /\ hi[lf[n]] = n
       /\ rt[n] # NULL => rt[n] \in N /\ lo[rt[n]] = n /\ hi[rt[n]] = hi[n]
       /\ lo[n] # 0 => lo[n] \in N /\ n < hi[lo[n]]
       /\ hi[n] # Outer => hi[n] \in N /\ lo[hi[n]] < n
  BY DEF Ranges
<1>2. \A m, n \in N :
       /\ lo[n] < m /\ m < n => lf[n] # NULL /\ lo[n] <= lo[m] /\ hi[m] <= n
       /\ n < m /\ m < hi[n] => rt[n] # NULL /\ n <= lo[m] /\ hi[m] <= hi[n]
  BY DEF Ranges
<1>3. /\ z \in N /\ k \in Nat /\ k \notin N /\ lf[z] = NULL /\ lo[z] < k /\ k < z
      /\ lf2[k] = NULL /\ rt2[k] = NULL /\ lf2[z] = k /\ rt2[z] = rt[z]
      /\ \A n \in N : n # z => lf2[n] = lf[n] /\ rt2[n] = rt[n]
  BY DEF LinkedLeft
<1>4. /\ \A n \in N : lo2[n] = lo[n] /\ hi2[n] = hi[n]
      /\ lo2[k] = lo[z] /\ hi2[k] = z /\ z # k
  BY <1>3
<1>5. \A n \in N : ~(lo[z] < n /\ n < z)
  BY <1>2, <1>3
<1>6. ASSUME NEW n \in N \cup {k}
      PROVE  /\ n \in Nat /\ n # 0 /\ n < Outer
             /\ lo2[n] \in Nat /\ hi2[n] \in Nat /\ lo2[n] < n /\ n < hi2[n]
             /\ lf2[n] # NULL => lf2[n] \in N \cup {k} /\ lo2[lf2[n]] = lo2[n] /\ hi2[lf2[n]] = n
             /\ rt2[n] # NULL => rt2[n] \in N \cup {k} /\ lo2[rt2[n]] = n /\ hi2[rt2[n]] = hi2[n]
             /\ lo2[n] # 0 => lo2[n] \in N \cup {k} /\ n < hi2[lo2[n]]
             /\ hi2[n] # Outer => hi2[n] \in N \cup {k} /\ lo2[hi2[n]] < n
  <2>1. CASE n = k
    <3>1. n \in Nat /\ n # 0 /\ n < Outer /\ lo2[n] \in Nat /\ hi2[n] \in Nat /\ lo2[n] < n /\ n < hi2[n]
      BY <1>1, <1>3, <1>4, <2>1
    <3>2. lo[z] # 0 => lo[z] \in N /\ k < hi[lo[z]]
      BY <1>1, <1>3
    <3> QED
      BY <1>3, <1>4, <2>1, <3>1, <3>2
  <2>2. CASE n \in N /\ n # z
    <3>1. lf2[n] = lf[n] /\ rt2[n] = rt[n] /\ lo2[n] = lo[n] /\ hi2[n] = hi[n]
      BY <1>3, <1>4, <2>2
    <3> QED
      BY <1>1, <1>4, <2>2, <3>1
  <2>3. CASE n = z
    <3>1. lf2[n] = k /\ rt2[n] = rt[n] /\ lo2[n] = lo[n] /\ hi2[n] = hi[n]
      BY <1>3, <1>4, <2>3
    <3> QED
      BY <1>1, <1>3, <1>4, <2>3, <3>1
  <2> QED
    BY <2>1, <2>2, <2>3
<1>7. ASSUME NEW m \in N \cup {k}, NEW n \in N \cup {k}
      PROVE  /\ lo2[n] < m /\ m < n => lf2[n] # NULL /\ lo2[n] <= lo2[m] /\ hi2[m] <= n
             /\ n < m /\ m < hi2[n] => rt2[n] # NULL /\ n <= lo2[m] /\ hi2[m] <= hi2[n]
  <2>1. CASE n = k
    <3>1. CASE m = k
      BY <1>3, <2>1, <3>1
    <3>2. CASE m \in N
      <4>1. ~(lo[z] < m /\ m < k) /\ ~(k < m /\ m < z)
        BY <1>1, <1>3, <1>5, <3>2
      <4> QED
        BY <1>4, <2>1, <4>1
    <3> QED
      BY <3>1, <3>2
  <2>2. CASE n \in N /\ m \in N
    BY <1>2, <1>3, <1>4, <2>2
  <2>3. CASE n \in N /\ m = k
    <3>1. ASSUME lo[n] < k, k < n PROVE lf2[n] # NULL /\ lo[n] <= lo[z] /\ z <= n
      <4>1. CASE n = z
        BY <1>1, <1>3, <4>1
      <4>2. CASE n # z
        <5>1. z < n
          BY <1>1, <1>3, <1>5, <2>3, <3>1, <4>2
        <5>2. lo[n] < z
          BY <1>1, <1>3, <2>3, <3>1
        <5> QED
          BY <1>2, <1>3, <2>3, <4>2, <5>1, <5>2
      <4> QED
        BY <4>1, <4>2
    <3>2. ASSUME n < k, k < hi[n] PROVE rt2[n] # NULL /\ n <= lo[z] /\ z <= hi[n]
      <4>1. n <= lo[z] /\ n # z
        BY <1>1, <1>3, <1>5, <2>3, <3>2
      <4>2. z <= hi[n]
        <5>1. CASE hi[n] = Outer
          BY <1>1, <1>3, <2>3, <5>1
        <5>2. CASE hi[n] # Outer
          BY <1>1, <1>3, <1>5, <2>3, <3>2, <5>2
        <5> QED
          BY <5>1, <5>2
      <4>3. z # hi[n]
        BY <1>1, <1>3, <2>3, <4>1
      <4>4. n < z /\ z < hi[n]
        BY <1>1, <1>3, <2>3, <4>1, <4>2, <4>3
      <4> QED
        BY <1>2, <1>3, <2>3, <4>1, <4>2, <4>4
    <3> QED
      BY <1>3, <1>4, <2>3, <3>1, <3>2
  <2> QED
    BY <2>1, <2>2, <2>3
<1> QED
  BY <1>6, <1>7 DEF Ranges

\* k, which is larger than z and in its range, becomes its right child.
LinkedRight(N, lf, rt, lo, hi, lf2, rt2, z, k) ==
  /\ z \in N /\ k \in Nat /\ k \notin N /\ rt[z] = NULL /\ hi[z] > k /\ k > z
  /\ rt2[k] = NULL /\ lf2[k] = NULL /\ rt2[z] = k /\ lf2[z] = lf[z]
  /\ \A n \in N : n # z => rt2[n] = rt[n] /\ lf2[n] = lf[n]

\* A new right leaf keeps the order.
LEMMA LinkRight ==
  ASSUME NEW N, NEW lf, NEW rt, NEW lf2, NEW rt2, NEW lo, NEW hi, NEW lo2, NEW hi2, NEW z, NEW k,
         max_key \in Nat, Ranges(N, lf, rt, lo, hi), LinkedRight(N, lf, rt, lo, hi, lf2, rt2, z, k),
         \A n \in N : lo2[n] = lo[n] /\ hi2[n] = hi[n], lo2[k] = z, hi2[k] = hi[z]
  PROVE  Ranges(N \cup {k}, lf2, rt2, lo2, hi2)
<1> USE DEF NULL, Outer
<1>1. \A n \in N :
       /\ n \in Nat /\ n # 0 /\ n < Outer
       /\ lo[n] \in Nat /\ hi[n] \in Nat /\ lo[n] < n /\ n < hi[n]
       /\ lf[n] # NULL => lf[n] \in N /\ lo[lf[n]] = lo[n] /\ hi[lf[n]] = n
       /\ rt[n] # NULL => rt[n] \in N /\ lo[rt[n]] = n /\ hi[rt[n]] = hi[n]
       /\ lo[n] # 0 => lo[n] \in N /\ n < hi[lo[n]]
       /\ hi[n] # Outer => hi[n] \in N /\ lo[hi[n]] < n
  BY DEF Ranges
<1>2. \A m, n \in N :
       /\ lo[n] < m /\ m < n => lf[n] # NULL /\ lo[n] <= lo[m] /\ hi[m] <= n
       /\ n < m /\ m < hi[n] => rt[n] # NULL /\ n <= lo[m] /\ hi[m] <= hi[n]
  BY DEF Ranges
<1>3. /\ z \in N /\ k \in Nat /\ k \notin N /\ rt[z] = NULL /\ hi[z] > k /\ k > z
      /\ rt2[k] = NULL /\ lf2[k] = NULL /\ rt2[z] = k /\ lf2[z] = lf[z]
      /\ \A n \in N : n # z => rt2[n] = rt[n] /\ lf2[n] = lf[n]
  BY DEF LinkedRight
<1>4. /\ \A n \in N : hi2[n] = hi[n] /\ lo2[n] = lo[n]
      /\ hi2[k] = hi[z] /\ lo2[k] = z /\ z # k
  BY <1>3
<1>5. \A n \in N : ~(hi[z] > n /\ n > z)
  BY <1>2, <1>3
<1>6. ASSUME NEW n \in N \cup {k}
      PROVE  /\ n \in Nat /\ n # 0 /\ n < Outer
             /\ lo2[n] \in Nat /\ hi2[n] \in Nat /\ lo2[n] < n /\ n < hi2[n]
             /\ lf2[n] # NULL => lf2[n] \in N \cup {k} /\ lo2[lf2[n]] = lo2[n] /\ hi2[lf2[n]] = n
             /\ rt2[n] # NULL => rt2[n] \in N \cup {k} /\ lo2[rt2[n]] = n /\ hi2[rt2[n]] = hi2[n]
             /\ lo2[n] # 0 => lo2[n] \in N \cup {k} /\ n < hi2[lo2[n]]
             /\ hi2[n] # Outer => hi2[n] \in N \cup {k} /\ lo2[hi2[n]] < n
  <2>1. CASE n = k
    <3>1. n \in Nat /\ n # 0 /\ n < Outer /\ hi2[n] \in Nat /\ lo2[n] \in Nat /\ hi2[n] > n /\ n > lo2[n]
      BY <1>1, <1>3, <1>4, <2>1
    <3>2. hi[z] # Outer => hi[z] \in N /\ k > lo[hi[z]]
      BY <1>1, <1>3
    <3> QED
      BY <1>3, <1>4, <2>1, <3>1, <3>2
  <2>2. CASE n \in N /\ n # z
    <3>1. rt2[n] = rt[n] /\ lf2[n] = lf[n] /\ hi2[n] = hi[n] /\ lo2[n] = lo[n]
      BY <1>3, <1>4, <2>2
    <3> QED
      BY <1>1, <1>4, <2>2, <3>1
  <2>3. CASE n = z
    <3>1. rt2[n] = k /\ lf2[n] = lf[n] /\ hi2[n] = hi[n] /\ lo2[n] = lo[n]
      BY <1>3, <1>4, <2>3
    <3> QED
      BY <1>1, <1>3, <1>4, <2>3, <3>1
  <2> QED
    BY <2>1, <2>2, <2>3
<1>7. ASSUME NEW m \in N \cup {k}, NEW n \in N \cup {k}
      PROVE  /\ lo2[n] < m /\ m < n => lf2[n] # NULL /\ lo2[n] <= lo2[m] /\ hi2[m] <= n
             /\ n < m /\ m < hi2[n] => rt2[n] # NULL /\ n <= lo2[m] /\ hi2[m] <= hi2[n]
  <2>1. CASE n = k
    <3>1. CASE m = k
      BY <1>3, <2>1, <3>1
    <3>2. CASE m \in N
      <4>1. ~(hi[z] > m /\ m > k) /\ ~(k > m /\ m > z)
        BY <1>1, <1>3, <1>5, <3>2
      <4> QED
        BY <1>4, <2>1, <4>1
    <3> QED
      BY <3>1, <3>2
  <2>2. CASE n \in N /\ m \in N
    BY <1>2, <1>3, <1>4, <2>2
  <2>3. CASE n \in N /\ m = k
    <3>1. ASSUME hi[n] > k, k > n PROVE rt2[n] # NULL /\ hi[n] >= hi[z] /\ z >= n
      <4>1. CASE n = z
        BY <1>1, <1>3, <4>1
      <4>2. CASE n # z
        <5>1. z > n
          BY <1>1, <1>3, <1>5, <2>3, <3>1, <4>2
        <5>2. hi[n] > z
          BY <1>1, <1>3, <2>3, <3>1
        <5> QED
          BY <1>2, <1>3, <2>3, <4>2, <5>1, <5>2
      <4> QED
        BY <4>1, <4>2
    <3>2. ASSUME n > k, k > lo[n] PROVE lf2[n] # NULL /\ n >= hi[z] /\ z >= lo[n]
      <4>1. n >= hi[z] /\ n # z
        BY <1>1, <1>3, <1>5, <2>3, <3>2
      <4>2. z >= lo[n]
        <5>1. CASE lo[n] = 0
          BY <1>1, <1>3, <2>3, <5>1
        <5>2. CASE lo[n] # 0
          BY <1>1, <1>3, <1>5, <2>3, <3>2, <5>2
        <5> QED
          BY <5>1, <5>2
      <4>3. z # lo[n]
        BY <1>1, <1>3, <2>3, <4>1
      <4>4. n > z /\ z > lo[n]
        BY <1>1, <1>3, <2>3, <4>1, <4>2, <4>3
      <4> QED
        BY <1>2, <1>3, <2>3, <4>1, <4>2, <4>4
    <3> QED
      BY <1>3, <1>4, <2>3, <3>1, <3>2
  <2> QED
    BY <2>1, <2>2, <2>3
<1> QED
  BY <1>6, <1>7 DEF Ranges

-----------------------------------------------------------------------------
(* The trees of CBTree *)

Left(T) == [n \in DOMAIN T |-> T[n].left]
Right(T) == [n \in DOMAIN T |-> T[n].right]
Weights(T) == [n \in DOMAIN T |-> T[n].w]

NodeType == [value : Threads \cup {NoValue}, left : Nat, right : Nat, w : Int]

\* The nodes, named by their keys; all but the root have a value.
NodesOK(T) ==
  /\ root \in DOMAIN T /\ DOMAIN T \subseteq Keys \cup {root}
  /\ T \in [DOMAIN T -> NodeType]
  /\ \A n \in DOMAIN T : T[n].value = NoValue <=> n = root

Order(T, lo, hi) ==
  /\ Ranges(DOMAIN T, Left(T), Right(T), lo, hi)
  /\ lo[root] = 0 /\ hi[root] = Outer

ChildOf(T, n, p) == p \in DOMAIN T /\ n \in DOMAIN T /\ n \in {T[p].left, T[p].right}

\* T2 has the nodes of T, of which x has got the place of y below z.
Rotated(T, lo, hi, T2, lo2, hi2, x, y, z) ==
  /\ DOMAIN T2 = DOMAIN T /\ NodesOK(T2)
  /\ \A n \in DOMAIN T : /\ T2[n].value = T[n].value
                         /\ Own(Left(T2), Right(T2), Weights(T2), n) = Own(Left(T), Right(T), Weights(T), n)
  /\ Order(T2, lo2, hi2)
  /\ lo2[x] = lo[y] /\ hi2[x] = hi[y]
  /\ \A n \in DOMAIN T : n # x /\ n # y => lo2[n] = lo[n] /\ hi2[n] = hi[n]
  /\ T[z].left = y => T2[z].left = x /\ T2[z].right = T[z].right
  /\ T[z].right = y => T2[z].right = x /\ T2[z].left = T[z].left
  /\ \A n \in DOMAIN T : n # x /\ n # y /\ n # z => T2[n] = T[n]

\* What the order says of one node and of its children.
LEMMA OrderAt ==
  ASSUME NEW T, NEW lo, NEW hi, NodesOK(T), Order(T, lo, hi), NEW n \in DOMAIN T
  PROVE  /\ n \in Nat /\ n # 0 /\ n # NULL /\ n < Outer /\ n <= max_key /\ T[n].left \in Nat /\ T[n].right \in Nat
         /\ lo[n] \in Nat /\ hi[n] \in Nat /\ lo[n] < n /\ n < hi[n]
         /\ T[n].left # NULL => /\ T[n].left \in DOMAIN T /\ lo[T[n].left] = lo[n] /\ hi[T[n].left] = n
                                /\ T[n].left # n /\ T[n].left < n
         /\ T[n].right # NULL => /\ T[n].right \in DOMAIN T /\ lo[T[n].right] = n /\ hi[T[n].right] = hi[n]
                                 /\ T[n].right # n /\ n < T[n].right
         /\ T[n].left = T[n].right => T[n].left = NULL
<1> DEFINE lf == Left(T)
           rt == Right(T)
<1>1. lf[n] = T[n].left /\ rt[n] = T[n].right
  BY DEF Left, Right
<1> HIDE DEF lf, rt
<1>2. Ranges(DOMAIN T, lf, rt, lo, hi)
  BY DEF Order, lf, rt
<1>3. T[n] \in NodeType
  BY DEF NodesOK
<1>4. T[n].left \in Nat /\ T[n].right \in Nat
  BY <1>3 DEF NodeType
<1>5. \A i \in DOMAIN T :
       /\ i \in Nat /\ i # 0 /\ i < Outer
       /\ lo[i] \in Nat /\ hi[i] \in Nat /\ lo[i] < i /\ i < hi[i]
  BY <1>2 DEF Ranges
<1>6. /\ T[n].left # NULL => T[n].left \in DOMAIN T /\ lo[T[n].left] = lo[n] /\ hi[T[n].left] = n
      /\ T[n].right # NULL => T[n].right \in DOMAIN T /\ lo[T[n].right] = n /\ hi[T[n].right] = hi[n]
  BY <1>1, <1>2 DEF Ranges
<1>7. /\ T[n].left # NULL => T[n].left < n /\ T[n].left # n
      /\ T[n].right # NULL => n < T[n].right /\ T[n].right # n
  BY <1>5, <1>6
<1>8. T[n].left = T[n].right => T[n].left = NULL
  BY <1>5, <1>6, <1>7
<1>9. n # NULL /\ n <= max_key
  BY <1>5, KeysAssumption DEF NULL, Outer
<1> QED
  BY <1>4, <1>5, <1>6, <1>7, <1>8, <1>9

\* A node has one parent, and the root has none.
LEMMA ParentAt ==
  ASSUME NEW T, NEW lo, NEW hi, NodesOK(T), Order(T, lo, hi), NEW n, NEW p, NEW q,
         ChildOf(T, n, p), ChildOf(T, n, q)
  PROVE  p = q /\ n # p /\ n # root /\ n # NULL
<1> DEFINE lf == Left(T)
           rt == Right(T)
<1>1. p \in DOMAIN T /\ q \in DOMAIN T /\ n \in DOMAIN T /\ (n = T[p].left \/ n = T[p].right)
  BY DEF ChildOf
<1>2. lf[p] = T[p].left /\ rt[p] = T[p].right /\ lf[q] = T[q].left /\ rt[q] = T[q].right
  BY <1>1 DEF Left, Right
<1> HIDE DEF lf, rt
<1>3. Ranges(DOMAIN T, lf, rt, lo, hi)
  BY DEF Order, lf, rt
<1>4. n # NULL
  BY <1>1, OrderAt
<1>5. (n = lf[p] \/ n = rt[p]) /\ (n = lf[q] \/ n = rt[q])
  BY <1>2 DEF ChildOf
<1>6. p = q /\ n # p
  BY <1>1, <1>3, <1>4, <1>5, OneParent, KeysAssumption
<1>7. n # root
  BY <1>1, <1>4, OrderAt DEF Order
<1> QED
  BY <1>4, <1>6, <1>7

\* What rotate_right does to the nodes.
LEMMA RotateRightNodes ==
  ASSUME NEW T, NodesOK(T), NEW x \in DOMAIN T, NEW y \in DOMAIN T, NEW z \in DOMAIN T,
         x # y, y # z, x # z, T[x].right = NULL \/ T[x].right \in DOMAIN T,
         T[z].left = y \/ T[z].right = y, NEW T2, T2 = rotate_right(T, x, y, z)
  PROVE  /\ DOMAIN T2 = DOMAIN T /\ T2 \in [DOMAIN T -> NodeType]
         /\ \A n \in DOMAIN T : T2[n].value = T[n].value
         /\ T2[x].left = T[x].left /\ T2[x].right = y /\ T2[x].w = T[y].w
         /\ T2[y].left = T[x].right /\ T2[y].right = T[y].right
         /\ T2[y].w = T[y].w - T[x].w + WeightIn(T, T[x].right)
         /\ T2[z].w = T[z].w
         /\ IF T[z].left = y THEN T2[z].left = x /\ T2[z].right = T[z].right
                             ELSE T2[z].right = x /\ T2[z].left = T[z].left
         /\ \A n \in DOMAIN T : n # x /\ n # y /\ n # z => T2[n] = T[n]
<1> DEFINE v == T[y].w - T[x].w + WeightIn(T, T[x].right)
<1>1. T \in [DOMAIN T -> NodeType] /\ \A n \in DOMAIN T : n \in Nat
  BY KeysAssumption DEF NodesOK, root
<1>2. \A n \in DOMAIN T : T[n].left \in Nat /\ T[n].right \in Nat /\ T[n].w \in Int
  BY <1>1 DEF NodeType
<1>3. v \in Int
  BY <1>2 DEF WeightIn
<1> HIDE DEF v
<1> DEFINE X == [T[x] EXCEPT !.w = T[y].w, !.right = y]
           Y == [T[y] EXCEPT !.w = v, !.left = T[x].right]
           Z == IF T[z].left = y THEN [T[z] EXCEPT !.left = x] ELSE [T[z] EXCEPT !.right = x]
           U == [T EXCEPT ![x] = X, ![y] = Y]
<1>4. X \in NodeType /\ X.left = T[x].left /\ X.right = y /\ X.w = T[y].w /\ X.value = T[x].value
  BY <1>1, <1>2 DEF NodeType
<1>5. Y \in NodeType /\ Y.left = T[x].right /\ Y.right = T[y].right /\ Y.w = v /\ Y.value = T[y].value
  BY <1>1, <1>2, <1>3 DEF NodeType
<1>6. /\ Z \in NodeType /\ Z.w = T[z].w /\ Z.value = T[z].value
      /\ IF T[z].left = y THEN Z.left = x /\ Z.right = T[z].right
                          ELSE Z.right = x /\ Z.left = T[z].left
  BY <1>1, <1>2 DEF NodeType
<1>7. T2 = Replaced(U, z, y, x)
  BY <1>1 DEF rotate_right, v
<1> HIDE DEF X, Y
<1>8. U \in [DOMAIN T -> NodeType] /\ U[x] = X /\ U[y] = Y /\ U[z] = T[z]
      /\ \A n \in DOMAIN T : n # x /\ n # y => U[n] = T[n]
  BY <1>1, <1>4, <1>5
<1> HIDE DEF U
<1>9. T2 = [U EXCEPT ![z] = Z]
  BY <1>7, <1>8 DEF Replaced
<1> HIDE DEF Z
<1>10. T2 \in [DOMAIN T -> NodeType] /\ T2[z] = Z /\ T2[x] = X /\ T2[y] = Y
       /\ \A n \in DOMAIN T : n # x /\ n # y /\ n # z => T2[n] = T[n]
  BY <1>6, <1>8, <1>9
<1> QED
  BY <1>4, <1>5, <1>6, <1>10 DEF v

\* rotate_right keeps the order and the weights of the nodes alone.
LEMMA RotateRight ==
  ASSUME NEW T, NEW lo, NEW hi, NodesOK(T), Order(T, lo, hi), NEW x, NEW y, NEW z,
         ChildOf(T, y, z), x = T[y].left, x # NULL
  PROVE  \E lo2, hi2 : Rotated(T, lo, hi, rotate_right(T, x, y, z), lo2, hi2, x, y, z)
<1> DEFINE N == DOMAIN T
           T2 == rotate_right(T, x, y, z)
           lf == Left(T)
           rt == Right(T)
           wt == Weights(T)
           lf2 == Left(T2)
           rt2 == Right(T2)
           wt2 == Weights(T2)
<1>1. y \in N /\ z \in N /\ (T[z].left = y \/ T[z].right = y)
  BY DEF ChildOf
<1>2. x \in N /\ x # y /\ ChildOf(T, x, y) /\ (T[x].right = NULL \/ T[x].right \in N)
  <2>1. x \in N /\ x # y
    BY <1>1, OrderAt
  <2> QED
    BY <1>1, <2>1, OrderAt DEF ChildOf
<1>3. y # z /\ y # root /\ x # root /\ y # NULL
  BY <1>2, ParentAt
<1>4. x # z
  <2>1. x < y /\ lo[x] = lo[y] /\ hi[x] = y
    BY <1>1, OrderAt
  <2>2. T[z].left = y => hi[y] = z
    BY <1>1, <1>3, OrderAt
  <2>3. T[z].right = y => lo[y] = z
    BY <1>1, <1>3, OrderAt
  <2>4. lo[x] < x /\ y < hi[y] /\ x \in Nat /\ y \in Nat /\ lo[x] \in Nat /\ hi[y] \in Nat
    BY <1>1, <1>2, OrderAt
  <2> QED
    BY <1>1, <2>1, <2>2, <2>3, <2>4
<1> HIDE DEF T2
<1>5. /\ DOMAIN T2 = N /\ T2 \in [N -> NodeType]
      /\ \A n \in N : T2[n].value = T[n].value
      /\ T2[x].left = T[x].left /\ T2[x].right = y /\ T2[x].w = T[y].w
      /\ T2[y].left = T[x].right /\ T2[y].right = T[y].right
      /\ T2[y].w = T[y].w - T[x].w + WeightIn(T, T[x].right)
      /\ T2[z].w = T[z].w
      /\ \A n \in N : n # x /\ n # y /\ n # z => T2[n] = T[n]
  <2>1. T2 = rotate_right(T, x, y, z)
    BY DEF T2
  <2> QED
    BY <1>1, <1>2, <1>3, <1>4, <2>1, RotateRightNodes
<1>6. IF T[z].left = y THEN T2[z].left = x /\ T2[z].right = T[z].right
                       ELSE T2[z].right = x /\ T2[z].left = T[z].left
  <2>1. T2 = rotate_right(T, x, y, z)
    BY DEF T2
  <2> QED
    BY <1>1, <1>2, <1>3, <1>4, <2>1, RotateRightNodes
<1>7. NodesOK(T2)
  BY <1>5 DEF NodesOK
<1>8. /\ \A n \in N : lf[n] = T[n].left /\ rt[n] = T[n].right /\ wt[n] = T[n].w
      /\ \A n \in N : lf2[n] = T2[n].left /\ rt2[n] = T2[n].right /\ wt2[n] = T2[n].w
  BY <1>5 DEF Left, Right, Weights
<1>9. Ranges(N, lf, rt, lo, hi)
  BY DEF Order
<1>10. \A n \in N : T[n].w \in Int
  BY DEF NodesOK, NodeType
<1> HIDE DEF lf, rt, wt, lf2, rt2, wt2
<1>11. TurnedRight(N, lf, rt, lf2, rt2, x, y, z)
  BY <1>1, <1>2, <1>5, <1>6, <1>8 DEF TurnedRight
<1>12. Reweighed(N, wt, wt2, x, y, rt[x])
  <2>1. Weight(wt, rt[x]) = WeightIn(T, T[x].right)
    BY <1>2, <1>8 DEF Weight, WeightIn
  <2> QED
    BY <1>1, <1>2, <1>5, <1>8, <1>10, <2>1 DEF Reweighed
<1>13. \A n \in N : Own(lf2, rt2, wt2, n) = Own(lf, rt, wt, n)
  BY <1>9, <1>11, <1>12, TurnRightWeights, KeysAssumption
<1> DEFINE lo2 == [n \in N |-> IF n = y THEN x ELSE lo[n]]
           hi2 == [n \in N |-> IF n = x THEN hi[y] ELSE hi[n]]
<1>14. Ranges(N, lf2, rt2, lo2, hi2)
  BY <1>9, <1>11, TurnRight, KeysAssumption
<1>15. /\ lo2[x] = lo[y] /\ hi2[x] = hi[y]
       /\ \A n \in N : n # x /\ n # y => lo2[n] = lo[n] /\ hi2[n] = hi[n]
  <2>1. lo[x] = lo[y]
    BY <1>1, OrderAt
  <2> QED
    BY <1>2, <2>1
<1>16. lo2[root] = 0 /\ hi2[root] = Outer
  BY <1>3, <1>15 DEF Order, NodesOK
<1> HIDE DEF lo2, hi2
<1>17. Order(T2, lo2, hi2)
  BY <1>5, <1>14, <1>16 DEF Order, lf2, rt2
<1>18. \A n \in N : Own(Left(T2), Right(T2), Weights(T2), n) = Own(Left(T), Right(T), Weights(T), n)
  BY <1>13 DEF lf, rt, wt, lf2, rt2, wt2
<1>19. /\ T[z].left = y => T2[z].left = x /\ T2[z].right = T[z].right
       /\ T[z].right = y => T2[z].right = x /\ T2[z].left = T[z].left
  <2>1. ~(T[z].left = y /\ T[z].right = y)
    BY <1>1, <1>3, OrderAt
  <2> QED
    BY <1>1, <1>6, <2>1
<1>20. Rotated(T, lo, hi, T2, lo2, hi2, x, y, z)
  BY <1>5, <1>7, <1>15, <1>17, <1>18, <1>19 DEF Rotated
<1> QED
  BY <1>20 DEF T2

\* What rotate_left does to the nodes.
LEMMA RotateLeftNodes ==
  ASSUME NEW T, NodesOK(T), NEW x \in DOMAIN T, NEW y \in DOMAIN T, NEW z \in DOMAIN T,
         x # y, y # z, x # z, T[x].left = NULL \/ T[x].left \in DOMAIN T,
         T[z].right = y \/ T[z].left = y, NEW T2, T2 = rotate_left(T, x, y, z)
  PROVE  /\ DOMAIN T2 = DOMAIN T /\ T2 \in [DOMAIN T -> NodeType]
         /\ \A n \in DOMAIN T : T2[n].value = T[n].value
         /\ T2[x].right = T[x].right /\ T2[x].left = y /\ T2[x].w = T[y].w
         /\ T2[y].right = T[x].left /\ T2[y].left = T[y].left
         /\ T2[y].w = T[y].w - T[x].w + WeightIn(T, T[x].left)
         /\ T2[z].w = T[z].w
         /\ IF T[z].left = y THEN T2[z].left = x /\ T2[z].right = T[z].right
                             ELSE T2[z].right = x /\ T2[z].left = T[z].left
         /\ \A n \in DOMAIN T : n # x /\ n # y /\ n # z => T2[n] = T[n]
<1> DEFINE v == T[y].w - T[x].w + WeightIn(T, T[x].left)
<1>1. T \in [DOMAIN T -> NodeType] /\ \A n \in DOMAIN T : n \in Nat
  BY KeysAssumption DEF NodesOK, root
<1>2. \A n \in DOMAIN T : T[n].right \in Nat /\ T[n].left \in Nat /\ T[n].w \in Int
  BY <1>1 DEF NodeType
<1>3. v \in Int
  BY <1>2 DEF WeightIn
<1> HIDE DEF v
<1> DEFINE X == [T[x] EXCEPT !.w = T[y].w, !.left = y]
           Y == [T[y] EXCEPT !.w = v, !.right = T[x].left]
           Z == IF T[z].left = y THEN [T[z] EXCEPT !.left = x] ELSE [T[z] EXCEPT !.right = x]
           U == [T EXCEPT ![x] = X, ![y] = Y]
<1>4. X \in NodeType /\ X.right = T[x].right /\ X.left = y /\ X.w = T[y].w /\ X.value = T[x].value
  BY <1>1, <1>2 DEF NodeType
<1>5. Y \in NodeType /\ Y.right = T[x].left /\ Y.left = T[y].left /\ Y.w = v /\ Y.value = T[y].value
  BY <1>1, <1>2, <1>3 DEF NodeType
<1>6. /\ Z \in NodeType /\ Z.w = T[z].w /\ Z.value = T[z].value
      /\ IF T[z].left = y THEN Z.left = x /\ Z.right = T[z].right
                          ELSE Z.right = x /\ Z.left = T[z].left
  BY <1>1, <1>2 DEF NodeType
<1>7. T2 = Replaced(U, z, y, x)
  BY <1>1 DEF rotate_left, v
<1> HIDE DEF X, Y
<1>8. U \in [DOMAIN T -> NodeType] /\ U[x] = X /\ U[y] = Y /\ U[z] = T[z]
      /\ \A n \in DOMAIN T : n # x /\ n # y => U[n] = T[n]
  BY <1>1, <1>4, <1>5
<1> HIDE DEF U
<1>9. T2 = [U EXCEPT ![z] = Z]
  BY <1>7, <1>8 DEF Replaced
<1> HIDE DEF Z
<1>10. T2 \in [DOMAIN T -> NodeType] /\ T2[z] = Z /\ T2[x] = X /\ T2[y] = Y
       /\ \A n \in DOMAIN T : n # x /\ n # y /\ n # z => T2[n] = T[n]
  BY <1>6, <1>8, <1>9
<1> QED
  BY <1>4, <1>5, <1>6, <1>10 DEF v

\* rotate_left keeps the order and the weights of the nodes alone.
LEMMA RotateLeft ==
  ASSUME NEW T, NEW lo, NEW hi, NodesOK(T), Order(T, lo, hi), NEW x, NEW y, NEW z,
         ChildOf(T, y, z), x = T[y].right, x # NULL
  PROVE  \E lo2, hi2 : Rotated(T, lo, hi, rotate_left(T, x, y, z), lo2, hi2, x, y, z)
<1> DEFINE N == DOMAIN T
           T2 == rotate_left(T, x, y, z)
           rt == Right(T)
           lf == Left(T)
           wt == Weights(T)
           rt2 == Right(T2)
           lf2 == Left(T2)
           wt2 == Weights(T2)
<1>1. y \in N /\ z \in N /\ (T[z].right = y \/ T[z].left = y)
  BY DEF ChildOf
<1>2. x \in N /\ x # y /\ ChildOf(T, x, y) /\ (T[x].left = NULL \/ T[x].left \in N)
  <2>1. x \in N /\ x # y
    BY <1>1, OrderAt
  <2> QED
    BY <1>1, <2>1, OrderAt DEF ChildOf
<1>3. y # z /\ y # root /\ x # root /\ y # NULL
  BY <1>2, ParentAt
<1>4. x # z
  <2>1. x > y /\ hi[x] = hi[y] /\ lo[x] = y
    BY <1>1, OrderAt
  <2>2. T[z].right = y => lo[y] = z
    BY <1>1, <1>3, OrderAt
  <2>3. T[z].left = y => hi[y] = z
    BY <1>1, <1>3, OrderAt
  <2>4. hi[x] > x /\ y > lo[y] /\ x \in Nat /\ y \in Nat /\ hi[x] \in Nat /\ lo[y] \in Nat
    BY <1>1, <1>2, OrderAt
  <2> QED
    BY <1>1, <2>1, <2>2, <2>3, <2>4
<1> HIDE DEF T2
<1>5. /\ DOMAIN T2 = N /\ T2 \in [N -> NodeType]
      /\ \A n \in N : T2[n].value = T[n].value
      /\ T2[x].right = T[x].right /\ T2[x].left = y /\ T2[x].w = T[y].w
      /\ T2[y].right = T[x].left /\ T2[y].left = T[y].left
      /\ T2[y].w = T[y].w - T[x].w + WeightIn(T, T[x].left)
      /\ T2[z].w = T[z].w
      /\ \A n \in N : n # x /\ n # y /\ n # z => T2[n] = T[n]
  <2>1. T2 = rotate_left(T, x, y, z)
    BY DEF T2
  <2> QED
    BY <1>1, <1>2, <1>3, <1>4, <2>1, RotateLeftNodes
<1>6. IF T[z].left = y THEN T2[z].left = x /\ T2[z].right = T[z].right
                       ELSE T2[z].right = x /\ T2[z].left = T[z].left
  <2>1. T2 = rotate_left(T, x, y, z)
    BY DEF T2
  <2> QED
    BY <1>1, <1>2, <1>3, <1>4, <2>1, RotateLeftNodes
<1>7. NodesOK(T2)
  BY <1>5 DEF NodesOK
<1>8. /\ \A n \in N : rt[n] = T[n].right /\ lf[n] = T[n].left /\ wt[n] = T[n].w
      /\ \A n \in N : rt2[n] = T2[n].right /\ lf2[n] = T2[n].left /\ wt2[n] = T2[n].w
  BY <1>5 DEF Right, Left, Weights
<1>9. Ranges(N, lf, rt, lo, hi)
  BY DEF Order
<1>10. \A n \in N : T[n].w \in Int
  BY DEF NodesOK, NodeType
<1> HIDE DEF rt, lf, wt, rt2, lf2, wt2
<1>11. TurnedLeft(N, lf, rt, lf2, rt2, x, y, z)
  BY <1>1, <1>2, <1>5, <1>6, <1>8 DEF TurnedLeft
<1>12. Reweighed(N, wt, wt2, x, y, lf[x])
  <2>1. Weight(wt, lf[x]) = WeightIn(T, T[x].left)
    BY <1>2, <1>8 DEF Weight, WeightIn
  <2> QED
    BY <1>1, <1>2, <1>5, <1>8, <1>10, <2>1 DEF Reweighed
<1>13. \A n \in N : Own(lf2, rt2, wt2, n) = Own(lf, rt, wt, n)
  BY <1>9, <1>11, <1>12, TurnLeftWeights, KeysAssumption
<1> DEFINE hi2 == [n \in N |-> IF n = y THEN x ELSE hi[n]]
           lo2 == [n \in N |-> IF n = x THEN lo[y] ELSE lo[n]]
<1>14. Ranges(N, lf2, rt2, lo2, hi2)
  BY <1>9, <1>11, TurnLeft, KeysAssumption
<1>15. /\ hi2[x] = hi[y] /\ lo2[x] = lo[y]
       /\ \A n \in N : n # x /\ n # y => hi2[n] = hi[n] /\ lo2[n] = lo[n]
  <2>1. hi[x] = hi[y]
    BY <1>1, OrderAt
  <2> QED
    BY <1>2, <2>1
<1>16. lo2[root] = 0 /\ hi2[root] = Outer
  BY <1>3, <1>15 DEF Order, NodesOK
<1> HIDE DEF lo2, hi2
<1>17. Order(T2, lo2, hi2)
  BY <1>5, <1>14, <1>16 DEF Order, rt2, lf2
<1>18. \A n \in N : Own(Left(T2), Right(T2), Weights(T2), n) = Own(Left(T), Right(T), Weights(T), n)
  BY <1>13 DEF rt, lf, wt, rt2, lf2, wt2
<1>19. /\ T[z].right = y => T2[z].right = x /\ T2[z].left = T[z].left
       /\ T[z].left = y => T2[z].left = x /\ T2[z].right = T[z].right
  <2>1. ~(T[z].right = y /\ T[z].left = y)
    BY <1>1, <1>3, OrderAt
  <2> QED
    BY <1>1, <1>6, <2>1
<1>20. Rotated(T, lo, hi, T2, lo2, hi2, x, y, z)
  BY <1>5, <1>7, <1>15, <1>17, <1>18, <1>19 DEF Rotated
<1> QED
  BY <1>20 DEF T2

\* T2 has the nodes of T, and u has got the place of z below p.
Turned(T, lo, hi, T2, lo2, hi2, u, z, p) ==
  /\ DOMAIN T2 = DOMAIN T /\ NodesOK(T2) /\ u \in DOMAIN T
  /\ \A n \in DOMAIN T : /\ T2[n].value = T[n].value
                         /\ Own(Left(T2), Right(T2), Weights(T2), n) = Own(Left(T), Right(T), Weights(T), n)
  /\ Order(T2, lo2, hi2)
  /\ lo2[u] = lo[z] /\ hi2[u] = hi[z]
  /\ ChildOf(T2, u, p)

\* One rotation does that, ...
LEMMA SingleTurn ==
  ASSUME NEW T, NEW lo, NEW hi, NodesOK(T), Order(T, lo, hi), NEW T2, NEW lo2, NEW hi2,
         NEW y \in DOMAIN T, NEW z, NEW p, ChildOf(T, z, p), Rotated(T, lo, hi, T2, lo2, hi2, y, z, p)
  PROVE  Turned(T, lo, hi, T2, lo2, hi2, y, z, p)
<1>1. ChildOf(T2, y, p)
  BY DEF ChildOf, Rotated
<1> QED
  BY <1>1 DEF Turned, Rotated

\* The range of a node is part of that of its parent.
LEMMA Narrower ==
  ASSUME NEW T, NEW lo, NEW hi, NodesOK(T), Order(T, lo, hi), NEW n, NEW p, ChildOf(T, n, p)
  PROVE  /\ n \in DOMAIN T /\ p \in DOMAIN T
         /\ lo[n] \in Nat /\ hi[n] \in Nat /\ lo[p] \in Nat /\ hi[p] \in Nat
         /\ hi[n] - lo[n] < hi[p] - lo[p]
<1>1. n \in DOMAIN T /\ p \in DOMAIN T /\ n # NULL /\ (n = T[p].left \/ n = T[p].right)
  BY ParentAt DEF ChildOf
<1>2. lo[p] \in Nat /\ hi[p] \in Nat /\ p \in Nat /\ lo[p] < p /\ p < hi[p]
  BY <1>1, OrderAt
<1>3. \/ lo[n] = lo[p] /\ hi[n] = p
      \/ lo[n] = p /\ hi[n] = hi[p]
  BY <1>1, OrderAt
<1> QED
  BY <1>1, <1>2, <1>3

\* ... and so do two, if the first one is of x and the child y of z.
LEMMA DoubleTurn ==
  ASSUME NEW T, NEW lo, NEW hi, NodesOK(T), Order(T, lo, hi), NEW T1, NEW lo1, NEW hi1,
         NEW T2, NEW lo2, NEW hi2, NEW x, NEW y, NEW z, NEW p,
         ChildOf(T, z, p), ChildOf(T, y, z), ChildOf(T, x, y),
         Rotated(T, lo, hi, T1, lo1, hi1, x, y, z), Rotated(T1, lo1, hi1, T2, lo2, hi2, x, z, p)
  PROVE  Turned(T, lo, hi, T2, lo2, hi2, x, z, p)
<1>1. z # x /\ z # y
  BY ParentAt, OrderAt DEF ChildOf
<1>2. lo1[z] = lo[z] /\ hi1[z] = hi[z]
  BY <1>1 DEF Rotated, ChildOf
<1>3. ChildOf(T2, x, p)
  <2>1. p # x /\ p # y /\ p # z
    <3>1. /\ hi[z] - lo[z] < hi[p] - lo[p] /\ hi[y] - lo[y] < hi[z] - lo[z]
          /\ hi[x] - lo[x] < hi[y] - lo[y]
      BY Narrower
    <3>2. /\ lo[p] \in Nat /\ hi[p] \in Nat /\ lo[z] \in Nat /\ hi[z] \in Nat
          /\ lo[y] \in Nat /\ hi[y] \in Nat /\ lo[x] \in Nat /\ hi[x] \in Nat
      BY Narrower
    <3> QED
      BY <3>1, <3>2
  <2>2. T1[p] = T[p]
    BY <2>1 DEF Rotated, ChildOf
  <2>3. p \in DOMAIN T2 /\ x \in DOMAIN T2 /\ (T1[p].left = z \/ T1[p].right = z)
    BY <2>2 DEF Rotated, ChildOf
  <2>4. T2[p].left = x \/ T2[p].right = x
    BY <2>3 DEF Rotated
  <2> QED
    BY <2>3, <2>4 DEF ChildOf
<1>4. lo2[x] = lo[z] /\ hi2[x] = hi[z]
  BY <1>2 DEF Rotated
<1> QED
  BY <1>3, <1>4 DEF Turned, Rotated, ChildOf

-----------------------------------------------------------------------------
(* The searches *)

ChildIn(T, n, k) ==
  CASE k < n -> T[n].left
    [] k > n -> T[n].right
    [] k = n -> NULL

\* A search with the locals L is where its key belongs, and a restructuring one knows the
\* parent; when it has ended it has found the key or the place for it.
SearchAt(T, L, lo, hi) ==
  /\ L.key \in Keys
  /\ L.pc \in {"search", "leave"} => L.z \in DOMAIN T /\ lo[L.z] < L.key /\ L.key < hi[L.z]
  /\ L.pc = "search" /\ Restructures(L) =>
       (L.z = root /\ L.z_par = NULL) \/ (L.z # root /\ ChildOf(T, L.z, L.z_par))
  /\ L.pc = "leave" => /\ (L.key = L.z /\ L.node = L.key) \/ (L.key # L.z /\ L.node = NULL)
                       /\ ChildIn(T, L.z, L.key) = NULL

\* A key in the range of a node is in the range of the child it goes to.
LEMMA Descend ==
  ASSUME NEW T, NEW lo, NEW hi, NodesOK(T), Order(T, lo, hi), NEW n \in DOMAIN T, NEW k \in Keys,
         lo[n] < k, k < hi[n], ChildIn(T, n, k) # NULL
  PROVE  /\ k # n /\ ChildOf(T, ChildIn(T, n, k), n) /\ ChildIn(T, n, k) \in DOMAIN T
         /\ lo[ChildIn(T, n, k)] < k /\ k < hi[ChildIn(T, n, k)]
         /\ k < n => ChildIn(T, n, k) = T[n].left
         /\ ~(k < n) => ChildIn(T, n, k) = T[n].right
<1>1. k \in Nat /\ n \in Nat
  BY KeysAssumption, OrderAt
<1>2. CASE k < n
  <2>1. ChildIn(T, n, k) = T[n].left
    BY <1>1, <1>2 DEF ChildIn
  <2>2. T[n].left \in DOMAIN T /\ lo[T[n].left] = lo[n] /\ hi[T[n].left] = n
    BY <2>1, OrderAt
  <2> QED
    BY <1>1, <1>2, <2>1, <2>2 DEF ChildOf
<1>3. CASE k > n
  <2>1. ChildIn(T, n, k) = T[n].right
    BY <1>1, <1>3 DEF ChildIn
  <2>2. T[n].right \in DOMAIN T /\ lo[T[n].right] = n /\ hi[T[n].right] = hi[n]
    BY <2>1, OrderAt
  <2> QED
    BY <1>1, <1>3, <2>1, <2>2 DEF ChildOf
<1>4. k # n
  BY <1>1 DEF ChildIn
<1> QED
  BY <1>1, <1>2, <1>3, <1>4

\* A key that is not found where it belongs is not in the tree.
LEMMA NotThere ==
  ASSUME NEW T, NEW lo, NEW hi, NodesOK(T), Order(T, lo, hi), NEW n \in DOMAIN T, NEW k \in Keys,
         lo[n] < k, k < hi[n], ChildIn(T, n, k) = NULL, k # n
  PROVE  k \notin DOMAIN T
<1> DEFINE lf == Left(T)
           rt == Right(T)
<1>1. lf[n] = T[n].left /\ rt[n] = T[n].right
  BY DEF Left, Right
<1> HIDE DEF lf, rt
<1>2. Ranges(DOMAIN T, lf, rt, lo, hi)
  BY DEF Order, lf, rt
<1>3. k \in Nat /\ n \in Nat
  BY KeysAssumption, OrderAt
<1>4. CASE k < n
  <2>1. T[n].left = NULL
    BY <1>3, <1>4 DEF ChildIn
  <2> QED
    BY <1>1, <1>2, <1>4, <2>1 DEF Ranges
<1>5. CASE k > n
  <2>1. T[n].right = NULL
    BY <1>3, <1>5 DEF ChildIn
  <2> QED
    BY <1>1, <1>2, <1>3, <1>5, <2>1 DEF Ranges
<1> QED
  BY <1>3, <1>4, <1>5

\* The turn of a search that rotates.
LEMMA RotatesTurn ==
  ASSUME NEW lo, NEW hi, NodesOK(tree), Order(tree, lo, hi), NEW t \in Threads, SearchRotates(t),
         SearchAt(tree, l[t], lo, hi)
  PROVE  LET z == l[t].z
             k == l[t].key
             y == ChildIn(tree, z, k)
             x == ChildIn(tree, y, k)
             u == IF (k < z) = (k < y) THEN y ELSE x IN
         \E lo2, hi2 : Turned(tree, lo, hi, tree', lo2, hi2, u, z, l[t].z_par)
<1> DEFINE z == l[t].z
           k == l[t].key
           p == l[t].z_par
           y == ChildIn(tree, z, k)
           x == ChildIn(tree, y, k)
           left1 == k < z
           left2 == k < y
           u == IF left1 = left2 THEN y ELSE x
<1>1. /\ l[t].pc = "search" /\ Restructures(l[t]) /\ y # NULL /\ x # NULL
      /\ Rotates(l[t], x, y, z)
      /\ tree' = CASE left1 /\ left2 -> rotate_right(tree, y, z, p)
                   [] ~left1 /\ ~left2 -> rotate_left(tree, y, z, p)
                   [] left1 /\ ~left2 -> rotate_right(rotate_left(tree, x, y, z), x, z, p)
                   [] ~left1 /\ left2 -> rotate_left(rotate_right(tree, x, y, z), x, z, p)
  BY Zenon DEF SearchRotates, At, get_child, ChildIn
<1>2. z # root
  BY <1>1 DEF Rotates, check_single_rotation, check_double_rotation
<1>3. /\ k \in Keys /\ z \in DOMAIN tree /\ lo[z] < k /\ k < hi[z] /\ ChildOf(tree, z, p)
  BY <1>1, <1>2 DEF SearchAt
<1> HIDE DEF z, k, p
<1>4. /\ k # z /\ ChildOf(tree, y, z) /\ y \in DOMAIN tree /\ lo[y] < k /\ k < hi[y]
      /\ left1 => y = tree[z].left
      /\ ~left1 => y = tree[z].right
  BY <1>1, <1>3, Descend
<1> HIDE DEF y
<1>5. /\ k # y /\ ChildOf(tree, x, y) /\ x \in DOMAIN tree
      /\ left2 => x = tree[y].left
      /\ ~left2 => x = tree[y].right
  BY <1>1, <1>3, <1>4, Descend
<1> HIDE DEF x
<1>6. left1 \in BOOLEAN /\ left2 \in BOOLEAN
  BY DEF left1, left2
<1>7. CASE left1 /\ left2
  <2>1. tree' = rotate_right(tree, y, z, p) /\ u = y /\ y = tree[z].left
    BY <1>1, <1>4, <1>7
  <2>2. PICK lo2, hi2 : Rotated(tree, lo, hi, tree', lo2, hi2, y, z, p)
    BY <1>1, <1>3, <2>1, RotateRight
  <2>3. Turned(tree, lo, hi, tree', lo2, hi2, y, z, p)
    BY <1>3, <1>4, <2>2, SingleTurn
  <2> QED
    BY <2>1, <2>3 DEF z, k, p, y, x
<1>8. CASE ~left1 /\ ~left2
  <2>1. tree' = rotate_left(tree, y, z, p) /\ u = y /\ y = tree[z].right
    BY <1>1, <1>4, <1>8
  <2>2. PICK lo2, hi2 : Rotated(tree, lo, hi, tree', lo2, hi2, y, z, p)
    BY <1>1, <1>3, <2>1, RotateLeft
  <2>3. Turned(tree, lo, hi, tree', lo2, hi2, y, z, p)
    BY <1>3, <1>4, <2>2, SingleTurn
  <2> QED
    BY <2>1, <2>3 DEF z, k, p, y, x
<1>9. z # x /\ z # y /\ p # x /\ p # y /\ p # z
  <2>1. /\ hi[z] - lo[z] < hi[p] - lo[p] /\ hi[y] - lo[y] < hi[z] - lo[z]
        /\ hi[x] - lo[x] < hi[y] - lo[y]
    BY <1>3, <1>4, <1>5, Narrower
  <2>2. /\ lo[p] \in Nat /\ hi[p] \in Nat /\ lo[z] \in Nat /\ hi[z] \in Nat
        /\ lo[y] \in Nat /\ hi[y] \in Nat /\ lo[x] \in Nat /\ hi[x] \in Nat
    BY <1>3, <1>4, <1>5, Narrower
  <2> QED
    BY <2>1, <2>2
<1>10. CASE left1 /\ ~left2
  <2> DEFINE T1 == rotate_left(tree, x, y, z)
  <2>1. tree' = rotate_right(T1, x, z, p) /\ u = x /\ y = tree[z].left /\ x = tree[y].right
    BY <1>1, <1>4, <1>5, <1>10
  <2>2. PICK lo1, hi1 : Rotated(tree, lo, hi, T1, lo1, hi1, x, y, z)
    BY <1>1, <1>4, <2>1, RotateLeft
  <2> HIDE DEF T1
  <2>3. NodesOK(T1) /\ Order(T1, lo1, hi1) /\ T1[z].left = x /\ ChildOf(T1, z, p)
    BY <1>3, <1>9, <2>1, <2>2 DEF Rotated, ChildOf
  <2>4. PICK lo2, hi2 : Rotated(T1, lo1, hi1, tree', lo2, hi2, x, z, p)
    BY <1>1, <2>1, <2>3, RotateRight
  <2>5. Turned(tree, lo, hi, tree', lo2, hi2, x, z, p)
    BY <1>3, <1>4, <1>5, <2>2, <2>4, DoubleTurn
  <2> QED
    BY <2>1, <2>5, Zenon DEF z, k, p, y, x
<1>11. CASE ~left1 /\ left2
  <2> DEFINE T1 == rotate_right(tree, x, y, z)
  <2>1. tree' = rotate_left(T1, x, z, p) /\ u = x /\ y = tree[z].right /\ x = tree[y].left
    BY <1>1, <1>4, <1>5, <1>11
  <2>2. PICK lo1, hi1 : Rotated(tree, lo, hi, T1, lo1, hi1, x, y, z)
    BY <1>1, <1>4, <2>1, RotateRight
  <2> HIDE DEF T1
  <2>3. NodesOK(T1) /\ Order(T1, lo1, hi1) /\ T1[z].right = x /\ ChildOf(T1, z, p)
    BY <1>3, <1>9, <2>1, <2>2 DEF Rotated, ChildOf
  <2>4. PICK lo2, hi2 : Rotated(T1, lo1, hi1, tree', lo2, hi2, x, z, p)
    BY <1>1, <2>1, <2>3, RotateLeft
  <2>5. Turned(tree, lo, hi, tree', lo2, hi2, x, z, p)
    BY <1>3, <1>4, <1>5, <2>2, <2>4, DoubleTurn
  <2> QED
    BY <2>1, <2>5, Zenon DEF z, k, p, y, x
<1> QED
  BY <1>6, <1>7, <1>8, <1>10, <1>11

-----------------------------------------------------------------------------
(* Counting and linking *)

CountedIn(T, S) == [n \in DOMAIN T |-> IF n \in S THEN [T[n] EXCEPT !.w = @ + 1] ELSE T[n]]

\* To count searches does not change the order.
LEMMA CountedOrder ==
  ASSUME NEW T, NEW lo, NEW hi, NodesOK(T), Order(T, lo, hi), NEW S, NEW T2, T2 = CountedIn(T, S)
  PROVE  /\ DOMAIN T2 = DOMAIN T /\ NodesOK(T2) /\ Order(T2, lo, hi)
         /\ \A n \in DOMAIN T : /\ T2[n].value = T[n].value /\ T2[n].left = T[n].left /\ T2[n].right = T[n].right
                                /\ T2[n].w = T[n].w + (IF n \in S THEN 1 ELSE 0)
<1>1. DOMAIN T2 = DOMAIN T /\ T \in [DOMAIN T -> NodeType]
  BY DEF CountedIn, NodesOK
<1>2. ASSUME NEW n \in DOMAIN T
      PROVE  /\ T2[n] \in NodeType
             /\ T2[n].value = T[n].value /\ T2[n].left = T[n].left /\ T2[n].right = T[n].right
             /\ T2[n].w = T[n].w + (IF n \in S THEN 1 ELSE 0)
  <2>1. T[n] \in NodeType
    BY <1>1
  <2>2. T2[n] = IF n \in S THEN [T[n] EXCEPT !.w = @ + 1] ELSE T[n]
    BY DEF CountedIn
  <2>3. CASE n \in S
    BY <2>1, <2>2, <2>3 DEF NodeType
  <2>4. CASE n \notin S
    BY <2>1, <2>2, <2>4 DEF NodeType
  <2> QED
    BY <2>3, <2>4
<1>3. NodesOK(T2)
  <2>1. T2 \in [DOMAIN T2 -> NodeType]
    BY <1>1, <1>2 DEF CountedIn
  <2> QED
    BY <1>1, <1>2, <2>1 DEF NodesOK
<1>4. Left(T2) = Left(T) /\ Right(T2) = Right(T)
  BY <1>1, <1>2 DEF Left, Right
<1> QED
  BY <1>1, <1>2, <1>3, <1>4 DEF Order

\* The weight of a node alone, in the terms of the tree.
LEMMA OwnIn ==
  ASSUME NEW T, NEW lo, NEW hi, NodesOK(T), Order(T, lo, hi), NEW n \in DOMAIN T
  PROVE  /\ Own(Left(T), Right(T), Weights(T), n) = T[n].w - WeightIn(T, T[n].left) - WeightIn(T, T[n].right)
         /\ T[n].w \in Int /\ WeightIn(T, T[n].left) \in Int /\ WeightIn(T, T[n].right) \in Int
<1>1. \A m \in DOMAIN T : Left(T)[m] = T[m].left /\ Right(T)[m] = T[m].right /\ Weights(T)[m] = T[m].w
  BY DEF Left, Right, Weights
<1>2. \A m \in DOMAIN T : T[m].w \in Int
  BY DEF NodesOK, NodeType
<1>3. /\ T[n].left # NULL => T[n].left \in DOMAIN T
      /\ T[n].right # NULL => T[n].right \in DOMAIN T
  BY OrderAt
<1>4. Weight(Weights(T), T[n].left) = WeightIn(T, T[n].left) /\ Weight(Weights(T), T[n].right) = WeightIn(T, T[n].right)
  BY <1>1, <1>3 DEF Weight, WeightIn
<1>5. Own(Left(T), Right(T), Weights(T), n) = T[n].w - Weight(Weights(T), T[n].left) - Weight(Weights(T), T[n].right)
  BY <1>1 DEF Own
<1>6. WeightIn(T, T[n].left) \in Int /\ WeightIn(T, T[n].right) \in Int
  BY <1>2, <1>3 DEF WeightIn
<1> QED
  BY <1>2, <1>4, <1>5, <1>6

\* A search that has counted z and n, which is z or a child of it, is owed one by the parent of z
\* no longer, and by n.
LEMMA CountedOwn ==
  ASSUME NEW T, NEW lo, NEW hi, NodesOK(T), Order(T, lo, hi), NEW z \in DOMAIN T, NEW n,
         n = z \/ ChildOf(T, n, z), NEW T2, T2 = CountedIn(T, {z, n})
  PROVE  \A m \in DOMAIN T :
           Own(Left(T2), Right(T2), Weights(T2), m) =
             Own(Left(T), Right(T), Weights(T), m) + (IF m = n THEN 1 ELSE 0)
                                                   - (IF ChildOf(T, z, m) THEN 1 ELSE 0)
<1>1. /\ DOMAIN T2 = DOMAIN T /\ NodesOK(T2) /\ Order(T2, lo, hi)
      /\ \A m \in DOMAIN T : /\ T2[m].left = T[m].left /\ T2[m].right = T[m].right
                             /\ T2[m].w = T[m].w + (IF m \in {z, n} THEN 1 ELSE 0)
  BY CountedOrder
<1> TAKE m \in DOMAIN T
<1> DEFINE a == T[m].left
           b == T[m].right
           D2 == IF m = z \/ m = n THEN 1 ELSE 0
           A2 == IF a = z \/ a = n THEN 1 ELSE 0
           B2 == IF b = z \/ b = n THEN 1 ELSE 0
<1>2. /\ Own(Left(T2), Right(T2), Weights(T2), m) = T2[m].w - WeightIn(T2, T2[m].left) - WeightIn(T2, T2[m].right)
      /\ Own(Left(T), Right(T), Weights(T), m) = T[m].w - WeightIn(T, a) - WeightIn(T, b)
      /\ T[m].w \in Int /\ WeightIn(T, a) \in Int /\ WeightIn(T, b) \in Int
  BY <1>1, OwnIn
<1>3. n \in DOMAIN T /\ z # NULL /\ n # NULL
  BY OrderAt DEF ChildOf
<1>4. /\ a # NULL => a \in DOMAIN T /\ ChildOf(T, a, m)
      /\ b # NULL => b \in DOMAIN T /\ ChildOf(T, b, m)
      /\ a = b => a = NULL
  BY OrderAt DEF ChildOf
<1>5. WeightIn(T2, a) = WeightIn(T, a) + A2 /\ WeightIn(T2, b) = WeightIn(T, b) + B2
  <2>1. WeightIn(T2, a) = WeightIn(T, a) + A2
    <3>1. CASE a = NULL
      BY <1>3, <3>1 DEF WeightIn
    <3>2. CASE a # NULL
      BY <1>1, <1>4, <3>2 DEF WeightIn
    <3> QED
      BY <3>1, <3>2
  <2>2. WeightIn(T2, b) = WeightIn(T, b) + B2
    <3>1. CASE b = NULL
      BY <1>3, <3>1 DEF WeightIn
    <3>2. CASE b # NULL
      BY <1>1, <1>4, <3>2 DEF WeightIn
    <3> QED
      BY <3>1, <3>2
  <2> QED
    BY <2>1, <2>2
<1>6. D2 - A2 - B2 = (IF m = n THEN 1 ELSE 0) - (IF ChildOf(T, z, m) THEN 1 ELSE 0)
  <2>1. ChildOf(T, z, m) <=> a = z \/ b = z
    BY DEF ChildOf
  <2>2. ChildOf(T, n, m) <=> a = n \/ b = n
    BY <1>3 DEF ChildOf
  <2>3. ~(a = z /\ b = z) /\ ~(a = n /\ b = n)
    BY <1>3, <1>4
  <2>4. ~ChildOf(T, m, m)
    BY ParentAt
  <2>5. CASE n = z
    BY <2>1, <2>3, <2>4, <2>5
  <2>6. CASE n # z
    <3>1. ChildOf(T, n, m) <=> m = z
      BY <2>6, ParentAt
    <3>2. ~(ChildOf(T, z, m) /\ m = z) /\ ~(ChildOf(T, z, m) /\ m = n)
      <4>1. ~ChildOf(T, z, n)
        <5>1. SUFFICES ASSUME ChildOf(T, z, n) PROVE FALSE
          OBVIOUS
        <5>2. hi[z] - lo[z] < hi[n] - lo[n] /\ hi[n] - lo[n] < hi[z] - lo[z]
          BY <2>6, <5>1, Narrower
        <5>3. hi[z] \in Nat /\ lo[z] \in Nat /\ hi[n] \in Nat /\ lo[n] \in Nat
          BY <5>1, Narrower
        <5> QED
          BY <5>2, <5>3
      <4> QED
        BY <2>4, <4>1
    <3>3. CASE m = z
      BY <2>1, <2>2, <2>3, <2>6, <3>1, <3>2, <3>3
    <3>4. CASE m # z
      BY <2>1, <2>2, <2>3, <2>6, <3>1, <3>2, <3>4
    <3> QED
      BY <3>3, <3>4
  <2> QED
    BY <2>5, <2>6
<1>7. Own(Left(T2), Right(T2), Weights(T2), m) = (T[m].w + D2) - (WeightIn(T, a) + A2) - (WeightIn(T, b) + B2)
  BY <1>1, <1>2, <1>5
<1>8. Own(Left(T2), Right(T2), Weights(T2), m) = Own(Left(T), Right(T), Weights(T), m) + (D2 - A2 - B2)
  BY <1>2, <1>7
<1> QED
  BY <1>2, <1>6, <1>8

LinkedIn(T, k, z, t) ==
  LET U == IF k < z THEN [T EXCEPT ![z].left = k] ELSE [T EXCEPT ![z].right = k] IN
  [n \in DOMAIN T \cup {k} |-> IF n = k THEN [NewNode(t) EXCEPT !.w = 1] ELSE U[n]]

\* T2 has the nodes of T and the new node k, which takes its weight from z.
Grown(T, T2, k, z, t) ==
  /\ k \notin DOMAIN T /\ DOMAIN T2 = DOMAIN T \cup {k} /\ NodesOK(T2)
  /\ T2[k].value = t /\ \A n \in DOMAIN T : T2[n].value = T[n].value
  /\ \E lo2, hi2 : Order(T2, lo2, hi2)
  /\ Own(Left(T2), Right(T2), Weights(T2), k) = 1
  /\ \A n \in DOMAIN T :
       Own(Left(T2), Right(T2), Weights(T2), n) =
         Own(Left(T), Right(T), Weights(T), n) - (IF n = z THEN 1 ELSE 0)

\* A new leaf where the search for its key has ended keeps the order, and takes its weight from
\* what its parent is owed.
LEMMA LinkTree ==
  ASSUME NEW T, NEW lo, NEW hi, NodesOK(T), Order(T, lo, hi), NEW z \in DOMAIN T, NEW k \in Keys,
         lo[z] < k, k < hi[z], ChildIn(T, z, k) = NULL, k # z, NEW t \in Threads,
         NEW T2, T2 = LinkedIn(T, k, z, t)
  PROVE  Grown(T, T2, k, z, t)
<1> DEFINE N == DOMAIN T
           U == IF k < z THEN [T EXCEPT ![z].left = k] ELSE [T EXCEPT ![z].right = k]
<1>1. /\ k \notin N /\ k \in Nat /\ z \in Nat /\ k # NULL /\ z # NULL /\ k # root /\ t # NoValue /\ k < max_key
      /\ T \in [N -> NodeType]
  <2>1. k \notin N
    BY NotThere
  <2>2. k \in Nat /\ k # NULL /\ k # root /\ t # NoValue /\ k < max_key
    BY KeysAssumption, ThreadsAssumption DEF NULL, root, NoValue
  <2> QED
    BY <2>1, <2>2, OrderAt DEF NodesOK
<1>2. \A n \in N : T[n].left \in Nat /\ T[n].right \in Nat /\ T[n].w \in Int
  BY <1>1 DEF NodeType
<1>3. /\ U \in [N -> NodeType] /\ \A n \in N : n # z => U[n] = T[n]
      /\ U[z].value = T[z].value /\ U[z].w = T[z].w
      /\ k < z => U[z].left = k /\ U[z].right = T[z].right
      /\ ~(k < z) => U[z].right = k /\ U[z].left = T[z].left
  <2>1. T[z] \in NodeType
    BY <1>1
  <2>2. CASE k < z
    BY <1>1, <1>2, <2>1, <2>2 DEF NodeType
  <2>3. CASE ~(k < z)
    BY <1>1, <1>2, <2>1, <2>3 DEF NodeType
  <2> QED
    BY <2>2, <2>3
<1>4. T2 = [n \in N \cup {k} |-> IF n = k THEN [NewNode(t) EXCEPT !.w = 1] ELSE U[n]]
  BY DEF LinkedIn
<1> HIDE DEF U
<1> DEFINE new == [NewNode(t) EXCEPT !.w = 1]
<1>5. new \in NodeType /\ new.value = t /\ new.left = NULL /\ new.right = NULL /\ new.w = 1
  BY DEF NewNode, NodeType, NULL
<1> HIDE DEF new
<1>6. /\ DOMAIN T2 = N \cup {k} /\ T2[k] = new /\ \A n \in N : T2[n] = U[n]
      /\ T2 \in [N \cup {k} -> NodeType]
  BY <1>1, <1>3, <1>4, <1>5 DEF new
<1>7. T2[k].value = t /\ \A n \in N : T2[n].value = T[n].value
  BY <1>3, <1>5, <1>6
<1>8. NodesOK(T2)
  <2>1. \A n \in N \cup {k} : T2[n].value = NoValue <=> n = root
    BY <1>1, <1>7 DEF NodesOK
  <2> QED
    BY <1>6, <2>1 DEF NodesOK
<1> DEFINE lf == Left(T)
           rt == Right(T)
           lf2 == Left(T2)
           rt2 == Right(T2)
<1>9. /\ \A n \in N : lf[n] = T[n].left /\ rt[n] = T[n].right
      /\ \A n \in N \cup {k} : lf2[n] = T2[n].left /\ rt2[n] = T2[n].right
  BY <1>6 DEF Left, Right
<1>10. Ranges(N, lf, rt, lo, hi) /\ root \in N
  BY DEF Order, NodesOK
<1> HIDE DEF lf, rt, lf2, rt2
<1>11. \E lo2, hi2 : Order(T2, lo2, hi2)
  <2>1. CASE k < z
    <3> DEFINE lo2 == [n \in N \cup {k} |-> IF n = k THEN lo[z] ELSE lo[n]]
               hi2 == [n \in N \cup {k} |-> IF n = k THEN z ELSE hi[n]]
    <3>1. T[z].left = NULL
      BY <1>1, <2>1 DEF ChildIn
    <3>2. LinkedLeft(N, lf, rt, lo, hi, lf2, rt2, z, k)
      BY <1>1, <1>3, <1>5, <1>6, <1>9, <2>1, <3>1 DEF LinkedLeft
    <3>3. Ranges(N \cup {k}, lf2, rt2, lo2, hi2)
      <4>1. lo2[k] = lo[z] /\ hi2[k] = z /\ \A n \in N : lo2[n] = lo[n] /\ hi2[n] = hi[n]
        BY <1>1
      <4> HIDE DEF lo2, hi2, N
      <4> QED
        BY <1>10, <3>2, <4>1, LinkLeft, KeysAssumption
    <3>4. lo2[root] = 0 /\ hi2[root] = Outer
      BY <1>1, <1>10 DEF Order
    <3> HIDE DEF lo2, hi2
    <3>5. Order(T2, lo2, hi2)
      BY <1>6, <3>3, <3>4 DEF Order, lf2, rt2
    <3> QED
      BY <3>5
  <2>2. CASE k > z
    <3> DEFINE lo2 == [n \in N \cup {k} |-> IF n = k THEN z ELSE lo[n]]
               hi2 == [n \in N \cup {k} |-> IF n = k THEN hi[z] ELSE hi[n]]
    <3>1. T[z].right = NULL /\ ~(k < z)
      BY <1>1, <2>2 DEF ChildIn
    <3>2. LinkedRight(N, lf, rt, lo, hi, lf2, rt2, z, k)
      BY <1>1, <1>3, <1>5, <1>6, <1>9, <2>2, <3>1 DEF LinkedRight
    <3>3. Ranges(N \cup {k}, lf2, rt2, lo2, hi2)
      <4>1. lo2[k] = z /\ hi2[k] = hi[z] /\ \A n \in N : lo2[n] = lo[n] /\ hi2[n] = hi[n]
        BY <1>1
      <4> HIDE DEF lo2, hi2, N
      <4> QED
        BY <1>10, <3>2, <4>1, LinkRight, KeysAssumption, SMTT(30)
    <3>4. lo2[root] = 0 /\ hi2[root] = Outer
      BY <1>1, <1>10 DEF Order
    <3> HIDE DEF lo2, hi2
    <3>5. Order(T2, lo2, hi2)
      BY <1>6, <3>3, <3>4 DEF Order, lf2, rt2
    <3> QED
      BY <3>5
  <2> QED
    BY <1>1, <2>1, <2>2
<1>12. PICK lo2, hi2 : Order(T2, lo2, hi2)
  BY <1>11
<1>13. Own(Left(T2), Right(T2), Weights(T2), k) = 1
  <2>1. /\ Own(Left(T2), Right(T2), Weights(T2), k) = T2[k].w - WeightIn(T2, T2[k].left) - WeightIn(T2, T2[k].right)
    BY <1>6, <1>8, <1>12, OwnIn
  <2> QED
    BY <1>5, <1>6, <2>1 DEF WeightIn
<1>14. ASSUME NEW n \in N
       PROVE  Own(Left(T2), Right(T2), Weights(T2), n) =
                Own(Left(T), Right(T), Weights(T), n) - (IF n = z THEN 1 ELSE 0)
  <2>1. /\ Own(Left(T2), Right(T2), Weights(T2), n) = T2[n].w - WeightIn(T2, T2[n].left) - WeightIn(T2, T2[n].right)
        /\ Own(Left(T), Right(T), Weights(T), n) = T[n].w - WeightIn(T, T[n].left) - WeightIn(T, T[n].right)
        /\ T[n].w \in Int /\ WeightIn(T, T[n].left) \in Int /\ WeightIn(T, T[n].right) \in Int
    BY <1>6, <1>8, <1>12, OwnIn
  <2>2. \A m \in N : WeightIn(T2, m) = WeightIn(T, m)
    BY <1>3, <1>6 DEF WeightIn
  <2>3. WeightIn(T2, NULL) = WeightIn(T, NULL) /\ WeightIn(T, NULL) = 0 /\ WeightIn(T2, k) = 1
    BY <1>1, <1>5, <1>6 DEF WeightIn
  <2>4. /\ T[n].left = NULL \/ T[n].left \in N
        /\ T[n].right = NULL \/ T[n].right \in N
    BY OrderAt
  <2>5. /\ WeightIn(T2, T[n].left) = WeightIn(T, T[n].left)
        /\ WeightIn(T2, T[n].right) = WeightIn(T, T[n].right)
    BY <2>2, <2>3, <2>4
  <2>6. CASE n # z
    <3>1. T2[n] = T[n]
      BY <1>3, <1>6, <2>6
    <3> QED
      BY <2>1, <2>5, <2>6, <3>1
  <2>7. CASE n = z /\ k < z
    <3>1. T[z].left = NULL
      BY <1>1, <2>7 DEF ChildIn
    <3>2. T2[n].w = T[n].w /\ T2[n].left = k /\ T2[n].right = T[n].right
      BY <1>3, <1>6, <2>7
    <3> QED
      BY <2>1, <2>3, <2>5, <2>7, <3>1, <3>2
  <2>8. CASE n = z /\ k > z
    <3>1. T[z].right = NULL /\ ~(k < z)
      BY <1>1, <2>8 DEF ChildIn
    <3>2. T2[n].w = T[n].w /\ T2[n].right = k /\ T2[n].left = T[n].left
      BY <1>3, <1>6, <2>8, <3>1
    <3> QED
      BY <2>1, <2>3, <2>5, <2>8, <3>1, <3>2
  <2> QED
    BY <1>1, <2>6, <2>7, <2>8
<1> QED
  BY <1>1, <1>6, <1>7, <1>8, <1>11, <1>13, <1>14 DEF Grown

-----------------------------------------------------------------------------
(* What the steps do to the locals of their thread *)

Others(t) == DOMAIN l' = Threads /\ DOMAIN l'[t] = Fields /\ \A s \in Threads : s # t => l'[s] = l[s]

\* The call goes on.
Walks(t, p, z, z_par, node) ==
  /\ Others(t)
  /\ l'[t].op = l[t].op /\ l'[t].key = l[t].key /\ l'[t].mode = l[t].mode /\ l'[t].inserting = l[t].inserting
  /\ l'[t].pc = p /\ l'[t].z = z /\ l'[t].z_par = z_par /\ l'[t].node = node

\* It begins to insert, ...
Again(t) ==
  /\ Others(t)
  /\ l'[t].op = l[t].op /\ l'[t].key = l[t].key /\ l'[t].mode = "exclusive" /\ l'[t].inserting = TRUE
  /\ l'[t].pc = "enter"

\* ... or has returned.
Gone(t) == Others(t) /\ l'[t].pc = "idle"

\* A call is made.
Begins(t, op, k) ==
  /\ Others(t)
  /\ l'[t].op = op /\ l'[t].key = k /\ l'[t].mode = Mode(t, op)
  /\ l'[t].inserting = (Direct /\ op = "insertIfAbsent")
  /\ l'[t].pc = "enter"

\* The locals a step sets.
LEMMA LocalOthers ==
  ASSUME Shape, NEW t \in Threads, NEW L, Local(t, L), DOMAIN L = Fields
  PROVE  Others(t) /\ l'[t] = L
  BY DEF Shape, Local, Others

\* A search that ends at n.
LEMMA EndedFields ==
  ASSUME Shape, NEW t \in Threads, NEW n, Local(t, EndedAt(l[t], n))
  PROVE  Walks(t, "leave", n, l[t].z_par, IF l[t].key = n THEN n ELSE NULL)
<1> DEFINE L == EndedAt(l[t], n)
           m == IF l[t].key = n THEN n ELSE NULL
<1>1. Local(t, L)
  OBVIOUS
<1> HIDE DEF m
<1>2. /\ DOMAIN L = Fields /\ L.op = l[t].op /\ L.key = l[t].key /\ L.mode = l[t].mode
      /\ L.inserting = l[t].inserting /\ L.pc = "leave" /\ L.z = n /\ L.z_par = l[t].z_par /\ L.node = m
  BY DEF EndedAt, Shape, Fields, m
<1> HIDE DEF L
<1>3. Others(t) /\ l'[t] = L
  BY <1>1, <1>2, LocalOthers
<1> QED
  BY <1>2, <1>3 DEF Walks, m

\* One that goes on at z below z_par.
LEMMA PassedFields ==
  ASSUME Shape, NEW t \in Threads, NEW p, NEW z, NEW z_par,
         Local(t, [l[t] EXCEPT !.pc = p, !.z = z, !.z_par = z_par])
  PROVE  Walks(t, p, z, z_par, l[t].node)
<1> DEFINE L == [l[t] EXCEPT !.pc = p, !.z = z, !.z_par = z_par]
<1>1. Local(t, L)
  OBVIOUS
<1>2. /\ DOMAIN L = Fields /\ L.op = l[t].op /\ L.key = l[t].key /\ L.mode = l[t].mode
      /\ L.inserting = l[t].inserting /\ L.pc = p /\ L.z = z /\ L.z_par = z_par /\ L.node = l[t].node
  BY DEF Shape, Fields
<1> HIDE DEF L
<1>3. Others(t) /\ l'[t] = L
  BY <1>1, <1>2, LocalOthers
<1> QED
  BY <1>2, <1>3 DEF Walks

\* A step that sets some of pc, z and z_par sets all three.
LEMMA SomeFields ==
  ASSUME Shape, NEW t \in Threads
  PROVE  /\ \A z, z_par : l[t].pc = "search" =>
              [l[t] EXCEPT !.z_par = z_par, !.z = z] = [l[t] EXCEPT !.pc = "search", !.z = z, !.z_par = z_par]
         /\ \A z : l[t].pc = "search" =>
              [l[t] EXCEPT !.z = z] = [l[t] EXCEPT !.pc = "search", !.z = z, !.z_par = l[t].z_par]
         /\ [l[t] EXCEPT !.pc = "linked"] = [l[t] EXCEPT !.pc = "linked", !.z = l[t].z, !.z_par = l[t].z_par]
  BY DEF Shape, Fields

\* get_child and w are about the tree of now.
LEMMA TreeOperators ==
  /\ \A n, k : get_child(n, k) = ChildIn(tree, n, k)
  /\ \A n : w(n) = WeightIn(tree, n)
  /\ \A S : Counted(S) = CountedIn(tree, S)
  BY DEF get_child, ChildIn, w, WeightIn, Counted, CountedIn

\* A call takes the lock.
LEMMA EnterStep ==
  ASSUME Shape, NEW t \in Threads, Enter(t)
  PROVE  l[t].pc = "enter" /\ Walks(t, "search", root, NULL, l[t].node)
  BY PassedFields DEF Enter, At

\* What a turn of a search that only reads does.
SearchTurn(t, y, x) ==
  /\ l[t].pc = "search" /\ ~Restructures(l[t])
  /\ y = ChildIn(tree, l[t].z, l[t].key) /\ x = ChildIn(tree, y, l[t].key)
  /\ \/ y = NULL /\ Walks(t, "leave", l[t].z, l[t].z_par, IF l[t].key = l[t].z THEN l[t].z ELSE NULL)
     \/ y # NULL /\ x = NULL /\ Walks(t, "leave", y, l[t].z_par, IF l[t].key = y THEN y ELSE NULL)
     \/ y # NULL /\ x # NULL /\ Walks(t, "search", x, l[t].z_par, l[t].node)

\* It ends or goes down by two nodes.
LEMMA SearchStep ==
  ASSUME Shape, NEW t \in Threads, Search(t)
  PROVE  \E y, x : SearchTurn(t, y, x)
<1> DEFINE y == ChildIn(tree, l[t].z, l[t].key)
           x == ChildIn(tree, y, l[t].key)
<1>1. /\ l[t].pc = "search" /\ ~Restructures(l[t])
      /\ Local(t, IF y = NULL THEN EndedAt(l[t], l[t].z)
                  ELSE IF x = NULL THEN EndedAt(l[t], y)
                  ELSE [l[t] EXCEPT !.z = x])
  BY TreeOperators DEF Search, At
<1> HIDE DEF x, y
<1>2. CASE y = NULL
  BY <1>1, <1>2, EndedFields DEF SearchTurn, x, y
<1>3. CASE y # NULL /\ x = NULL
  BY <1>1, <1>3, EndedFields DEF SearchTurn, x, y
<1>4. CASE y # NULL /\ x # NULL
  <2>1. Local(t, [l[t] EXCEPT !.pc = "search", !.z = x, !.z_par = l[t].z_par])
    BY <1>1, <1>4, SomeFields, Zenon
  <2> QED
    BY <1>1, <1>4, <2>1, PassedFields DEF SearchTurn, x, y
<1> QED
  BY <1>2, <1>3, <1>4

\* The turns of a search that restructures: it ends at n, ...
EndsTurn(t, n) ==
  /\ l[t].pc = "search" /\ Restructures(l[t])
  /\ n = IF ChildIn(tree, l[t].z, l[t].key) = NULL THEN l[t].z ELSE ChildIn(tree, l[t].z, l[t].key)
  /\ ChildIn(tree, n, l[t].key) = NULL
  /\ tree' = CountedIn(tree, {l[t].z, n})
  /\ hits' = IF l[t].inserting /\ l[t].key # n THEN hits ELSE [hits EXCEPT ![n] = @ + 1]
  /\ Walks(t, "leave", n, l[t].z_par, IF l[t].key = n THEN n ELSE NULL)

\* It counts the last nodes.
LEMMA EndsStep ==
  ASSUME Shape, NEW t \in Threads, SearchEnds(t)
  PROVE  \E n : EndsTurn(t, n)
<1> DEFINE n == IF ChildIn(tree, l[t].z, l[t].key) = NULL THEN l[t].z ELSE ChildIn(tree, l[t].z, l[t].key)
<1>1. Local(t, EndedAt(l[t], n))
  BY TreeOperators DEF SearchEnds
<1>2. /\ l[t].pc = "search" /\ Restructures(l[t]) /\ ChildIn(tree, n, l[t].key) = NULL
      /\ tree' = CountedIn(tree, {l[t].z, n})
      /\ hits' = IF l[t].inserting /\ l[t].key # n THEN hits ELSE [hits EXCEPT ![n] = @ + 1]
  BY TreeOperators DEF SearchEnds, At
<1> HIDE DEF n
<1>3. EndsTurn(t, n)
  BY <1>1, <1>2, EndedFields DEF EndsTurn, n
<1> QED
  BY <1>3

\* ... passes y, ...
PassesTurn(t, y, x) ==
  /\ l[t].pc = "search" /\ Restructures(l[t])
  /\ y = ChildIn(tree, l[t].z, l[t].key) /\ x = ChildIn(tree, y, l[t].key) /\ y # NULL /\ x # NULL
  /\ tree' = CountedIn(tree, {l[t].z, y}) /\ hits' = hits
  /\ Walks(t, "search", x, y, l[t].node)

\* It counts two nodes.
LEMMA PassesStep ==
  ASSUME Shape, NEW t \in Threads, SearchPasses(t)
  PROVE  \E y, x : PassesTurn(t, y, x)
<1> DEFINE y == ChildIn(tree, l[t].z, l[t].key)
           x == ChildIn(tree, y, l[t].key)
<1>1. /\ Local(t, [l[t] EXCEPT !.z_par = y, !.z = x])
      /\ l[t].pc = "search" /\ Restructures(l[t]) /\ y # NULL /\ x # NULL
      /\ tree' = CountedIn(tree, {l[t].z, y}) /\ hits' = hits
  BY TreeOperators DEF SearchPasses, At
<1> HIDE DEF x, y
<1>2. Local(t, [l[t] EXCEPT !.pc = "search", !.z = x, !.z_par = y])
  BY <1>1, SomeFields, ZenonT(40)
<1>3. PassesTurn(t, y, x)
  BY <1>1, <1>2, PassedFields DEF PassesTurn, x, y
<1> QED
  BY <1>3

\* ... or rotates: then z is the node that has taken its place.
LEMMA RotatesStep ==
  ASSUME Shape, NEW t \in Threads, SearchRotates(t)
  PROVE  LET z == l[t].z
             k == l[t].key
             y == ChildIn(tree, z, k)
             x == ChildIn(tree, y, k)
             u == IF (k < z) = (k < y) THEN y ELSE x IN
         /\ l[t].pc = "search" /\ Restructures(l[t]) /\ hits' = hits
         /\ Walks(t, "search", u, l[t].z_par, l[t].node)
<1> DEFINE z == l[t].z
           k == l[t].key
           y == ChildIn(tree, z, k)
           x == ChildIn(tree, y, k)
           u == IF (k < z) = (k < y) THEN y ELSE x
<1>1. l[t].pc = "search" /\ Restructures(l[t]) /\ hits' = hits /\ Local(t, [l[t] EXCEPT !.z = u])
  BY TreeOperators DEF SearchRotates, At
<1> HIDE DEF u
<1>2. Local(t, [l[t] EXCEPT !.pc = "search", !.z = u, !.z_par = l[t].z_par])
  BY <1>1, SomeFields, Zenon
<1>3. Walks(t, "search", u, l[t].z_par, l[t].node)
  BY <1>2, PassedFields
<1> QED
  BY <1>1, <1>3 DEF u

\* A new node is linked.
LEMMA LinkStep ==
  ASSUME Shape, NEW t \in Threads, InsertLink(t)
  PROVE  /\ l[t].pc = "leave" /\ l[t].inserting /\ l[t].node = NULL
         /\ tree' = LinkedIn(tree, l[t].key, l[t].z, t)
         /\ hits' = [n \in DOMAIN tree \cup {l[t].key} |-> IF n = l[t].key THEN 1 ELSE hits[n]]
         /\ Walks(t, "linked", l[t].z, l[t].z_par, l[t].node)
<1>1. /\ l[t].pc = "leave" /\ l[t].inserting /\ l[t].node = NULL
      /\ tree' = LinkedIn(tree, l[t].key, l[t].z, t)
      /\ hits' = [n \in DOMAIN tree \cup {l[t].key} |-> IF n = l[t].key THEN 1 ELSE hits[n]]
  BY DEF InsertLink, At, LinkedIn
<1>2. Local(t, [l[t] EXCEPT !.pc = "linked", !.z = l[t].z, !.z_par = l[t].z_par])
  BY SomeFields, Zenon DEF InsertLink
<1> QED
  BY <1>1, <1>2, PassedFields

\* A call returns.
LEMMA ReturnStep ==
  ASSUME Shape, NEW t \in Threads, NEW r, Return(t, r)
  PROVE  Gone(t)
  BY LocalOthers, LocalsFields DEF Return, Gone

\* find ends: the call returns or goes on to insert.
LEMMA FindStep ==
  ASSUME Shape, NEW t \in Threads, FindLeave(t)
  PROVE  /\ l[t].pc = "leave" /\ ~l[t].inserting
         /\ \/ Gone(t)
            \/ l[t].op = "insertIfAbsent" /\ Again(t)
<1>1. l[t].pc = "leave" /\ ~l[t].inserting
  BY DEF FindLeave, At
<1>2. CASE \E r : Return(t, r)
  BY <1>1, <1>2, ReturnStep
<1>3. CASE l[t].op = "insertIfAbsent"
           /\ Local(t, [l[t] EXCEPT !.pc = "enter", !.mode = "exclusive", !.inserting = TRUE])
  <2> DEFINE L == [l[t] EXCEPT !.pc = "enter", !.mode = "exclusive", !.inserting = TRUE]
  <2>1. /\ DOMAIN L = Fields /\ L.op = l[t].op /\ L.key = l[t].key /\ L.mode = "exclusive"
        /\ L.inserting = TRUE /\ L.pc = "enter"
    BY DEF Shape, Fields
  <2>2. Local(t, L)
    BY <1>3
  <2> HIDE DEF L
  <2>3. Others(t) /\ l'[t] = L
    BY <2>1, <2>2, LocalOthers
  <2> QED
    BY <1>1, <1>3, <2>1, <2>3 DEF Again
<1>4. (\E r : Return(t, r)) \/ (l[t].op = "insertIfAbsent"
           /\ Local(t, [l[t] EXCEPT !.pc = "enter", !.mode = "exclusive", !.inserting = TRUE]))
  BY DEF FindLeave
<1> QED
  BY <1>2, <1>3, <1>4

\* A call begins.
LEMMA StartStep ==
  ASSUME Shape, NEW t \in Threads, NEW op, NEW k, Start(t, op, k)
  PROVE  Begins(t, op, k)
<1> DEFINE i == Direct /\ op = "insertIfAbsent"
           L == [Locals EXCEPT !.pc = "enter", !.op = op, !.key = k, !.mode = Mode(t, op), !.inserting = i]
<1>1. Local(t, L)
  BY DEF Start
<1> HIDE DEF i
<1>2. /\ DOMAIN L = Fields /\ L.op = op /\ L.key = k /\ L.mode = Mode(t, op)
      /\ L.inserting = i /\ L.pc = "enter"
  BY DEF Locals, Fields
<1> HIDE DEF L
<1>3. Others(t) /\ l'[t] = L
  BY <1>1, <1>2, LocalOthers
<1> QED
  BY <1>2, <1>3 DEF Begins, i

-----------------------------------------------------------------------------
(* Who is in the tree *)

Known == Variant \in {"concurrent", "fair", "ideal", "sequential"}

\* The calls that main and the threads have still to make.
ClientInv ==
  /\ script \in Seq(Keys)
  /\ plan \in [Threads -> Seq(SUBSET (Allowed(Variant) \X Keys))] /\ plan[0] = <<>>

KeyInv == \A t \in Threads : l[t].pc # "idle" => l[t].key \in Keys /\ l[t].op \in Operations

\* In the ideal tree main inserts while nobody else has started, and then only thread 1
\* restructures.
IdealInv == Variant = "ideal" => \A t \in Threads : l[t].pc # "idle" =>
  /\ t # 0 => script = <<>> /\ l[0].pc = "idle"
  /\ l[t].inserting \in BOOLEAN /\ (l[t].op = "insertIfAbsent" <=> l[t].inserting)
  /\ l[t].inserting => t = 0
  /\ l[t].mode = "exclusive" => t = 1

Calling == Shape /\ Known /\ ClientInv /\ KeyInv /\ IdealInv

Base == Calling /\ (Variant # "ideal" => Inv)

\* Nobody has called yet.
LEMMA BaseInit == Init => Base
<1> SUFFICES ASSUME Init PROVE Base
  OBVIOUS
<1>1. PICK s \in Scripts : Variant = s.variant /\ script = s.prefill /\ plan = s.plan
  BY DEF Init
<1>2. Known /\ ClientInv
  BY <1>1, ScriptsAssumption DEF Known, ClientInv
<1>3. Inv
  BY InvInit
<1>4. \A t \in Threads : l[t].pc = "idle"
  BY DEF Init, Locals
<1> QED
  BY <1>2, <1>3, <1>4 DEF Base, Calling, KeyInv, IdealInv, Inv

\* A step inside a call.
LEMMA StepCalling ==
  ASSUME Calling, NEW t \in Threads, l[t].pc # "idle", UNCHANGED <<Variant, script, plan>>,
         \/ \E p, z, z_par, node : Walks(t, p, z, z_par, node)
         \/ Gone(t)
         \/ l[t].op = "insertIfAbsent" /\ ~l[t].inserting /\ Again(t)
  PROVE  Calling'
<1>1. Others(t)
  BY DEF Walks, Gone, Again
<1>2. Shape' /\ Known' /\ ClientInv'
  BY <1>1 DEF Calling, Shape, Known, ClientInv, Others
<1>3. \/ l'[t].pc = "idle"
      \/ /\ l'[t].op = l[t].op /\ l'[t].key = l[t].key
         /\ Variant = "ideal" => l'[t].mode = l[t].mode /\ l'[t].inserting = l[t].inserting
  BY DEF Walks, Gone, Again, Calling, IdealInv
<1>4. KeyInv'
  BY <1>1, <1>3 DEF Calling, KeyInv, Others
<1>5. IdealInv'
  <2> SUFFICES ASSUME Variant = "ideal", NEW s \in Threads, l'[s].pc # "idle"
               PROVE  /\ s # 0 => script = <<>> /\ l'[0].pc = "idle"
                      /\ l'[s].inserting \in BOOLEAN /\ (l'[s].op = "insertIfAbsent" <=> l'[s].inserting)
                      /\ l'[s].inserting => s = 0
                      /\ l'[s].mode = "exclusive" => s = 1
    BY DEF IdealInv
  <2>1. /\ l[s].pc # "idle" /\ l'[s].op = l[s].op
        /\ l'[s].mode = l[s].mode /\ l'[s].inserting = l[s].inserting
    BY <1>1, <1>3 DEF Others
  <2>2. s # 0 => script = <<>> /\ l[0].pc = "idle"
    BY <2>1 DEF Calling, IdealInv
  <2>3. 0 \in Threads
    BY ThreadsAssumption
  <2>4. s # 0 => l'[0].pc = "idle"
    BY <1>1, <2>2, <2>3 DEF Others
  <2> QED
    BY <2>1, <2>2, <2>4 DEF Calling, IdealInv
<1> QED
  BY <1>2, <1>4, <1>5 DEF Calling

\* A new call.
LEMMA BeginCalling ==
  ASSUME Calling, NEW t \in Threads, Prefill(t) \/ Invoke(t)
  PROVE  Calling'
<1>1. l[t].pc = "idle" /\ Variant' = Variant
  BY DEF Prefill, Invoke, At, Start, build
<1>2. PICK op \in Operations, k \in Keys :
        /\ Start(t, op, k)
        /\ Variant = "ideal" => (op = "insertIfAbsent" <=> t = 0)
        /\ t # 0 => script = <<>> /\ l[0].pc = "idle"
        /\ t = 0 => script # <<>>
        /\ ClientInv'
  <2>1. CASE Prefill(t)
    <3>1. /\ t = 0 /\ script # <<>> /\ Start(t, "insertIfAbsent", Head(script))
          /\ script' = Tail(script) /\ plan' = plan
      BY <2>1 DEF Prefill
    <3>2. Head(script) \in Keys /\ Tail(script) \in Seq(Keys)
      BY <3>1 DEF Calling, ClientInv
    <3>3. ClientInv'
      BY <1>1, <3>1, <3>2 DEF Calling, ClientInv
    <3> QED
      BY <3>1, <3>2, <3>3 DEF Operations
  <2>2. CASE Invoke(t)
    <3>1. /\ plan[t] # <<>> /\ script = <<>> /\ l[0].pc = "idle"
          /\ plan' = [plan EXCEPT ![t] = Tail(@)] /\ script' = script
      BY <2>2 DEF Invoke, Filled, At
    <3>2. PICK o \in Head(plan[t]) : Start(t, o[1], o[2])
      BY <2>2 DEF Invoke
    <3> DEFINE A == SUBSET (Allowed(Variant) \X Keys)
    <3>3. plan[t] \in Seq(A) /\ t # 0
      BY <3>1 DEF Calling, ClientInv
    <3> HIDE DEF A
    <3>4. Head(plan[t]) \in A /\ Tail(plan[t]) \in Seq(A)
      BY <3>1, <3>3
    <3>5. o \in Allowed(Variant) \X Keys
      BY <3>4 DEF A
    <3>6. o[1] \in Allowed(Variant) /\ o[2] \in Keys
      BY <3>5
    <3>7. plan \in [Threads -> Seq(A)] /\ plan[0] = <<>>
      BY DEF Calling, ClientInv, A
    <3>8. plan' \in [Threads -> Seq(A)] /\ plan'[0] = <<>>
      BY <3>1, <3>3, <3>4, <3>7
    <3>9. ClientInv'
      BY <1>1, <3>1, <3>8 DEF Calling, ClientInv, A
    <3> QED
      BY <3>1, <3>2, <3>3, <3>6, <3>9 DEF Allowed, Operations
  <2> QED
    BY <2>1, <2>2
<1>3. Begins(t, op, k)
  BY <1>2, StartStep DEF Calling
<1>4. /\ Others(t) /\ l'[t].op = op /\ l'[t].key = k /\ l'[t].mode = Mode(t, op)
      /\ l'[t].inserting = (Direct /\ op = "insertIfAbsent")
      /\ l'[t].pc = "enter"
  BY <1>3 DEF Begins
<1>5. Shape' /\ Known'
  BY <1>1, <1>4 DEF Calling, Shape, Known, Others
<1>6. KeyInv'
  BY <1>2, <1>4 DEF Calling, KeyInv, Others
<1>7. IdealInv'
  <2> SUFFICES ASSUME Variant = "ideal", NEW s \in Threads, l'[s].pc # "idle"
               PROVE  /\ s # 0 => script' = <<>> /\ l'[0].pc = "idle"
                      /\ l'[s].inserting \in BOOLEAN /\ (l'[s].op = "insertIfAbsent" <=> l'[s].inserting)
                      /\ l'[s].inserting => s = 0
                      /\ l'[s].mode = "exclusive" => s = 1
    BY <1>1 DEF IdealInv
  <2>1. 0 \in Threads
    BY ThreadsAssumption
  <2>2. t # 0 => script' = script
    BY DEF Prefill, Invoke
  <2>3. CASE s = t
    <3>1. Direct
      BY DEF Direct
    <3>2. Mode(t, op) = "exclusive" => t = 1
      BY <1>2 DEF Mode
    <3> QED
      BY <1>2, <1>4, <2>1, <2>2, <2>3, <3>1, <3>2 DEF Others
  <2>4. CASE s # t
    <3>1. l'[s] = l[s]
      BY <1>4, <2>4 DEF Others
    <3>2. /\ s # 0 => script = <<>> /\ l[0].pc = "idle"
          /\ l[s].inserting \in BOOLEAN /\ (l[s].op = "insertIfAbsent" <=> l[s].inserting)
          /\ l[s].inserting => s = 0
          /\ l[s].mode = "exclusive" => s = 1
      BY <3>1 DEF Calling, IdealInv
    <3>3. s # 0 => t # 0
      BY <1>2, <3>2
    <3>4. s # 0 => script' = <<>> /\ l'[0].pc = "idle"
      BY <1>4, <2>1, <2>2, <3>2, <3>3 DEF Others
    <3> QED
      BY <3>1, <3>2, <3>4
  <2> QED
    BY <2>3, <2>4
<1> QED
  BY <1>2, <1>5, <1>6, <1>7 DEF Calling

\* The steps that do neither.
LEMMA IdleCalling ==
  ASSUME Calling, UNCHANGED <<Variant, l, script, plan>>
  PROVE  Calling'
  BY DEF Calling, Shape, Known, ClientInv, KeyInv, IdealInv

\* The turns of a search and the other steps inside a call leave the client alone.
LEMMA StepKinds ==
  ASSUME Shape, NEW t \in Threads, Step(t)
  PROVE  /\ l[t].pc # "idle" /\ UNCHANGED <<Variant, script, plan>>
         /\ \/ \E p, z, z_par, node : Walks(t, p, z, z_par, node)
            \/ Gone(t)
            \/ l[t].op = "insertIfAbsent" /\ ~l[t].inserting /\ Again(t)
<1>1. Variant' = Variant
  BY DEF Step, build
<1>2. CASE Enter(t)
  BY <1>1, <1>2, EnterStep DEF Enter, client
<1>3. CASE Search(t)
  <2>1. PICK y, x : SearchTurn(t, y, x)
    BY <1>3, SearchStep
  <2> QED
    BY <1>1, <1>3, <2>1 DEF Search, client, SearchTurn
<1>4. CASE SearchEnds(t)
  <2>1. PICK n : EndsTurn(t, n)
    BY <1>4, EndsStep
  <2> QED
    BY <1>1, <1>4, <2>1 DEF SearchEnds, client, EndsTurn
<1>5. CASE SearchPasses(t)
  <2>1. PICK y, x : PassesTurn(t, y, x)
    BY <1>5, PassesStep
  <2> QED
    BY <1>1, <1>5, <2>1 DEF SearchPasses, client, PassesTurn
<1>6. CASE SearchRotates(t)
  <2>1. UNCHANGED client
    BY <1>6 DEF SearchRotates
  <2> QED
    BY <1>1, <1>6, <2>1, RotatesStep DEF client
<1>7. CASE FindLeave(t)
  <2>1. UNCHANGED <<script, plan>>
    BY <1>7 DEF FindLeave, Return, client
  <2> QED
    BY <1>1, <1>7, <2>1, FindStep
<1>8. CASE InsertFound(t)
  BY <1>1, <1>8, ReturnStep DEF InsertFound, Return, At
<1>9. CASE InsertLink(t)
  <2>1. UNCHANGED <<script, plan>>
    BY <1>9 DEF InsertLink
  <2> QED
    BY <1>1, <1>9, <2>1, LinkStep
<1>10. CASE InsertLeave(t)
  BY <1>1, <1>10, ReturnStep DEF InsertLeave, Return, At
<1> QED
  BY <1>2, <1>3, <1>4, <1>5, <1>6, <1>7, <1>8, <1>9, <1>10 DEF Step

\* Every step keeps the invariant.
LEMMA BaseNext == ASSUME Base, [Next]_vars PROVE Base'
<1>1. Calling'
  <2>1. ASSUME NEW t \in Threads, Prefill(t) \/ Invoke(t) PROVE Calling'
    BY <2>1, BeginCalling DEF Base
  <2>2. ASSUME NEW t \in Threads, warmupEnd(t) PROVE Calling'
    BY <2>2, IdleCalling DEF Base, warmupEnd, build, client
  <2>3. ASSUME NEW t \in Threads, Step(t) PROVE Calling'
    <3>1. Shape
      BY DEF Base, Calling
    <3> QED
      BY <2>3, <3>1, StepKinds, StepCalling DEF Base
  <2>4. CASE UNCHANGED vars
    BY <2>4, IdleCalling DEF Base, vars, build, client
  <2> QED
    BY <2>1, <2>2, <2>3, <2>4 DEF Next, Joined
<1>2. Variant # "ideal" => Inv'
  BY InvNext DEF Base, Calling, Known, Locked
<1> QED
  BY <1>1, <1>2, SameTree DEF Base

Restructuring(t) == InTree(t) /\ Restructures(l[t])

\* The threads whose searches nobody disturbs.
Guarded(t) == Restructuring(t) \/ (Variant # "ideal" /\ InTree(t))

\* A thread that restructures disturbs nobody else.
LEMMA OthersOut ==
  ASSUME Base, NEW s \in Threads, NEW t \in Threads, Restructuring(t), Guarded(s)
  PROVE  s = t
<1>1. CASE Variant = "ideal"
  <2>1. Restructuring(s)
    BY <1>1 DEF Guarded
  <2>2. /\ l[s].pc # "idle" /\ l[t].pc # "idle"
        /\ l[s].mode = "exclusive" \/ l[s].inserting
        /\ l[t].mode = "exclusive" \/ l[t].inserting
    BY <2>1 DEF Restructuring, InTree, Restructures
  <2>3. /\ s # 0 => l[0].pc = "idle"
        /\ t # 0 => l[0].pc = "idle"
        /\ s = 0 \/ s = 1
        /\ t = 0 \/ t = 1
    BY <1>1, <2>2 DEF Base, Calling, IdealInv
  <2> QED
    BY <2>2, <2>3
<1>2. CASE Variant # "ideal"
  <2>1. InTree(s) /\ InTree(t) /\ Restructures(l[t])
    BY DEF Guarded, Restructuring
  <2>2. Alone
    BY <1>2, InvAlone DEF Base
  <2> QED
    BY <1>2, <2>1, <2>2 DEF Alone
<1> QED
  BY <1>1, <1>2

-----------------------------------------------------------------------------
(* The order of the tree and the searches, and the weights *)

Searching(lo, hi) == \A t \in Threads : Guarded(t) => SearchAt(tree, l[t], lo, hi)

\* The tree is a search tree, and every search that nobody disturbs is where its key belongs.
TreeInv == NodesOK(tree) /\ \E lo, hi : Order(tree, lo, hi) /\ Searching(lo, hi)

\* A search that has counted itself at n has still to count itself, or a new node, below n.
OwedBy(L, n) ==
  \/ L.pc = "search" /\ Restructures(L) /\ n = L.z_par
  \/ L.pc = "leave" /\ L.inserting /\ L.node = NULL /\ n = L.z

Owed(n) == \E t \in Threads : OwedBy(l[t], n)

\* The weight of a node alone is the number of searches that ended there, and one more for a
\* search that is on its way below it.
CountInv ==
  /\ hits \in [DOMAIN tree -> Nat]
  /\ \A n \in DOMAIN tree :
       Own(Left(tree), Right(tree), Weights(tree), n) = hits[n] + (IF Owed(n) THEN 1 ELSE 0)

Ordered(lo, hi) == Base /\ NodesOK(tree) /\ Order(tree, lo, hi) /\ Searching(lo, hi) /\ CountInv

\* What a step that leaves the tree alone has to show: its thread is still where its key
\* belongs, ...
LEMMA KeepTree ==
  ASSUME NEW lo, NEW hi, Ordered(lo, hi), NEW t \in Threads, Others(t), Variant' = Variant, tree' = tree,
         Guarded(t)' => SearchAt(tree, l'[t], lo, hi)
  PROVE  TreeInv'
<1>1. ASSUME NEW s \in Threads, Guarded(s)' PROVE SearchAt(tree, l'[s], lo, hi)
  <2>1. CASE s = t
    BY <1>1, <2>1
  <2>2. CASE s # t
    <3>1. l'[s] = l[s]
      BY <2>2 DEF Others
    <3>2. Guarded(s)
      BY <1>1, <3>1 DEF Guarded, Restructuring, InTree
    <3> QED
      BY <3>1, <3>2 DEF Ordered, Searching
  <2> QED
    BY <2>1, <2>2
<1>2. Searching(lo, hi)'
  BY <1>1 DEF Searching
<1>3. NodesOK(tree') /\ Order(tree', lo, hi)
  BY DEF Ordered
<1> QED
  BY <1>2, <1>3 DEF TreeInv

\* ... and still has the same to count.
LEMMA KeepCount ==
  ASSUME CountInv, NEW t \in Threads, Others(t), tree' = tree, hits' = hits,
         \A n \in DOMAIN tree : OwedBy(l'[t], n) <=> OwedBy(l[t], n)
  PROVE  CountInv'
<1>1. ASSUME NEW n \in DOMAIN tree PROVE Owed(n)' <=> Owed(n)
  <2>1. \A s \in Threads : OwedBy(l'[s], n) <=> OwedBy(l[s], n)
    BY DEF Others
  <2> QED
    BY <2>1 DEF Owed
<1> QED
  BY <1>1 DEF CountInv

\* What a step that changes the tree has to show: it is a search tree, in which its thread is
\* where its key belongs, ...
LEMMA ChangeTree ==
  ASSUME Base, NEW t \in Threads, Restructuring(t), Others(t), Variant' = Variant,
         NEW lo, NEW hi, NodesOK(tree'), Order(tree', lo, hi), SearchAt(tree', l'[t], lo, hi)
  PROVE  TreeInv'
<1>1. ASSUME NEW s \in Threads, Guarded(s)' PROVE s = t
  <2> SUFFICES ASSUME s # t PROVE FALSE
    OBVIOUS
  <2>1. l'[s] = l[s]
    BY DEF Others
  <2>2. Guarded(s)
    BY <1>1, <2>1 DEF Guarded, Restructuring, InTree
  <2> QED
    BY <2>2, OthersOut
<1>2. Searching(lo, hi)'
  BY <1>1 DEF Searching
<1> QED
  BY <1>2 DEF TreeInv

\* ... and the weights are what it has counted.
LEMMA ChangeCount ==
  ASSUME Base, NEW t \in Threads, Restructuring(t), Others(t)
  PROVE  \A n : (Owed(n) <=> OwedBy(l[t], n)) /\ (Owed(n)' <=> OwedBy(l'[t], n))
<1> SUFFICES ASSUME NEW n PROVE (Owed(n) <=> OwedBy(l[t], n)) /\ (Owed(n)' <=> OwedBy(l'[t], n))
  OBVIOUS
<1>1. ASSUME NEW s \in Threads, OwedBy(l[s], n) PROVE s = t
  <2>1. Guarded(s)
    BY <1>1 DEF OwedBy, Guarded, Restructuring, InTree, Restructures
  <2> QED
    BY <2>1, OthersOut
<1>2. ASSUME NEW s \in Threads, OwedBy(l'[s], n) PROVE s = t
  <2> SUFFICES ASSUME s # t PROVE FALSE
    OBVIOUS
  <2>1. OwedBy(l[s], n)
    BY <1>2 DEF Others
  <2> QED
    BY <1>1, <2>1
<1> QED
  BY <1>1, <1>2 DEF Owed

\* A step out of the tree.
LEMMA OutStep ==
  ASSUME NEW lo, NEW hi, Ordered(lo, hi), NEW t \in Threads, Others(t), Variant' = Variant,
         tree' = tree, hits' = hits, l'[t].pc \in {"idle", "enter"}, \A n \in DOMAIN tree : ~OwedBy(l[t], n)
  PROVE  TreeInv' /\ CountInv'
<1>1. ~Guarded(t)'
  BY DEF Guarded, Restructuring, InTree
<1>2. \A n \in DOMAIN tree : ~OwedBy(l'[t], n)
  BY DEF OwedBy
<1> QED
  BY <1>1, <1>2, KeepTree, KeepCount DEF Ordered

\* A step into the tree.
LEMMA EnterOrdered ==
  ASSUME NEW lo, NEW hi, Ordered(lo, hi), NEW t \in Threads, Enter(t), Variant' = Variant
  PROVE  TreeInv' /\ CountInv'
<1>1. l[t].pc = "enter" /\ Walks(t, "search", root, NULL, l[t].node)
  BY EnterStep DEF Ordered, Base, Calling
<1>2. tree' = tree /\ hits' = hits
  BY DEF Enter
<1>3. /\ Others(t) /\ l'[t].key = l[t].key /\ l'[t].pc = "search" /\ l'[t].z = root /\ l'[t].z_par = NULL
  BY <1>1 DEF Walks
<1>4. l[t].key \in Keys /\ root \in DOMAIN tree /\ lo[root] = 0 /\ hi[root] = Outer
  BY <1>1 DEF Ordered, Base, Calling, KeyInv, NodesOK, Order
<1>5. 0 < l[t].key /\ l[t].key < Outer
  <2>1. \A k \in Keys : k \in Nat /\ k # 0 /\ k < max_key /\ max_key \in Nat
    BY KeysAssumption
  <2>2. \A k \in Keys : 0 < k /\ k < max_key + 1
    BY <2>1
  <2> QED
    BY <1>4, <2>2 DEF Outer
<1>6. SearchAt(tree, l'[t], lo, hi)
  BY <1>3, <1>4, <1>5 DEF SearchAt
<1>7. \A n \in DOMAIN tree : n # NULL
  BY OrderAt DEF Ordered
<1>8. \A n \in DOMAIN tree : OwedBy(l'[t], n) <=> OwedBy(l[t], n)
  BY <1>1, <1>3, <1>7 DEF OwedBy
<1> QED
  BY <1>2, <1>3, <1>6, <1>8, KeepTree, KeepCount DEF Ordered

\* A turn of a search that only reads: the key stays in the range of z.
LEMMA SearchOrdered ==
  ASSUME NEW lo, NEW hi, Ordered(lo, hi), NEW t \in Threads, Search(t), Variant' = Variant
  PROVE  TreeInv' /\ CountInv'
<1>1. PICK y, x : SearchTurn(t, y, x)
  BY SearchStep DEF Ordered, Base, Calling
<1>2. tree' = tree /\ hits' = hits
  BY DEF Search
<1> DEFINE k == l[t].key
           z == l[t].z
<1>3. /\ l[t].pc = "search" /\ ~Restructures(l[t]) /\ Others(t)
      /\ l'[t].key = k /\ l'[t].mode = l[t].mode /\ l'[t].inserting = l[t].inserting
      /\ l'[t].pc \in {"search", "leave"}
  BY <1>1 DEF SearchTurn, Walks
<1>4. ~Restructures(l'[t])
  BY <1>3 DEF Restructures
<1>5. ASSUME Guarded(t)' PROVE SearchAt(tree, l'[t], lo, hi)
  <2>1. Variant # "ideal" /\ Guarded(t)
    BY <1>3, <1>4, <1>5 DEF Guarded, Restructuring, InTree
  <2>2. SearchAt(tree, l[t], lo, hi)
    BY <2>1 DEF Ordered, Searching
  <2>3. k \in Keys /\ z \in DOMAIN tree /\ lo[z] < k /\ k < hi[z] /\ NodesOK(tree) /\ Order(tree, lo, hi)
    BY <1>3, <2>2 DEF SearchAt, Ordered
  <2>4. y = ChildIn(tree, z, k) /\ x = ChildIn(tree, y, k)
    BY <1>1 DEF SearchTurn
  <2>5. y # NULL => y \in DOMAIN tree /\ lo[y] < k /\ k < hi[y]
    BY <2>3, <2>4, Descend
  <2>6. y # NULL /\ x # NULL => x \in DOMAIN tree /\ lo[x] < k /\ k < hi[x]
    BY <2>3, <2>4, <2>5, Descend
  <2> HIDE DEF k, z
  <2>7. CASE y = NULL
    <3>1. l'[t].pc = "leave" /\ l'[t].z = z /\ l'[t].node = (IF k = z THEN z ELSE NULL)
      BY <1>1, <2>7 DEF SearchTurn, Walks, k, z
    <3> QED
      BY <1>3, <1>4, <2>3, <2>4, <2>7, <3>1 DEF SearchAt
  <2>8. CASE y # NULL /\ x = NULL
    <3>1. l'[t].pc = "leave" /\ l'[t].z = y /\ l'[t].node = (IF k = y THEN y ELSE NULL)
      BY <1>1, <2>8 DEF SearchTurn, Walks, k, z
    <3> QED
      BY <1>3, <1>4, <2>3, <2>4, <2>5, <2>8, <3>1 DEF SearchAt
  <2>9. CASE y # NULL /\ x # NULL
    <3>1. l'[t].pc = "search" /\ l'[t].z = x
      BY <1>1, <2>9 DEF SearchTurn, Walks, k, z
    <3> QED
      BY <1>3, <1>4, <2>3, <2>6, <2>9, <3>1 DEF SearchAt
  <2> QED
    BY <2>7, <2>8, <2>9
<1>6. \A n \in DOMAIN tree : OwedBy(l'[t], n) <=> OwedBy(l[t], n)
  BY <1>3, <1>4 DEF OwedBy, Restructures
<1> QED
  BY <1>2, <1>3, <1>5, <1>6, KeepTree, KeepCount DEF Ordered

\* Where a restructuring search is: below z_par, which is what it owes.
LEMMA AtParent ==
  ASSUME NEW lo, NEW hi, Ordered(lo, hi), NEW t \in Threads, l[t].pc = "search", Restructures(l[t])
  PROVE  /\ Restructuring(t) /\ SearchAt(tree, l[t], lo, hi)
         /\ l[t].key \in Keys /\ l[t].z \in DOMAIN tree /\ lo[l[t].z] < l[t].key /\ l[t].key < hi[l[t].z]
         /\ \A n \in DOMAIN tree : /\ ChildOf(tree, l[t].z, n) <=> n = l[t].z_par
                                   /\ OwedBy(l[t], n) <=> n = l[t].z_par
<1>1. Restructuring(t) /\ SearchAt(tree, l[t], lo, hi)
  BY DEF Restructuring, InTree, Guarded, Ordered, Searching
<1>2. /\ l[t].key \in Keys /\ l[t].z \in DOMAIN tree /\ lo[l[t].z] < l[t].key /\ l[t].key < hi[l[t].z]
      /\ (l[t].z = root /\ l[t].z_par = NULL) \/ (l[t].z # root /\ ChildOf(tree, l[t].z, l[t].z_par))
  BY <1>1 DEF SearchAt
<1>3. ASSUME NEW n \in DOMAIN tree PROVE ChildOf(tree, l[t].z, n) <=> n = l[t].z_par
  <2>1. CASE l[t].z = root /\ l[t].z_par = NULL
    BY <2>1, ParentAt, OrderAt DEF Ordered
  <2>2. CASE l[t].z # root /\ ChildOf(tree, l[t].z, l[t].z_par)
    BY <2>2, ParentAt DEF Ordered
  <2> QED
    BY <1>2, <2>1, <2>2
<1>4. \A n \in DOMAIN tree : OwedBy(l[t], n) <=> n = l[t].z_par
  BY DEF OwedBy
<1> QED
  BY <1>1, <1>2, <1>3, <1>4

\* A restructuring search ends.
LEMMA EndsOrdered ==
  ASSUME NEW lo, NEW hi, Ordered(lo, hi), NEW t \in Threads, SearchEnds(t), Variant' = Variant
  PROVE  TreeInv' /\ CountInv'
<1>1. PICK n : EndsTurn(t, n)
  BY EndsStep DEF Ordered, Base, Calling
<1> DEFINE k == l[t].key
           z == l[t].z
<1>2. /\ l[t].pc = "search" /\ Restructures(l[t]) /\ ChildIn(tree, n, k) = NULL
      /\ n = IF ChildIn(tree, z, k) = NULL THEN z ELSE ChildIn(tree, z, k)
      /\ tree' = CountedIn(tree, {z, n})
      /\ hits' = IF l[t].inserting /\ k # n THEN hits ELSE [hits EXCEPT ![n] = @ + 1]
      /\ Walks(t, "leave", n, l[t].z_par, IF k = n THEN n ELSE NULL)
  BY <1>1 DEF EndsTurn
<1>3. /\ Restructuring(t) /\ k \in Keys /\ z \in DOMAIN tree /\ lo[z] < k /\ k < hi[z]
      /\ \A m \in DOMAIN tree : /\ ChildOf(tree, z, m) <=> m = l[t].z_par
                                /\ OwedBy(l[t], m) <=> m = l[t].z_par
  BY <1>2, AtParent
<1>4. Base /\ NodesOK(tree) /\ Order(tree, lo, hi) /\ CountInv
  BY DEF Ordered
<1>5. n \in DOMAIN tree /\ lo[n] < k /\ k < hi[n] /\ (n = z \/ ChildOf(tree, n, z))
  BY <1>2, <1>3, <1>4, Descend
<1>6. /\ DOMAIN tree' = DOMAIN tree /\ NodesOK(tree') /\ Order(tree', lo, hi)
      /\ \A m \in DOMAIN tree : tree'[m].left = tree[m].left /\ tree'[m].right = tree[m].right
  BY <1>2, <1>4, CountedOrder
<1>7. \A m \in DOMAIN tree :
        Own(Left(tree'), Right(tree'), Weights(tree'), m) =
          Own(Left(tree), Right(tree), Weights(tree), m) + (IF m = n THEN 1 ELSE 0)
                                                - (IF ChildOf(tree, z, m) THEN 1 ELSE 0)
  BY <1>2, <1>3, <1>4, <1>5, CountedOwn
<1> HIDE DEF k, z
<1>8. /\ Others(t) /\ l'[t].key = k /\ l'[t].mode = l[t].mode /\ l'[t].inserting = l[t].inserting
      /\ l'[t].pc = "leave" /\ l'[t].z = n /\ l'[t].node = (IF k = n THEN n ELSE NULL)
  BY <1>2 DEF Walks, k, z
<1>9. TreeInv'
  <2>1. ChildIn(tree', n, k) = NULL
    BY <1>2, <1>5, <1>6, Zenon DEF ChildIn
  <2>2. SearchAt(tree', l'[t], lo, hi)
    BY <1>3, <1>5, <1>6, <1>8, <2>1 DEF SearchAt
  <2> QED
    BY <1>3, <1>4, <1>6, <1>8, <2>2, ChangeTree
<1>10. CountInv'
  <2>1. n # NULL
    BY <1>4, <1>5, OrderAt
  <2>2. \A m : OwedBy(l'[t], m) <=> (l[t].inserting /\ k # n /\ m = n)
    BY <1>8, <2>1 DEF OwedBy
  <2>3. \A m \in DOMAIN tree : (Owed(m) <=> m = l[t].z_par) /\ (Owed(m)' <=> (l[t].inserting /\ k # n /\ m = n))
    BY <1>3, <1>4, <1>8, <2>2, ChangeCount
  <2>4. /\ hits \in [DOMAIN tree -> Nat]
        /\ \A m \in DOMAIN tree :
             Own(Left(tree), Right(tree), Weights(tree), m) = hits[m] + (IF Owed(m) THEN 1 ELSE 0)
    BY <1>4 DEF CountInv
  <2>5. /\ hits' \in [DOMAIN tree -> Nat]
        /\ \A m \in DOMAIN tree :
             hits'[m] = hits[m] + (IF ~(l[t].inserting /\ k # n) /\ m = n THEN 1 ELSE 0)
    <3>1. CASE l[t].inserting /\ k # n
      BY <1>2, <2>4, <3>1 DEF k
    <3>2. CASE ~(l[t].inserting /\ k # n)
      <4>1. hits' = [hits EXCEPT ![n] = @ + 1]
        BY <1>2, <3>2 DEF k
      <4> QED
        BY <1>5, <2>4, <3>2, <4>1
    <3> QED
      BY <3>1, <3>2
  <2>6. ASSUME NEW m \in DOMAIN tree
        PROVE  Own(Left(tree'), Right(tree'), Weights(tree'), m) = hits'[m] + (IF Owed(m)' THEN 1 ELSE 0)
    <3>1. Own(Left(tree'), Right(tree'), Weights(tree'), m) =
            hits[m] + (IF m = l[t].z_par THEN 1 ELSE 0) + (IF m = n THEN 1 ELSE 0)
                    - (IF m = l[t].z_par THEN 1 ELSE 0)
      BY <1>3, <1>7, <2>3, <2>4 DEF z
    <3>2. hits[m] \in Nat
      BY <2>4
    <3>3. Own(Left(tree'), Right(tree'), Weights(tree'), m) = hits[m] + (IF m = n THEN 1 ELSE 0)
      BY <3>1, <3>2
    <3> QED
      BY <2>3, <2>5, <3>2, <3>3
  <2> QED
    BY <1>6, <2>5, <2>6 DEF CountInv
<1> QED
  BY <1>9, <1>10

\* It passes two nodes.
LEMMA PassesOrdered ==
  ASSUME NEW lo, NEW hi, Ordered(lo, hi), NEW t \in Threads, SearchPasses(t), Variant' = Variant
  PROVE  TreeInv' /\ CountInv'
<1>1. PICK y, x : PassesTurn(t, y, x)
  BY PassesStep DEF Ordered, Base, Calling
<1> DEFINE k == l[t].key
           z == l[t].z
<1>2. /\ l[t].pc = "search" /\ Restructures(l[t])
      /\ y = ChildIn(tree, z, k) /\ x = ChildIn(tree, y, k) /\ y # NULL /\ x # NULL
      /\ tree' = CountedIn(tree, {z, y}) /\ hits' = hits
      /\ Walks(t, "search", x, y, l[t].node)
  BY <1>1 DEF PassesTurn
<1>3. /\ Restructuring(t) /\ k \in Keys /\ z \in DOMAIN tree /\ lo[z] < k /\ k < hi[z]
      /\ \A m \in DOMAIN tree : /\ ChildOf(tree, z, m) <=> m = l[t].z_par
                                /\ OwedBy(l[t], m) <=> m = l[t].z_par
  BY <1>2, AtParent
<1>4. Base /\ NodesOK(tree) /\ Order(tree, lo, hi) /\ CountInv
  BY DEF Ordered
<1>5. y \in DOMAIN tree /\ lo[y] < k /\ k < hi[y] /\ ChildOf(tree, y, z)
  BY <1>2, <1>3, <1>4, Descend
<1>6. x \in DOMAIN tree /\ lo[x] < k /\ k < hi[x] /\ ChildOf(tree, x, y)
  BY <1>2, <1>3, <1>4, <1>5, Descend
<1>7. /\ DOMAIN tree' = DOMAIN tree /\ NodesOK(tree') /\ Order(tree', lo, hi)
      /\ \A m \in DOMAIN tree : tree'[m].left = tree[m].left /\ tree'[m].right = tree[m].right
  BY <1>2, <1>4, CountedOrder
<1>8. \A m \in DOMAIN tree :
        Own(Left(tree'), Right(tree'), Weights(tree'), m) =
          Own(Left(tree), Right(tree), Weights(tree), m) + (IF m = y THEN 1 ELSE 0)
                                                - (IF ChildOf(tree, z, m) THEN 1 ELSE 0)
  BY <1>2, <1>3, <1>4, <1>5, CountedOwn
<1> HIDE DEF k, z
<1>9. /\ Others(t) /\ l'[t].key = k /\ l'[t].mode = l[t].mode /\ l'[t].inserting = l[t].inserting
      /\ l'[t].pc = "search" /\ l'[t].z = x /\ l'[t].z_par = y
  BY <1>2 DEF Walks, k, z
<1>10. TreeInv'
  <2>1. ChildOf(tree', x, y) /\ x # root
    BY <1>4, <1>5, <1>6, <1>7, ParentAt DEF ChildOf
  <2>2. SearchAt(tree', l'[t], lo, hi)
    BY <1>3, <1>6, <1>7, <1>9, <2>1 DEF SearchAt
  <2> QED
    BY <1>3, <1>4, <1>7, <1>9, <2>2, ChangeTree
<1>11. CountInv'
  <2>1. Restructures(l'[t])
    BY <1>2, <1>9 DEF Restructures
  <2>2. \A m : OwedBy(l'[t], m) <=> m = y
    BY <1>9, <2>1 DEF OwedBy
  <2>3. \A m \in DOMAIN tree : (Owed(m) <=> m = l[t].z_par) /\ (Owed(m)' <=> m = y)
    BY <1>3, <1>4, <1>9, <2>2, ChangeCount
  <2>4. /\ hits \in [DOMAIN tree -> Nat]
        /\ \A m \in DOMAIN tree :
             Own(Left(tree), Right(tree), Weights(tree), m) = hits[m] + (IF Owed(m) THEN 1 ELSE 0)
    BY <1>4 DEF CountInv
  <2>5. ASSUME NEW m \in DOMAIN tree
        PROVE  Own(Left(tree'), Right(tree'), Weights(tree'), m) = hits'[m] + (IF Owed(m)' THEN 1 ELSE 0)
    <3>1. Own(Left(tree'), Right(tree'), Weights(tree'), m) =
            hits[m] + (IF m = l[t].z_par THEN 1 ELSE 0) + (IF m = y THEN 1 ELSE 0)
                    - (IF m = l[t].z_par THEN 1 ELSE 0)
      BY <1>3, <1>8, <2>3, <2>4 DEF z
    <3>2. hits[m] \in Nat
      BY <2>4
    <3>3. Own(Left(tree'), Right(tree'), Weights(tree'), m) = hits[m] + (IF m = y THEN 1 ELSE 0)
      BY <3>1, <3>2
    <3> QED
      BY <1>2, <2>3, <3>3
  <2> QED
    BY <1>2, <1>7, <2>4, <2>5 DEF CountInv
<1> QED
  BY <1>10, <1>11

\* It rotates: neither the weights of the nodes alone nor what it owes change.
LEMMA RotatesOrdered ==
  ASSUME NEW lo, NEW hi, Ordered(lo, hi), NEW t \in Threads, SearchRotates(t), Variant' = Variant
  PROVE  TreeInv' /\ CountInv'
<1> DEFINE z == l[t].z
           k == l[t].key
           y == ChildIn(tree, z, k)
           x == ChildIn(tree, y, k)
           u == IF (k < z) = (k < y) THEN y ELSE x
<1>1. /\ l[t].pc = "search" /\ Restructures(l[t]) /\ hits' = hits
      /\ Walks(t, "search", u, l[t].z_par, l[t].node)
  BY RotatesStep DEF Ordered, Base, Calling
<1>2. /\ Restructuring(t) /\ k \in Keys /\ z \in DOMAIN tree /\ lo[z] < k /\ k < hi[z]
      /\ SearchAt(tree, l[t], lo, hi)
      /\ \A m \in DOMAIN tree : OwedBy(l[t], m) <=> m = l[t].z_par
  BY <1>1, AtParent
<1>3. Base /\ NodesOK(tree) /\ Order(tree, lo, hi) /\ CountInv
  BY DEF Ordered
<1>4. PICK lo2, hi2 : Turned(tree, lo, hi, tree', lo2, hi2, u, z, l[t].z_par)
  BY <1>2, <1>3, RotatesTurn
<1> HIDE DEF k, z, u
<1>5. /\ Others(t) /\ l'[t].key = k /\ l'[t].mode = l[t].mode /\ l'[t].inserting = l[t].inserting
      /\ l'[t].pc = "search" /\ l'[t].z = u /\ l'[t].z_par = l[t].z_par
  BY <1>1 DEF Walks, k
<1>6. /\ DOMAIN tree' = DOMAIN tree /\ NodesOK(tree') /\ u \in DOMAIN tree /\ Order(tree', lo2, hi2)
      /\ lo2[u] = lo[z] /\ hi2[u] = hi[z] /\ ChildOf(tree', u, l[t].z_par)
      /\ \A m \in DOMAIN tree : Own(Left(tree'), Right(tree'), Weights(tree'), m) =
                                  Own(Left(tree), Right(tree), Weights(tree), m)
  BY <1>4 DEF Turned
<1>7. TreeInv'
  <2>1. u # root
    BY <1>6, ParentAt
  <2>2. SearchAt(tree', l'[t], lo2, hi2)
    BY <1>2, <1>5, <1>6, <2>1 DEF SearchAt
  <2> QED
    BY <1>2, <1>3, <1>5, <1>6, <2>2, ChangeTree
<1>8. CountInv'
  <2>1. Restructures(l'[t])
    BY <1>1, <1>5 DEF Restructures
  <2>2. \A m : OwedBy(l'[t], m) <=> m = l[t].z_par
    BY <1>5, <2>1 DEF OwedBy
  <2>3. \A m \in DOMAIN tree : Owed(m)' <=> Owed(m)
    BY <1>2, <1>3, <1>5, <2>2, ChangeCount
  <2> QED
    BY <1>1, <1>3, <1>6, <2>3 DEF CountInv
<1> QED
  BY <1>7, <1>8

\* A new node is linked.
LEMMA LinkOrdered ==
  ASSUME NEW lo, NEW hi, Ordered(lo, hi), NEW t \in Threads, InsertLink(t), Variant' = Variant
  PROVE  TreeInv' /\ CountInv'
<1> DEFINE k == l[t].key
           z == l[t].z
<1>1. /\ l[t].pc = "leave" /\ l[t].inserting /\ l[t].node = NULL
      /\ tree' = LinkedIn(tree, k, z, t)
      /\ hits' = [n \in DOMAIN tree \cup {k} |-> IF n = k THEN 1 ELSE hits[n]]
      /\ Walks(t, "linked", z, l[t].z_par, l[t].node)
  BY LinkStep DEF Ordered, Base, Calling
<1>2. Base /\ NodesOK(tree) /\ Order(tree, lo, hi) /\ CountInv
  BY DEF Ordered
<1>3. Restructuring(t)
  BY <1>1 DEF Restructuring, InTree, Restructures
<1>4. SearchAt(tree, l[t], lo, hi)
  BY <1>3 DEF Ordered, Searching, Guarded
<1>5. /\ k \in Keys /\ z \in DOMAIN tree /\ lo[z] < k /\ k < hi[z] /\ ChildIn(tree, z, k) = NULL
      /\ (k = z /\ l[t].node = k) \/ k # z
  BY <1>1, <1>4 DEF SearchAt
<1>6. k # z
  BY <1>1, <1>2, <1>5, OrderAt
<1> HIDE DEF k, z
<1>7. /\ k \notin DOMAIN tree /\ DOMAIN tree' = DOMAIN tree \cup {k} /\ NodesOK(tree')
      /\ \E lo2, hi2 : Order(tree', lo2, hi2)
      /\ Own(Left(tree'), Right(tree'), Weights(tree'), k) = 1
      /\ \A n \in DOMAIN tree :
           Own(Left(tree'), Right(tree'), Weights(tree'), n) =
             Own(Left(tree), Right(tree), Weights(tree), n) - (IF n = z THEN 1 ELSE 0)
  <2>1. tree' = LinkedIn(tree, k, z, t)
    BY <1>1 DEF k, z
  <2>2. Grown(tree, tree', k, z, t)
    BY <1>2, <1>5, <1>6, <2>1, LinkTree
  <2> QED
    BY <2>2 DEF Grown
<1>8. Others(t) /\ l'[t].key = k /\ l'[t].pc = "linked"
  BY <1>1 DEF Walks, k
<1>9. TreeInv'
  <2>1. PICK lo2, hi2 : Order(tree', lo2, hi2)
    BY <1>7
  <2>2. SearchAt(tree', l'[t], lo2, hi2)
    BY <1>5, <1>8 DEF SearchAt
  <2> QED
    BY <1>2, <1>3, <1>7, <1>8, <2>1, <2>2, ChangeTree
<1>10. CountInv'
  <2>1. \A n : (Owed(n) <=> n = z) /\ ~Owed(n)'
    BY <1>1, <1>2, <1>3, <1>8, ChangeCount DEF OwedBy, z
  <2>2. /\ hits \in [DOMAIN tree -> Nat]
        /\ \A m \in DOMAIN tree :
             Own(Left(tree), Right(tree), Weights(tree), m) = hits[m] + (IF m = z THEN 1 ELSE 0)
    BY <1>2, <2>1 DEF CountInv
  <2>3. /\ hits' \in [DOMAIN tree \cup {k} -> Nat] /\ hits'[k] = 1 /\ \A n \in DOMAIN tree : hits'[n] = hits[n]
    BY <1>1, <1>7, <2>2
  <2>4. ASSUME NEW n \in DOMAIN tree
        PROVE  Own(Left(tree'), Right(tree'), Weights(tree'), n) = hits'[n]
    <3>1. /\ Own(Left(tree'), Right(tree'), Weights(tree'), n) =
               hits[n] + (IF n = z THEN 1 ELSE 0) - (IF n = z THEN 1 ELSE 0)
          /\ hits[n] \in Nat
      BY <1>7, <2>2
    <3> QED
      BY <2>3, <3>1
  <2>5. \A n \in DOMAIN tree \cup {k} :
          Own(Left(tree'), Right(tree'), Weights(tree'), n) = hits'[n] + (IF Owed(n)' THEN 1 ELSE 0)
    BY <1>7, <2>1, <2>3, <2>4
  <2> QED
    BY <1>7, <2>3, <2>5 DEF CountInv
<1> QED
  BY <1>9, <1>10

\* The leaves of the tree: what a call does after its search.
LEMMA LeaveOrdered ==
  ASSUME NEW lo, NEW hi, Ordered(lo, hi), NEW t \in Threads, FindLeave(t) \/ InsertFound(t) \/ InsertLeave(t),
         Variant' = Variant
  PROVE  TreeInv' /\ CountInv'
<1>1. Shape
  BY DEF Ordered, Base, Calling
<1>2. tree' = tree /\ hits' = hits
  BY DEF FindLeave, InsertFound, InsertLeave
<1>3. Gone(t) \/ Again(t)
  BY <1>1, FindStep, ReturnStep DEF InsertFound, InsertLeave
<1>4. Others(t) /\ l'[t].pc \in {"idle", "enter"}
  BY <1>3 DEF Gone, Again
<1>5. \A n : ~OwedBy(l[t], n)
  BY DEF FindLeave, InsertFound, InsertLeave, At, OwedBy
<1> QED
  BY <1>2, <1>4, <1>5, OutStep

\* A call begins.
LEMMA BeginOrdered ==
  ASSUME NEW lo, NEW hi, Ordered(lo, hi), NEW t \in Threads, Prefill(t) \/ Invoke(t), Variant' = Variant
  PROVE  TreeInv' /\ CountInv'
<1>1. Shape
  BY DEF Ordered, Base, Calling
<1>2. PICK op, k : Start(t, op, k)
  BY DEF Prefill, Invoke
<1>3. tree' = tree /\ hits' = hits
  BY <1>2 DEF Start
<1>4. Others(t) /\ l'[t].pc = "enter"
  BY <1>1, <1>2, StartStep DEF Begins
<1>5. l[t].pc = "idle"
  BY DEF Prefill, Invoke, At
<1>6. \A n : ~OwedBy(l[t], n)
  BY <1>5 DEF OwedBy
<1> QED
  BY <1>3, <1>4, <1>6, OutStep

\* Nothing happens in the tree.
LEMMA IdleOrdered ==
  ASSUME NEW lo, NEW hi, Ordered(lo, hi), UNCHANGED <<Variant, l, tree, hits>>
  PROVE  TreeInv' /\ CountInv'
<1>1. \A t \in Threads : Guarded(t)' <=> Guarded(t)
  BY DEF Guarded, Restructuring, InTree
<1>2. Searching(lo, hi)'
  BY <1>1 DEF Ordered, Searching
<1>3. NodesOK(tree') /\ Order(tree', lo, hi)
  BY DEF Ordered
<1>4. TreeInv'
  BY <1>2, <1>3 DEF TreeInv
<1>5. \A n : Owed(n)' <=> Owed(n)
  BY DEF Owed
<1> QED
  BY <1>4, <1>5 DEF Ordered, CountInv

\* The inductive invariant of the tree.
OrderInv == Base /\ TreeInv /\ CountInv

\* The tree is empty.
LEMMA OrderInit == Init => OrderInv
<1> SUFFICES ASSUME Init PROVE OrderInv
  OBVIOUS
<1>1. Base
  BY BaseInit
<1>2. /\ DOMAIN tree = {root} /\ tree[root] = NewNode(NoValue) /\ DOMAIN hits = {root} /\ hits[root] = 0
      /\ tree \in [{root} -> {NewNode(NoValue)}] /\ hits \in [{root} -> Nat]
  BY DEF Init
<1>3. NewNode(NoValue) \in NodeType /\ NewNode(NoValue).value = NoValue
      /\ NewNode(NoValue).left = NULL /\ NewNode(NoValue).right = NULL /\ NewNode(NoValue).w = 0
  BY DEF NewNode, NodeType, NULL
<1>4. NodesOK(tree)
  BY <1>2, <1>3 DEF NodesOK
<1> DEFINE lo == [n \in {root} |-> 0]
           hi == [n \in {root} |-> Outer]
           lf == Left(tree)
           rt == Right(tree)
<1>5. lo[root] = 0 /\ hi[root] = Outer /\ lf[root] = NULL /\ rt[root] = NULL
  BY <1>2, <1>3 DEF Left, Right
<1>6. root \in Nat /\ root # 0 /\ root < Outer /\ Outer \in Nat
  BY KeysAssumption DEF root, Outer
<1> HIDE DEF lo, hi, lf, rt
<1>7. Ranges({root}, lf, rt, lo, hi)
  BY <1>5, <1>6 DEF Ranges
<1>8. Order(tree, lo, hi)
  BY <1>2, <1>5, <1>7 DEF Order, lf, rt
<1>9. \A t \in Threads : l[t].pc = "idle"
  BY DEF Init, Locals
<1>10. \A t \in Threads : ~Guarded(t) /\ \A n : ~OwedBy(l[t], n)
  BY <1>9 DEF Guarded, Restructuring, InTree, OwedBy
<1>11. TreeInv
  BY <1>4, <1>8, <1>10 DEF TreeInv, Searching
<1>12. Own(Left(tree), Right(tree), Weights(tree), root) = 0
  <2>1. Own(Left(tree), Right(tree), Weights(tree), root) =
          tree[root].w - WeightIn(tree, tree[root].left) - WeightIn(tree, tree[root].right)
    BY <1>2, <1>4, <1>8, OwnIn
  <2> QED
    BY <1>2, <1>3, <2>1 DEF WeightIn
<1>13. CountInv
  BY <1>2, <1>10, <1>12 DEF CountInv, Owed
<1> QED
  BY <1>1, <1>11, <1>13 DEF OrderInv

\* Every step keeps it.
LEMMA OrderNext == ASSUME OrderInv, [Next]_vars PROVE OrderInv'
<1>1. PICK lo, hi : Ordered(lo, hi)
  BY DEF OrderInv, TreeInv, Ordered
<1>2. Variant' = Variant
  BY SameTree
<1>3. Base'
  BY BaseNext DEF OrderInv
<1>4. ASSUME NEW t \in Threads, Prefill(t) \/ Invoke(t) PROVE TreeInv' /\ CountInv'
  BY <1>1, <1>2, <1>4, BeginOrdered
<1>5. ASSUME NEW t \in Threads, warmupEnd(t) PROVE TreeInv' /\ CountInv'
  BY <1>1, <1>2, <1>5, IdleOrdered DEF warmupEnd
<1>6. ASSUME NEW t \in Threads, Step(t) PROVE TreeInv' /\ CountInv'
  BY <1>1, <1>2, <1>6, EnterOrdered, SearchOrdered, EndsOrdered, PassesOrdered, RotatesOrdered,
     LinkOrdered, LeaveOrdered DEF Step
<1>7. ASSUME UNCHANGED vars PROVE TreeInv' /\ CountInv'
  BY <1>1, <1>2, <1>7, IdleOrdered DEF vars
<1> QED
  BY <1>3, <1>4, <1>5, <1>6, <1>7 DEF OrderInv, Next, Joined

\* The tree is a search tree, the searches that nobody disturbs are where their keys belong,
\* and the weights are the searches that ended at the nodes and those on their way.
THEOREM TreeInvariant == Spec => []OrderInv
  BY OrderInit, OrderNext, PTL DEF Spec

\* Rotations and insertions lose no weight, and a search counts every node of its path once:
\* between restructuring searches the weight of each node alone is the number that ended there.
THEOREM WeightsStay == Spec => []WeightsAddUp
<1>1. OrderInv => WeightsAddUp
  <2> SUFFICES ASSUME OrderInv, \A t \in Threads : ~(l[t].pc # "idle" /\ l[t].pc # "enter" /\ Restructures(l[t])),
                      NEW n \in Nodes
               PROVE  c(n) = hits[n]
    BY DEF WeightsAddUp
  <2>1. ~Owed(n)
    BY DEF Owed, OwedBy, Restructures
  <2>2. PICK lo, hi : Ordered(lo, hi)
    BY DEF OrderInv, TreeInv, Ordered
  <2>3. Own(Left(tree), Right(tree), Weights(tree), n) = hits[n] + 0 /\ hits[n] \in Nat
    BY <2>1 DEF OrderInv, CountInv, Nodes
  <2>4. Own(Left(tree), Right(tree), Weights(tree), n) =
          tree[n].w - WeightIn(tree, tree[n].left) - WeightIn(tree, tree[n].right)
    BY <2>2, OwnIn DEF Ordered, Nodes
  <2>5. n # NULL
    BY <2>2, OrderAt DEF Ordered, Nodes
  <2> QED
    BY <2>3, <2>4, <2>5, TreeOperators DEF c, w
<1> QED
  BY <1>1, TreeInvariant, PTL

-----------------------------------------------------------------------------
(* The tree as a dictionary *)

CallFields == {"op", "key", "value", "seen", "effect"}

\* C is the call of thread t with the locals L, while its key has the value v.
CallOf(C, L, t, v) ==
  /\ DOMAIN C = CallFields /\ C.op = L.op /\ C.key = L.key /\ C.value = t
  /\ v \in C.seen
  /\ C.effect = IF L.pc = "linked" THEN <<NoValue>> ELSE <<>>
  /\ L.inserting => L.op = "insertIfAbsent"

\* The calls as their callers see them are those the threads are in.
CallInv ==
  /\ DOMAIN call = Threads
  /\ \A t \in Threads : IF l[t].pc = "idle" THEN call[t].op = "none"
                        ELSE CallOf(call[t], l[t], t, dict[l[t].key])

\* The values are those of the nodes.
LEMMA SameDict ==
  ASSUME DOMAIN tree' = DOMAIN tree, \A n \in DOMAIN tree : tree'[n].value = tree[n].value
  PROVE  dict' = dict
  BY DEF dict

\* A step that is no invocation, insertion or return keeps the calls.
LEMMA KeepCalls ==
  ASSUME CallInv, NEW t \in Threads, Others(t), call' = call, dict' = dict,
         l[t].pc \notin {"idle", "linked"}, l'[t].pc \notin {"idle", "linked"},
         l'[t].op = l[t].op, l'[t].key = l[t].key,
         l'[t].inserting => l[t].inserting \/ l[t].op = "insertIfAbsent"
  PROVE  CallInv'
<1>1. ASSUME NEW s \in Threads
      PROVE  IF l'[s].pc = "idle" THEN call[s].op = "none"
             ELSE CallOf(call[s], l'[s], s, dict[l'[s].key])
  <2>1. CASE s = t
    BY <2>1 DEF CallInv, CallOf
  <2>2. CASE s # t
    BY <2>2 DEF CallInv, Others
  <2> QED
    BY <2>1, <2>2
<1> HIDE DEF dict
<1> QED
  BY <1>1 DEF CallInv

\* So does one that the threads do not notice.
LEMMA IdleCalls ==
  ASSUME CallInv, l' = l, call' = call, dict' = dict
  PROVE  CallInv'
  BY DEF CallInv

\* A search has the value of its key when it ends.
LEMMA FoundValue ==
  ASSUME NEW lo, NEW hi, Ordered(lo, hi), NEW t \in Threads, Guarded(t), l[t].pc = "leave"
  PROVE  /\ l[t].key \in Keys
         /\ l[t].node = NULL => dict[l[t].key] = NoValue
         /\ l[t].node # NULL => /\ dict[l[t].key] = tree[l[t].node].value
                                /\ tree[l[t].node].value \in Threads /\ tree[l[t].node].value # NoValue
<1> DEFINE k == l[t].key
           z == l[t].z
<1>1. SearchAt(tree, l[t], lo, hi) /\ NodesOK(tree) /\ Order(tree, lo, hi)
  BY DEF Ordered, Searching
<1>2. /\ k \in Keys /\ z \in DOMAIN tree /\ lo[z] < k /\ k < hi[z]
      /\ (k = z /\ l[t].node = k) \/ (k # z /\ l[t].node = NULL)
      /\ ChildIn(tree, z, k) = NULL
  BY <1>1 DEF SearchAt
<1>3. k # NULL /\ k # root
  BY <1>2, KeysAssumption DEF NULL, root
<1> HIDE DEF k, z
<1>4. CASE k = z /\ l[t].node = k
  <2>1. tree[k] \in NodeType /\ tree[k].value # NoValue
    BY <1>1, <1>2, <1>3, <1>4 DEF NodesOK
  <2>2. tree[k].value \in Threads
    BY <2>1 DEF NodeType
  <2>3. dict[k] = tree[k].value
    BY <1>2, <1>4 DEF dict
  <2> QED
    BY <1>2, <1>3, <1>4, <2>1, <2>2, <2>3 DEF k
<1>5. CASE k # z /\ l[t].node = NULL
  <2>1. k \notin DOMAIN tree
    BY <1>1, <1>2, <1>5, NotThere
  <2>2. dict[k] = NoValue
    BY <1>2, <2>1 DEF dict
  <2> QED
    BY <1>2, <1>5, <2>2 DEF k
<1> QED
  BY <1>2, <1>4, <1>5

\* A call is an invocation of the dictionary.
LEMMA BeginCalls ==
  ASSUME Base, CallInv, NEW t \in Threads, Prefill(t) \/ Invoke(t)
  PROVE  D!Next /\ CallInv'
<1>1. l[t].pc = "idle"
  BY DEF Prefill, Invoke, At
<1>2. PICK op, k : Start(t, op, k)
  BY DEF Prefill, Invoke
<1>3. Begins(t, op, k)
  BY <1>2, StartStep DEF Base, Calling
<1>4. /\ Others(t) /\ l'[t].op = op /\ l'[t].key = k /\ l'[t].pc = "enter"
      /\ l'[t].inserting = (Direct /\ op = "insertIfAbsent")
  BY <1>3 DEF Begins
<1>5. op \in Operations /\ k \in Keys
  <2>1. KeyInv'
    BY BeginCalling DEF Base, Calling
  <2> QED
    BY <1>4, <2>1 DEF KeyInv
<1>6. tree' = tree /\ call' = [call EXCEPT ![t] = D!Call(op, k, t)]
  BY <1>2 DEF Start
<1>7. dict' = dict
  BY <1>6 DEF dict
<1> HIDE DEF dict
<1>8. DOMAIN call = Threads /\ call[t].op = "none"
  BY <1>1 DEF CallInv
<1>9. /\ DOMAIN call' = Threads /\ \A s \in Threads : s # t => call'[s] = call[s]
      /\ call'[t] = D!Call(op, k, t)
  BY <1>6, <1>8
<1> DEFINE C == D!Call(op, k, t)
<1>10. /\ DOMAIN C = CallFields /\ C.op = op /\ C.key = k /\ C.value = t /\ C.seen = {dict[k]} /\ C.effect = <<>>
  BY DEF D!Call, CallFields
<1> HIDE DEF C
<1>11. CallOf(C, l'[t], t, dict[k])
  BY <1>4, <1>10 DEF CallOf
<1>12. CallInv'
  <2>1. ASSUME NEW s \in Threads
        PROVE  IF l'[s].pc = "idle" THEN call'[s].op = "none"
               ELSE CallOf(call'[s], l'[s], s, dict'[l'[s].key])
    <3>1. CASE s = t
      BY <1>4, <1>7, <1>9, <1>11, <3>1 DEF C
    <3>2. CASE s # t
      BY <1>4, <1>7, <1>9, <3>2 DEF CallInv, Others
    <3> QED
      BY <3>1, <3>2
  <2> QED
    BY <1>9, <2>1 DEF CallInv
<1>13. D!Next
  <2>1. D!Outside(t) /\ D!Invoke(t, op, k, t)
    BY <1>6, <1>7, <1>8 DEF D!Outside, D!Invoke
  <2>2. ~D!Outside(t)'
    BY <1>5, <1>9, <1>10 DEF D!Outside, Operations, C
  <2>3. op \in D!Ops
    BY <1>5 DEF D!Ops, Operations
  <2> QED
    BY <1>5, <2>1, <2>2, <2>3 DEF D!Next
<1> QED
  BY <1>12, <1>13

\* The end of a call is a return of the dictionary, if the answer is one it may give.
LEMMA ReturnCalls ==
  ASSUME Base, CallInv, NEW t \in Threads, l[t].pc # "idle", NEW r \in Threads \cup {NoValue}, Return(t, r),
         tree' = tree, D!Answers(call[t], r)
  PROVE  D!Next /\ CallInv'
<1>1. Gone(t)
  BY ReturnStep DEF Base, Calling
<1>2. Others(t) /\ l'[t].pc = "idle"
  BY <1>1 DEF Gone
<1>3. dict' = dict
  BY DEF dict
<1> HIDE DEF dict
<1>4. call' = [call EXCEPT ![t] = D!Answered(r)] /\ DOMAIN call = Threads
  BY DEF Return, CallInv
<1>5. /\ DOMAIN call' = Threads /\ \A s \in Threads : s # t => call'[s] = call[s]
      /\ call'[t].op = "none"
  BY <1>4 DEF D!Answered
<1>6. CallInv'
  <2>1. ASSUME NEW s \in Threads
        PROVE  IF l'[s].pc = "idle" THEN call'[s].op = "none"
               ELSE CallOf(call'[s], l'[s], s, dict'[l'[s].key])
    <3>1. CASE s = t
      BY <1>2, <1>5, <3>1
    <3>2. CASE s # t
      BY <1>2, <1>3, <1>5, <3>2 DEF CallInv, Others
    <3> QED
      BY <3>1, <3>2
  <2> QED
    BY <1>5, <2>1 DEF CallInv
<1>7. ~D!Outside(t)
  BY DEF CallInv, CallOf, D!Outside, Base, Calling, KeyInv, Operations
<1>8. D!Return(t, r)
  BY <1>3, <1>4, <1>7 DEF D!Return
<1>9. D!Next
  BY <1>7, <1>8 DEF D!Next
<1> QED
  BY <1>6, <1>9

\* The link of a new node is the insertion of the dictionary, which every call for the key sees.
LEMMA LinkCalls ==
  ASSUME NEW lo, NEW hi, Ordered(lo, hi), CallInv, NEW t \in Threads, InsertLink(t)
  PROVE  D!Next /\ CallInv'
<1> DEFINE k == l[t].key
           z == l[t].z
<1>1. /\ l[t].pc = "leave" /\ l[t].inserting /\ l[t].node = NULL
      /\ tree' = LinkedIn(tree, k, z, t)
      /\ Walks(t, "linked", z, l[t].z_par, l[t].node)
  BY LinkStep DEF Ordered, Base, Calling
<1>2. Guarded(t) /\ SearchAt(tree, l[t], lo, hi)
  BY <1>1 DEF Guarded, Restructuring, InTree, Restructures, Ordered, Searching
<1>3. k \in Keys /\ dict[k] = NoValue
  BY <1>1, <1>2, FoundValue
<1>4. NodesOK(tree) /\ Order(tree, lo, hi)
  BY DEF Ordered
<1>5. Grown(tree, tree', k, z, t)
  <2>1. /\ z \in DOMAIN tree /\ lo[z] < k /\ k < hi[z] /\ ChildIn(tree, z, k) = NULL
        /\ (k = z /\ l[t].node = k) \/ k # z
    BY <1>1, <1>2 DEF SearchAt
  <2>2. k # z
    BY <1>1, <1>3, <2>1, KeysAssumption DEF NULL
  <2> HIDE DEF k, z
  <2> QED
    BY <1>1, <1>3, <1>4, <2>1, <2>2, LinkTree
<1> HIDE DEF k, z
<1>6. dict' = [dict EXCEPT ![k] = t]
  <2>1. DOMAIN tree' = DOMAIN tree \cup {k} /\ tree'[k].value = t /\ \A n \in DOMAIN tree : tree'[n].value = tree[n].value
    BY <1>5 DEF Grown
  <2> QED
    BY <1>3, <2>1 DEF dict
<1>7. dict'[k] = t /\ \A j \in Keys : j # k => dict'[j] = dict[j]
  <2>1. DOMAIN dict = Keys
    BY DEF dict
  <2> HIDE DEF dict
  <2> QED
    BY <1>3, <1>6, <2>1
<1> HIDE DEF dict
<1>8. call' = D!Witnessed(t, k, t, NoValue)
  BY DEF InsertLink, k
<1>9. /\ Others(t) /\ l'[t].op = l[t].op /\ l'[t].key = k /\ l'[t].pc = "linked"
      /\ l'[t].inserting = l[t].inserting
  BY <1>1 DEF Walks, k
<1>10. ASSUME NEW s \in Threads, l[s].pc # "idle"
       PROVE  /\ l[s].key \in Keys /\ call[s].op # "none" /\ call[s].op = l[s].op /\ call[s].key = l[s].key
              /\ CallOf(call[s], l[s], s, dict[l[s].key])
  BY <1>10 DEF CallInv, CallOf, Ordered, Base, Calling, KeyInv, Operations
<1>11. DOMAIN call' = Threads
  BY <1>8 DEF D!Witnessed
<1>12. ASSUME NEW s \in Threads
       PROVE  IF l'[s].pc = "idle" THEN call'[s].op = "none"
              ELSE CallOf(call'[s], l'[s], s, dict'[l'[s].key])
  <2>1. CASE l[s].pc = "idle"
    <3>1. s # t /\ call[s].op = "none"
      BY <1>1, <2>1 DEF CallInv
    <3>2. call'[s] = call[s]
      BY <1>8, <3>1 DEF D!Witnessed, D!Outside
    <3> QED
      BY <1>9, <2>1, <3>1, <3>2 DEF Others
  <2>2. CASE l[s].pc # "idle" /\ l[s].key # k
    <3>1. s # t
      BY <2>2 DEF k
    <3>2. call'[s] = call[s]
      BY <1>8, <1>10, <2>2 DEF D!Witnessed, D!Outside
    <3> QED
      BY <1>7, <1>9, <1>10, <2>2, <3>1, <3>2 DEF Others
  <2>3. CASE l[s].pc # "idle" /\ l[s].key = k
    <3> DEFINE e == IF s = t THEN <<NoValue>> ELSE call[s].effect
    <3>1. call'[s] = [call[s] EXCEPT !.seen = @ \cup {t}, !.effect = e]
      BY <1>8, <1>10, <2>3 DEF D!Witnessed, D!Outside
    <3>2. CallOf(call[s], l[s], s, dict[k])
      BY <1>10, <2>3
    <3> HIDE DEF e
    <3>3. /\ DOMAIN call'[s] = CallFields /\ call'[s].op = l[s].op /\ call'[s].key = k
          /\ call'[s].value = s /\ call'[s].seen = call[s].seen \cup {t} /\ call'[s].effect = e
      BY <2>3, <3>1, <3>2 DEF CallOf, CallFields
    <3>4. l'[s].op = l[s].op /\ l'[s].key = k /\ l'[s].inserting = l[s].inserting /\ l'[s].pc # "idle"
      BY <1>9, <2>3 DEF Others
    <3>5. e = IF l'[s].pc = "linked" THEN <<NoValue>> ELSE <<>>
      BY <1>9, <3>2 DEF e, CallOf, Others
    <3>6. l[s].inserting => l[s].op = "insertIfAbsent"
      BY <3>2 DEF CallOf
    <3> QED
      BY <1>7, <3>3, <3>4, <3>5, <3>6 DEF CallOf
  <2> QED
    BY <2>1, <2>2, <2>3
<1>13. CallInv'
  BY <1>11, <1>12 DEF CallInv
<1>14. D!Next
  <2>1. /\ call[t].key = k /\ call[t].op = "insertIfAbsent" /\ call[t].value = t /\ call[t].effect = <<>>
    BY <1>1, <1>10 DEF CallOf, k
  <2>2. D!Change(t, t)
    BY <1>3, <1>6, <1>8, <2>1 DEF D!Change
  <2>3. D!Insert(t)
    BY <1>3, <2>1, <2>2 DEF D!Insert
  <2>4. ~D!Outside(t)
    BY <2>1 DEF D!Outside
  <2> QED
    BY <2>3, <2>4 DEF D!Next
<1> QED
  BY <1>13, <1>14

\* find answers with what the key had when the search ended, or goes on.
LEMMA FindCalls ==
  ASSUME NEW lo, NEW hi, Ordered(lo, hi), CallInv, Variant # "ideal", NEW t \in Threads, FindLeave(t)
  PROVE  (D!Next \/ UNCHANGED <<dict, call>>) /\ CallInv'
<1> DEFINE v == IF l[t].node = NULL THEN NoValue ELSE tree[l[t].node].value
<1>1. l[t].pc = "leave" /\ ~l[t].inserting /\ tree' = tree
  BY DEF FindLeave, At
<1>2. Guarded(t)
  BY <1>1 DEF Guarded, InTree
<1>3. v = dict[l[t].key] /\ v \in Threads \cup {NoValue}
  BY <1>1, <1>2, FoundValue
<1>4. \/ Return(t, v) /\ ~(l[t].op = "insertIfAbsent" /\ v = NoValue)
      \/ UNCHANGED client /\ l[t].op = "insertIfAbsent" /\ Local(t, [l[t] EXCEPT !.pc = "enter", !.mode = "exclusive", !.inserting = TRUE])
  BY DEF FindLeave
<1>5. /\ CallOf(call[t], l[t], t, dict[l[t].key]) /\ l[t].op \in Operations
  BY <1>1 DEF CallInv, Ordered, Base, Calling, KeyInv
<1>6. dict' = dict
  BY <1>1 DEF dict
<1> HIDE DEF v, dict
<1>7. CASE Return(t, v) /\ ~(l[t].op = "insertIfAbsent" /\ v = NoValue)
  <2>1. call[t].effect = <<>> /\ v \in call[t].seen /\ call[t].op = l[t].op
    BY <1>1, <1>3, <1>5 DEF CallOf
  <2>2. D!Answers(call[t], v)
    BY <1>5, <1>7, <2>1 DEF D!Answers, Operations
  <2> QED
    BY <1>1, <1>3, <1>7, <2>2, ReturnCalls DEF Ordered
<1>8. CASE UNCHANGED client /\ l[t].op = "insertIfAbsent" /\ Local(t, [l[t] EXCEPT !.pc = "enter", !.mode = "exclusive", !.inserting = TRUE])
  <2> DEFINE L == [l[t] EXCEPT !.pc = "enter", !.mode = "exclusive", !.inserting = TRUE]
  <2>1. Shape
    BY DEF Ordered, Base, Calling
  <2>2. DOMAIN L = Fields /\ L.op = l[t].op /\ L.key = l[t].key /\ L.inserting = TRUE /\ L.pc = "enter"
    BY <2>1 DEF Shape, Fields
  <2>3. Local(t, L)
    BY <1>8
  <2> HIDE DEF L
  <2>4. Others(t) /\ l'[t] = L
    BY <2>1, <2>2, <2>3, LocalOthers
  <2>5. call' = call
    BY <1>8 DEF client
  <2>6. CallInv'
    BY <1>1, <1>6, <1>8, <2>2, <2>4, <2>5, KeepCalls
  <2> QED
    BY <1>6, <2>5, <2>6
<1> QED
  BY <1>4, <1>7, <1>8

\* insertIfAbsent answers with what it has found or, when it has linked a node, that there was nothing.
LEMMA InsertCalls ==
  ASSUME NEW lo, NEW hi, Ordered(lo, hi), CallInv, NEW t \in Threads, InsertFound(t) \/ InsertLeave(t)
  PROVE  D!Next /\ CallInv'
<1>1. Base /\ tree' = tree
  BY DEF Ordered, InsertFound, InsertLeave
<1>2. CASE InsertFound(t)
  <2> DEFINE v == tree[l[t].node].value
  <2>1. l[t].pc = "leave" /\ l[t].inserting /\ l[t].node # NULL /\ Return(t, v)
    BY <1>2 DEF InsertFound, At
  <2>2. Guarded(t)
    BY <2>1 DEF Guarded, Restructuring, Restructures, InTree
  <2>3. v = dict[l[t].key] /\ v \in Threads /\ v # NoValue
    BY <2>1, <2>2, FoundValue
  <2> HIDE DEF v, dict
  <2>4. call[t].effect = <<>> /\ v \in call[t].seen /\ call[t].op = "insertIfAbsent"
    BY <2>1, <2>3 DEF CallInv, CallOf
  <2>5. D!Answers(call[t], v)
    BY <2>3, <2>4 DEF D!Answers
  <2> QED
    BY <1>1, <2>1, <2>3, <2>5, ReturnCalls
<1>3. CASE InsertLeave(t)
  <2>1. l[t].pc = "linked" /\ Return(t, NoValue)
    BY <1>3 DEF InsertLeave, At
  <2>2. call[t].effect = <<NoValue>>
    BY <2>1 DEF CallInv, CallOf
  <2>3. D!Answers(call[t], NoValue)
    BY <2>2 DEF D!Answers
  <2> QED
    BY <1>1, <2>1, <2>3, ReturnCalls
<1> QED
  BY <1>2, <1>3

\* The turns of a search do nothing that a caller could see.
LEMMA TurnCalls ==
  ASSUME NEW lo, NEW hi, Ordered(lo, hi), CallInv, NEW t \in Threads,
         Enter(t) \/ Search(t) \/ SearchEnds(t) \/ SearchPasses(t) \/ SearchRotates(t)
  PROVE  UNCHANGED <<dict, call>> /\ CallInv'
<1>1. Shape /\ NodesOK(tree) /\ Order(tree, lo, hi)
  BY DEF Ordered, Base, Calling
<1>2. call' = call
  BY DEF Enter, Search, SearchEnds, SearchPasses, SearchRotates, client
<1>3. /\ DOMAIN tree' = DOMAIN tree /\ \A n \in DOMAIN tree : tree'[n].value = tree[n].value
  <2>1. CASE Enter(t) \/ Search(t)
    BY <2>1 DEF Enter, Search
  <2>2. CASE SearchEnds(t) \/ SearchPasses(t)
    <3>1. PICK S : tree' = CountedIn(tree, S)
      BY <2>2, TreeOperators DEF SearchEnds, SearchPasses
    <3> QED
      BY <1>1, <3>1, CountedOrder
  <2>3. CASE SearchRotates(t)
    <3> DEFINE z == l[t].z
               k == l[t].key
               y == ChildIn(tree, z, k)
               x == ChildIn(tree, y, k)
               u == IF (k < z) = (k < y) THEN y ELSE x
    <3>1. SearchAt(tree, l[t], lo, hi)
      BY <1>1, <2>3, RotatesStep, AtParent
    <3>2. PICK lo2, hi2 : Turned(tree, lo, hi, tree', lo2, hi2, u, z, l[t].z_par)
      BY <1>1, <2>3, <3>1, RotatesTurn
    <3> HIDE DEF u
    <3> QED
      BY <3>2 DEF Turned
  <2> QED
    BY <2>1, <2>2, <2>3
<1>4. dict' = dict
  BY <1>3, SameDict
<1>5. /\ l[t].pc \notin {"idle", "linked"} /\ l'[t].pc \notin {"idle", "linked"}
      /\ Others(t) /\ l'[t].op = l[t].op /\ l'[t].key = l[t].key /\ l'[t].inserting = l[t].inserting
  <2>1. CASE Enter(t)
    BY <1>1, <2>1, EnterStep DEF Walks
  <2>2. CASE Search(t)
    BY <1>1, <2>2, SearchStep DEF SearchTurn, Walks
  <2>3. CASE SearchEnds(t)
    BY <1>1, <2>3, EndsStep DEF EndsTurn, Walks
  <2>4. CASE SearchPasses(t)
    BY <1>1, <2>4, PassesStep DEF PassesTurn, Walks
  <2>5. CASE SearchRotates(t)
    BY <1>1, <2>5, RotatesStep DEF Walks
  <2> QED
    BY <2>1, <2>2, <2>3, <2>4, <2>5
<1>6. CallInv'
  BY <1>2, <1>4, <1>5, KeepCalls
<1> QED
  BY <1>2, <1>4, <1>6

\* Every step of a tree that takes the lock on every access is one of the dictionary.
LEMMA CallsNext ==
  ASSUME OrderInv, Variant # "ideal", CallInv, [Next]_vars
  PROVE  (D!Next \/ UNCHANGED <<dict, call>>) /\ CallInv'
<1>1. PICK lo, hi : Ordered(lo, hi)
  BY DEF OrderInv, TreeInv, Ordered
<1>2. Base
  BY DEF OrderInv
<1>3. ASSUME NEW t \in Threads, Prefill(t) \/ Invoke(t)
      PROVE  D!Next /\ CallInv'
  BY <1>2, <1>3, BeginCalls
<1>4. ASSUME NEW t \in Threads, Step(t)
      PROVE  (D!Next \/ UNCHANGED <<dict, call>>) /\ CallInv'
  BY <1>1, <1>4, TurnCalls, FindCalls, InsertCalls, LinkCalls DEF Step
<1>5. ASSUME UNCHANGED <<l, tree, call>>
      PROVE  UNCHANGED <<dict, call>> /\ CallInv'
  <2>1. dict' = dict
    BY <1>5 DEF dict
  <2> QED
    BY <1>5, <2>1, IdleCalls
<1>6. ASSUME NEW t \in Threads, warmupEnd(t)
      PROVE  UNCHANGED <<l, tree, call>>
  BY <1>6 DEF warmupEnd, client
<1>7. CASE UNCHANGED vars
  BY <1>5, <1>7 DEF vars, client
<1> QED
  BY <1>3, <1>4, <1>5, <1>6, <1>7 DEF Next, Joined

\* The trees that take the lock on every access are linearizable dictionaries: an insertion
\* takes effect when its node is linked, and every other call answers with a value its key had.
THEOREM TreeRefinesDictionary == Spec => ImplementsDictionary
<1> DEFINE I == OrderInv /\ (Variant # "ideal" => CallInv)
<1>1. Init => I /\ D!Init
  <2> SUFFICES ASSUME Init PROVE I /\ D!Init
    OBVIOUS
  <2>1. OrderInv
    BY OrderInit
  <2>2. \A t \in Threads : l[t].pc = "idle"
    BY DEF Init, Locals
  <2>3. call = [t \in Threads |-> D!Answered(NoValue)]
    BY DEF Init
  <2>4. CallInv
    BY <2>2, <2>3 DEF CallInv, D!Answered
  <2>5. dict = [k \in Keys |-> NoValue]
    <3>1. root \notin Keys /\ DOMAIN tree = {root}
      BY KeysAssumption DEF Init, root
    <3> QED
      BY <3>1 DEF dict
  <2>6. dict \in [Keys -> Threads \cup {NoValue}]
    BY <2>5
  <2> QED
    BY <2>1, <2>3, <2>4, <2>6 DEF D!Init
<1>2. I /\ [Next]_vars => I' /\ [D!Next \/ Variant = "ideal"]_(D!vars)
  <2> SUFFICES ASSUME I, [Next]_vars PROVE I' /\ [D!Next \/ Variant = "ideal"]_(D!vars)
    OBVIOUS
  <2>1. OrderInv'
    BY OrderNext
  <2>2. Variant' = Variant
    BY SameTree
  <2>3. Variant # "ideal" => (D!Next \/ UNCHANGED <<dict, call>>) /\ CallInv'
    BY CallsNext
  <2>4. UNCHANGED <<dict, call>> => UNCHANGED D!vars
    BY DEF D!vars
  <2> QED
    BY <2>1, <2>2, <2>3, <2>4
<1> QED
  BY <1>1, <1>2, PTL DEF Spec, ImplementsDictionary

-----------------------------------------------------------------------------
(* Undisturbed searches *)

\* A set of numbers that is not empty has a least element.
LEMMA LeastElement ==
  ASSUME NEW S \in SUBSET Nat, S # {}
  PROVE  \E n \in S : \A m \in S : n <= m
<1>1. \E Less : IsWellFoundedOn(Less, Nat) /\ \A m, n \in Nat : <<m, n>> \in Less <=> m < n
  <2>1. \A m, n \in Nat : <<m, n>> \in OpToRel(<, Nat) <=> m < n
    BY DEF OpToRel
  <2> QED
    BY <2>1, NatLessThanWellFounded, Zenon
<1>2. PICK Less : IsWellFoundedOn(Less, Nat) /\ \A m, n \in Nat : <<m, n>> \in Less <=> m < n
  BY <1>1, Zenon
<1>3. S \subseteq Nat
  OBVIOUS
<1>4. IsWellFoundedOn(Less, Nat)
  BY <1>2, Zenon
<1>5. \E n \in S : \A m \in S : ~(<<m, n>> \in Less)
  BY <1>3, <1>4, WFMin
<1>6. PICK n \in S : \A m \in S : ~(<<m, n>> \in Less)
  BY <1>5, Zenon
<1>7. \A m \in S : ~(m < n)
  BY <1>2, <1>3, <1>6, Zenon
<1> QED
  BY <1>3, <1>6, <1>7, SMT

\* One step of a search for k, and the first m of them.
Hop(T, k, n) == IF n \in {NULL, k} THEN n ELSE ChildIn(T, n, k)
Path(T, k, m, f) == f = [i \in 0 .. m |-> IF i = 0 THEN root ELSE Hop(T, k, f[i - 1])]

\* There is such a path of every length.
LEMMA PathExists ==
  ASSUME NEW T, NEW k, NEW N \in Nat
  PROVE  \E f : Path(T, k, N, f)
<1> DEFINE S == {m \in Nat : ~\E f : Path(T, k, m, f)}
<1>1. ASSUME NEW m \in S, \A i \in S : m <= i PROVE FALSE
  <2>1. m \in Nat /\ ~\E f : Path(T, k, m, f)
    BY <1>1
  <2>2. CASE m = 0
    <3> DEFINE f == [i \in 0 .. 0 |-> root]
    <3>1. Path(T, k, 0, f)
      BY DEF Path
    <3> QED
      BY <2>1, <2>2, <3>1
  <2>3. CASE m # 0
    <3>1. m - 1 \in Nat /\ m - 1 \notin S
      BY <1>1, <2>1, <2>3
    <3>2. PICK g : Path(T, k, m - 1, g)
      BY <3>1
    <3> DEFINE f == [i \in 0 .. m |-> IF i = m THEN Hop(T, k, g[m - 1]) ELSE g[i]]
    <3>3. \A i \in 0 .. m - 1 : f[i] = g[i] /\ g[i] = IF i = 0 THEN root ELSE Hop(T, k, g[i - 1])
      BY <2>1, <2>3, <3>1, <3>2 DEF Path
    <3>4. \A i \in 0 .. m : f[i] = IF i = 0 THEN root ELSE Hop(T, k, f[i - 1])
      <4> SUFFICES ASSUME NEW i \in 0 .. m PROVE f[i] = IF i = 0 THEN root ELSE Hop(T, k, f[i - 1])
        OBVIOUS
      <4>1. CASE i = m
        <5>1. f[i] = Hop(T, k, g[m - 1]) /\ m - 1 \in 0 .. m - 1
          BY <2>1, <2>3, <4>1
        <5>2. f[m - 1] = g[m - 1]
          BY <3>3, <5>1
        <5> QED
          BY <2>3, <4>1, <5>1, <5>2
      <4>2. CASE i # m /\ i # 0
        <5>1. i \in 0 .. m - 1 /\ i - 1 \in 0 .. m - 1
          BY <2>1, <2>3, <4>2
        <5> QED
          BY <3>3, <4>2, <5>1
      <4>3. CASE i = 0 /\ i # m
        <5>1. i \in 0 .. m - 1
          BY <2>1, <2>3, <4>3
        <5> QED
          BY <3>3, <4>3, <5>1
      <4> QED
        BY <4>1, <4>2, <4>3
    <3>5. f = [i \in 0 .. m |-> f[i]]
      OBVIOUS
    <3> HIDE DEF f
    <3>6. Path(T, k, m, f)
      BY <3>4, <3>5 DEF Path
    <3> QED
      BY <2>1, <3>6
  <2> QED
    BY <2>2, <2>3
<1>2. S \in SUBSET Nat
  OBVIOUS
<1>3. S = {}
  <2> HIDE DEF S
  <2> SUFFICES ASSUME S # {} PROVE FALSE
    OBVIOUS
  <2>1. \E n \in S : \A m \in S : n <= m
    BY <1>2, LeastElement
  <2> QED
    BY <1>1, <2>1
<1> QED
  BY <1>3

\* The nodes that a search at n can still meet.
Below(T, lo, hi, n) == {m \in DOMAIN T : lo[n] < m /\ m < hi[n]}

\* The search goes on to fewer of them.
LEMMA HopCloser ==
  ASSUME NEW T, NEW lo, NEW hi, NodesOK(T), Order(T, lo, hi), NEW n \in DOMAIN T, NEW k \in DOMAIN T,
         lo[n] < k, k < hi[n], k # n
  PROVE  LET h == Hop(T, k, n) IN
         /\ h \in DOMAIN T /\ lo[h] < k /\ k < hi[h]
         /\ Cardinality(Below(T, lo, hi, h)) < Cardinality(Below(T, lo, hi, n))
         /\ Cardinality(Below(T, lo, hi, h)) \in Nat /\ Cardinality(Below(T, lo, hi, n)) \in Nat
<1> DEFINE h == Hop(T, k, n)
           A == Below(T, lo, hi, n)
           B == Below(T, lo, hi, h)
<1>1. /\ n \in Nat /\ n # NULL /\ n <= max_key /\ lo[n] \in Nat /\ hi[n] \in Nat /\ lo[n] < n /\ n < hi[n]
      /\ k \in Nat /\ k <= max_key
  BY OrderAt
<1>2. k \in Keys
  <2>1. k # root
    <3> SUFFICES ASSUME k = root PROVE FALSE
      OBVIOUS
    <3>1. n < root /\ root < hi[n]
      BY <1>1, KeysAssumption DEF root
    <3> DEFINE lf == Left(T)
               rt == Right(T)
    <3>2. Ranges(DOMAIN T, lf, rt, lo, hi) /\ lo[root] = 0 /\ root \in DOMAIN T
      BY DEF Order, NodesOK
    <3> HIDE DEF lf, rt
    <3>3. n <= lo[root]
      BY <3>1, <3>2 DEF Ranges
    <3> QED
      BY <1>1, <3>2, <3>3 DEF NULL
  <2> QED
    BY <2>1 DEF NodesOK
<1>3. ChildIn(T, n, k) # NULL
  BY <1>2, NotThere
<1>4. h = ChildIn(T, n, k)
  BY <1>1 DEF Hop
<1>5. h \in DOMAIN T /\ lo[h] < k /\ k < hi[h] /\ ChildOf(T, h, n)
  BY <1>2, <1>3, <1>4, Descend
<1> HIDE DEF h
<1>6. h # NULL /\ (h = T[n].left \/ h = T[n].right)
  BY <1>5, OrderAt DEF ChildOf
<1>7. (lo[h] = lo[n] /\ hi[h] = n) \/ (lo[h] = n /\ hi[h] = hi[n])
  BY <1>6, OrderAt
<1>8. \A m \in DOMAIN T : m \in Nat
  BY OrderAt
<1>9. B \subseteq A \ {n} /\ n \in A
  BY <1>1, <1>7, <1>8 DEF Below
<1>10. IsFiniteSet(A)
  <2>1. \A m \in A : m \in Nat /\ m <= max_key
    BY OrderAt DEF Below
  <2>2. max_key \in Nat
    BY KeysAssumption
  <2> HIDE DEF A
  <2>3. A \in SUBSET Nat
    BY <2>1
  <2> QED
    BY <2>1, <2>2, <2>3, FS_BoundedSetOfNaturals
<1> HIDE DEF A, B
<1>11. IsFiniteSet(A \ {n}) /\ Cardinality(A \ {n}) = Cardinality(A) - 1
  BY <1>9, <1>10, FS_RemoveElement
<1>12. IsFiniteSet(B) /\ Cardinality(B) <= Cardinality(A \ {n})
  BY <1>9, <1>11, FS_Subset
<1>13. Cardinality(B) \in Nat /\ Cardinality(A) \in Nat
  BY <1>10, <1>12, FS_CardinalityType
<1>14. Cardinality(B) < Cardinality(A)
  BY <1>11, <1>12, <1>13
<1> QED
  BY <1>5, <1>13, <1>14 DEF A, B, h

\* So it comes to k within as many steps as there are nodes.
LEMMA PathEnds ==
  ASSUME NEW T, NEW lo, NEW hi, NodesOK(T), Order(T, lo, hi), NEW k \in DOMAIN T,
         NEW f, Path(T, k, Cardinality(DOMAIN T), f)
  PROVE  f[Cardinality(DOMAIN T)] = k
<1> DEFINE N == Cardinality(DOMAIN T)
           C(n) == Cardinality(Below(T, lo, hi, n))
           Good(i) == /\ f[i] \in DOMAIN T /\ lo[f[i]] < k /\ k < hi[f[i]]
                      /\ f[i] # k => C(f[i]) + i <= N
<1>1. \A m \in DOMAIN T : m \in Nat /\ m # 0 /\ m <= max_key
  BY OrderAt
<1>2. IsFiniteSet(DOMAIN T) /\ N \in Nat
  <2>1. max_key \in Nat /\ DOMAIN T \in SUBSET Nat
    BY <1>1, KeysAssumption
  <2>2. IsFiniteSet(DOMAIN T)
    BY <1>1, <2>1, FS_BoundedSetOfNaturals
  <2> QED
    BY <2>2, FS_CardinalityType
<1>3. root \in DOMAIN T /\ lo[root] = 0 /\ hi[root] = Outer /\ max_key \in Nat
  BY KeysAssumption DEF NodesOK, Order
<1> HIDE DEF N
<1>4. \A i \in 0 .. N : f[i] = IF i = 0 THEN root ELSE Hop(T, k, f[i - 1])
  BY DEF Path, N
<1>5. Good(0)
  <2>1. f[0] = root
    BY <1>2, <1>4
  <2>2. lo[root] < k /\ k < hi[root]
    BY <1>1, <1>3 DEF Outer
  <2>3. Below(T, lo, hi, root) = DOMAIN T
    BY <1>1, <1>3 DEF Below, Outer
  <2>4. C(root) + 0 <= N
    BY <1>2, <2>3 DEF N
  <2> HIDE DEF C
  <2> QED
    BY <1>3, <2>1, <2>2, <2>4
<1>6. ASSUME NEW i \in 0 .. N, i # 0, Good(i - 1) PROVE Good(i)
  <2>1. f[i] = Hop(T, k, f[i - 1])
    BY <1>4, <1>6
  <2>2. CASE f[i - 1] = k
    <3>1. f[i] = k
      BY <2>1, <2>2 DEF Hop
    <3> QED
      BY <1>6, <2>2, <3>1
  <2>3. CASE f[i - 1] # k
    <3>1. f[i] \in DOMAIN T /\ lo[f[i]] < k /\ k < hi[f[i]] /\ C(f[i]) < C(f[i - 1])
          /\ C(f[i]) \in Nat /\ C(f[i - 1]) \in Nat
      BY <1>6, <2>1, <2>3, HopCloser
    <3>2. C(f[i - 1]) + (i - 1) <= N
      BY <1>6, <2>3
    <3> HIDE DEF C
    <3>3. C(f[i]) + i <= N
      BY <1>2, <3>1, <3>2
    <3> QED
      BY <3>1, <3>3
  <2> QED
    BY <2>2, <2>3
<1> HIDE DEF Good
<1>7. \A i \in 0 .. N : Good(i)
  <2> DEFINE S == {i \in 0 .. N : ~Good(i)}
  <2> SUFFICES ASSUME S # {} PROVE FALSE
    OBVIOUS
  <2>1. S \in SUBSET Nat
    OBVIOUS
  <2> HIDE DEF S
  <2>2. PICK m \in S : \A i \in S : m <= i
    BY <2>1, LeastElement
  <2>3. m \in 0 .. N /\ ~Good(m)
    BY <2>2 DEF S
  <2>4. m # 0
    BY <1>5, <2>3
  <2>5. m - 1 \in 0 .. N /\ ~(m <= m - 1)
    BY <1>2, <2>3, <2>4
  <2>6. m - 1 \notin S
    BY <2>2, <2>5
  <2>7. Good(m - 1)
    BY <2>5, <2>6 DEF S
  <2> QED
    BY <1>6, <2>3, <2>4, <2>7
<1>8. Good(N)
  BY <1>2, <1>7
<1> SUFFICES ASSUME f[N] # k PROVE FALSE
  BY DEF N
<1>9. f[N] \in DOMAIN T /\ lo[f[N]] < k /\ k < hi[f[N]] /\ C(f[N]) + N <= N
  BY <1>8 DEF Good
<1>10. C(f[N]) \in Nat /\ C(Hop(T, k, f[N])) < C(f[N]) /\ C(Hop(T, k, f[N])) \in Nat
  BY <1>9, HopCloser
<1> HIDE DEF C
<1> QED
  BY <1>2, <1>9, <1>10

\* Every key is found, also between two rotations of a restructuring search, and in the ideal
\* tree too.
THEOREM KeysStayFound == Spec => []KeysFound
<1>1. OrderInv => KeysFound
  <2> SUFFICES ASSUME OrderInv, NEW k \in Nodes
               PROVE  LET path[i \in 0 .. Cardinality(Nodes)] ==
                            IF i = 0 THEN root
                            ELSE IF path[i - 1] \in {NULL, k} THEN path[i - 1]
                            ELSE get_child(path[i - 1], k)
                      IN path[Cardinality(Nodes)] = k
    BY DEF KeysFound
  <2> DEFINE N == Cardinality(Nodes)
             path[i \in 0 .. N] ==
               IF i = 0 THEN root
               ELSE IF path[i - 1] \in {NULL, k} THEN path[i - 1]
               ELSE get_child(path[i - 1], k)
  <2>1. PICK lo, hi : Ordered(lo, hi)
    BY DEF OrderInv, TreeInv, Ordered
  <2>2. NodesOK(tree) /\ Order(tree, lo, hi)
    BY <2>1 DEF Ordered
  <2>3. N \in Nat
    <3>1. \A m \in Nodes : m \in Nat /\ m <= max_key
      BY <2>2, OrderAt DEF Nodes
    <3>2. IsFiniteSet(Nodes)
      BY <3>1, KeysAssumption, FS_BoundedSetOfNaturals
    <3> QED
      BY <3>2, FS_CardinalityType
  <2>4. PICK f : Path(tree, k, N, f)
    BY <2>3, PathExists
  <2>5. f = [i \in 0 .. N |->
               IF i = 0 THEN root
               ELSE IF f[i - 1] \in {NULL, k} THEN f[i - 1]
               ELSE get_child(f[i - 1], k)]
    BY <2>4, TreeOperators DEF Path, Hop
  <2>6. path = [i \in 0 .. N |->
               IF i = 0 THEN root
               ELSE IF path[i - 1] \in {NULL, k} THEN path[i - 1]
               ELSE get_child(path[i - 1], k)]
    <3> HIDE DEF N
    <3> QED
      BY <2>5, Zenon
  <2>7. Path(tree, k, N, path)
    <3> HIDE DEF N, path
    <3> QED
      BY <2>6, TreeOperators DEF Path, Hop
  <2>8. path[N] = k
    <3> HIDE DEF path
    <3> QED
      BY <2>2, <2>7, PathEnds DEF Nodes
  <2> QED
    BY <2>8
<1> QED
  BY <1>1, TreeInvariant, PTL
=============================================================================
