-------------------------- MODULE ReclaimersProofs --------------------------
(***************************************************************************)
(* That the reclaimers of MCReclaimers keep what they promise, for any     *)
(* number of threads and records and any bounds.                           *)
(*                                                                         *)
(* The epoch-based ones put what is retired into bags that grow old        *)
(* together.  The invariant says, of each bag by its age, which operations *)
(* its records may still have to outlive (`waits`); the oldest one waits   *)
(* for none when it is freed.  What is left to show is how a step makes    *)
(* these sets smaller, and that is where the reclaimers differ:            *)
(*                                                                         *)
(*   - DEBRA: an operation that runs while the epoch changes stops the     *)
(*     scans of all threads, so the epoch does not change a second time;   *)
(*   - the token: it does not get past a thread in an operation;           *)
(*   - the tree: no node is ahead of the nodes below it, the root is ahead *)
(*     of its children by one epoch, and so of every announcement.         *)
(*                                                                         *)
(* With hazard pointers the announcements of a thread are a stack as long  *)
(* as it releases them last first.  A record that is held stays at its     *)
(* place, so a scan that has not found it is not past that place, and it   *)
(* cannot have been retired before it was announced and checked.           *)
(***************************************************************************)
EXTENDS MCReclaimers, WellFoundedInduction, NaturalsInduction, TLAPS

-----------------------------------------------------------------------------
(* The bags of DEBRA and of the tree: every retired record is in one bag,  *)
(* and has to outlive no more than W says, by thread and by age of the bag.*)

BagsInv(T, A, bags, ix, lim, W) ==
  /\ bags \in [T -> [0 .. 2 -> SUBSET DOMAIN lim]]
  /\ ix \in [T -> 0 .. 2]
  /\ lim \in [DOMAIN lim -> SUBSET A]
  /\ \A t, u \in T, i, j \in 0 .. 2 : bags[t][i] \cap bags[u][j] # {} => t = u /\ i = j
  /\ \A t \in T, i \in 0 .. 2 : \A r \in bags[t][(ix[t] + 3 - i) % 3] : lim[r] \subseteq W[t][i]

\* The bags stay as they are, and records have to outlive fewer operations.
BagsKept(T, A, bags, ix, lim, W, A2, lim2, W2) ==
  /\ BagsInv(T, A, bags, ix, lim, W)
  /\ DOMAIN lim2 = DOMAIN lim /\ lim2 \in [DOMAIN lim2 -> SUBSET A2]
  /\ \A x \in DOMAIN lim : lim2[x] \subseteq lim[x]
  /\ \A t \in T, i \in 0 .. 2 : W[t][i] \cap A2 \subseteq W2[t][i]

\* The bags are in order after such a step.
LEMMA BagsKeep ==
  ASSUME NEW T, NEW A, NEW bags, NEW ix, NEW lim, NEW W, NEW A2, NEW lim2, NEW W2,
         BagsKept(T, A, bags, ix, lim, W, A2, lim2, W2)
  PROVE  BagsInv(T, A2, bags, ix, lim2, W2)
<1>1. /\ bags \in [T -> [0 .. 2 -> SUBSET DOMAIN lim]] /\ ix \in [T -> 0 .. 2]
      /\ \A s, u \in T, i, j \in 0 .. 2 : bags[s][i] \cap bags[u][j] # {} => s = u /\ i = j
      /\ \A t \in T, i \in 0 .. 2 : \A r \in bags[t][(ix[t] + 3 - i) % 3] : lim[r] \subseteq W[t][i]
      /\ DOMAIN lim2 = DOMAIN lim /\ lim2 \in [DOMAIN lim2 -> SUBSET A2]
      /\ \A x \in DOMAIN lim : lim2[x] \subseteq lim[x]
      /\ \A t \in T, i \in 0 .. 2 : W[t][i] \cap A2 \subseteq W2[t][i]
  BY DEF BagsKept, BagsInv
<1>2. ASSUME NEW t \in T, NEW i \in 0 .. 2, NEW r \in bags[t][(ix[t] + 3 - i) % 3]
      PROVE  lim2[r] \subseteq W2[t][i]
  <2>1. (ix[t] + 3 - i) % 3 \in 0 .. 2
    BY <1>1
  <2>2. r \in DOMAIN lim
    BY <1>1, <2>1
  <2>3. lim2[r] \subseteq lim[r] /\ lim2[r] \subseteq A2 /\ lim[r] \subseteq W[t][i]
    BY <1>1, <2>2
  <2> QED
    BY <1>1, <2>3
<1> QED
  BY <1>1, <1>2 DEF BagsInv

\* rotateEpochBags: every bag gets one older, and the oldest is given to the pool.
BagsRotated(T, A, bags, ix, lim, W, t, n, bags2, ix2, lim2, W2) ==
  /\ BagsInv(T, A, bags, ix, lim, W) /\ t \in T /\ n = (ix[t] + 1) % 3
  /\ bags2 = [bags EXCEPT ![t][n] = {}]
  /\ ix2 = [ix EXCEPT ![t] = n]
  /\ lim2 = [x \in DOMAIN lim \ bags[t][n] |-> lim[x]]
  /\ W[t][2] = {} /\ W[t][1] \subseteq W2[t][2] /\ W[t][0] \subseteq W2[t][1]
  /\ \A u \in T, i \in 0 .. 2 : u # t => W[u][i] \subseteq W2[u][i]

\* The bags are in order after a thread has freed its oldest bag, and nobody uses what it frees.
LEMMA BagsRotate ==
  ASSUME NEW T, NEW A, NEW bags, NEW ix, NEW lim, NEW W, NEW t, NEW n, NEW bags2, NEW ix2,
         NEW lim2, NEW W2, BagsRotated(T, A, bags, ix, lim, W, t, n, bags2, ix2, lim2, W2)
  PROVE  /\ BagsInv(T, A, bags2, ix2, lim2, W2)
         /\ bags[t][n] \subseteq DOMAIN lim
         /\ \A r \in bags[t][n] : lim[r] = {}
<1>0. /\ t \in T /\ n = (ix[t] + 1) % 3
      /\ bags2 = [bags EXCEPT ![t][n] = {}]
      /\ ix2 = [ix EXCEPT ![t] = n]
      /\ lim2 = [x \in DOMAIN lim \ bags[t][n] |-> lim[x]]
      /\ W[t][2] = {} /\ W[t][1] \subseteq W2[t][2] /\ W[t][0] \subseteq W2[t][1]
      /\ \A u \in T, i \in 0 .. 2 : u # t => W[u][i] \subseteq W2[u][i]
  BY DEF BagsRotated
<1>1. /\ bags \in [T -> [0 .. 2 -> SUBSET DOMAIN lim]] /\ ix \in [T -> 0 .. 2]
      /\ lim \in [DOMAIN lim -> SUBSET A]
      /\ \A s, u \in T, i, j \in 0 .. 2 : bags[s][i] \cap bags[u][j] # {} => s = u /\ i = j
      /\ \A u \in T, i \in 0 .. 2 : \A r \in bags[u][(ix[u] + 3 - i) % 3] : lim[r] \subseteq W[u][i]
  BY DEF BagsRotated, BagsInv
<1>2. /\ n \in 0 .. 2 /\ ix[t] \in 0 .. 2
      /\ (n + 3 - 0) % 3 = n /\ (n + 3 - 1) % 3 = (ix[t] + 3 - 0) % 3
      /\ (n + 3 - 2) % 3 = (ix[t] + 3 - 1) % 3 /\ n = (ix[t] + 3 - 2) % 3
      /\ (ix[t] + 3 - 0) % 3 # n /\ (ix[t] + 3 - 1) % 3 # n
      /\ (ix[t] + 3 - 0) % 3 \in 0 .. 2 /\ (ix[t] + 3 - 1) % 3 \in 0 .. 2
  BY <1>0, <1>1
<1>3. \A u \in T, j \in 0 .. 2 : bags2[u][j] = IF u = t /\ j = n THEN {} ELSE bags[u][j]
  BY <1>0, <1>1, <1>2
<1>4. DOMAIN lim2 = DOMAIN lim \ bags[t][n] /\ \A x \in DOMAIN lim2 : lim2[x] = lim[x]
  BY <1>0
<1>5. \A u \in T, j \in 0 .. 2 : bags2[u][j] \subseteq DOMAIN lim2
  BY <1>0, <1>1, <1>2, <1>3, <1>4
<1>6. bags2 \in [T -> [0 .. 2 -> SUBSET DOMAIN lim2]]
  <2>1. bags2 \in [T -> [0 .. 2 -> SUBSET DOMAIN lim]]
    BY <1>0, <1>1, <1>2
  <2> QED
    BY <1>5, <2>1
<1>7. ix2 \in [T -> 0 .. 2] /\ ix2[t] = n /\ \A u \in T : u # t => ix2[u] = ix[u]
  BY <1>0, <1>1, <1>2
<1>8. lim2 \in [DOMAIN lim2 -> SUBSET A]
  BY <1>0, <1>1, <1>4
<1>9. \A s, u \in T, i, j \in 0 .. 2 : bags2[s][i] \cap bags2[u][j] # {} => s = u /\ i = j
  BY <1>1, <1>3
<1>10. ASSUME NEW u \in T, NEW i \in 0 .. 2, NEW r \in bags2[u][(ix2[u] + 3 - i) % 3]
       PROVE  lim2[r] \subseteq W2[u][i]
  <2>1. (ix2[u] + 3 - i) % 3 \in 0 .. 2
    BY <1>7
  <2>2. lim2[r] = lim[r] /\ r \in bags[u][(ix2[u] + 3 - i) % 3]
    BY <1>3, <1>4, <1>5, <2>1
  <2>3. CASE u # t
    BY <1>0, <1>1, <1>7, <2>2, <2>3
  <2>4. CASE u = t
    <3>1. i # 0
      BY <1>0, <1>2, <1>3, <1>7, <2>4
    <3>2. CASE i = 1
      BY <1>0, <1>1, <1>2, <1>7, <2>2, <2>4, <3>2
    <3>3. CASE i = 2
      BY <1>0, <1>1, <1>2, <1>7, <2>2, <2>4, <3>3
    <3> QED
      BY <3>1, <3>2, <3>3
  <2> QED
    BY <2>3, <2>4
<1>11. BagsInv(T, A, bags2, ix2, lim2, W2)
  BY <1>6, <1>7, <1>8, <1>9, <1>10 DEF BagsInv
<1>12. bags[t][n] \subseteq DOMAIN lim /\ \A r \in bags[t][n] : lim[r] = {}
  BY <1>0, <1>1, <1>2, SMTT(30)
<1> QED
  BY <1>11, <1>12

\* retire: the record goes to the bag that is being filled.
BagsRetired(T, A, bags, ix, lim, W, t, r, bags2, lim2, W2) ==
  /\ BagsInv(T, A, bags, ix, lim, W) /\ t \in T /\ r \notin DOMAIN lim
  /\ bags2 = [bags EXCEPT ![t][ix[t]] = @ \cup {r}]
  /\ lim2 = [x \in DOMAIN lim \cup {r} |-> IF x = r THEN A ELSE lim[x]]
  /\ A \subseteq W2[t][0] /\ \A u \in T, i \in 0 .. 2 : W[u][i] \subseteq W2[u][i]

\* The bags are in order after a thread has retired a record.
LEMMA BagsRetire ==
  ASSUME NEW T, NEW A, NEW bags, NEW ix, NEW lim, NEW W, NEW t, NEW r, NEW bags2, NEW lim2,
         NEW W2, BagsRetired(T, A, bags, ix, lim, W, t, r, bags2, lim2, W2)
  PROVE  BagsInv(T, A, bags2, ix, lim2, W2)
<1>0. /\ t \in T /\ r \notin DOMAIN lim
      /\ bags2 = [bags EXCEPT ![t][ix[t]] = @ \cup {r}]
      /\ lim2 = [x \in DOMAIN lim \cup {r} |-> IF x = r THEN A ELSE lim[x]]
      /\ A \subseteq W2[t][0] /\ \A u \in T, i \in 0 .. 2 : W[u][i] \subseteq W2[u][i]
  BY DEF BagsRetired
<1>1. /\ bags \in [T -> [0 .. 2 -> SUBSET DOMAIN lim]] /\ ix \in [T -> 0 .. 2]
      /\ lim \in [DOMAIN lim -> SUBSET A]
      /\ \A s, u \in T, i, j \in 0 .. 2 : bags[s][i] \cap bags[u][j] # {} => s = u /\ i = j
      /\ \A u \in T, i \in 0 .. 2 : \A x \in bags[u][(ix[u] + 3 - i) % 3] : lim[x] \subseteq W[u][i]
  BY DEF BagsRetired, BagsInv
<1>2. \A u \in T, j \in 0 .. 2 :
        bags2[u][j] = IF u = t /\ j = ix[t] THEN bags[u][j] \cup {r} ELSE bags[u][j]
  BY <1>0, <1>1, ZenonT(40)
<1>3. DOMAIN lim2 = DOMAIN lim \cup {r} /\ lim2[r] = A /\ \A x \in DOMAIN lim : lim2[x] = lim[x]
  BY <1>0
<1>4. \A u \in T, j \in 0 .. 2 : bags[u][j] \subseteq DOMAIN lim /\ r \notin bags[u][j]
  BY <1>0, <1>1
<1>5. bags2 \in [T -> [0 .. 2 -> SUBSET DOMAIN lim2]]
  <2>1. \A u \in T, j \in 0 .. 2 : bags2[u][j] \in SUBSET DOMAIN lim2
    BY <1>2, <1>3, <1>4, ZenonT(40)
  <2> QED
    BY <1>0, <1>1, <2>1
<1>6. lim2 \in [DOMAIN lim2 -> SUBSET A]
  BY <1>0, <1>1, <1>3
<1>7. \A s, u \in T, i, j \in 0 .. 2 : bags2[s][i] \cap bags2[u][j] # {} => s = u /\ i = j
  BY <1>0, <1>1, <1>2, <1>4
<1>8. ASSUME NEW u \in T, NEW i \in 0 .. 2, NEW x \in bags2[u][(ix[u] + 3 - i) % 3]
      PROVE  lim2[x] \subseteq W2[u][i]
  <2>0. (ix[u] + 3 - i) % 3 \in 0 .. 2 /\ ((ix[u] + 3 - i) % 3 = ix[u] => i = 0)
    BY <1>1
  <2>1. PICK j \in 0 .. 2 : j = (ix[u] + 3 - i) % 3 /\ (j = ix[u] => i = 0) /\ x \in bags2[u][j]
    BY <2>0
  <2>a. \/ bags2[u][j] = bags[u][j]
        \/ u = t /\ j = ix[t] /\ bags2[u][j] = bags[u][j] \cup {r}
    BY <1>2
  <2>b. bags[u][j] \subseteq DOMAIN lim /\ r \notin bags[u][j]
    BY <1>4
  <2>2. CASE x = r
    <3>1. u = t /\ i = 0
      BY <2>1, <2>2, <2>a, <2>b
    <3> QED
      BY <1>0, <1>3, <2>2, <3>1
  <2>3. CASE x # r
    <3>1. x \in bags[u][j] /\ x \in DOMAIN lim
      BY <2>1, <2>3, <2>a, <2>b
    <3> QED
      BY <1>0, <1>1, <1>3, <2>1, <3>1
  <2> QED
    BY <2>2, <2>3
<1> QED
  BY <1>1, <1>5, <1>6, <1>7, <1>8 DEF BagsInv

-----------------------------------------------------------------------------
(* DEBRA *)

\* Nobody has announced anything and all bags are empty.
LEMMA DebraInit == D!Init => D!IInv
<1> SUFFICES ASSUME D!Init PROVE D!IInv
  OBVIOUS
<1> USE ProcessesAssumption DEF D!Init, D!GP!NoRecords
<1>1. D!GET_WITH_QUIESCENT(0) = 1
  BY DEF D!GET_WITH_QUIESCENT, D!BITS_EPOCH, D!EPOCH_INCREMENT
<1>2. D!TypeOK
  BY <1>1 DEF D!TypeOK, D!Even, D!Bags, D!Tids, D!NUMBER_OF_EPOCH_BAGS
<1>3. D!AnnounceInv
  BY <1>1 DEF D!AnnounceInv, D!QUIESCENT
<1>4. D!ScanInv
  BY DEF D!ScanInv, D!Tids
<1>5. D!BagInv
  BY DEF D!BagInv, D!Bags, D!NUMBER_OF_EPOCH_BAGS
<1> QED
  BY <1>2, <1>3, <1>4, <1>5 DEF D!IInv

\* What the announcements say about the epoch.
LEMMA DebraFacts ==
  ASSUME D!TypeOK, D!AnnounceInv
  PROVE  /\ D!GET_WITH_QUIESCENT(0) = 1 /\ epoch \in Nat /\ epoch % 2 = 0
         /\ \A u \in D!Tids :
              /\ u \in Nat /\ u < DebraProcesses
              /\ localvar_announcedEpoch[u] \in Nat /\ localvar_announcedEpoch[u] # epoch + 2
              /\ localvar_announcedEpoch[u] = 1 \/ localvar_announcedEpoch[u] <= epoch
              /\ pc[u] # "idle" => /\ readEpoch[u] = localvar_announcedEpoch[u]
                                  /\ localvar_announcedEpoch[u] % 2 = 0
                                  /\ localvar_announcedEpoch[u] <= epoch
              /\ pc[u] \in {"check", "cas", "op"} => announcedEpoch[u] = localvar_announcedEpoch[u]
              /\ checked[u] \in 0 .. DebraProcesses
<1>1. D!GET_WITH_QUIESCENT(0) = 1 /\ epoch \in Nat /\ epoch % 2 = 0
  BY DEF D!GET_WITH_QUIESCENT, D!BITS_EPOCH, D!EPOCH_INCREMENT, D!TypeOK, D!Even
<1> SUFFICES ASSUME NEW u \in D!Tids
             PROVE  /\ u \in Nat /\ u < DebraProcesses
                    /\ localvar_announcedEpoch[u] \in Nat /\ localvar_announcedEpoch[u] # epoch + 2
                    /\ localvar_announcedEpoch[u] = 1 \/ localvar_announcedEpoch[u] <= epoch
                    /\ pc[u] # "idle" => /\ readEpoch[u] = localvar_announcedEpoch[u]
                                        /\ localvar_announcedEpoch[u] % 2 = 0
                                        /\ localvar_announcedEpoch[u] <= epoch
                    /\ pc[u] \in {"check", "cas", "op"} => announcedEpoch[u] = localvar_announcedEpoch[u]
                    /\ checked[u] \in 0 .. DebraProcesses
  BY <1>1
<1>2. u \in Nat /\ u < DebraProcesses
  BY ProcessesAssumption DEF D!Tids
<1>3. localvar_announcedEpoch[u] \in Nat /\ checked[u] \in 0 .. DebraProcesses
  BY DEF D!TypeOK
<1>4. /\ localvar_announcedEpoch[u] = 1 \/ (localvar_announcedEpoch[u] % 2 = 0 /\ localvar_announcedEpoch[u] <= epoch)
      /\ pc[u] # "idle" => readEpoch[u] = localvar_announcedEpoch[u] /\ localvar_announcedEpoch[u] % 2 = 0
      /\ pc[u] \in {"check", "cas", "op"} => announcedEpoch[u] = localvar_announcedEpoch[u]
  BY <1>1 DEF D!AnnounceInv, D!Even
<1> HIDE DEF D!TypeOK
<1> QED
  BY <1>1, <1>2, <1>3, <1>4

\* An operation that stops the epoch goes on stopping it until it ends; when the epoch advances,
\* every operation that is running stops it.
LEMMA DebraStops ==
  ASSUME D!IInv, NEW t \in D!Tids,
         D!ReadEpoch(t) \/ D!Step(t) \/ \E r \in Records : D!retire(t, r),
         NEW s \in D!active, s \in D!active'
  PROVE  /\ s \in D!stoppers => s \in D!stoppers' /\ epoch' = epoch
         /\ epoch' # epoch => s \in D!stoppers'
<1>a. /\ s \in D!stoppers <=> D!Stops(s)
      /\ s \in D!stoppers' <=> D!Stops(s)'
  BY DEF D!stoppers
<1> SUFFICES /\ D!Stops(s) => D!Stops(s)' /\ epoch' = epoch
             /\ epoch' # epoch => D!Stops(s)'
  BY <1>a
<1>1. /\ s \in D!Tids /\ pc[s] = "op" /\ pc'[s] = "op" /\ D!ScanInv
      /\ announcedEpoch \in [D!Tids -> Nat] /\ localvar_announcedEpoch \in [D!Tids -> Nat]
      /\ checked \in [D!Tids -> 0 .. DebraProcesses] /\ DOMAIN pc = D!Tids
  BY DEF D!IInv, D!TypeOK, D!active
<1>2. /\ D!GET_WITH_QUIESCENT(0) = 1 /\ epoch \in Nat /\ epoch % 2 = 0
      /\ \A u \in D!Tids :
           /\ u \in Nat /\ u < DebraProcesses
           /\ localvar_announcedEpoch[u] \in Nat /\ localvar_announcedEpoch[u] # epoch + 2
           /\ localvar_announcedEpoch[u] = 1 \/ localvar_announcedEpoch[u] <= epoch
           /\ pc[u] # "idle" => /\ readEpoch[u] = localvar_announcedEpoch[u]
                               /\ localvar_announcedEpoch[u] % 2 = 0
                               /\ localvar_announcedEpoch[u] <= epoch
           /\ pc[u] \in {"check", "cas", "op"} => announcedEpoch[u] = localvar_announcedEpoch[u]
           /\ checked[u] \in 0 .. DebraProcesses
  BY DebraFacts DEF D!IInv
<1>3. CASE D!ReadEpoch(t)
  <2>1. s # t /\ epoch' = epoch /\ announcedEpoch' = announcedEpoch
    BY <1>1, <1>3 DEF D!ReadEpoch, D!Goto
  <2>2. ASSUME D!Stops(s), NEW u \in D!Tids, localvar_announcedEpoch'[u] = epoch
        PROVE  checked'[u] <= s
    BY <1>1, <1>2, <1>3, <2>2 DEF D!ReadEpoch, D!Stops
  <2> QED
    BY <2>1, <2>2 DEF D!Stops
<1>4. CASE D!Announce(t)
  <2>1. s # t
    BY <1>1, <1>4 DEF D!Announce, D!Goto
  <2> QED
    BY <1>1, <1>4, <2>1 DEF D!Announce, D!Stops
<1>5. CASE D!Check(t)
  <2>1. ASSUME localvar_announcedEpoch[t] = epoch, checked[t] = s, announcedEpoch[s] < epoch
        PROVE  ~D!InEpoch(announcedEpoch[checked[t]], readEpoch[t])
    <3>1. readEpoch[t] = epoch
      BY <1>2, <1>5, <2>1 DEF D!Check
    <3>2. announcedEpoch[s] \in Nat /\ announcedEpoch[s] % 2 = 0
      BY <1>1, <1>2
    <3> QED
      BY <1>2, <2>1, <3>1, <3>2 DEF D!InEpoch, D!BITS_EPOCH, D!QUIESCENT, D!EPOCH_INCREMENT
  <2>2. checked'[t] # checked[t] => /\ checked'[t] = checked[t] + 1
                                    /\ D!InEpoch(announcedEpoch[checked[t]], readEpoch[t])
    BY <1>1, <1>5 DEF D!Check
  <2>3. epoch' = epoch /\ localvar_announcedEpoch' = localvar_announcedEpoch
        /\ announcedEpoch' = announcedEpoch /\ \A u \in D!Tids : u # t => checked'[u] = checked[u]
    BY <1>1, <1>5 DEF D!Check
  <2>4. ASSUME D!Stops(s), NEW u \in D!Tids, localvar_announcedEpoch[u] = epoch
        PROVE  checked'[u] <= s
    <3>1. announcedEpoch[s] < epoch /\ checked[u] <= s
      BY <2>4 DEF D!Stops
    <3>2. CASE checked'[u] = checked[u]
      BY <3>1, <3>2
    <3>3. CASE checked'[u] # checked[u]
      <4>1. u = t /\ checked'[t] = checked[t] + 1 /\ checked[t] # s
        BY <2>1, <2>2, <2>3, <2>4, <3>1, <3>3
      <4> QED
        BY <1>1, <1>2, <3>1, <4>1
    <3> QED
      BY <3>2, <3>3
  <2> QED
    BY <2>3, <2>4 DEF D!Stops
<1>6. CASE D!CASEpoch(t)
  <2>1. ASSUME epoch' # epoch
        PROVE  /\ epoch = localvar_announcedEpoch[t] /\ checked[t] = DebraProcesses
               /\ epoch' = epoch + 2
    BY <1>1, <1>2, <1>6, <2>1 DEF D!CASEpoch, D!ScanInv, D!EPOCH_INCREMENT, D!Goto
  <2>2. ASSUME epoch' # epoch PROVE D!Stops(s)' /\ ~D!Stops(s)
    BY <1>1, <1>2, <1>6, <2>1, <2>2 DEF D!CASEpoch, D!Stops
  <2>3. ASSUME epoch' = epoch PROVE D!Stops(s)' <=> D!Stops(s)
    BY <1>6, <2>3 DEF D!CASEpoch, D!Stops
  <2> QED
    BY <2>2, <2>3
<1>7. CASE D!endOp(t)
  <2>1. s # t
    BY <1>1, <1>7 DEF D!endOp, D!Goto
  <2> QED
    BY <1>1, <1>7, <2>1 DEF D!endOp, D!Stops
<1>8. ASSUME NEW r \in Records, D!retire(t, r)
      PROVE  epoch' = epoch /\ (D!Stops(s) => D!Stops(s)')
  BY <1>8 DEF D!retire, D!Stops
<1> QED
  BY <1>3, <1>4, <1>5, <1>6, <1>7, <1>8 DEF D!Step

DebraTypes ==
  /\ epoch \in Nat /\ epoch % 2 = 0
  /\ announcedEpoch \in [D!Tids -> Nat] /\ localvar_announcedEpoch \in [D!Tids -> Nat]
  /\ checked \in [D!Tids -> 0 .. DebraProcesses]
  /\ pc \in [D!Tids -> {"idle", "announce", "check", "cas", "op"}]
  /\ readEpoch \in [D!Tids -> Nat]

DebraBags == BagsInv(D!Tids, D!active, epochbags, index, limbo, D!waits)

\* The invariant in parts: what is about the epoch, and what is about the bags.
LEMMA DebraParts == D!TypeOK /\ D!BagInv <=> DebraTypes /\ DebraBags
BY DEF D!TypeOK, D!BagInv, DebraTypes, DebraBags, BagsInv, D!Bags, D!Even, D!NUMBER_OF_EPOCH_BAGS

\* What a record may have to outlive, case by case.
DebraWaiting == \A t \in D!Tids :
  /\ localvar_announcedEpoch[t] = 1 => \A i \in 0 .. 2 : D!waits[t][i] = {}
  /\ localvar_announcedEpoch[t] # 1 /\ localvar_announcedEpoch[t] < epoch =>
       D!waits[t][0] = D!active /\ D!waits[t][1] = D!stoppers /\ D!waits[t][2] = {}
  /\ localvar_announcedEpoch[t] # 1 /\ localvar_announcedEpoch[t] = epoch =>
       D!waits[t][0] = D!active /\ D!waits[t][1] = D!active /\ D!waits[t][2] = D!stoppers

\* What the records in DEBRA's bags wait for, thread by thread and age by age.
LEMMA DebraWaits == DebraTypes => DebraWaiting
<1> SUFFICES ASSUME DebraTypes, NEW t \in D!Tids
             PROVE  /\ localvar_announcedEpoch[t] = 1 => \A i \in 0 .. 2 : D!waits[t][i] = {}
                    /\ localvar_announcedEpoch[t] # 1 /\ localvar_announcedEpoch[t] < epoch =>
                         D!waits[t][0] = D!active /\ D!waits[t][1] = D!stoppers /\ D!waits[t][2] = {}
                    /\ localvar_announcedEpoch[t] # 1 /\ localvar_announcedEpoch[t] = epoch =>
                         /\ D!waits[t][0] = D!active /\ D!waits[t][1] = D!active
                         /\ D!waits[t][2] = D!stoppers
  BY DEF DebraWaiting
<1>1. D!GET_WITH_QUIESCENT(0) = 1
  BY DEF D!GET_WITH_QUIESCENT, D!BITS_EPOCH, D!EPOCH_INCREMENT
<1>2. localvar_announcedEpoch[t] \in Nat /\ epoch \in Nat
  BY DEF DebraTypes
<1> DEFINE e == localvar_announcedEpoch[t]
           w(i) == IF e = 1 THEN {}
                   ELSE CASE i = 0 \/ (i = 1 /\ e = epoch) -> D!active
                          [] (i = 1 /\ e < epoch) \/ (i = 2 /\ e = epoch) -> D!stoppers
                          [] OTHER -> {}
<1>3. \A i \in 0 .. 2 : D!waits[t][i] = w(i)
  BY <1>1 DEF D!waits, D!Bags, D!NUMBER_OF_EPOCH_BAGS
<1>4. ASSUME e = 1 PROVE \A i \in 0 .. 2 : w(i) = {}
  BY <1>4
<1>5. ASSUME e # 1, e < epoch PROVE w(0) = D!active /\ w(1) = D!stoppers /\ w(2) = {}
  BY <1>2, <1>5
<1>6. ASSUME e # 1, e = epoch PROVE w(0) = D!active /\ w(1) = D!active /\ w(2) = D!stoppers
  BY <1>2, <1>6
<1> QED
  BY <1>3, <1>4, <1>5, <1>6

\* When the bags stay as they are: an operation that stops the epoch goes on doing so, and all
\* do when it advances.
LEMMA DebraBagsKept ==
  ASSUME D!IInv, NEW t \in D!Tids,
         D!ReadEpoch(t) \/ D!Step(t) \/ \E r \in Records : D!retire(t, r),
         DebraTypes', epochbags' = epochbags, index' = index,
         localvar_announcedEpoch' = localvar_announcedEpoch,
         epoch' = epoch \/ epoch' = epoch + 2,
         DOMAIN limbo' = DOMAIN limbo, limbo' \in [DOMAIN limbo -> SUBSET D!active'],
         \A x \in DOMAIN limbo : limbo'[x] \subseteq limbo[x]
  PROVE  DebraBags'
<1>1. DebraTypes /\ DebraBags
  BY DebraParts DEF D!IInv
<1>2. DebraWaiting
  BY <1>1, DebraWaits
<1>3. DebraWaiting'
  BY DebraWaits, PTL
<1>4. /\ D!GET_WITH_QUIESCENT(0) = 1 /\ epoch \in Nat /\ epoch % 2 = 0
      /\ \A u \in D!Tids :
           /\ u \in Nat /\ u < DebraProcesses
           /\ localvar_announcedEpoch[u] \in Nat /\ localvar_announcedEpoch[u] # epoch + 2
           /\ localvar_announcedEpoch[u] = 1 \/ localvar_announcedEpoch[u] <= epoch
           /\ pc[u] # "idle" => /\ readEpoch[u] = localvar_announcedEpoch[u]
                               /\ localvar_announcedEpoch[u] % 2 = 0
                               /\ localvar_announcedEpoch[u] <= epoch
           /\ pc[u] \in {"check", "cas", "op"} => announcedEpoch[u] = localvar_announcedEpoch[u]
           /\ checked[u] \in 0 .. DebraProcesses
  BY DebraFacts DEF D!IInv
<1>5. \A s \in D!active : s \in D!active' =>
        /\ s \in D!stoppers => s \in D!stoppers' /\ epoch' = epoch
        /\ epoch' # epoch => s \in D!stoppers'
  BY DebraStops
<1>6. D!stoppers \subseteq D!active
  BY DEF D!stoppers
<1>7. ASSUME NEW u \in D!Tids, NEW i \in 0 .. 2, NEW s \in D!waits[u][i], s \in D!active'
      PROVE  s \in D!waits'[u][i]
  <2>1. CASE localvar_announcedEpoch[u] = 1
    BY <1>2, <1>7, <2>1 DEF DebraWaiting
  <2>2. CASE localvar_announcedEpoch[u] # 1 /\ localvar_announcedEpoch[u] < epoch
    <3>1. D!waits[u][0] = D!active /\ D!waits[u][1] = D!stoppers /\ D!waits[u][2] = {}
      BY <1>2, <2>2 DEF DebraWaiting
    <3>2. D!waits'[u][0] = D!active' /\ D!waits'[u][1] = D!stoppers' /\ D!waits'[u][2] = {}
      <4>1. localvar_announcedEpoch'[u] # 1 /\ localvar_announcedEpoch'[u] < epoch'
        BY <1>4, <2>2
      <4> QED
        BY <1>3, <4>1 DEF DebraWaiting
    <3> QED
      BY <1>5, <1>6, <1>7, <3>1, <3>2
  <2>3. CASE localvar_announcedEpoch[u] # 1 /\ localvar_announcedEpoch[u] = epoch
    <3>1. D!waits[u][0] = D!active /\ D!waits[u][1] = D!active /\ D!waits[u][2] = D!stoppers
      BY <1>2, <2>3 DEF DebraWaiting
    <3>2. CASE epoch' = epoch
      <4>1. D!waits'[u][0] = D!active' /\ D!waits'[u][1] = D!active' /\ D!waits'[u][2] = D!stoppers'
        BY <1>3, <2>3, <3>2 DEF DebraWaiting
      <4> QED
        BY <1>5, <1>6, <1>7, <3>1, <4>1
    <3>3. CASE epoch' = epoch + 2
      <4>1. localvar_announcedEpoch'[u] # 1 /\ localvar_announcedEpoch'[u] < epoch' /\ epoch' # epoch
        BY <1>4, <2>3, <3>3
      <4>2. D!waits'[u][0] = D!active' /\ D!waits'[u][1] = D!stoppers' /\ D!waits'[u][2] = {}
        BY <1>3, <4>1 DEF DebraWaiting
      <4> QED
        BY <1>5, <1>6, <1>7, <3>1, <4>1, <4>2
    <3> QED
      BY <3>2, <3>3
  <2> QED
    BY <1>4, <2>1, <2>2, <2>3
<1>8. BagsKept(D!Tids, D!active, epochbags, index, limbo, D!waits, D!active', limbo', D!waits')
  BY <1>1, <1>7 DEF BagsKept, DebraBags
<1>9. BagsInv(D!Tids, D!active', epochbags, index, limbo', D!waits')
  BY <1>8, BagsKeep
<1> QED
  BY <1>9 DEF DebraBags, BagsInv, D!Tids

\* A step of DEBRA keeps the invariant, and is a step of GracePeriod.
LEMMA DebraStep ==
  ASSUME D!IInv, NEW t \in D!Tids,
         D!ReadEpoch(t) \/ D!Step(t) \/ \E r \in Records : D!retire(t, r)
  PROVE  D!IInv' /\ [GP!Next]_(GP!vars)
<1>1. D!ReadEpoch(t) \/ D!Step(t) \/ \E r \in Records : D!retire(t, r)
  OBVIOUS
<1>2. D!AnnounceInv /\ D!ScanInv /\ D!TypeOK /\ D!BagInv
  BY DEF D!IInv
<1>3. DebraTypes /\ DebraBags
  BY <1>2, DebraParts
<1>4. /\ D!GET_WITH_QUIESCENT(0) = 1 /\ epoch \in Nat /\ epoch % 2 = 0
      /\ \A u \in D!Tids :
           /\ u \in Nat /\ u < DebraProcesses
           /\ localvar_announcedEpoch[u] \in Nat /\ localvar_announcedEpoch[u] # epoch + 2
           /\ localvar_announcedEpoch[u] = 1 \/ localvar_announcedEpoch[u] <= epoch
           /\ pc[u] # "idle" => /\ readEpoch[u] = localvar_announcedEpoch[u]
                               /\ localvar_announcedEpoch[u] % 2 = 0
                               /\ localvar_announcedEpoch[u] <= epoch
           /\ pc[u] \in {"check", "cas", "op"} => announcedEpoch[u] = localvar_announcedEpoch[u]
           /\ checked[u] \in 0 .. DebraProcesses
  BY <1>2, DebraFacts
<1>5. /\ DOMAIN pc = D!Tids /\ \A u \in D!Tids : pc[u] \in {"idle", "announce", "check", "cas", "op"}
      /\ limbo \in [DOMAIN limbo -> SUBSET D!active] /\ active = D!active
  BY <1>2, <1>3 DEF D!TypeOK, active, D!active, DebraTypes
<1>6. (D!TypeOK /\ D!BagInv)' <=> (DebraTypes /\ DebraBags)'
  BY DebraParts, PTL
<1>7. DebraBags' <=> BagsInv(D!Tids, D!active', epochbags', index', limbo', D!waits')
  BY DEF DebraBags, BagsInv, D!Tids
<1>8. ASSUME DebraTypes', DebraBags', D!AnnounceInv', D!ScanInv' PROVE D!IInv'
  BY <1>6, <1>8 DEF D!IInv
<1>9. /\ t \in 0 .. NUM_PROCESSES - 1
      /\ DebraTypes' => active' = D!active'
  <2>1. DebraTypes' => active' = D!active'
    BY DEF active, D!active, DebraTypes, D!Tids
  <2>2. t \in 0 .. NUM_PROCESSES - 1
    BY ProcessesAssumption DEF D!Tids
  <2> QED
    BY <2>1, <2>2
<1>10. CASE D!ReadEpoch(t)
  <2>a. /\ pc[t] = "idle" /\ pc' = [pc EXCEPT ![t] = "announce"] /\ epoch' = epoch
        /\ readEpoch' = [readEpoch EXCEPT ![t] = epoch] /\ announcedEpoch' = announcedEpoch
        /\ localvar_announcedEpoch' = [localvar_announcedEpoch EXCEPT ![t] = epoch]
        /\ checked' = IF epoch # localvar_announcedEpoch[t] THEN [checked EXCEPT ![t] = 0] ELSE checked
    BY <1>10 DEF D!ReadEpoch, D!Goto
  <2>1. DebraTypes'
    <3>1. checked' \in [D!Tids -> 0 .. DebraProcesses]
      BY <1>3, <2>a, ProcessesAssumption DEF DebraTypes
    <3> QED
      BY <1>3, <2>a, <3>1 DEF DebraTypes
  <2>2. D!AnnounceInv'
    BY <1>2, <1>3, <1>4, <2>a DEF D!AnnounceInv, DebraTypes, D!Even, D!GET_WITH_QUIESCENT, D!BITS_EPOCH
  <2>3. D!ScanInv'
    BY <1>2, <1>3, <1>4, <2>a, ProcessesAssumption DEF D!ScanInv, DebraTypes, D!Even
  <2>b. D!active' = D!active
    BY <1>5, <2>a DEF D!active, D!Tids
  <2>c. CASE epoch = localvar_announcedEpoch[t]
    <3>1. epochbags' = epochbags /\ index' = index /\ limbo' = limbo
          /\ localvar_announcedEpoch' = localvar_announcedEpoch
      BY <1>3, <1>10, <2>c DEF D!ReadEpoch, DebraTypes
    <3>2. DebraBags'
      BY <1>1, <1>5, <2>1, <2>a, <2>b, <3>1, DebraBagsKept
    <3>3. UNCHANGED GP!vars
      BY <1>5, <1>9, <2>1, <2>b, <3>1 DEF GP!vars
    <3> QED
      BY <1>8, <2>1, <2>2, <2>3, <3>2, <3>3
  <2>d. CASE epoch # localvar_announcedEpoch[t]
    <3> DEFINE m == (index[t] + 1) % 3
    <3>1. /\ epochbags' = [epochbags EXCEPT ![t][m] = {}]
          /\ index' = [index EXCEPT ![t] = m]
          /\ limbo' = [x \in DOMAIN limbo \ epochbags[t][m] |-> limbo[x]]
      BY <1>10, <2>d DEF D!ReadEpoch, D!rotateEpochBags, D!GP!Without, D!nextIndex, D!NUMBER_OF_EPOCH_BAGS
    <3> HIDE DEF m
    <3>2. DebraWaiting /\ DebraWaiting'
      <4>1. DebraWaiting
        BY <1>3, DebraWaits
      <4>2. DebraWaiting'
        BY <2>1, DebraWaits, PTL
      <4> QED
        BY <4>1, <4>2
    <3>3. \A s \in D!stoppers : s \in D!active /\ s \in D!stoppers'
      <4>1. \A s \in D!stoppers : s \in D!active
        BY DEF D!stoppers
      <4> QED
        BY <1>1, <2>b, <4>1, DebraStops
    <3>4. D!waits[t][2] = {} /\ D!waits[t][1] \subseteq D!waits'[t][2] /\ D!waits[t][0] \subseteq D!waits'[t][1]
      <4>1. localvar_announcedEpoch'[t] = epoch' /\ localvar_announcedEpoch'[t] # 1
        BY <1>3, <1>4, <2>a DEF DebraTypes
      <4>2. D!waits'[t][1] = D!active' /\ D!waits'[t][2] = D!stoppers'
        BY <3>2, <4>1 DEF DebraWaiting
      <4>3. CASE localvar_announcedEpoch[t] = 1
        BY <3>2, <4>3 DEF DebraWaiting
      <4>4. CASE localvar_announcedEpoch[t] # 1
        <5>1. localvar_announcedEpoch[t] < epoch
          BY <1>4, <2>d, <4>4
        <5> QED
          BY <2>b, <3>2, <3>3, <4>2, <4>4, <5>1 DEF DebraWaiting
      <4> QED
        BY <4>3, <4>4
    <3>5. ASSUME NEW u \in D!Tids, NEW i \in 0 .. 2, u # t PROVE D!waits[u][i] \subseteq D!waits'[u][i]
      <4>1. localvar_announcedEpoch'[u] = localvar_announcedEpoch[u]
        BY <1>3, <2>a, <3>5 DEF DebraTypes
      <4>2. CASE localvar_announcedEpoch[u] = 1
        BY <3>2, <4>2 DEF DebraWaiting
      <4>3. CASE localvar_announcedEpoch[u] # 1 /\ localvar_announcedEpoch[u] < epoch
        <5>1. D!waits[u][0] = D!active /\ D!waits[u][1] = D!stoppers /\ D!waits[u][2] = {}
          BY <3>2, <4>3 DEF DebraWaiting
        <5>2. D!waits'[u][0] = D!active' /\ D!waits'[u][1] = D!stoppers' /\ D!waits'[u][2] = {}
          BY <2>a, <3>2, <4>1, <4>3 DEF DebraWaiting
        <5> QED
          BY <2>b, <3>3, <5>1, <5>2
      <4>4. CASE localvar_announcedEpoch[u] # 1 /\ localvar_announcedEpoch[u] = epoch
        <5>1. D!waits[u][0] = D!active /\ D!waits[u][1] = D!active /\ D!waits[u][2] = D!stoppers
          BY <3>2, <4>4 DEF DebraWaiting
        <5>2. D!waits'[u][0] = D!active' /\ D!waits'[u][1] = D!active' /\ D!waits'[u][2] = D!stoppers'
          BY <2>a, <3>2, <4>1, <4>4 DEF DebraWaiting
        <5> QED
          BY <2>b, <3>3, <5>1, <5>2
      <4>5. \/ localvar_announcedEpoch[u] = 1
            \/ localvar_announcedEpoch[u] < epoch \/ localvar_announcedEpoch[u] = epoch
        BY <1>4
      <4> QED
        BY <4>2, <4>3, <4>4, <4>5
    <3>6. /\ BagsInv(D!Tids, D!active, epochbags', index', limbo', D!waits')
          /\ epochbags[t][m] \subseteq DOMAIN limbo
          /\ \A r \in epochbags[t][m] : limbo[r] = {}
      <4>1. BagsRotated(D!Tids, D!active, epochbags, index, limbo, D!waits, t, m,
                        epochbags', index', limbo', D!waits')
        BY <1>3, <3>1, <3>4, <3>5 DEF BagsRotated, DebraBags, m
      <4> QED
        BY <4>1, BagsRotate
    <3>7. DebraBags'
      BY <1>7, <2>b, <3>6
    <3>8. GP!Next
      <4>1. GP!Reclaim(epochbags[t][m])
        BY <3>1, <3>6 DEF GP!Reclaim, GP!Without
      <4>2. active' \in {active, active \cup {t}}
        BY <1>5, <1>9, <2>1, <2>b
      <4> QED
        BY <1>9, <3>6, <4>1, <4>2 DEF GP!Next
    <3> QED
      BY <1>8, <2>1, <2>2, <2>3, <3>7, <3>8
  <2> QED
    BY <2>c, <2>d
<1>11. CASE D!Announce(t)
  <2>1. DebraTypes'
    BY <1>2, <1>3, <1>4, <1>11 DEF D!Announce, D!Goto, DebraTypes
  <2>2. D!AnnounceInv'
    BY <1>2, <1>3, <1>4, <1>11 DEF D!Announce, D!Goto, D!AnnounceInv, DebraTypes, D!Even
  <2>3. D!ScanInv'
    BY <1>2, <1>3, <1>4, <1>11 DEF D!Announce, D!Goto, D!ScanInv, DebraTypes, D!Even
  <2>4. DebraBags'
    <3>1. epochbags' = epochbags /\ index' = index /\ limbo' = limbo
          /\ localvar_announcedEpoch' = localvar_announcedEpoch
          /\ (epoch' = epoch \/ epoch' = epoch + 2)
      BY <1>11 DEF D!Announce, D!EPOCH_INCREMENT
    <3>2. D!active \subseteq D!active'
      BY <1>5, <1>11 DEF D!Announce, D!Goto, D!active, D!Tids
    <3>3. limbo' \in [DOMAIN limbo -> SUBSET D!active']
      BY <1>5, <3>1, <3>2
    <3> QED
      BY <1>1, <2>1, <3>1, <3>3, DebraBagsKept
  <2>5. [GP!Next]_(GP!vars)
    <3>1. limbo' = limbo /\ pc[t] # "op" /\ \A u \in D!Tids : u # t => pc'[u] = pc[u]
      BY <1>5, <1>11 DEF D!Announce, D!Goto
    <3>2. CASE pc'[t] = "op"
      <4>1. t \notin active /\ active' = active \cup {t}
        BY <1>5, <1>9, <2>1, <3>1, <3>2 DEF D!active, D!Tids
      <4> QED
        BY <1>9, <3>1, <4>1 DEF GP!Next, GP!Start
    <3>3. CASE pc'[t] # "op"
      <4>1. active' = active
        BY <1>5, <1>9, <2>1, <3>1, <3>3 DEF D!active, D!Tids
      <4> QED
        BY <3>1, <4>1 DEF GP!vars
    <3> QED
      BY <3>2, <3>3
  <2> QED
    BY <1>8, <2>1, <2>2, <2>3, <2>4, <2>5
<1>12. CASE D!Check(t)
  <2>a. /\ pc[t] = "check" /\ (pc' = [pc EXCEPT ![t] = "cas"] \/ pc' = [pc EXCEPT ![t] = "op"])
        /\ epoch' = epoch /\ announcedEpoch' = announcedEpoch /\ readEpoch' = readEpoch
        /\ localvar_announcedEpoch' = localvar_announcedEpoch
    BY <1>12 DEF D!Check, D!Goto
  <2>b. checked[t] \in Nat /\ checked[t] < DebraProcesses
    BY <1>2, <1>4, <2>a, ProcessesAssumption DEF D!ScanInv
  <2>c. PICK c \in {checked[t], checked[t] + 1} :
          /\ checked' = [checked EXCEPT ![t] = c]
          /\ pc'[t] = IF c = checked[t] + 1 /\ c >= DebraProcesses THEN "cas" ELSE "op"
    <3> DEFINE found == /\ opsSinceRead[t] + 1 = MIN_OPS_BEFORE_READ /\ readEpoch[t] < DebraMaxEpoch
                        /\ D!InEpoch(announcedEpoch[checked[t]], readEpoch[t])
    <3>1. /\ checked' = [checked EXCEPT ![t] = IF found THEN @ + 1 ELSE @]
          /\ IF found /\ checked'[t] >= DebraProcesses THEN D!Goto(t, "check", "cas")
                                                       ELSE D!Goto(t, "check", "op")
      BY <1>12 DEF D!Check
    <3> HIDE DEF found
    <3>2. CASE found
      <4>1. checked' = [checked EXCEPT ![t] = checked[t] + 1] /\ checked'[t] = checked[t] + 1
        BY <1>3, <3>1, <3>2 DEF DebraTypes
      <4>2. pc'[t] = IF checked[t] + 1 >= DebraProcesses THEN "cas" ELSE "op"
        BY <1>5, <3>1, <3>2, <4>1 DEF D!Goto
      <4> QED
        BY <4>1, <4>2
    <3>3. CASE ~found
      <4>1. checked' = [checked EXCEPT ![t] = checked[t]]
        BY <3>1, <3>3
      <4>2. pc'[t] = "op"
        BY <1>5, <3>1, <3>3 DEF D!Goto
      <4> QED
        BY <2>b, <4>1, <4>2
    <3> QED
      BY <3>2, <3>3
  <2>d. /\ c \in 0 .. DebraProcesses /\ checked'[t] = c /\ \A u \in D!Tids : u # t => checked'[u] = checked[u]
        /\ pc'[t] = "cas" => c = DebraProcesses
        /\ pc'[t] = "op" => c < DebraProcesses
        /\ \A u \in D!Tids : u # t => pc'[u] = pc[u]
    BY <1>3, <1>5, <2>a, <2>b, <2>c, ProcessesAssumption DEF DebraTypes
  <2>1. DebraTypes'
    <3>1. checked' \in [D!Tids -> 0 .. DebraProcesses]
      BY <1>3, <2>c, <2>d DEF DebraTypes
    <3> QED
      BY <1>3, <2>a, <3>1 DEF DebraTypes
  <2>2. D!AnnounceInv'
    BY <1>2, <1>5, <2>a DEF D!AnnounceInv
  <2>3. D!ScanInv'
    <3> SUFFICES ASSUME NEW u \in D!Tids
                 PROVE  /\ pc'[u] = "cas" => checked'[u] = DebraProcesses
                        /\ checked'[u] = DebraProcesses /\ pc'[u] # "cas" =>
                             /\ pc'[u] \in {"op", "idle"}
                             /\ D!Even(localvar_announcedEpoch[u]) /\ localvar_announcedEpoch[u] < epoch
      BY <2>a DEF D!ScanInv, D!Even
    <3>1. CASE u = t
      BY <1>5, <2>a, <2>d, <3>1
    <3>2. CASE u # t
      BY <1>2, <2>d, <3>2 DEF D!ScanInv
    <3> QED
      BY <3>1, <3>2
  <2>4. DebraBags'
    <3>1. epochbags' = epochbags /\ index' = index /\ limbo' = limbo
          /\ localvar_announcedEpoch' = localvar_announcedEpoch
          /\ (epoch' = epoch \/ epoch' = epoch + 2)
      BY <1>12 DEF D!Check, D!EPOCH_INCREMENT
    <3>2. D!active \subseteq D!active'
      BY <1>5, <1>12 DEF D!Check, D!Goto, D!active, D!Tids
    <3>3. limbo' \in [DOMAIN limbo -> SUBSET D!active']
      BY <1>5, <3>1, <3>2
    <3> QED
      BY <1>1, <2>1, <3>1, <3>3, DebraBagsKept
  <2>5. [GP!Next]_(GP!vars)
    <3>1. limbo' = limbo /\ pc[t] # "op" /\ \A u \in D!Tids : u # t => pc'[u] = pc[u]
      BY <1>5, <1>12 DEF D!Check, D!Goto
    <3>2. CASE pc'[t] = "op"
      <4>1. t \notin active /\ active' = active \cup {t}
        BY <1>5, <1>9, <2>1, <3>1, <3>2 DEF D!active, D!Tids
      <4> QED
        BY <1>9, <3>1, <4>1 DEF GP!Next, GP!Start
    <3>3. CASE pc'[t] # "op"
      <4>1. active' = active
        BY <1>5, <1>9, <2>1, <3>1, <3>3 DEF D!active, D!Tids
      <4> QED
        BY <3>1, <4>1 DEF GP!vars
    <3> QED
      BY <3>2, <3>3
  <2> QED
    BY <1>8, <2>1, <2>2, <2>3, <2>4, <2>5
<1>13. CASE D!CASEpoch(t)
  <2>1. DebraTypes'
    BY <1>2, <1>3, <1>4, <1>13 DEF D!CASEpoch, D!Goto, D!EPOCH_INCREMENT, DebraTypes
  <2>2. D!AnnounceInv'
    BY <1>2, <1>3, <1>4, <1>13 DEF D!CASEpoch, D!Goto, D!EPOCH_INCREMENT, D!AnnounceInv, DebraTypes, D!Even
  <2>3. D!ScanInv'
    BY <1>2, <1>3, <1>4, <1>13 DEF D!CASEpoch, D!Goto, D!EPOCH_INCREMENT, D!ScanInv, DebraTypes, D!Even
  <2>4. DebraBags'
    <3>1. epochbags' = epochbags /\ index' = index /\ limbo' = limbo
          /\ localvar_announcedEpoch' = localvar_announcedEpoch
          /\ (epoch' = epoch \/ epoch' = epoch + 2)
      BY <1>13 DEF D!CASEpoch, D!EPOCH_INCREMENT
    <3>2. D!active \subseteq D!active'
      BY <1>5, <1>13 DEF D!CASEpoch, D!Goto, D!active, D!Tids
    <3>3. limbo' \in [DOMAIN limbo -> SUBSET D!active']
      BY <1>5, <3>1, <3>2
    <3> QED
      BY <1>1, <2>1, <3>1, <3>3, DebraBagsKept
  <2>5. [GP!Next]_(GP!vars)
    <3>1. limbo' = limbo /\ pc[t] # "op" /\ \A u \in D!Tids : u # t => pc'[u] = pc[u]
      BY <1>5, <1>13 DEF D!CASEpoch, D!Goto
    <3>2. CASE pc'[t] = "op"
      <4>1. t \notin active /\ active' = active \cup {t}
        BY <1>5, <1>9, <2>1, <3>1, <3>2 DEF D!active, D!Tids
      <4> QED
        BY <1>9, <3>1, <4>1 DEF GP!Next, GP!Start
    <3>3. CASE pc'[t] # "op"
      <4>1. active' = active
        BY <1>5, <1>9, <2>1, <3>1, <3>3 DEF D!active, D!Tids
      <4> QED
        BY <3>1, <4>1 DEF GP!vars
    <3> QED
      BY <3>2, <3>3
  <2> QED
    BY <1>8, <2>1, <2>2, <2>3, <2>4, <2>5
<1>14. CASE D!endOp(t)
  <2>1. DebraTypes'
    BY <1>2, <1>3, <1>4, <1>14 DEF D!endOp, D!Goto, D!QUIESCENT, D!GET_WITH_QUIESCENT, D!BITS_EPOCH, D!EPOCH_INCREMENT, DebraTypes
  <2>2. D!AnnounceInv'
    BY <1>2, <1>3, <1>4, <1>14 DEF D!endOp, D!Goto, D!QUIESCENT, D!GET_WITH_QUIESCENT, D!BITS_EPOCH, D!EPOCH_INCREMENT, D!AnnounceInv, DebraTypes, D!Even
  <2>3. D!ScanInv'
    BY <1>2, <1>3, <1>4, <1>14 DEF D!endOp, D!Goto, D!QUIESCENT, D!GET_WITH_QUIESCENT, D!BITS_EPOCH, D!EPOCH_INCREMENT, D!ScanInv, DebraTypes, D!Even
  <2>a. D!active' = D!active \ {t} /\ t \in D!active
    BY <1>5, <1>14 DEF D!endOp, D!Goto, D!active, D!Tids
  <2>b. /\ epochbags' = epochbags /\ index' = index /\ epoch' = epoch
        /\ localvar_announcedEpoch' = localvar_announcedEpoch
        /\ limbo' = [x \in DOMAIN limbo |-> limbo[x] \ {t}]
    BY <1>14 DEF D!endOp, D!GP!Outlived
  <2>4. DebraBags'
    <3>1. limbo' \in [DOMAIN limbo -> SUBSET D!active'] /\ \A x \in DOMAIN limbo : limbo'[x] \subseteq limbo[x]
      BY <1>5, <2>a, <2>b
    <3>2. DOMAIN limbo' = DOMAIN limbo
      BY <2>b
    <3> QED
      BY <1>1, <2>1, <2>b, <3>1, <3>2, DebraBagsKept
  <2>5. GP!Next
    <3>1. GP!End(t)
      BY <1>5, <1>9, <2>1, <2>a, <2>b DEF GP!End, GP!Outlived
    <3> QED
      BY <1>9, <3>1 DEF GP!Next
  <2> QED
    BY <1>8, <2>1, <2>2, <2>3, <2>4, <2>5
<1>15. ASSUME NEW r \in Records, D!retire(t, r) PROVE D!IInv' /\ [GP!Next]_(GP!vars)
  <2>a. /\ pc[t] = "op" /\ r \notin DOMAIN limbo
        /\ epochbags' = [epochbags EXCEPT ![t][index[t]] = @ \cup {r}]
        /\ limbo' = [x \in DOMAIN limbo \cup {r} |-> IF x = r THEN D!active ELSE limbo[x]]
        /\ index' = index
        /\ UNCHANGED <<epoch, announcedEpoch, localvar_announcedEpoch, checked, pc, readEpoch>>
    BY <1>15 DEF D!retire, D!GP!Retired
  <2>1. DebraTypes'
    BY <1>3, <2>a DEF DebraTypes
  <2>2. D!AnnounceInv'
    BY <1>2, <2>a DEF D!AnnounceInv, D!Even, D!QUIESCENT, D!GET_WITH_QUIESCENT, D!BITS_EPOCH
  <2>3. D!ScanInv'
    BY <1>2, <2>a DEF D!ScanInv, D!Even
  <2>b. D!active' = D!active /\ D!waits' = D!waits /\ t \in D!active
    BY <2>a DEF D!active, D!waits, D!stoppers, D!Stops, D!Tids
  <2>c. D!waits[t][0] = D!active
    <3>1. DebraWaiting
      BY <1>3, DebraWaits
    <3>2. localvar_announcedEpoch[t] # 1
      BY <1>4, <2>a
    <3>3. localvar_announcedEpoch[t] < epoch \/ localvar_announcedEpoch[t] = epoch
      BY <1>4, <3>2
    <3> QED
      BY <3>1, <3>2, <3>3 DEF DebraWaiting
  <2>4. DebraBags'
    <3>1. BagsRetired(D!Tids, D!active, epochbags, index, limbo, D!waits, t, r, epochbags', limbo', D!waits')
      BY <1>3, <2>a, <2>b, <2>c DEF BagsRetired, DebraBags
    <3>2. BagsInv(D!Tids, D!active, epochbags', index, limbo', D!waits')
      BY <3>1, BagsRetire
    <3> QED
      BY <1>7, <2>a, <2>b, <3>2
  <2>5. GP!Next
    <3>1. GP!Retire(t, r)
      BY <1>5, <1>9, <2>1, <2>a, <2>b DEF GP!Retire, GP!Retired
    <3> QED
      BY <1>9, <3>1 DEF GP!Next
  <2> QED
    BY <1>8, <2>1, <2>2, <2>3, <2>4, <2>5
<1> QED
  BY <1>1, <1>10, <1>11, <1>12, <1>13, <1>14, <1>15 DEF D!Step

-----------------------------------------------------------------------------
(* The token.  A thread has two bags, with what their records may have to  *)
(* outlive.                                                                *)

TwoBags(T, A, c, l, lim, Wc, Wl) ==
  /\ c \in [T -> SUBSET DOMAIN lim] /\ l \in [T -> SUBSET DOMAIN lim]
  /\ lim \in [DOMAIN lim -> SUBSET A]
  /\ \A t, u \in T : /\ c[t] \cap l[u] = {}
                     /\ t # u => c[t] \cap c[u] = {} /\ l[t] \cap l[u] = {}
  /\ \A t \in T : /\ \A r \in c[t] : lim[r] \subseteq Wc[t]
                  /\ \A r \in l[t] : lim[r] \subseteq Wl[t]

\* The bags stay as they are, and records have to outlive fewer operations.
TwoKept(T, A, c, l, lim, Wc, Wl, A2, lim2, Wc2, Wl2) ==
  /\ TwoBags(T, A, c, l, lim, Wc, Wl)
  /\ DOMAIN lim2 = DOMAIN lim /\ lim2 \in [DOMAIN lim2 -> SUBSET A2]
  /\ \A x \in DOMAIN lim : lim2[x] \subseteq lim[x]
  /\ \A t \in T : Wc[t] \cap A2 \subseteq Wc2[t] /\ Wl[t] \cap A2 \subseteq Wl2[t]

\* The two bags are in order after such a step.
LEMMA TwoKeep ==
  ASSUME NEW T, NEW A, NEW c, NEW l, NEW lim, NEW Wc, NEW Wl, NEW A2, NEW lim2, NEW Wc2, NEW Wl2,
         TwoKept(T, A, c, l, lim, Wc, Wl, A2, lim2, Wc2, Wl2)
  PROVE  TwoBags(T, A2, c, l, lim2, Wc2, Wl2)
<1>1. /\ c \in [T -> SUBSET DOMAIN lim] /\ l \in [T -> SUBSET DOMAIN lim]
      /\ DOMAIN lim2 = DOMAIN lim /\ lim2 \in [DOMAIN lim2 -> SUBSET A2]
      /\ \A x \in DOMAIN lim : lim2[x] \subseteq lim[x]
      /\ \A t \in T : Wc[t] \cap A2 \subseteq Wc2[t] /\ Wl[t] \cap A2 \subseteq Wl2[t]
      /\ \A t \in T : /\ \A r \in c[t] : lim[r] \subseteq Wc[t]
                      /\ \A r \in l[t] : lim[r] \subseteq Wl[t]
  BY DEF TwoKept, TwoBags
<1>2. ASSUME NEW t \in T, NEW r \in c[t] PROVE lim2[r] \subseteq Wc2[t]
  BY <1>1, <1>2
<1>3. ASSUME NEW t \in T, NEW r \in l[t] PROVE lim2[r] \subseteq Wl2[t]
  BY <1>1, <1>3
<1> QED
  BY <1>1, <1>2, <1>3 DEF TwoKept, TwoBags

\* rotateEpochBags: the older bag is given to the pool.
TwoRotated(T, A, c, l, lim, Wc, Wl, t, c2, l2, lim2, Wc2, Wl2) ==
  /\ TwoBags(T, A, c, l, lim, Wc, Wl) /\ t \in T
  /\ c2 = [c EXCEPT ![t] = {}] /\ l2 = [l EXCEPT ![t] = c[t]]
  /\ lim2 = [x \in DOMAIN lim \ l[t] |-> lim[x]]
  /\ Wl[t] = {} /\ Wc[t] \subseteq Wl2[t]
  /\ \A u \in T : u # t => Wc[u] \subseteq Wc2[u] /\ Wl[u] \subseteq Wl2[u]

\* The two bags are in order after a thread has freed the older one, and nobody uses what it frees.
LEMMA TwoRotate ==
  ASSUME NEW T, NEW A, NEW c, NEW l, NEW lim, NEW Wc, NEW Wl, NEW t, NEW c2, NEW l2, NEW lim2,
         NEW Wc2, NEW Wl2, TwoRotated(T, A, c, l, lim, Wc, Wl, t, c2, l2, lim2, Wc2, Wl2)
  PROVE  /\ TwoBags(T, A, c2, l2, lim2, Wc2, Wl2)
         /\ l[t] \subseteq DOMAIN lim /\ \A r \in l[t] : lim[r] = {}
<1>1. /\ c \in [T -> SUBSET DOMAIN lim] /\ l \in [T -> SUBSET DOMAIN lim]
      /\ lim \in [DOMAIN lim -> SUBSET A] /\ t \in T
      /\ \A s, u \in T : /\ c[s] \cap l[u] = {}
                         /\ s # u => c[s] \cap c[u] = {} /\ l[s] \cap l[u] = {}
      /\ \A u \in T : /\ \A r \in c[u] : lim[r] \subseteq Wc[u]
                      /\ \A r \in l[u] : lim[r] \subseteq Wl[u]
      /\ Wl[t] = {} /\ Wc[t] \subseteq Wl2[t]
      /\ \A u \in T : u # t => Wc[u] \subseteq Wc2[u] /\ Wl[u] \subseteq Wl2[u]
  BY DEF TwoRotated, TwoBags
<1>2. /\ c2 = [c EXCEPT ![t] = {}] /\ l2 = [l EXCEPT ![t] = c[t]]
      /\ lim2 = [x \in DOMAIN lim \ l[t] |-> lim[x]]
  BY DEF TwoRotated
<1>3. DOMAIN lim2 = DOMAIN lim \ l[t] /\ \A x \in DOMAIN lim2 : lim2[x] = lim[x]
  BY <1>2
<1>4. /\ c2[t] = {} /\ l2[t] = c[t] /\ \A u \in T : u # t => c2[u] = c[u] /\ l2[u] = l[u]
      /\ DOMAIN c2 = T /\ DOMAIN l2 = T
  BY <1>1, <1>2
<1>5. \A u \in T : c2[u] \subseteq DOMAIN lim2 /\ l2[u] \subseteq DOMAIN lim2
  <2> TAKE u \in T
  <2>1. CASE u = t
    BY <1>1, <1>3, <1>4, <2>1
  <2>2. CASE u # t
    BY <1>1, <1>3, <1>4, <2>2
  <2> QED
    BY <2>1, <2>2
<1>6. c2 \in [T -> SUBSET DOMAIN lim2] /\ l2 \in [T -> SUBSET DOMAIN lim2]
  <2>1. c2 = [u \in T |-> c2[u]] /\ l2 = [u \in T |-> l2[u]]
    BY <1>1, <1>2
  <2> QED
    BY <1>5, <2>1
<1>7. lim2 \in [DOMAIN lim2 -> SUBSET A]
  BY <1>1, <1>2, <1>3
<1>8. \A s, u \in T : /\ c2[s] \cap l2[u] = {}
                      /\ s # u => c2[s] \cap c2[u] = {} /\ l2[s] \cap l2[u] = {}
  <2> TAKE s, u \in T
  <2>1. CASE s = t /\ u = t
    BY <1>1, <1>4, <2>1
  <2>2. CASE s = t /\ u # t
    BY <1>1, <1>4, <2>2
  <2>3. CASE s # t /\ u = t
    BY <1>1, <1>4, <2>3
  <2>4. CASE s # t /\ u # t
    BY <1>1, <1>4, <2>4
  <2> QED
    BY <2>1, <2>2, <2>3, <2>4
<1>9. ASSUME NEW u \in T
      PROVE  /\ \A r \in c2[u] : lim2[r] \subseteq Wc2[u]
             /\ \A r \in l2[u] : lim2[r] \subseteq Wl2[u]
  <2>1. /\ \A r \in c2[u] : lim2[r] = lim[r]
        /\ \A r \in l2[u] : lim2[r] = lim[r]
    BY <1>3, <1>5
  <2>2. CASE u = t
    BY <1>1, <1>4, <2>1, <2>2
  <2>3. CASE u # t
    BY <1>1, <1>4, <2>1, <2>3
  <2> QED
    BY <2>2, <2>3
<1>10. TwoBags(T, A, c2, l2, lim2, Wc2, Wl2)
  BY <1>6, <1>7, <1>8, <1>9 DEF TwoBags
<1>11. l[t] \subseteq DOMAIN lim /\ \A r \in l[t] : lim[r] = {}
  BY <1>1
<1> QED
  BY <1>10, <1>11

\* retire: the record goes to the newer bag.
TwoRetired(T, A, c, l, lim, Wc, Wl, t, r, c2, lim2) ==
  /\ TwoBags(T, A, c, l, lim, Wc, Wl) /\ t \in T /\ r \notin DOMAIN lim
  /\ c2 = [c EXCEPT ![t] = @ \cup {r}]
  /\ lim2 = [x \in DOMAIN lim \cup {r} |-> IF x = r THEN A ELSE lim[x]]
  /\ A \subseteq Wc[t]

\* The two bags are in order after a thread has retired a record.
LEMMA TwoRetire ==
  ASSUME NEW T, NEW A, NEW c, NEW l, NEW lim, NEW Wc, NEW Wl, NEW t, NEW r, NEW c2, NEW lim2,
         TwoRetired(T, A, c, l, lim, Wc, Wl, t, r, c2, lim2)
  PROVE  TwoBags(T, A, c2, l, lim2, Wc, Wl)
<1>1. /\ c \in [T -> SUBSET DOMAIN lim] /\ l \in [T -> SUBSET DOMAIN lim]
      /\ lim \in [DOMAIN lim -> SUBSET A] /\ t \in T /\ r \notin DOMAIN lim
      /\ \A s, u \in T : /\ c[s] \cap l[u] = {}
                         /\ s # u => c[s] \cap c[u] = {} /\ l[s] \cap l[u] = {}
      /\ \A u \in T : /\ \A x \in c[u] : lim[x] \subseteq Wc[u]
                      /\ \A x \in l[u] : lim[x] \subseteq Wl[u]
      /\ A \subseteq Wc[t]
  BY DEF TwoRetired, TwoBags
<1>2. /\ c2 = [c EXCEPT ![t] = @ \cup {r}]
      /\ lim2 = [x \in DOMAIN lim \cup {r} |-> IF x = r THEN A ELSE lim[x]]
  BY DEF TwoRetired
<1>3. DOMAIN lim2 = DOMAIN lim \cup {r} /\ lim2[r] = A /\ \A x \in DOMAIN lim : lim2[x] = lim[x]
  BY <1>1, <1>2
<1>4. c2[t] = c[t] \cup {r} /\ \A u \in T : u # t => c2[u] = c[u]
  BY <1>1, <1>2
<1>5. \A u \in T : /\ c[u] \subseteq DOMAIN lim /\ l[u] \subseteq DOMAIN lim
                   /\ r \notin c[u] /\ r \notin l[u]
  BY <1>1
<1>6. /\ c2 \in [T -> SUBSET DOMAIN lim2] /\ l \in [T -> SUBSET DOMAIN lim2]
      /\ lim2 \in [DOMAIN lim2 -> SUBSET A]
  BY <1>1, <1>2, <1>3
<1>7. \A s, u \in T : /\ c2[s] \cap l[u] = {}
                      /\ s # u => c2[s] \cap c2[u] = {} /\ l[s] \cap l[u] = {}
  BY <1>1, <1>4, <1>5
<1>8. ASSUME NEW u \in T
      PROVE  /\ \A x \in c2[u] : lim2[x] \subseteq Wc[u]
             /\ \A x \in l[u] : lim2[x] \subseteq Wl[u]
  <2>1. \A x \in l[u] : lim2[x] \subseteq Wl[u]
    BY <1>1, <1>3, <1>5
  <2>2. \A x \in c[u] : lim2[x] \subseteq Wc[u]
    BY <1>1, <1>3, <1>5
  <2>3. \A x \in c2[u] : x \in c[u] \/ (x = r /\ u = t)
    BY <1>4
  <2> QED
    BY <1>1, <1>3, <2>1, <2>2, <2>3
<1> QED
  BY <1>6, <1>7, <1>8 DEF TwoBags

\* The token goes to the next thread, and from the last one to the first.
LEMMA TokenNext ==
  ASSUME NEW t \in K!Tids
  PROVE  (t + 1) % NUM_PROCESSES = IF t = NUM_PROCESSES - 1 THEN 0 ELSE t + 1
<1>1. NUM_PROCESSES \in Nat /\ NUM_PROCESSES > 0 /\ t \in Nat /\ t + 1 <= NUM_PROCESSES
  BY ProcessesAssumption DEF K!Tids
<1>2. CASE t + 1 = NUM_PROCESSES
  BY <1>1, <1>2
<1>3. CASE t + 1 < NUM_PROCESSES
  BY <1>1, <1>3
<1> QED
  BY <1>1, <1>2, <1>3

TokenTypes == token \in [K!Tids -> {0, 1}] /\ pc \in [K!Tids -> {"idle", "pass", "rotate", "op"}]

TokenBags == TwoBags(K!Tids, K!active, curr, last, limbo, K!waitsCurr, K!waitsLast)

\* The invariant in parts: what is about the token, and what is about the bags.
LEMMA TokenParts == K!TypeOK /\ K!BagInv <=> TokenTypes /\ TokenBags
BY DEF K!TypeOK, K!BagInv, TokenTypes, TokenBags, TwoBags

\* There is one token and all bags are empty.
LEMMA TokenInit == K!Init => K!IInv
<1> SUFFICES ASSUME K!Init PROVE K!IInv
  OBVIOUS
<1> USE DEF K!Init, K!GP!NoRecords
<1>1. K!TypeOK
  BY DEF K!TypeOK
<1>2. K!TokenInv
  BY DEF K!TokenInv, K!holders
<1>3. K!BagInv
  BY DEF K!BagInv
<1> QED
  BY <1>1, <1>2, <1>3 DEF K!IInv

\* What a record may have to outlive, case by case.
TokenWaiting ==
  /\ \A t \in K!Tids : /\ K!waitsCurr[t] = IF pc[t] = "rotate" THEN K!ahead[t] ELSE K!active
                       /\ K!waitsLast[t] = IF pc[t] \in {"pass", "rotate"} THEN {} ELSE K!ahead[t]
  /\ \A t \in K!Tids : \A s : s \in K!ahead[t] <=>
       s \in K!active /\ \A u \in K!holders : K!Distance(t, u) <= K!Distance(t, s)

\* What the records in the two bags wait for, thread by thread.
LEMMA TokenWaits == TokenWaiting
BY DEF TokenWaiting, K!waitsCurr, K!waitsLast, K!ahead

\* A step of the token reclaimer keeps the invariant, and is a step of GracePeriod.
LEMMA TokenStep ==
  ASSUME K!IInv, NEW t \in K!Tids, K!Step(t) \/ \E r \in Records : K!retire(t, r)
  PROVE  K!IInv' /\ [GP!Next]_(GP!vars)
<1>1. K!Step(t) \/ \E r \in Records : K!retire(t, r)
  OBVIOUS
<1>2. K!TypeOK /\ K!TokenInv /\ K!BagInv
  BY DEF K!IInv
<1>3. TokenTypes /\ TokenBags
  BY <1>2, TokenParts
<1>4. TokenWaiting /\ TokenWaiting'
  <2>1. TokenWaiting
    BY TokenWaits
  <2>2. TokenWaiting'
    BY TokenWaits, PTL
  <2> QED
    BY <2>1, <2>2
<1>5. /\ DOMAIN pc = K!Tids /\ \A u \in K!Tids : pc[u] \in {"idle", "pass", "rotate", "op"}
      /\ limbo \in [DOMAIN limbo -> SUBSET K!active] /\ active = K!active
  BY <1>2, <1>3 DEF K!TypeOK, active, K!active, TokenTypes
<1>6. (K!TypeOK /\ K!BagInv)' <=> (TokenTypes /\ TokenBags)'
  BY TokenParts, PTL
<1>7. TokenBags' <=> TwoBags(K!Tids, K!active', curr', last', limbo', K!waitsCurr', K!waitsLast')
  BY DEF TokenBags, TwoBags, K!Tids
<1>8. ASSUME TokenTypes', TokenBags', K!TokenInv' PROVE K!IInv'
  BY <1>6, <1>8 DEF K!IInv
<1>9. t \in 0 .. NUM_PROCESSES - 1 /\ (TokenTypes' => active' = K!active')
  BY DEF active, K!active, TokenTypes, K!Tids
<1>10. /\ NUM_PROCESSES \in Nat /\ NUM_PROCESSES > 0
       /\ \A u \in K!Tids : u \in Int /\ 0 <= u /\ u < NUM_PROCESSES
  BY ProcessesAssumption DEF K!Tids
<1>a. K!active \subseteq K!Tids /\ K!holders \subseteq K!Tids
  BY DEF K!active, K!holders
<1>11. ASSUME curr' = curr, last' = last, DOMAIN limbo' = DOMAIN limbo,
              limbo' \in [DOMAIN limbo -> SUBSET K!active'],
              \A x \in DOMAIN limbo : limbo'[x] \subseteq limbo[x],
              \A u \in K!Tids : /\ K!waitsCurr[u] \cap K!active' \subseteq K!waitsCurr'[u]
                                /\ K!waitsLast[u] \cap K!active' \subseteq K!waitsLast'[u]
       PROVE  TokenBags'
  <2>1. TwoKept(K!Tids, K!active, curr, last, limbo, K!waitsCurr, K!waitsLast,
                K!active', limbo', K!waitsCurr', K!waitsLast')
    BY <1>3, <1>11 DEF TwoKept, TokenBags
  <2> QED
    BY <1>7, <1>11, <2>1, TwoKeep
<1>12. CASE K!startOp(t) /\ token[t] = 1
  <2>a. /\ pc[t] = "idle" /\ pc' = [pc EXCEPT ![t] = "pass"] /\ token' = [token EXCEPT ![t] = 0]
        /\ curr' = curr /\ last' = last /\ limbo' = limbo
    BY <1>12 DEF K!startOp, K!Goto
  <2>b. TokenTypes' /\ K!active' = K!active /\ K!holders' = K!holders /\ t \in K!holders
    BY <1>3, <1>12, <2>a DEF TokenTypes, K!active, K!holders, K!Tids
  <2>c. K!TokenInv'
    BY <1>2, <1>3, <1>5, <2>a, <2>b DEF K!TokenInv, TokenTypes
  <2>d. \A u \in K!Tids : K!ahead'[u] = K!ahead[u]
    BY <1>4, <2>b, ZenonT(40) DEF TokenWaiting
  <2>e. K!ahead[t] = {}
    <3> SUFFICES ASSUME NEW s \in K!ahead[t] PROVE FALSE
      OBVIOUS
    <3>1. s \in K!active /\ K!Distance(t, t) <= K!Distance(t, s)
      BY <1>4, <2>b DEF TokenWaiting
    <3>2. s \in K!Tids /\ s # t
      BY <2>a, <3>1 DEF K!active
    <3> QED
      BY <1>10, <3>1, <3>2 DEF K!Distance
  <2>f. TokenBags'
    <3>1. ASSUME NEW u \in K!Tids
          PROVE  K!waitsCurr[u] \subseteq K!waitsCurr'[u] /\ K!waitsLast[u] \subseteq K!waitsLast'[u]
      <4>1. CASE u = t
        BY <1>4, <1>5, <2>a, <2>b, <2>d, <2>e, <4>1 DEF TokenWaiting
      <4>2. CASE u # t
        BY <1>4, <1>5, <2>a, <2>b, <2>d, <4>2 DEF TokenWaiting
      <4> QED
        BY <4>1, <4>2
    <3> QED
      BY <1>5, <1>11, <2>a, <2>b, <3>1
  <2>g. UNCHANGED GP!vars
    BY <1>5, <1>9, <2>a, <2>b DEF GP!vars
  <2> QED
    BY <1>8, <2>b, <2>c, <2>f, <2>g
<1>13. CASE K!startOp(t) /\ token[t] # 1
  <2>a. /\ pc[t] = "idle" /\ pc' = [pc EXCEPT ![t] = "op"] /\ token' = token
        /\ curr' = curr /\ last' = last /\ limbo' = limbo
    BY <1>13 DEF K!startOp, K!Goto
  <2>b. /\ TokenTypes' /\ K!holders' = K!holders
        /\ K!active' = K!active \cup {t} /\ t \notin K!active
    BY <1>3, <2>a DEF TokenTypes, K!active, K!holders, K!Tids
  <2>c. K!TokenInv'
    BY <1>2, <1>3, <1>5, <2>a, <2>b DEF K!TokenInv, TokenTypes
  <2>d. \A u \in K!Tids : K!ahead[u] \subseteq K!ahead'[u]
    BY <1>4, <2>b DEF TokenWaiting
  <2>f. TokenBags'
    <3>1. ASSUME NEW u \in K!Tids
          PROVE  K!waitsCurr[u] \subseteq K!waitsCurr'[u] /\ K!waitsLast[u] \subseteq K!waitsLast'[u]
      <4>1. pc'[u] \in {"pass", "rotate"} <=> pc[u] \in {"pass", "rotate"}
        BY <1>5, <2>a
      <4>2. pc'[u] = "rotate" <=> pc[u] = "rotate"
        BY <1>5, <2>a
      <4> QED
        BY <1>4, <2>b, <2>d, <4>1, <4>2 DEF TokenWaiting
    <3> QED
      BY <1>5, <1>11, <2>a, <2>b, <3>1
  <2>g. GP!Next
    <3>1. GP!Start(t)
      BY <1>5, <1>9, <2>a, <2>b DEF GP!Start
    <3> QED
      BY <1>9, <3>1 DEF GP!Next
  <2> QED
    BY <1>8, <2>b, <2>c, <2>f, <2>g
<1>14. CASE K!PassToken(t)
  <2> DEFINE n == IF t = NUM_PROCESSES - 1 THEN 0 ELSE t + 1
  <2>0. n \in K!Tids
    BY <1>10 DEF K!Tids
  <2>a. /\ pc[t] = "pass" /\ pc' = [pc EXCEPT ![t] = "rotate"] /\ token' = [token EXCEPT ![n] = 1]
        /\ curr' = curr /\ last' = last /\ limbo' = limbo
    BY <1>14, TokenNext DEF K!PassToken, K!Goto
  <2>b. /\ TokenTypes' /\ K!active' = K!active /\ t \in K!holders /\ K!holders = {t} /\ token[t] = 0
        /\ t \notin K!active
    <3>1. TokenTypes' /\ K!active' = K!active /\ t \notin K!active
      BY <1>3, <2>0, <2>a DEF TokenTypes, K!active, K!Tids
    <3>2. t \in K!holders
      BY <2>a DEF K!holders
    <3> QED
      BY <1>2, <2>a, <3>1, <3>2 DEF K!TokenInv
  <2>c. K!holders' = {n}
    <3>1. \A u \in K!Tids : token[u] = 1 \/ pc[u] = "pass" <=> u = t
      BY <2>b DEF K!holders
    <3>2. \A u \in K!Tids : token'[u] = 1 \/ pc'[u] = "pass" <=> u = n
      BY <1>3, <1>5, <2>0, <2>a, <2>b, <3>1 DEF TokenTypes
    <3> QED
      BY <2>0, <3>2 DEF K!holders, K!Tids
  <2>d. K!TokenInv'
    <3>1. \A u \in K!Tids : pc'[u] # "pass"
      <4>1. \A u \in K!Tids : pc[u] = "pass" => u = t
        BY <2>b DEF K!holders
      <4> QED
        BY <1>5, <2>a, <4>1
    <3> QED
      BY <2>c, <3>1 DEF K!TokenInv, K!Tids
  <2>e. \A s \in K!active : s \in K!ahead'[t]
    <3>1. \A s \in K!Tids : K!Distance(t, n) <= K!Distance(t, s)
      BY <1>10, <2>0 DEF K!Distance
    <3> QED
      BY <1>4, <1>a, <2>b, <2>c, <3>1 DEF TokenWaiting
  <2>f. ASSUME NEW u \in K!Tids, u # t, NEW s \in K!ahead[u] PROVE s \in K!ahead'[u]
    <3>1. s \in K!active /\ K!Distance(u, t) <= K!Distance(u, s)
      BY <1>4, <2>b DEF TokenWaiting
    <3>2. s \in K!Tids /\ s # t
      BY <1>a, <2>b, <3>1
    <3>3. K!Distance(u, n) <= K!Distance(u, s)
      BY <1>10, <2>0, <2>f, <3>1, <3>2 DEF K!Distance
    <3> QED
      BY <1>4, <2>b, <2>c, <3>1, <3>3 DEF TokenWaiting
  <2>g. TokenBags'
    <3>1. ASSUME NEW u \in K!Tids
          PROVE  K!waitsCurr[u] \subseteq K!waitsCurr'[u] /\ K!waitsLast[u] \subseteq K!waitsLast'[u]
      <4>1. CASE u = t
        BY <1>4, <1>5, <2>a, <2>b, <2>e, <4>1 DEF TokenWaiting
      <4>2. CASE u # t
        BY <1>4, <1>5, <2>a, <2>b, <2>f, <4>2 DEF TokenWaiting
      <4> QED
        BY <4>1, <4>2
    <3> QED
      BY <1>5, <1>11, <2>a, <2>b, <3>1
  <2>h. UNCHANGED GP!vars
    BY <1>5, <1>9, <2>a, <2>b DEF GP!vars
  <2> QED
    BY <1>8, <2>b, <2>d, <2>g, <2>h
<1>15. CASE K!rotateEpochBags(t)
  <2>a. /\ pc[t] = "rotate" /\ pc' = [pc EXCEPT ![t] = "op"] /\ token' = token
        /\ curr' = [curr EXCEPT ![t] = {}] /\ last' = [last EXCEPT ![t] = curr[t]]
        /\ limbo' = [x \in DOMAIN limbo \ last[t] |-> limbo[x]]
    BY <1>15 DEF K!rotateEpochBags, K!Goto, K!GP!Without
  <2>b. /\ TokenTypes' /\ K!holders' = K!holders
        /\ K!active' = K!active \cup {t} /\ t \notin K!active
    BY <1>3, <2>a DEF TokenTypes, K!active, K!holders, K!Tids
  <2>c. K!TokenInv'
    BY <1>2, <1>3, <1>5, <2>a, <2>b DEF K!TokenInv, TokenTypes
  <2>d. \A u \in K!Tids : K!ahead[u] \subseteq K!ahead'[u]
    BY <1>4, <2>b DEF TokenWaiting
  <2>e. /\ K!waitsLast[t] = {} /\ K!waitsCurr[t] \subseteq K!waitsLast'[t]
        /\ \A u \in K!Tids : u # t => /\ K!waitsCurr[u] \subseteq K!waitsCurr'[u]
                                     /\ K!waitsLast[u] \subseteq K!waitsLast'[u]
    <3>1. pc'[t] = "op" /\ \A u \in K!Tids : u # t => pc'[u] = pc[u]
      BY <1>5, <2>a
    <3> QED
      BY <1>4, <2>a, <2>b, <2>d, <3>1 DEF TokenWaiting
  <2>f. /\ TwoBags(K!Tids, K!active, curr', last', limbo', K!waitsCurr', K!waitsLast')
        /\ last[t] \subseteq DOMAIN limbo /\ \A r \in last[t] : limbo[r] = {}
    <3>1. TwoRotated(K!Tids, K!active, curr, last, limbo, K!waitsCurr, K!waitsLast, t,
                     curr', last', limbo', K!waitsCurr', K!waitsLast')
      BY <1>3, <2>a, <2>e DEF TwoRotated, TokenBags
    <3> QED
      BY <3>1, TwoRotate
  <2>g. TokenBags'
    <3>1. limbo' \in [DOMAIN limbo' -> SUBSET K!active']
      BY <2>b, <2>f DEF TwoBags
    <3>2. TwoBags(K!Tids, K!active', curr', last', limbo', K!waitsCurr', K!waitsLast')
      BY <2>f, <3>1 DEF TwoBags
    <3> QED
      BY <1>7, <3>2
  <2>h. GP!Next
    <3>1. GP!Reclaim(last[t])
      BY <2>a, <2>f DEF GP!Reclaim, GP!Without
    <3>2. active' \in {active, active \cup {t}}
      BY <1>5, <1>9, <2>b
    <3> QED
      BY <1>9, <2>f, <3>1, <3>2 DEF GP!Next
  <2> QED
    BY <1>8, <2>b, <2>c, <2>g, <2>h
<1>16. CASE K!endOp(t)
  <2>a. /\ pc[t] = "op" /\ pc' = [pc EXCEPT ![t] = "idle"] /\ token' = token
        /\ curr' = curr /\ last' = last /\ limbo' = [x \in DOMAIN limbo |-> limbo[x] \ {t}]
    BY <1>16 DEF K!endOp, K!Goto, K!GP!Outlived
  <2>b. /\ TokenTypes' /\ K!holders' = K!holders
        /\ K!active' = K!active \ {t} /\ t \in K!active
    BY <1>3, <2>a DEF TokenTypes, K!active, K!holders, K!Tids
  <2>c. K!TokenInv'
    BY <1>2, <1>3, <1>5, <2>a, <2>b DEF K!TokenInv, TokenTypes
  <2>d. \A u \in K!Tids : K!ahead[u] \cap K!active' \subseteq K!ahead'[u]
    BY <1>4, <2>b DEF TokenWaiting
  <2>f. TokenBags'
    <3>1. ASSUME NEW u \in K!Tids
          PROVE  /\ K!waitsCurr[u] \cap K!active' \subseteq K!waitsCurr'[u]
                 /\ K!waitsLast[u] \cap K!active' \subseteq K!waitsLast'[u]
      <4>1. pc'[u] \in {"pass", "rotate"} <=> pc[u] \in {"pass", "rotate"}
        BY <1>5, <2>a
      <4>2. pc'[u] = "rotate" <=> pc[u] = "rotate"
        BY <1>5, <2>a
      <4> QED
        BY <1>4, <2>b, <2>d, <4>1, <4>2 DEF TokenWaiting
    <3>2. /\ limbo' \in [DOMAIN limbo -> SUBSET K!active'] /\ DOMAIN limbo' = DOMAIN limbo
          /\ \A x \in DOMAIN limbo : limbo'[x] \subseteq limbo[x]
      BY <1>5, <2>a, <2>b
    <3> QED
      BY <1>11, <2>a, <3>1, <3>2
  <2>g. GP!Next
    <3>1. GP!End(t)
      BY <1>5, <1>9, <2>a, <2>b DEF GP!End, GP!Outlived
    <3> QED
      BY <1>9, <3>1 DEF GP!Next
  <2> QED
    BY <1>8, <2>b, <2>c, <2>f, <2>g
<1>17. ASSUME NEW r \in Records, K!retire(t, r) PROVE K!IInv' /\ [GP!Next]_(GP!vars)
  <2>a. /\ pc[t] = "op" /\ r \notin DOMAIN limbo /\ pc' = pc /\ token' = token /\ last' = last
        /\ curr' = [curr EXCEPT ![t] = @ \cup {r}]
        /\ limbo' = [x \in DOMAIN limbo \cup {r} |-> IF x = r THEN K!active ELSE limbo[x]]
    BY <1>17 DEF K!retire, K!GP!Retired
  <2>b. /\ TokenTypes' /\ K!holders' = K!holders /\ K!active' = K!active /\ t \in K!active
        /\ K!waitsCurr' = K!waitsCurr /\ K!waitsLast' = K!waitsLast
    BY <1>3, <2>a DEF TokenTypes, K!active, K!holders, K!waitsCurr, K!waitsLast, K!ahead, K!Tids
  <2>c. K!TokenInv'
    BY <1>2, <2>a, <2>b DEF K!TokenInv
  <2>d. TokenBags'
    <3>1. K!waitsCurr[t] = K!active
      BY <1>4, <2>a DEF TokenWaiting
    <3>2. TwoRetired(K!Tids, K!active, curr, last, limbo, K!waitsCurr, K!waitsLast, t, r, curr', limbo')
      BY <1>3, <2>a, <3>1 DEF TwoRetired, TokenBags
    <3>3. TwoBags(K!Tids, K!active, curr', last, limbo', K!waitsCurr, K!waitsLast)
      BY <3>2, TwoRetire
    <3> QED
      BY <1>7, <2>a, <2>b, <3>3
  <2>e. GP!Next
    <3>1. GP!Retire(t, r)
      BY <1>5, <1>9, <2>a, <2>b DEF GP!Retire, GP!Retired
    <3> QED
      BY <1>9, <3>1 DEF GP!Next
  <2> QED
    BY <1>8, <2>b, <2>c, <2>d, <2>e
<1> QED
  BY <1>1, <1>12, <1>13, <1>14, <1>15, <1>16, <1>17 DEF K!Step

-----------------------------------------------------------------------------
(* The tree *)

TreeOrder(n) ==
  \A ix \in 2 .. 2 * numThreadsPow2 - 1 : E!Even(n[ix]) =>
    IF ix \div 2 = 1 THEN n[1] <= n[ix] + 2
                     ELSE E!Even(n[ix \div 2]) /\ n[ix \div 2] <= n[ix]

\* Where the leaves are, and the nodes above a node.
LEMMA TreeShape ==
  /\ numThreadsPow2 \in Nat /\ numThreadsPow2 >= 1 /\ E!Nodes = 1 .. 2 * numThreadsPow2 - 1
  /\ 1 \in E!Nodes
  /\ \A t \in E!Tids : /\ t + numThreadsPow2 \in E!Nodes /\ t \in Nat
                       /\ numThreadsPow2 <= t + numThreadsPow2
  /\ \A ix \in 2 .. 2 * numThreadsPow2 - 1 :
       /\ ix \div 2 \in E!Nodes /\ ix \div 2 < ix /\ ix \div 2 < numThreadsPow2
       /\ E!sibling(ix) \in E!Nodes
  /\ \A ix, jx \in 2 .. 2 * numThreadsPow2 - 1 : ix \div 2 = jx \div 2 => jx = ix \/ jx = E!sibling(ix)
<1>1. /\ numThreadsPow2 \in Nat /\ numThreadsPow2 >= 1 /\ E!Nodes = 1 .. 2 * numThreadsPow2 - 1
      /\ 1 \in E!Nodes
  BY ProcessesAssumption DEF E!Nodes, E!EBRT_ROOT
<1>2. \A t \in E!Tids : /\ t + numThreadsPow2 \in E!Nodes /\ t \in Nat
                        /\ numThreadsPow2 <= t + numThreadsPow2
  BY <1>1, ProcessesAssumption DEF E!Tids
<1>3. \A ix \in 2 .. 2 * numThreadsPow2 - 1 :
       /\ ix \div 2 \in E!Nodes /\ ix \div 2 < ix /\ ix \div 2 < numThreadsPow2
       /\ E!sibling(ix) \in E!Nodes
  BY <1>1 DEF E!sibling
<1>4. \A ix, jx \in 2 .. 2 * numThreadsPow2 - 1 : ix \div 2 = jx \div 2 => jx = ix \/ jx = E!sibling(ix)
  BY <1>1 DEF E!sibling
<1> QED
  BY <1>1, <1>2, <1>3, <1>4

\* A set of numbers that is not empty has a least element.
LEMMA LeastElement ==
  ASSUME NEW S \in SUBSET Nat, S # {}
  PROVE  \E n \in S : \A m \in S : n <= m
<1>1. \E R : IsWellFoundedOn(R, Nat) /\ \A m, n \in Nat : <<m, n>> \in R <=> m < n
  <2>1. \A m, n \in Nat : <<m, n>> \in OpToRel(<, Nat) <=> m < n
    BY DEF OpToRel
  <2> QED
    BY <2>1, NatLessThanWellFounded, Zenon
<1>2. PICK R : IsWellFoundedOn(R, Nat) /\ \A m, n \in Nat : <<m, n>> \in R <=> m < n
  BY <1>1, Zenon
<1>3. S \subseteq Nat
  OBVIOUS
<1>4. IsWellFoundedOn(R, Nat)
  BY <1>2, Zenon
<1>5. \E n \in S : \A m \in S : ~(<<m, n>> \in R)
  BY <1>3, <1>4, WFMin
<1>6. PICK n \in S : \A m \in S : ~(<<m, n>> \in R)
  BY <1>5, Zenon
<1>7. \A m \in S : ~(m < n)
  BY <1>2, <1>3, <1>6, Zenon
<1> QED
  BY <1>3, <1>6, <1>7, SMT

\* The epoch is at most one ahead of every announcement.
LEMMA TreeRoot ==
  ASSUME NEW n \in [E!Nodes -> Nat], TreeOrder(n), E!Even(n[1]),
         NEW t \in E!Tids, E!Even(n[t + numThreadsPow2])
  PROVE  n[1] <= n[t + numThreadsPow2] + 2
<1> DEFINE S == {ix \in E!Nodes : E!Even(n[ix]) /\ n[ix] + 2 < n[1]}
<1>1. ASSUME NEW ix \in S, \A y \in S : ix <= y PROVE FALSE
  <2>1. ix \in E!Nodes /\ E!Even(n[ix]) /\ n[ix] + 2 < n[1] /\ n[ix] \in Nat /\ n[1] \in Nat
    BY TreeShape
  <2>2. ix \in 2 .. 2 * numThreadsPow2 - 1
    BY <2>1, TreeShape
  <2>3. ix \div 2 \in E!Nodes /\ ix \div 2 < ix
    BY <2>2, TreeShape
  <2>4. ix \div 2 # 1
    BY <2>1, <2>2 DEF TreeOrder
  <2>5. E!Even(n[ix \div 2]) /\ n[ix \div 2] <= n[ix]
    BY <2>1, <2>2, <2>4 DEF TreeOrder
  <2>6. n[ix \div 2] \in Nat
    BY <2>3
  <2>7. ix \div 2 \in S
    BY <2>1, <2>3, <2>5, <2>6
  <2> QED
    BY <1>1, <2>2, <2>3, <2>7
<1>2. S \subseteq Nat
  BY TreeShape
<1>3. S = {}
  <2> HIDE DEF S
  <2> QED
    <3>1. S # {} => \E x \in S : \A y \in S : x <= y
      BY <1>2, LeastElement
    <3> QED
      BY <1>1, <3>1
<1>4. t + numThreadsPow2 \in E!Nodes /\ n[t + numThreadsPow2] \in Nat /\ n[1] \in Nat
  BY TreeShape
<1> QED
  BY <1>3, <1>4

\* A node may be raised as long as it does not get ahead of the nodes below it.
LEMMA TreeRaise ==
  ASSUME NEW n \in [E!Nodes -> Nat], NEW p \in E!Nodes, NEW v \in Nat, TreeOrder(n),
         E!Even(n[p]), E!Even(v), n[p] <= v,
         \A ix \in 2 .. 2 * numThreadsPow2 - 1 : ix \div 2 = p /\ E!Even(n[ix]) =>
           IF p = 1 THEN v <= n[ix] + 2 ELSE v <= n[ix],
         NEW m, m = [n EXCEPT ![p] = v]
  PROVE  TreeOrder(m)
<1> SUFFICES ASSUME NEW ix \in 2 .. 2 * numThreadsPow2 - 1, E!Even(m[ix])
             PROVE  IF ix \div 2 = 1 THEN m[1] <= m[ix] + 2
                                     ELSE E!Even(m[ix \div 2]) /\ m[ix \div 2] <= m[ix]
  BY DEF TreeOrder
<1>1. /\ ix \div 2 \in E!Nodes /\ ix \div 2 # ix /\ 1 \in E!Nodes /\ ix \in E!Nodes
      /\ n[ix] \in Nat /\ n[ix \div 2] \in Nat /\ n[1] \in Nat /\ n[p] \in Nat
  <2>1. ix \div 2 \in E!Nodes /\ ix \div 2 # ix /\ 1 \in E!Nodes /\ ix \in E!Nodes
    BY TreeShape
  <2> QED
    BY <2>1
<1>2. \A x \in E!Nodes : m[x] = IF x = p THEN v ELSE n[x]
  OBVIOUS
<1>3. E!Even(n[ix])
  BY <1>1, <1>2
<1>4. IF ix \div 2 = 1 THEN n[1] <= n[ix] + 2
                       ELSE E!Even(n[ix \div 2]) /\ n[ix \div 2] <= n[ix]
  BY <1>3 DEF TreeOrder
<1>5. CASE ix = p
  BY <1>1, <1>2, <1>4, <1>5
<1>6. CASE ix # p /\ ix \div 2 = p
  <2>1. IF p = 1 THEN v <= n[ix] + 2 ELSE v <= n[ix]
    BY <1>3, <1>6
  <2> QED
    BY <1>1, <1>2, <1>6, <2>1
<1>7. CASE ix # p /\ ix \div 2 # p
  BY <1>1, <1>2, <1>4, <1>7
<1> QED
  BY <1>5, <1>6, <1>7

TreeTypes ==
  /\ nodes \in [E!Nodes -> Nat]
  /\ pc \in [E!Tids -> {"idle", "announce", "op", "climb", "parent", "cas"}]
  /\ readEpoch \in [E!Tids -> Nat] /\ currIx \in [E!Tids -> E!Nodes] /\ parentVal \in [E!Tids -> Nat]

TreeBags == BagsInv(E!Tids, E!active, epochbags, index, limbo, E!waits)

TreeEpochs ==
  /\ E!Even(nodes[1]) /\ TreeOrder(nodes)
  /\ \A t \in E!Tids : E!Even(nodes[t + numThreadsPow2]) /\ nodes[t + numThreadsPow2] <= nodes[1]

\* The invariant in parts: what is about the tree, and what is about the bags.
LEMMA TreeParts == E!TypeOK /\ E!TreeInv /\ E!BagInv <=> TreeTypes /\ TreeEpochs /\ TreeBags
<1>1. E!TreeInv <=> TreeEpochs
  BY DEF E!TreeInv, TreeEpochs, TreeOrder, E!EBRT_ROOT, E!EBRT_PARENT, E!val, E!EBRT_LEAF, E!EPOCH_INCREMENT
<1>2. E!Bags = 0 .. 2 /\ {"idle", "announce", "op"} \cup E!Climbing = {"idle", "announce", "op", "climb", "parent", "cas"}
  BY DEF E!Bags, E!NUMBER_OF_EPOCH_BAGS, E!Climbing
<1>3. E!TypeOK /\ E!BagInv <=> TreeTypes /\ TreeBags
  BY <1>2 DEF E!TypeOK, E!BagInv, TreeTypes, TreeBags, BagsInv, E!NUMBER_OF_EPOCH_BAGS
<1> QED
  BY <1>1, <1>3

\* What a record may have to outlive.
TreeWaiting ==
  \A t \in E!Tids, i \in 0 .. 2 : \A s :
    s \in E!waits[t][i] <=>
      s \in E!active /\ nodes[s + numThreadsPow2] + i * 2 <= nodes[t + numThreadsPow2] + 2

\* What the records in the bags of the tree wait for, thread by thread and age by age.
LEMMA TreeWaits == TreeWaiting
BY DEF TreeWaiting, E!waits, E!Bags, E!NUMBER_OF_EPOCH_BAGS, E!val, E!EBRT_LEAF, E!EPOCH_INCREMENT

\* The tree the constructor makes.
LEMMA TreeInit == E!Init => E!IInv
<1> SUFFICES ASSUME E!Init PROVE E!IInv
  OBVIOUS
<1>1. /\ nodes \in [E!Nodes -> {0, 1, 2}] /\ nodes[1] = 2
      /\ \A ix \in E!Nodes : ix # 1 /\ numThreadsPow2 <= ix =>
           nodes[ix] = IF NUM_PROCESSES + numThreadsPow2 <= ix THEN 1 ELSE 0
      /\ \A ix \in 2 .. numThreadsPow2 - 1 :
           nodes[ix] = IF E!QUIESCENT(nodes[2 * ix]) /\ E!QUIESCENT(nodes[2 * ix + 1]) THEN 1 ELSE 0
  BY TreeShape DEF E!Init, E!propagateQ, E!EBRT_ROOT, E!EBRT_LEAF, E!EPOCH_INCREMENT
<1>2. TreeTypes
  <2>1. nodes \in [E!Nodes -> Nat]
    BY <1>1
  <2> QED
    BY <2>1, TreeShape DEF E!Init, TreeTypes, E!EBRT_ROOT
<1>3. TreeEpochs
  <2>1. E!Even(nodes[1])
    BY <1>1 DEF E!Even
  <2>2. ASSUME NEW t \in E!Tids
        PROVE  E!Even(nodes[t + numThreadsPow2]) /\ nodes[t + numThreadsPow2] <= nodes[1]
    <3>1. CASE t + numThreadsPow2 = 1
      BY <1>1, <2>1, <3>1 DEF E!Even
    <3>2. CASE t + numThreadsPow2 # 1
      <4>1. ~(NUM_PROCESSES + numThreadsPow2 <= t + numThreadsPow2)
        BY ProcessesAssumption DEF E!Tids
      <4>2. nodes[t + numThreadsPow2] = 0
        BY <1>1, <3>2, <4>1, TreeShape
      <4> QED
        BY <1>1, <4>2 DEF E!Even
    <3> QED
      BY <3>1, <3>2
  <2>3. \A ix \in 2 .. 2 * numThreadsPow2 - 1 : nodes[ix] \in {0, 1}
    <3> TAKE ix \in 2 .. 2 * numThreadsPow2 - 1
    <3>1. ix \in E!Nodes /\ ix # 1 /\ (numThreadsPow2 <= ix \/ ix \in 2 .. numThreadsPow2 - 1)
      BY TreeShape
    <3> QED
      BY <1>1, <3>1
  <2>4. ASSUME NEW ix \in 2 .. 2 * numThreadsPow2 - 1, E!Even(nodes[ix]), ix \div 2 # 1
        PROVE  nodes[ix \div 2] = 0
    <3>1. ~E!QUIESCENT(nodes[ix])
      BY <2>3, <2>4 DEF E!Even, E!QUIESCENT
    <3>2. ix \div 2 \in 2 .. numThreadsPow2 - 1 /\ (ix = 2 * (ix \div 2) \/ ix = 2 * (ix \div 2) + 1)
      BY <2>4, TreeShape
    <3> QED
      BY <1>1, <3>1, <3>2
  <2>5. TreeOrder(nodes)
    <3> SUFFICES ASSUME NEW ix \in 2 .. 2 * numThreadsPow2 - 1, E!Even(nodes[ix])
                 PROVE  IF ix \div 2 = 1 THEN nodes[1] <= nodes[ix] + 2
                                         ELSE E!Even(nodes[ix \div 2]) /\ nodes[ix \div 2] <= nodes[ix]
      BY DEF TreeOrder
    <3>1. nodes[ix] = 0
      BY <2>3 DEF E!Even
    <3>2. CASE ix \div 2 = 1
      BY <1>1, <3>1, <3>2
    <3>3. CASE ix \div 2 # 1
      BY <2>4, <3>1, <3>3 DEF E!Even
    <3> QED
      BY <3>2, <3>3
  <2> QED
    BY <2>1, <2>2, <2>5 DEF TreeEpochs
<1>4. TreeBags
  BY DEF E!Init, E!GP!NoRecords, TreeBags, BagsInv, E!NUMBER_OF_EPOCH_BAGS
<1>5. E!ClimbInv
  BY DEF E!Init, E!ClimbInv, E!Climbing
<1> QED
  BY <1>2, <1>3, <1>4, <1>5, TreeParts DEF E!IInv

\* Where thread u is on its way to the root: at says what it does next, c which node it has
\* reached, e and pv what it has read.
Climbs(n, u, at, e, c, pv) ==
  /\ at = "announce" => E!Even(e) /\ n[u + numThreadsPow2] <= e /\ e <= n[1]
  /\ at \in {"climb", "parent", "cas"} => c # 1 /\ E!Even(n[c]) /\ n[u + numThreadsPow2] <= n[c]
  /\ at \in {"parent", "cas"} =>
       E!QUIESCENT(n[E!sibling(c)]) \/ n[u + numThreadsPow2] <= n[E!sibling(c)]
  /\ at = "cas" => IF c \div 2 = 1 THEN pv = n[u + numThreadsPow2] ELSE pv < n[u + numThreadsPow2]

TreeClimbs == \A u \in E!Tids : Climbs(nodes, u, pc[u], readEpoch[u], currIx[u], parentVal[u])

\* The invariant of tryAdvance, thread by thread.
LEMMA ClimbParts == E!ClimbInv <=> TreeClimbs
BY DEF E!ClimbInv, TreeClimbs, Climbs, E!Climbing, E!Reached, E!val, E!EBRT_LEAF, E!EBRT_ROOT, E!EBRT_PARENT

\* Nodes that have a thread below are raised, the others stay as they are.
Grows(n, m) ==
  \A x \in E!Nodes : m[x] = n[x] \/ (E!Even(n[x]) /\ E!Even(m[x]) /\ n[x] <= m[x])

\* Whoever is on the way to the root is not disturbed by that.
LEMMA ClimbGrows ==
  ASSUME NEW n \in [E!Nodes -> Nat], NEW m \in [E!Nodes -> Nat], Grows(n, m),
         NEW u \in E!Tids, m[u + numThreadsPow2] = n[u + numThreadsPow2],
         NEW at, NEW e \in Nat, NEW c \in E!Nodes, NEW pv \in Nat, Climbs(n, u, at, e, c, pv)
  PROVE  Climbs(m, u, at, e, c, pv)
<1> DEFINE v == n[u + numThreadsPow2]
<1>1. v \in Nat /\ n[1] \in Nat /\ m[1] \in Nat /\ n[c] \in Nat /\ m[c] \in Nat
  BY TreeShape
<1>2. \A x \in E!Nodes : n[x] \in Nat /\ m[x] \in Nat /\ n[x] <= m[x]
  BY DEF Grows
<1>3. n[1] <= m[1]
  BY <1>2, TreeShape
<1>4. at = "announce" => E!Even(e) /\ v <= e /\ e <= m[1]
  BY <1>1, <1>3 DEF Climbs
<1>5. at \in {"climb", "parent", "cas"} => c # 1 /\ E!Even(m[c]) /\ v <= m[c]
  BY <1>1, <1>2 DEF Climbs, Grows
<1>6. at \in {"parent", "cas"} => E!QUIESCENT(m[E!sibling(c)]) \/ v <= m[E!sibling(c)]
  <2> SUFFICES ASSUME at \in {"parent", "cas"}
               PROVE  E!QUIESCENT(m[E!sibling(c)]) \/ v <= m[E!sibling(c)]
    OBVIOUS
  <2>1. E!sibling(c) \in E!Nodes
    <3>1. c \in 2 .. 2 * numThreadsPow2 - 1
      BY TreeShape DEF Climbs
    <3> QED
      BY <3>1, TreeShape
  <2>2. PICK x \in E!Nodes : x = E!sibling(c)
    BY <2>1
  <2>3. E!QUIESCENT(n[x]) \/ v <= n[x]
    BY <2>2 DEF Climbs
  <2>4. CASE m[x] = n[x]
    BY <2>2, <2>3, <2>4
  <2>5. CASE E!Even(n[x]) /\ n[x] <= m[x]
    <3>1. ~E!QUIESCENT(n[x])
      BY <2>5 DEF E!Even, E!QUIESCENT
    <3> QED
      BY <1>1, <1>2, <2>2, <2>3, <2>5, <3>1
  <2> QED
    BY <2>4, <2>5 DEF Grows
<1> QED
  BY <1>4, <1>5, <1>6 DEF Climbs

\* When neither the bags nor the announcements of the operations change.
LEMMA TreeBagsKept ==
  ASSUME TreeBags, epochbags' = epochbags, index' = index,
         \A s \in E!Tids : nodes'[s + numThreadsPow2] = nodes[s + numThreadsPow2],
         DOMAIN limbo' = DOMAIN limbo, limbo' \in [DOMAIN limbo -> SUBSET E!active'],
         \A x \in DOMAIN limbo : limbo'[x] \subseteq limbo[x]
  PROVE  TreeBags'
<1>1. TreeWaiting /\ TreeWaiting'
  <2>1. TreeWaiting'
    BY TreeWaits, PTL
  <2> QED
    BY <2>1, TreeWaits
<1>2. E!active \subseteq E!Tids
  BY DEF E!active
<1>3. \A t \in E!Tids, i \in 0 .. 2 : E!waits[t][i] \cap E!active' \subseteq E!waits'[t][i]
  BY <1>1, <1>2 DEF TreeWaiting
<1>4. BagsKept(E!Tids, E!active, epochbags, index, limbo, E!waits, E!active', limbo', E!waits')
  BY <1>3 DEF BagsKept, TreeBags
<1>5. BagsInv(E!Tids, E!active', epochbags, index, limbo', E!waits')
  BY <1>4, BagsKeep
<1> QED
  BY <1>5 DEF TreeBags, BagsInv, E!Tids

\* A step of the tree reclaimer keeps the invariant, and is a step of GracePeriod.
LEMMA TreeStep ==
  ASSUME E!IInv, NEW t \in E!Tids, E!Step(t) \/ \E r \in Records : E!retire(t, r)
  PROVE  E!IInv' /\ [GP!Next]_(GP!vars)
<1>1. E!Step(t) \/ \E r \in Records : E!retire(t, r)
  OBVIOUS
<1>2. TreeTypes /\ TreeEpochs /\ TreeBags /\ TreeClimbs
  BY TreeParts, ClimbParts DEF E!IInv
<1>3. /\ nodes \in [E!Nodes -> Nat] /\ DOMAIN pc = E!Tids /\ currIx \in [E!Tids -> E!Nodes]
      /\ readEpoch \in [E!Tids -> Nat] /\ parentVal \in [E!Tids -> Nat]
      /\ \A u \in E!Tids : pc[u] \in {"idle", "announce", "op", "climb", "parent", "cas"}
      /\ pc \in [E!Tids -> {"idle", "announce", "op", "climb", "parent", "cas"}]
  BY <1>2 DEF TreeTypes
<1>4. /\ nodes[1] \in Nat /\ nodes[1] % 2 = 0 /\ TreeOrder(nodes)
      /\ \A u \in E!Tids : /\ nodes[u + numThreadsPow2] \in Nat /\ nodes[u + numThreadsPow2] % 2 = 0
                           /\ nodes[u + numThreadsPow2] <= nodes[1]
                           /\ nodes[1] <= nodes[u + numThreadsPow2] + 2
                           /\ u + numThreadsPow2 \in E!Nodes
  <2>1. /\ nodes[1] \in Nat /\ nodes[1] % 2 = 0 /\ TreeOrder(nodes)
    BY <1>2 DEF TreeEpochs, E!Even
  <2>2. \A u \in E!Tids : /\ nodes[u + numThreadsPow2] \in Nat /\ nodes[u + numThreadsPow2] % 2 = 0
                          /\ nodes[u + numThreadsPow2] <= nodes[1]
    BY <1>2 DEF TreeEpochs, E!Even
  <2>3. \A u \in E!Tids : nodes[1] <= nodes[u + numThreadsPow2] + 2
    BY <1>2, <1>3, TreeRoot DEF TreeEpochs
  <2> QED
    BY <2>1, <2>2, <2>3, TreeShape
<1>5. limbo \in [DOMAIN limbo -> SUBSET E!active] /\ active = E!active /\ E!active \subseteq E!Tids
  BY <1>2, <1>3 DEF TreeBags, BagsInv, active, E!active
<1>6. (E!TypeOK /\ E!TreeInv /\ E!BagInv)' <=> (TreeTypes /\ TreeEpochs /\ TreeBags)'
  BY TreeParts, PTL
<1>7. E!ClimbInv' <=> TreeClimbs'
  BY ClimbParts, PTL
<1>8. ASSUME TreeTypes', TreeEpochs', TreeBags', TreeClimbs' PROVE E!IInv'
  BY <1>6, <1>7, <1>8 DEF E!IInv
<1>9. t \in 0 .. NUM_PROCESSES - 1 /\ (TreeTypes' => active' = E!active')
  BY DEF active, E!active, TreeTypes, E!Tids
<1>10. TreeBags' <=> BagsInv(E!Tids, E!active', epochbags', index', limbo', E!waits')
  BY DEF TreeBags, BagsInv, E!Tids
<1>11. ASSUME nodes' = nodes PROVE TreeEpochs'
  BY <1>2, <1>11 DEF TreeEpochs, TreeOrder, E!Tids
<1>12. ASSUME nodes' \in [E!Nodes -> Nat], Grows(nodes, nodes'),
              \A u \in E!Tids : u # t => /\ nodes'[u + numThreadsPow2] = nodes[u + numThreadsPow2]
                                         /\ pc'[u] = pc[u] /\ readEpoch'[u] = readEpoch[u]
                                         /\ currIx'[u] = currIx[u] /\ parentVal'[u] = parentVal[u],
              Climbs(nodes', t, pc'[t], readEpoch'[t], currIx'[t], parentVal'[t])
       PROVE  TreeClimbs'
  <2> SUFFICES ASSUME NEW u \in E!Tids
               PROVE  Climbs(nodes', u, pc'[u], readEpoch'[u], currIx'[u], parentVal'[u])
    BY DEF TreeClimbs, Climbs, E!Tids
  <2>1. CASE u = t
    BY <1>12, <2>1
  <2>2. CASE u # t
    <3>1. Climbs(nodes, u, pc[u], readEpoch[u], currIx[u], parentVal[u])
      BY <1>2 DEF TreeClimbs
    <3>2. Climbs(nodes', u, pc[u], readEpoch[u], currIx[u], parentVal[u])
      BY <1>3, <1>12, <2>2, <3>1, ClimbGrows
    <3> QED
      BY <1>12, <2>2, <3>2
  <2> QED
    BY <2>1, <2>2
<1>13. Climbs(nodes, t, pc[t], readEpoch[t], currIx[t], parentVal[t])
  BY <1>2 DEF TreeClimbs
<1>14. Grows(nodes, nodes)
  BY DEF Grows
\* The tree stays as it is and no operation ends.
<1>15. ASSUME nodes' = nodes, epochbags' = epochbags, index' = index, limbo' = limbo,
              TreeTypes', pc[t] # "op", \A u \in E!Tids : u # t => pc'[u] = pc[u]
       PROVE  TreeBags' /\ TreeEpochs' /\ [GP!Next]_(GP!vars)
  <2>1. E!active' = IF pc'[t] = "op" THEN E!active \cup {t} ELSE E!active
    BY <1>15 DEF E!active, E!Tids
  <2>2. TreeBags'
    <3>1. limbo' \in [DOMAIN limbo -> SUBSET E!active']
      BY <1>5, <1>15, <2>1
    <3> QED
      BY <1>2, <1>15, <3>1, TreeBagsKept
  <2>3. [GP!Next]_(GP!vars)
    <3>1. CASE pc'[t] = "op"
      <4>1. t \notin active /\ active' = active \cup {t}
        BY <1>5, <1>9, <1>15, <2>1, <3>1 DEF E!active
      <4> QED
        BY <1>9, <1>15, <4>1 DEF GP!Next, GP!Start
    <3>2. CASE pc'[t] # "op"
      BY <1>5, <1>9, <1>15, <2>1, <3>2 DEF GP!vars
    <3> QED
      BY <3>1, <3>2
  <2> QED
    BY <1>11, <1>15, <2>2, <2>3
<1>16. CASE E!ReadEpoch(t)
  <2>1. /\ pc[t] = "idle" /\ pc' = [pc EXCEPT ![t] = "announce"]
        /\ readEpoch' = [readEpoch EXCEPT ![t] = nodes[1]]
        /\ UNCHANGED <<nodes, epochbags, index, currIx, parentVal, limbo>>
    BY <1>16 DEF E!ReadEpoch, E!Goto, E!EBRT_ROOT
  <2>2. TreeTypes'
    BY <1>3, <1>4, <2>1 DEF TreeTypes
  <2>3. TreeClimbs'
    <3>1. Climbs(nodes', t, pc'[t], readEpoch'[t], currIx'[t], parentVal'[t])
      BY <1>3, <1>4, <2>1 DEF Climbs, E!Even
    <3> QED
      BY <1>3, <1>12, <1>14, <2>1, <3>1
  <2>4. TreeBags' /\ TreeEpochs' /\ [GP!Next]_(GP!vars)
    BY <1>3, <1>15, <2>1, <2>2
  <2> QED
    BY <1>8, <2>2, <2>3, <2>4
<1>17. CASE E!ReadSibling(t)
  <2>1. /\ pc[t] = "climb"
        /\ \/ /\ pc' = [pc EXCEPT ![t] = "parent"]
              /\ \/ nodes[E!sibling(currIx[t])] = nodes[t + numThreadsPow2]
                 \/ E!QUIESCENT(nodes[E!sibling(currIx[t])])
           \/ pc' = [pc EXCEPT ![t] = "op"]
        /\ UNCHANGED <<nodes, epochbags, index, readEpoch, currIx, parentVal, limbo>>
    BY <1>17 DEF E!ReadSibling, E!Goto, E!MayPass, E!val, E!EBRT_LEAF
  <2>2. TreeTypes'
    BY <1>3, <1>4, <2>1 DEF TreeTypes
  <2>3. TreeClimbs'
    <3>1. Climbs(nodes', t, pc'[t], readEpoch'[t], currIx'[t], parentVal'[t])
      BY <1>3, <1>4, <1>13, <2>1 DEF Climbs
    <3> QED
      BY <1>3, <1>12, <1>14, <2>1, <3>1
  <2>4. TreeBags' /\ TreeEpochs' /\ [GP!Next]_(GP!vars)
    BY <1>3, <1>15, <2>1, <2>2
  <2> QED
    BY <1>8, <2>2, <2>3, <2>4
<1>18. CASE E!ReadParent(t)
  <2>1. /\ pc[t] = "parent"
        /\ \/ /\ pc' = [pc EXCEPT ![t] = "cas"]
              /\ IF currIx[t] \div 2 = 1 THEN nodes[currIx[t] \div 2] = nodes[t + numThreadsPow2]
                                         ELSE nodes[currIx[t] \div 2] < nodes[t + numThreadsPow2]
           \/ pc' = [pc EXCEPT ![t] = "op"]
        /\ parentVal' = [parentVal EXCEPT ![t] = nodes[currIx[t] \div 2]]
        /\ UNCHANGED <<nodes, epochbags, index, readEpoch, currIx, limbo>>
    BY <1>18 DEF E!ReadParent, E!Goto, E!val, E!EBRT_LEAF, E!EBRT_ROOT, E!EBRT_PARENT
  <2>2. nodes[currIx[t] \div 2] \in Nat
    <3>1. currIx[t] \in 2 .. 2 * numThreadsPow2 - 1
      BY <1>3, <1>13, <2>1, TreeShape DEF Climbs
    <3> QED
      BY <1>3, <3>1, TreeShape
  <2>3. TreeTypes'
    BY <1>3, <1>4, <2>1, <2>2 DEF TreeTypes
  <2>4. TreeClimbs'
    <3>1. Climbs(nodes', t, pc'[t], readEpoch'[t], currIx'[t], parentVal'[t])
      BY <1>3, <1>4, <1>13, <2>1, <2>2 DEF Climbs
    <3> QED
      BY <1>3, <1>12, <1>14, <2>1, <3>1
  <2>5. TreeBags' /\ TreeEpochs' /\ [GP!Next]_(GP!vars)
    BY <1>3, <1>15, <2>1, <2>3
  <2> QED
    BY <1>8, <2>3, <2>4, <2>5
<1>19. CASE E!CASParent(t)
  <2> DEFINE p == currIx[t] \div 2
             v == nodes[t + numThreadsPow2]
  <2>1. /\ pc[t] = "cas" /\ currIx' = [currIx EXCEPT ![t] = p]
        /\ nodes' = [nodes EXCEPT ![p] = CASE ~(nodes[p] = parentVal[t]) -> @
                                           [] nodes[p] = parentVal[t] /\ p = 1 -> @ + 2
                                           [] OTHER -> v]
        /\ pc' = [pc EXCEPT ![t] = IF nodes[p] = parentVal[t] /\ p # 1 THEN "climb" ELSE "op"]
        /\ UNCHANGED <<epochbags, index, readEpoch, parentVal, limbo>>
    BY <1>19 DEF E!CASParent, E!Goto, E!val, E!EBRT_LEAF, E!EBRT_ROOT, E!EBRT_PARENT, E!EPOCH_INCREMENT
  <2>2. currIx[t] \in 2 .. 2 * numThreadsPow2 - 1 /\ E!Even(nodes[currIx[t]]) /\ v <= nodes[currIx[t]]
        /\ (E!QUIESCENT(nodes[E!sibling(currIx[t])]) \/ v <= nodes[E!sibling(currIx[t])])
        /\ IF p = 1 THEN parentVal[t] = v ELSE parentVal[t] < v
    BY <1>3, <1>13, <2>1, TreeShape, SMTT(30) DEF Climbs
  <2>3. p \in E!Nodes /\ p < numThreadsPow2 /\ E!sibling(currIx[t]) \in E!Nodes
    BY <2>2, TreeShape
  <2>4. E!Even(nodes[p]) /\ nodes[p] \in Nat /\ v \in Nat /\ E!Even(v) /\ p \in Int
    <3>1. E!Even(nodes[p])
      BY <1>2, <1>4, <2>2 DEF TreeEpochs, TreeOrder
    <3> QED
      BY <1>3, <1>4, <2>3, <3>1, TreeShape DEF E!Even
  <2>5. PICK w \in Nat : /\ nodes' = [nodes EXCEPT ![p] = w] /\ E!Even(w) /\ nodes[p] <= w
                         /\ w # nodes[p] => w = IF p = 1 THEN v + 2 ELSE v
                         /\ nodes[p] = parentVal[t] /\ p # 1 => w = v
    <3>1. CASE nodes[p] # parentVal[t]
      <4>1. nodes' = [nodes EXCEPT ![p] = nodes[p]]
        BY <2>1, <3>1
      <4>2. nodes[p] <= nodes[p] /\ E!Even(nodes[p]) /\ nodes[p] \in Nat
        BY <2>4
      <4> USE <4>2
      <4> WITNESS nodes[p] \in Nat
      <4> QED
        BY <3>1, <4>1, <4>2
    <3>2. CASE nodes[p] = parentVal[t] /\ p = 1
      <4>1. nodes' = [nodes EXCEPT ![p] = nodes[p] + 2]
        BY <2>1, <3>2
      <4>2. nodes[p] = v
        BY <2>2, <3>2
      <4>3. v + 2 \in Nat /\ E!Even(v + 2) /\ v <= v + 2
        BY <2>4 DEF E!Even
      <4> QED
        BY <3>2, <4>1, <4>2, <4>3
    <3>3. CASE nodes[p] = parentVal[t] /\ p # 1
      <4>1. nodes' = [nodes EXCEPT ![p] = v]
        BY <2>1, <3>3
      <4>2. nodes[p] < v
        BY <2>2, <3>3
      <4>3. v \in Nat /\ E!Even(v) /\ nodes[p] <= v
        BY <2>4, <4>2
      <4> USE <4>3
      <4> WITNESS v \in Nat
      <4> QED
        BY <3>3, <4>1, <4>3
    <3> QED
      BY <3>1, <3>2, <3>3
  <2>a. \A u \in E!Tids : u + numThreadsPow2 # p
    BY <2>3, <2>4, TreeShape
  <2>6. /\ nodes' \in [E!Nodes -> Nat]
        /\ \A x \in E!Nodes : nodes'[x] = IF x = p THEN w ELSE nodes[x]
        /\ \A u \in E!Tids : nodes'[u + numThreadsPow2] = nodes[u + numThreadsPow2]
    BY <1>3, <1>4, <2>3, <2>5, <2>a
  <2>7. Grows(nodes, nodes')
    BY <2>3, <2>4, <2>5, <2>6 DEF Grows
  <2>8. TreeTypes'
    BY <1>3, <2>1, <2>3, <2>6 DEF TreeTypes
  <2>9. TreeOrder(nodes')
    <3>1. ASSUME NEW ix \in 2 .. 2 * numThreadsPow2 - 1, ix \div 2 = p, E!Even(nodes[ix])
          PROVE  IF p = 1 THEN w <= nodes[ix] + 2 ELSE w <= nodes[ix]
      <4>1. ix \in E!Nodes /\ nodes[ix] \in Nat
        <5>1. ix \in E!Nodes
          BY TreeShape
        <5> QED
          BY <1>3, <5>1
      <4>2. ix = currIx[t] \/ ix = E!sibling(currIx[t])
        BY <2>2, <3>1, TreeShape
      <4>3. v <= nodes[ix]
        <5>1. ~E!QUIESCENT(nodes[ix])
          BY <3>1 DEF E!QUIESCENT, E!Even
        <5> QED
          BY <2>2, <4>2, <5>1
      <4>4. CASE w # nodes[p]
        BY <2>4, <2>5, <4>1, <4>3, <4>4
      <4>5. CASE w = nodes[p]
        <5>1. IF p = 1 THEN nodes[p] <= nodes[ix] + 2 ELSE nodes[p] <= nodes[ix]
          BY <1>4, <3>1 DEF TreeOrder
        <5> QED
          BY <4>5, <5>1
      <4> QED
        BY <4>4, <4>5
    <3> HIDE DEF p
    <3> QED
      BY <1>3, <1>4, <2>3, <2>4, <2>5, <3>1, TreeRaise
  <2>10. TreeEpochs'
    <3>1. E!Even(nodes'[1]) /\ nodes[1] <= nodes'[1] /\ nodes'[1] \in Nat
      BY <1>4, <2>4, <2>5, <2>6, TreeShape, SMTT(30) DEF E!Even
    <3>2. \A u \in E!Tids : E!Even(nodes'[u + numThreadsPow2]) /\ nodes'[u + numThreadsPow2] <= nodes'[1]
      BY <1>4, <2>6, <3>1 DEF E!Even
    <3> QED
      BY <2>9, <3>1, <3>2 DEF TreeEpochs, E!Tids, E!Even, TreeOrder
  <2>11. TreeClimbs'
    <3>1. pc'[t] = IF nodes[p] = parentVal[t] /\ p # 1 THEN "climb" ELSE "op"
      BY <1>3, <2>1
    <3>2. Climbs(nodes', t, pc'[t], readEpoch'[t], currIx'[t], parentVal'[t])
      <4>1. CASE nodes[p] = parentVal[t] /\ p # 1
        <5>1. currIx'[t] = p /\ nodes'[p] = v /\ nodes'[t + numThreadsPow2] = v /\ pc'[t] = "climb"
          BY <1>3, <2>1, <2>3, <2>5, <2>6, <3>1, <4>1
        <5> QED
          BY <2>4, <4>1, <5>1 DEF Climbs
      <4>2. CASE ~(nodes[p] = parentVal[t] /\ p # 1)
        BY <3>1, <4>2 DEF Climbs
      <4> QED
        BY <4>1, <4>2
    <3>3. \A u \in E!Tids : u # t => /\ pc'[u] = pc[u] /\ readEpoch'[u] = readEpoch[u]
                                    /\ currIx'[u] = currIx[u] /\ parentVal'[u] = parentVal[u]
      BY <1>3, <2>1
    <3> QED
      BY <1>12, <2>6, <2>7, <3>2, <3>3
  <2>12. /\ \A u \in E!Tids : u # t => pc'[u] = pc[u]
         /\ pc[t] # "op" /\ E!active' = IF pc'[t] = "op" THEN E!active \cup {t} ELSE E!active
    <3>1. \A u \in E!Tids : u # t => pc'[u] = pc[u]
      BY <1>3, <2>1
    <3> QED
      BY <2>1, <3>1 DEF E!active, E!Tids
  <2>13. TreeBags'
    <3>1. limbo' \in [DOMAIN limbo -> SUBSET E!active']
      BY <1>5, <2>1, <2>12
    <3> QED
      BY <1>2, <2>1, <2>6, <3>1, TreeBagsKept
  <2>14. [GP!Next]_(GP!vars)
    <3>1. CASE pc'[t] = "op"
      <4>1. t \notin active /\ active' = active \cup {t}
        BY <1>5, <1>9, <2>8, <2>12, <3>1 DEF E!active
      <4> QED
        BY <1>9, <2>1, <4>1 DEF GP!Next, GP!Start
    <3>2. CASE pc'[t] # "op"
      BY <1>5, <1>9, <2>1, <2>8, <2>12, <3>2 DEF GP!vars
    <3> QED
      BY <3>1, <3>2
  <2> QED
    BY <1>8, <2>8, <2>10, <2>11, <2>13, <2>14
<1>20. CASE E!Announce(t)
  <2> DEFINE q == t + numThreadsPow2
             c == timeSinceTryAdvance'[t] = 0 /\ readEpoch[t] < MaxEpoch /\ q > 1
  <2>0. q \in E!Nodes /\ nodes[q] \in Nat /\ nodes[q] % 2 = 0 /\ q \in Int
        /\ nodes[q] <= nodes[1] /\ nodes[1] \in Nat /\ nodes[1] <= nodes[q] + 2
    BY <1>4, TreeShape
  <2>1. /\ pc[t] = "announce" /\ currIx' = [currIx EXCEPT ![t] = q]
        /\ pc' = [pc EXCEPT ![t] = IF c THEN "climb" ELSE "op"]
        /\ UNCHANGED <<readEpoch, parentVal>>
    BY <1>20 DEF E!Announce, E!Goto, E!EBRT_LEAF, E!EBRT_ROOT
  <2>2. /\ readEpoch[t] \in Nat /\ readEpoch[t] % 2 = 0 /\ nodes[q] <= readEpoch[t]
        /\ readEpoch[t] <= nodes[1]
    BY <1>3, <1>13, <2>1 DEF Climbs, E!Even
  <2>3. /\ \A u \in E!Tids : u # t => /\ pc'[u] = pc[u] /\ readEpoch'[u] = readEpoch[u]
                                     /\ currIx'[u] = currIx[u] /\ parentVal'[u] = parentVal[u]
        /\ pc'[t] = IF c THEN "climb" ELSE "op"
        /\ currIx'[t] = q
    BY <1>3, <2>1
  <2>4. E!active' = (IF pc'[t] = "op" THEN E!active \cup {t} ELSE E!active) /\ t \notin E!active
    <3>1. pc[t] # "op"
      BY <2>1
    <3> QED
      BY <2>3, <3>1 DEF E!active, E!Tids
  <2>5. /\ pc' \in [E!Tids -> {"idle", "announce", "op", "climb", "parent", "cas"}]
        /\ currIx' \in [E!Tids -> E!Nodes]
    BY <1>3, <2>0, <2>1
  <2>6. CASE readEpoch[t] = nodes[q]
    <3>1. UNCHANGED <<nodes, epochbags, index, limbo>>
      BY <1>20, <2>0, <2>6 DEF E!Announce, E!EBRT_LEAF, E!BITS_EPOCH, E!EPOCH_INCREMENT
    <3>2. TreeTypes'
      BY <1>3, <2>1, <2>5, <3>1 DEF TreeTypes
    <3>3. TreeClimbs'
      <4>1. Climbs(nodes', t, pc'[t], readEpoch'[t], currIx'[t], parentVal'[t])
        BY <2>0, <2>3, <3>1 DEF Climbs, E!Even
      <4> QED
        BY <1>3, <1>12, <1>14, <2>3, <3>1, <4>1
    <3>4. TreeBags' /\ TreeEpochs' /\ [GP!Next]_(GP!vars)
      BY <1>15, <2>1, <2>3, <3>1, <3>2
    <3> QED
      BY <1>8, <3>2, <3>3, <3>4
  <2>7. CASE readEpoch[t] # nodes[q]
    <3> DEFINE m == (index[t] + 1) % 3
    <3>1. /\ nodes' = [nodes EXCEPT ![q] = readEpoch[t]]
          /\ epochbags' = [epochbags EXCEPT ![t][m] = {}]
          /\ index' = [index EXCEPT ![t] = m]
          /\ limbo' = [x \in DOMAIN limbo \ epochbags[t][m] |-> limbo[x]]
      BY <1>20, <2>0, <2>7 DEF E!Announce, E!EBRT_LEAF, E!BITS_EPOCH, E!EPOCH_INCREMENT,
                               E!rotateEpochBags, E!GP!Without, E!nextIndex, E!NUMBER_OF_EPOCH_BAGS
    <3> HIDE DEF m, c
    <3>2. nodes[q] + 2 <= readEpoch[t] /\ q # 1
      BY <2>0, <2>2, <2>7
    <3>3. /\ nodes' \in [E!Nodes -> Nat] /\ nodes'[1] = nodes[1] /\ nodes'[q] = readEpoch[t]
          /\ \A x \in E!Nodes : x # q => nodes'[x] = nodes[x]
          /\ \A u \in E!Tids : u # t => nodes'[u + numThreadsPow2] = nodes[u + numThreadsPow2]
      <4>1. \A u \in E!Tids : u # t => u + numThreadsPow2 # q
        BY TreeShape
      <4> QED
        BY <1>3, <1>4, <2>0, <2>2, <3>1, <3>2, <4>1, TreeShape
    <3>4. Grows(nodes, nodes')
      BY <2>0, <2>2, <3>3 DEF Grows, E!Even
    <3>5. TreeTypes'
      BY <1>3, <2>1, <2>5, <3>3 DEF TreeTypes
    <3>6. TreeClimbs'
      <4>1. Climbs(nodes', t, pc'[t], readEpoch'[t], currIx'[t], parentVal'[t])
        BY <2>2, <2>3, <3>3, <3>2 DEF Climbs, E!Even
      <4> QED
        BY <1>12, <2>3, <3>3, <3>4, <4>1
    <3>7. TreeEpochs'
      <4>1. TreeOrder(nodes')
        <5>1. E!Even(nodes[q]) /\ E!Even(readEpoch[t]) /\ nodes[q] <= readEpoch[t]
          BY <2>0, <2>2 DEF E!Even
        <5>2. \A ix \in 2 .. 2 * numThreadsPow2 - 1 : ix \div 2 # q
          BY <2>0, TreeShape
        <5> HIDE DEF q
        <5> QED
          BY <1>3, <1>4, <2>0, <2>2, <3>1, <5>1, <5>2, TreeRaise
      <4>2. ASSUME NEW u \in E!Tids
            PROVE  E!Even(nodes'[u + numThreadsPow2]) /\ nodes'[u + numThreadsPow2] <= nodes'[1]
        <5>1. CASE u = t
          BY <2>2, <3>3, <5>1 DEF E!Even
        <5>2. CASE u # t
          BY <1>4, <3>3, <5>2 DEF E!Even
        <5> QED
          BY <5>1, <5>2
      <4>3. E!Even(nodes'[1])
        BY <1>4, <3>3 DEF E!Even
      <4> QED
        BY <4>1, <4>2, <4>3 DEF TreeEpochs, E!Tids, E!Even, TreeOrder
    <3>8. TreeWaiting /\ TreeWaiting'
      <4>1. TreeWaiting'
        BY TreeWaits, PTL
      <4> QED
        BY <4>1, TreeWaits
    <3>9. \A s \in E!active : /\ s \in E!Tids /\ s # t /\ s \in E!active'
                              /\ nodes'[s + numThreadsPow2] = nodes[s + numThreadsPow2]
                              /\ nodes[s + numThreadsPow2] \in Nat /\ nodes[s + numThreadsPow2] % 2 = 0
                              /\ nodes[1] <= nodes[s + numThreadsPow2] + 2
      BY <1>4, <1>5, <2>4, <3>3
    <3>10. E!waits[t][2] = {}
      <4> SUFFICES ASSUME NEW s \in E!waits[t][2] PROVE FALSE
        OBVIOUS
      <4>1. s \in E!active /\ nodes[s + numThreadsPow2] + 2 * 2 <= nodes[q] + 2
        BY <3>8 DEF TreeWaiting
      <4>2. nodes[s + numThreadsPow2] \in Nat /\ nodes[1] <= nodes[s + numThreadsPow2] + 2
        BY <3>9, <4>1
      <4> QED
        BY <2>0, <2>2, <3>2, <4>1, <4>2
    <3>11. ASSUME NEW s \in E!waits[t][1] PROVE s \in E!waits'[t][2]
      <4>1. s \in E!active /\ nodes[s + numThreadsPow2] + 1 * 2 <= nodes[q] + 2
        BY <3>8 DEF TreeWaiting
      <4>2. nodes'[s + numThreadsPow2] + 2 * 2 <= nodes'[q] + 2 /\ s \in E!active'
        BY <2>0, <2>2, <3>2, <3>3, <3>9, <4>1
      <4> QED
        BY <3>8, <4>2 DEF TreeWaiting
    <3>12. ASSUME NEW s \in E!waits[t][0] PROVE s \in E!waits'[t][1]
      <4>1. s \in E!active /\ nodes[s + numThreadsPow2] + 0 * 2 <= nodes[q] + 2
        BY <3>8 DEF TreeWaiting
      <4>2. nodes'[s + numThreadsPow2] + 1 * 2 <= nodes'[q] + 2 /\ s \in E!active'
        BY <2>0, <2>2, <3>2, <3>3, <3>9, <4>1, SMTT(30)
      <4> QED
        BY <3>8, <4>2 DEF TreeWaiting
    <3>13. ASSUME NEW u \in E!Tids, NEW i \in 0 .. 2, u # t, NEW s \in E!waits[u][i]
           PROVE  s \in E!waits'[u][i]
      <4>1. s \in E!active /\ nodes[s + numThreadsPow2] + i * 2 <= nodes[u + numThreadsPow2] + 2
        BY <3>8 DEF TreeWaiting
      <4>2. s \in E!active' /\ nodes'[s + numThreadsPow2] + i * 2 <= nodes'[u + numThreadsPow2] + 2
        BY <3>3, <3>9, <3>13, <4>1
      <4> QED
        BY <3>8, <4>2 DEF TreeWaiting
    <3>14. /\ BagsInv(E!Tids, E!active, epochbags', index', limbo', E!waits')
           /\ epochbags[t][m] \subseteq DOMAIN limbo
           /\ \A r \in epochbags[t][m] : limbo[r] = {}
      <4>1. BagsRotated(E!Tids, E!active, epochbags, index, limbo, E!waits, t, m,
                        epochbags', index', limbo', E!waits')
        BY <1>2, <3>1, <3>10, <3>11, <3>12, <3>13 DEF BagsRotated, TreeBags, m
      <4> QED
        BY <4>1, BagsRotate
    <3>15. TreeBags'
      <4>1. limbo' \in [DOMAIN limbo' -> SUBSET E!active']
        BY <2>4, <3>14 DEF BagsInv
      <4>2. BagsInv(E!Tids, E!active', epochbags', index', limbo', E!waits')
        BY <3>14, <4>1 DEF BagsInv
      <4> QED
        BY <1>10, <4>2
    <3>16. GP!Next
      <4>1. GP!Reclaim(epochbags[t][m])
        BY <3>1, <3>14 DEF GP!Reclaim, GP!Without
      <4>2. active' \in {active, active \cup {t}}
        BY <1>5, <1>9, <2>4, <3>5
      <4> QED
        BY <1>9, <3>14, <4>1, <4>2 DEF GP!Next
    <3> QED
      BY <1>8, <3>5, <3>6, <3>7, <3>15, <3>16
  <2> QED
    BY <2>6, <2>7
<1>21. CASE E!endOp(t)
  <2>1. /\ pc[t] = "op" /\ pc' = [pc EXCEPT ![t] = "idle"]
        /\ readEpoch' = [readEpoch EXCEPT ![t] = 0] /\ currIx' = [currIx EXCEPT ![t] = 1]
        /\ parentVal' = [parentVal EXCEPT ![t] = 0]
        /\ limbo' = [x \in DOMAIN limbo |-> limbo[x] \ {t}] /\ UNCHANGED <<nodes, epochbags, index>>
    BY <1>21 DEF E!endOp, E!Goto, E!EBRT_ROOT, E!GP!Outlived
  <2>2. TreeTypes'
    BY <1>3, <2>1, TreeShape DEF TreeTypes
  <2>3. TreeClimbs'
    <3>1. Climbs(nodes', t, pc'[t], readEpoch'[t], currIx'[t], parentVal'[t])
      BY <1>3, <2>1 DEF Climbs
    <3> QED
      BY <1>3, <1>12, <1>14, <2>1, <3>1
  <2>4. E!active' = E!active \ {t} /\ t \in E!active
    BY <1>3, <2>1 DEF E!active, E!Tids
  <2>5. TreeBags'
    <3>1. /\ limbo' \in [DOMAIN limbo -> SUBSET E!active'] /\ DOMAIN limbo' = DOMAIN limbo
          /\ \A x \in DOMAIN limbo : limbo'[x] \subseteq limbo[x]
      BY <1>5, <2>1, <2>4
    <3> QED
      BY <1>2, <2>1, <3>1, TreeBagsKept
  <2>6. GP!Next
    <3>1. GP!End(t)
      BY <1>5, <1>9, <2>1, <2>2, <2>4 DEF GP!End, GP!Outlived
    <3> QED
      BY <1>9, <3>1 DEF GP!Next
  <2> QED
    BY <1>8, <1>11, <2>1, <2>2, <2>3, <2>5, <2>6
<1>22. ASSUME NEW r \in Records, E!retire(t, r) PROVE E!IInv' /\ [GP!Next]_(GP!vars)
  <2>1. /\ pc[t] = "op" /\ r \notin DOMAIN limbo
        /\ epochbags' = [epochbags EXCEPT ![t][index[t]] = @ \cup {r}]
        /\ limbo' = [x \in DOMAIN limbo \cup {r} |-> IF x = r THEN E!active ELSE limbo[x]]
        /\ index' = index /\ UNCHANGED <<nodes, pc, readEpoch, currIx, parentVal>>
    BY <1>22 DEF E!retire, E!GP!Retired
  <2>2. TreeTypes' /\ TreeClimbs'
    BY <1>2, <2>1 DEF TreeTypes, TreeClimbs, Climbs
  <2>3. E!active' = E!active /\ E!waits' = E!waits /\ t \in E!active
    BY <2>1 DEF E!active, E!waits, E!val, E!Tids
  <2>4. E!active \subseteq E!waits[t][0]
    <3> SUFFICES ASSUME NEW s \in E!active PROVE s \in E!waits[t][0]
      OBVIOUS
    <3>1. nodes[s + numThreadsPow2] + 0 * 2 <= nodes[t + numThreadsPow2] + 2
      BY <1>4, <1>5
    <3> QED
      BY <3>1, TreeWaits DEF TreeWaiting
  <2>5. TreeBags'
    <3>1. BagsRetired(E!Tids, E!active, epochbags, index, limbo, E!waits, t, r, epochbags', limbo', E!waits')
      BY <1>2, <2>1, <2>3, <2>4 DEF BagsRetired, TreeBags
    <3>2. BagsInv(E!Tids, E!active, epochbags', index, limbo', E!waits')
      BY <3>1, BagsRetire
    <3> QED
      BY <1>10, <2>1, <2>3, <3>2
  <2>6. GP!Next
    <3>1. GP!Retire(t, r)
      BY <1>5, <1>9, <2>1, <2>2, <2>3 DEF GP!Retire, GP!Retired
    <3> QED
      BY <1>9, <3>1 DEF GP!Next
  <2> QED
    BY <1>8, <1>11, <2>1, <2>2, <2>5, <2>6
<1> QED
  BY <1>1, <1>16, <1>17, <1>18, <1>19, <1>20, <1>21, <1>22 DEF E!Step

-----------------------------------------------------------------------------
(* Hazard pointers *)

Announced == {"callback", "erase", "erased"}

\* The announcements of one thread are a stack: it holds the k lowest of them.
Stack(k, hold, d, n, at, r, unl) ==
  /\ k = IF at \in Announced THEN n - 1 ELSE n
  /\ hold = {d[i] : i \in 0 .. k - 1}
  /\ \A i, j \in 0 .. n - 1 : d[i] = d[j] => i = j
  /\ at \in Announced => n > 0 /\ d[n - 1] = r
  /\ at = "add" => n < MAX_HAZARDPTRS_PER_THREAD /\ d[n] = r /\ r \notin hold
  /\ at \in {"add", "callback", "erase", "erased", "retire"} => r \in HazardRecords
  /\ at = "retire" => r \in unl

HazardStacks ==
  \A t \in H!Tids : Stack(H!held[t], holds[t], data[t], size[t], pc[t], obj[t], unlinked)

\* The invariant of the announcements, thread by thread.
LEMMA HazardParts == H!StackInv <=> HazardStacks
<1>1. \A t \in H!Tids : H!held[t] = IF pc[t] \in Announced THEN size[t] - 1 ELSE size[t]
  BY DEF H!held, Announced
<1> QED
  BY <1>1 DEF H!StackInv, HazardStacks, Stack, Announced

\* The lists are empty.
LEMMA HazardInit == H!Init => H!IInv
<1> SUFFICES ASSUME H!Init PROVE H!IInv
  OBVIOUS
<1> USE ProcessesAssumption DEF H!Init
<1>1. H!TypeOK
  BY DEF H!TypeOK
<1>2. \A t \in H!Tids : H!held[t] = 0
  BY DEF H!held
<1>3. H!StackInv
  <2>1. \A t \in H!Tids : holds[t] = {data[t][i] : i \in 0 .. H!held[t] - 1}
    BY <1>2
  <2> QED
    BY <1>2, <2>1 DEF H!StackInv
<1>4. H!ScanInv
  BY <1>2 DEF H!ScanInv
<1>5. H!NoProtectedFreed
  BY DEF H!NoProtectedFreed
<1> QED
  BY <1>1, <1>3, <1>4, <1>5 DEF H!IInv

\* The stack from one step to the next: a record is announced, ...
LEMMA StackProtect ==
  ASSUME NEW k, NEW hold, NEW n \in Nat, n < MAX_HAZARDPTRS_PER_THREAD,
         NEW d, NEW o, NEW unl, Stack(k, hold, d, n, "idle", o, unl),
         NEW r \in HazardRecords, r \notin hold,
         NEW e, e[n] = r, \A i \in 0 .. n - 1 : e[i] = d[i]
  PROVE  Stack(k, hold, e, n, "add", r, unl)
<1>2. k = n /\ hold = {d[i] : i \in 0 .. k - 1} /\ \A i, j \in 0 .. n - 1 : d[i] = d[j] => i = j
  BY DEF Stack, Announced
<1>3. hold = {e[i] : i \in 0 .. k - 1}
  BY <1>2
<1>4. \A i, j \in 0 .. n - 1 : e[i] = e[j] => i = j
  BY <1>2
<1> QED
  BY <1>2, <1>3, <1>4 DEF Stack, Announced

\* ... the list gets longer, ...
LEMMA StackAdd ==
  ASSUME NEW k, NEW hold, NEW n \in Nat, NEW d, NEW r, NEW unl, Stack(k, hold, d, n, "add", r, unl)
  PROVE  Stack(k, hold, d, n + 1, "callback", r, unl)
<1>1. /\ k = n /\ hold = {d[i] : i \in 0 .. k - 1} /\ \A i, j \in 0 .. n - 1 : d[i] = d[j] => i = j
      /\ d[n] = r /\ r \notin hold /\ r \in HazardRecords
  BY DEF Stack, Announced
<1>2. \A i \in 0 .. n - 1 : d[i] # d[n]
  BY <1>1
<1>3. \A i, j \in 0 .. n : d[i] = d[j] => i = j
  <2> TAKE i, j \in 0 .. n
  <2>1. i = n \/ i \in 0 .. n - 1
    OBVIOUS
  <2>2. j = n \/ j \in 0 .. n - 1
    OBVIOUS
  <2> QED
    BY <1>1, <1>2, <2>1, <2>2
<1> QED
  BY <1>1, <1>3 DEF Stack, Announced

\* ... the record may be used, ...
LEMMA StackHold ==
  ASSUME NEW k, NEW hold, NEW n \in Nat, NEW d, NEW r, NEW o, NEW unl,
         Stack(k, hold, d, n, "callback", r, unl)
  PROVE  Stack(n, hold \cup {r}, d, n, "idle", o, unl)
<1>1. /\ k = n - 1 /\ hold = {d[i] : i \in 0 .. n - 2} /\ \A i, j \in 0 .. n - 1 : d[i] = d[j] => i = j
      /\ d[n - 1] = r /\ n > 0
  BY DEF Stack, Announced
<1>2. hold \cup {r} = {d[i] : i \in 0 .. n - 1}
  <2>1. ASSUME NEW x \in hold \cup {r} PROVE \E i \in 0 .. n - 1 : x = d[i]
    BY <1>1, <2>1
  <2>2. ASSUME NEW i \in 0 .. n - 1 PROVE d[i] \in hold \cup {r}
    <3>1. i = n - 1 \/ i \in 0 .. n - 2
      OBVIOUS
    <3> QED
      BY <1>1, <3>1
  <2> QED
    BY <2>1, <2>2
<1> QED
  BY <1>1, <1>2 DEF Stack, Announced

\* ... or not any more, and the last one is released.
LEMMA StackUnprotect ==
  ASSUME NEW k, NEW hold, NEW n \in Nat, NEW d, NEW r \in hold, r = d[n - 1], r \in HazardRecords,
         NEW o, NEW unl, Stack(k, hold, d, n, "idle", o, unl)
  PROVE  Stack(n - 1, hold \ {r}, d, n, "erase", r, unl) /\ n > 0
<1>1. /\ k = n /\ hold = {d[i] : i \in 0 .. n - 1} /\ \A i, j \in 0 .. n - 1 : d[i] = d[j] => i = j
  BY DEF Stack, Announced
<1>2. n > 0
  BY <1>1
<1>3. hold \ {r} = {d[i] : i \in 0 .. n - 2}
  <2>1. ASSUME NEW x \in hold \ {r} PROVE \E i \in 0 .. n - 2 : x = d[i]
    <3>1. PICK i \in 0 .. n - 1 : x = d[i]
      BY <1>1
    <3>2. i # n - 1
      BY <3>1
    <3>3. i \in 0 .. n - 2
      BY <3>2
    <3> QED
      BY <3>1, <3>3
  <2>2. ASSUME NEW i \in 0 .. n - 2 PROVE d[i] \in hold \ {r}
    <3>1. i \in 0 .. n - 1 /\ n - 1 \in 0 .. n - 1 /\ i # n - 1
      BY <1>2
    <3>2. d[i] # d[n - 1]
      BY <1>1, <3>1
    <3> QED
      BY <1>1, <3>1, <3>2
  <2> QED
    BY <2>1, <2>2
<1> QED
  BY <1>1, <1>2, <1>3 DEF Stack, Announced

\* The one that is erased is the last: nothing moves.
LEMMA StackErase ==
  ASSUME NEW k, NEW hold, NEW n \in Nat, NEW d, NEW r, NEW unl,
         Stack(k, hold, d, n, "erase", r, unl)
  PROVE  H!Min({i \in 0 .. n - 1 : d[i] = r}) = n - 1
<1>1. n > 0 /\ d[n - 1] = r /\ \A i, j \in 0 .. n - 1 : d[i] = d[j] => i = j
  BY DEF Stack, Announced
<1>2. {i \in 0 .. n - 1 : d[i] = r} = {n - 1}
  <2>1. n - 1 \in 0 .. n - 1
    BY <1>1
  <2> QED
    BY <1>1, <2>1
<1>3. H!Min({n - 1}) = n - 1
  BY DEF H!Min
<1> QED
  BY <1>2, <1>3

HazardHolding ==
  \A t \in H!Tids : H!held[t] = IF pc[t] \in Announced THEN size[t] - 1 ELSE size[t]

\* How many announcements are of records in use, thread by thread.
LEMMA HazardHeld == HazardHolding
BY DEF HazardHolding, H!held, Announced

HazardPlaces == {"idle", "add", "callback", "erase", "erased", "retire", "size", "get"}

\* A step of the hazard-pointer reclaimer keeps the invariant.
LEMMA HazardStep ==
  ASSUME H!IInv, H!Next
  PROVE  H!IInv'
<1> DEFINE N == HazardProcesses
           M == MAX_HAZARDPTRS_PER_THREAD
           R == HazardRecords \cup {H!None}
<1>0. N \in Nat /\ M \in Nat /\ M > 0 /\ \A u \in H!Tids : u \in Nat /\ u < N
  BY ProcessesAssumption DEF H!Tids
<1>1. PICK t \in H!Tids :
        \/ \E r \in HazardRecords : H!protect(t, r) \/ H!unprotect(t, r) \/ H!Unlink(t, r)
        \/ H!AddSize(t) \/ H!notRetiredCallback(t) \/ H!EraseMove(t) \/ H!EraseSize(t) \/ H!endOp(t)
        \/ H!retire(t) \/ H!ScanSize(t) \/ H!ScanGet(t) \/ H!FreeRest(t)
  BY DEF H!Next
<1>2. /\ size \in [H!Tids -> 0 .. M] /\ data \in [H!Tids -> [0 .. M - 1 -> R]]
      /\ retired \in [H!Tids -> SUBSET unlinked] /\ comparing \in [H!Tids -> SUBSET R]
      /\ unlinked \subseteq HazardRecords /\ freed \subseteq unlinked
      /\ holds \in [H!Tids -> SUBSET HazardRecords] /\ pc \in [H!Tids -> HazardPlaces]
      /\ obj \in [H!Tids -> R] /\ other \in [H!Tids -> 0 .. N]
      /\ ixHP \in [H!Tids -> Nat] /\ sz \in [H!Tids -> 0 .. M]
  BY DEF H!IInv, H!TypeOK, HazardPlaces
<1>3. HazardStacks /\ H!ScanInv /\ H!NoProtectedFreed
  BY HazardParts DEF H!IInv
<1>4. HazardHolding /\ HazardHolding'
  <2>1. HazardHolding'
    BY HazardHeld, PTL
  <2> QED
    BY <2>1, HazardHeld
<1>5. \A u \in H!Tids :
        /\ Stack(H!held[u], holds[u], data[u], size[u], pc[u], obj[u], unlinked)
        /\ size[u] \in Nat /\ H!held[u] \in Nat /\ H!held[u] <= size[u] /\ size[u] <= M
        /\ \A i \in 0 .. H!held[u] - 1 : data[u][i] \in holds[u]
        /\ \A x \in holds[u] : \E i \in 0 .. H!held[u] - 1 : x = data[u][i]
        /\ pc[u] \in Announced => H!held[u] = size[u] - 1 /\ size[u] > 0
        /\ pc[u] \notin Announced => H!held[u] = size[u]
  <2> TAKE u \in H!Tids
  <2>1. Stack(H!held[u], holds[u], data[u], size[u], pc[u], obj[u], unlinked)
    BY <1>3 DEF HazardStacks
  <2>2. size[u] \in Nat /\ size[u] <= M
    BY <1>0, <1>2
  <2> QED
    BY <2>1, <2>2 DEF Stack
<1>6. (HazardStacks <=> H!StackInv)'
  BY HazardParts, PTL
<1>7. ASSUME /\ size' \in [H!Tids -> 0 .. M] /\ data' \in [H!Tids -> [0 .. M - 1 -> R]]
             /\ retired' \in [H!Tids -> SUBSET unlinked'] /\ comparing' \in [H!Tids -> SUBSET R]
             /\ unlinked' \subseteq HazardRecords /\ freed' \subseteq unlinked'
             /\ holds' \in [H!Tids -> SUBSET HazardRecords] /\ pc' \in [H!Tids -> HazardPlaces]
             /\ obj' \in [H!Tids -> R] /\ other' \in [H!Tids -> 0 .. N]
             /\ ixHP' \in [H!Tids -> Nat] /\ sz' \in [H!Tids -> 0 .. M],
             HazardStacks', H!ScanInv', H!NoProtectedFreed'
      PROVE  H!IInv'
  <2>1. H!TypeOK'
    BY <1>7 DEF H!TypeOK, H!Tids, HazardPlaces
  <2> QED
    BY <1>6, <1>7, <2>1 DEF H!IInv
\* The others keep what they have.
<1>8. ASSUME unlinked \subseteq unlinked',
             \A u \in H!Tids : u # t => /\ size'[u] = size[u] /\ data'[u] = data[u]
                                        /\ holds'[u] = holds[u] /\ pc'[u] = pc[u] /\ obj'[u] = obj[u],
             Stack(H!held'[t], holds'[t], data'[t], size'[t], pc'[t], obj'[t], unlinked')
      PROVE  HazardStacks' /\ \A u \in H!Tids : u # t => H!held'[u] = H!held[u]
  <2>1. \A u \in H!Tids : u # t => H!held'[u] = H!held[u]
    BY <1>4, <1>8 DEF HazardHolding
  <2>2. ASSUME NEW u \in H!Tids
        PROVE  Stack(H!held'[u], holds'[u], data'[u], size'[u], pc'[u], obj'[u], unlinked')
    <3>1. CASE u = t
      BY <1>8, <3>1
    <3>2. CASE u # t
      <4>1. Stack(H!held[u], holds[u], data[u], size[u], pc[u], obj[u], unlinked')
        BY <1>5, <1>8 DEF Stack
      <4> QED
        BY <1>8, <2>1, <3>2, <4>1
    <3> QED
      BY <3>1, <3>2
  <2> QED
    BY <2>1, <2>2 DEF HazardStacks, Stack, H!Tids
\* A thread changes its own list: what it holds stays where it is, and nothing that is unlinked
\* is added to it.
<1>9. ASSUME /\ size' \in [H!Tids -> 0 .. M] /\ data' \in [H!Tids -> [0 .. M - 1 -> R]]
             /\ unlinked' \subseteq HazardRecords /\ holds' \in [H!Tids -> SUBSET HazardRecords]
             /\ pc' \in [H!Tids -> HazardPlaces] /\ obj' \in [H!Tids -> R],
             UNCHANGED <<retired, comparing, other, ixHP, sz, freed>>, unlinked \subseteq unlinked',
             \A u \in H!Tids : u # t => /\ size'[u] = size[u] /\ data'[u] = data[u]
                                        /\ holds'[u] = holds[u] /\ pc'[u] = pc[u] /\ obj'[u] = obj[u],
             pc[t] \notin {"size", "get"}, pc'[t] \notin {"size", "get"},
             Stack(H!held'[t], holds'[t], data'[t], size'[t], pc'[t], obj'[t], unlinked'),
             \A i \in 0 .. H!held'[t] - 1 : data'[t][i] \in unlinked =>
               i \in 0 .. H!held[t] - 1 /\ data'[t][i] = data[t][i],
             \A x \in holds'[t] : x \in holds[t] \/ x \notin unlinked
      PROVE  H!IInv'
  <2>1. HazardStacks' /\ \A u \in H!Tids : u # t => H!held'[u] = H!held[u]
    BY <1>8, <1>9
  <2>2. ASSUME NEW v \in H!Tids, NEW i \in 0 .. H!held'[v] - 1, data'[v][i] \in unlinked
        PROVE  i \in 0 .. H!held[v] - 1 /\ data'[v][i] = data[v][i]
    <3>1. CASE v = t
      BY <1>9, <2>2, <3>1
    <3>2. CASE v # t
      BY <1>9, <2>1, <2>2, <3>2
    <3> QED
      BY <3>1, <3>2
  <2>3. H!ScanInv'
    <3>1. \A u \in H!Tids : /\ pc'[u] \in {"size", "get"} <=> pc[u] \in {"size", "get"}
                            /\ pc'[u] = "get" <=> pc[u] = "get"
      BY <1>9
    <3>2. \A u \in H!Tids : retired[u] \subseteq unlinked
      BY <1>2
    <3> SUFFICES ASSUME NEW u \in H!Tids
                 PROVE  /\ pc'[u] \notin {"size", "get"} => other[u] = 0
                        /\ pc'[u] = "get" => other[u] < N
                        /\ \A v \in H!Tids : \A i \in 0 .. H!held'[v] - 1 : data'[v][i] \in retired[u] =>
                             /\ v < other[u] => data'[v][i] \in comparing[u]
                             /\ pc'[u] = "get" /\ v = other[u] =>
                                  i < sz[u] /\ (i < ixHP[u] => data'[v][i] \in comparing[u])
      BY <1>9 DEF H!ScanInv, H!Tids
    <3>3. /\ pc[u] \notin {"size", "get"} => other[u] = 0
          /\ pc[u] = "get" => other[u] < N
          /\ \A v \in H!Tids : \A i \in 0 .. H!held[v] - 1 : data[v][i] \in retired[u] =>
               /\ v < other[u] => data[v][i] \in comparing[u]
               /\ pc[u] = "get" /\ v = other[u] =>
                    i < sz[u] /\ (i < ixHP[u] => data[v][i] \in comparing[u])
      BY <1>3 DEF H!ScanInv
    <3>4. ASSUME NEW v \in H!Tids, NEW i \in 0 .. H!held'[v] - 1, data'[v][i] \in retired[u]
          PROVE  /\ v < other[u] => data'[v][i] \in comparing[u]
                 /\ pc'[u] = "get" /\ v = other[u] =>
                      i < sz[u] /\ (i < ixHP[u] => data'[v][i] \in comparing[u])
      <4>1. i \in 0 .. H!held[v] - 1 /\ data'[v][i] = data[v][i]
        BY <2>2, <3>2, <3>4
      <4> QED
        BY <3>1, <3>3, <3>4, <4>1
    <3> QED
      BY <3>1, <3>3, <3>4
  <2>4. H!NoProtectedFreed'
    <3>1. \A u \in H!Tids : holds'[u] \cap freed = {}
      <4> TAKE u \in H!Tids
      <4>1. CASE u = t
        BY <1>2, <1>3, <1>9, <4>1 DEF H!NoProtectedFreed
      <4>2. CASE u # t
        BY <1>3, <1>9, <4>2 DEF H!NoProtectedFreed
      <4> QED
        BY <4>1, <4>2
    <3> QED
      BY <1>9, <3>1 DEF H!NoProtectedFreed, H!Tids
  <2>5. retired' \in [H!Tids -> SUBSET unlinked'] /\ freed' \subseteq unlinked'
    BY <1>2, <1>9
  <2> QED
    BY <1>2, <1>7, <1>9, <2>1, <2>3, <2>4, <2>5
<1>10. ASSUME NEW r \in HazardRecords, H!protect(t, r) PROVE H!IInv'
  <2>1. /\ pc[t] = "idle" /\ pc' = [pc EXCEPT ![t] = "add"] /\ r \notin holds[t] /\ size[t] < M
        /\ data' = [data EXCEPT ![t][size[t]] = r] /\ obj' = [obj EXCEPT ![t] = r]
        /\ UNCHANGED <<size, retired, unlinked, freed, holds, comparing, other, ixHP, sz>>
    BY <1>10 DEF H!protect, H!Goto, H!Set, H!scanVars
  <2>2. /\ data'[t] = [data[t] EXCEPT ![size[t]] = r] /\ obj'[t] = r /\ pc'[t] = "add"
        /\ \A u \in H!Tids : u # t => data'[u] = data[u] /\ pc'[u] = pc[u] /\ obj'[u] = obj[u]
        /\ pc' \in [H!Tids -> HazardPlaces] /\ obj' \in [H!Tids -> R]
    BY <1>2, <2>1 DEF HazardPlaces
  <2>3. data' \in [H!Tids -> [0 .. M - 1 -> R]]
    <3>1. data[t] \in [0 .. M - 1 -> R]
      BY <1>2
    <3>2. data'[t] \in [0 .. M - 1 -> R]
      BY <2>2, <3>1, Zenon
    <3> QED
      BY <1>2, <2>1, <2>2, <3>2
  <2>4. H!held'[t] = H!held[t]
    BY <1>4, <2>1, <2>2 DEF HazardHolding, Announced
  <2>5. /\ Stack(H!held[t], holds[t], data'[t], size[t], "add", r, unlinked)
        /\ \A i \in 0 .. H!held[t] - 1 : data'[t][i] = data[t][i]
    <3>1. /\ size[t] \in Nat /\ H!held[t] = size[t] /\ size[t] < MAX_HAZARDPTRS_PER_THREAD
          /\ Stack(H!held[t], holds[t], data[t], size[t], "idle", obj[t], unlinked)
      BY <1>5, <2>1 DEF Announced
    <3>2. data[t] \in [0 .. M - 1 -> R] /\ size[t] \in 0 .. M - 1
      <4>1. data[t] \in [0 .. M - 1 -> R]
        BY <1>2
      <4>2. size[t] \in 0 .. M - 1
        BY <1>0, <3>1
      <4> QED
        BY <4>1, <4>2
    <3>3. data'[t][size[t]] = r /\ \A i \in 0 .. size[t] - 1 : data'[t][i] = data[t][i]
      BY <1>0, <2>2, <3>1, <3>2
    <3>4. Stack(H!held[t], holds[t], data'[t], size[t], "add", r, unlinked)
      <4> HIDE DEF M, R
      <4> QED
        BY <1>10, <2>1, <3>1, <3>3, StackProtect, ZenonT(40)
    <3> QED
      BY <3>1, <3>3, <3>4
  <2> QED
    BY <1>2, <1>9, <2>1, <2>2, <2>3, <2>4, <2>5
<1>11. CASE H!AddSize(t)
  <2>1. /\ pc[t] = "add" /\ pc' = [pc EXCEPT ![t] = "callback"] /\ size' = [size EXCEPT ![t] = @ + 1]
        /\ UNCHANGED <<data, retired, unlinked, freed, holds, obj, comparing, other, ixHP, sz>>
    BY <1>11 DEF H!AddSize, H!Goto, H!scanVars
  <2>2. /\ size'[t] = size[t] + 1 /\ pc'[t] = "callback" /\ pc' \in [H!Tids -> HazardPlaces]
        /\ \A u \in H!Tids : u # t => size'[u] = size[u] /\ pc'[u] = pc[u]
    BY <1>2, <2>1 DEF HazardPlaces
  <2>3. size[t] < M
    BY <1>5, <2>1 DEF Stack
  <2>4. size' \in [H!Tids -> 0 .. M]
    BY <1>0, <1>2, <1>5, <2>1, <2>3
  <2>5. H!held'[t] = H!held[t]
    <3>1. H!held'[t] = (size[t] + 1) - 1 /\ H!held[t] = size[t]
      BY <1>4, <1>5, <2>1, <2>2 DEF HazardHolding, Announced
    <3> QED
      BY <1>5, <3>1
  <2>6. Stack(H!held[t], holds[t], data[t], size[t] + 1, "callback", obj[t], unlinked)
    BY <1>5, <2>1, StackAdd
  <2> QED
    BY <1>2, <1>9, <2>1, <2>2, <2>4, <2>5, <2>6
<1>12. CASE H!notRetiredCallback(t) /\ obj[t] \notin unlinked
  <2>1. /\ pc[t] = "callback" /\ pc' = [pc EXCEPT ![t] = "idle"]
        /\ holds' = [holds EXCEPT ![t] = @ \cup {obj[t]}] /\ obj' = [obj EXCEPT ![t] = H!None]
        /\ UNCHANGED <<size, data, retired, unlinked, freed, comparing, other, ixHP, sz>>
    BY <1>12 DEF H!notRetiredCallback, H!Goto, H!Set, H!scanVars, H!announceVars
  <2>2. /\ obj[t] \in HazardRecords /\ data[t][size[t] - 1] = obj[t]
    BY <1>5, <2>1 DEF Stack, Announced
  <2>3. /\ holds'[t] = holds[t] \cup {obj[t]} /\ obj'[t] = H!None /\ pc'[t] = "idle"
        /\ pc' \in [H!Tids -> HazardPlaces] /\ obj' \in [H!Tids -> R] /\ holds' \in [H!Tids -> SUBSET HazardRecords]
        /\ \A u \in H!Tids : u # t => holds'[u] = holds[u] /\ pc'[u] = pc[u] /\ obj'[u] = obj[u]
    BY <1>2, <2>1, <2>2 DEF HazardPlaces
  <2>4. H!held'[t] = size[t] /\ H!held[t] = size[t] - 1
    BY <1>4, <1>5, <2>1, <2>3 DEF HazardHolding, Announced
  <2>5. Stack(size[t], holds[t] \cup {obj[t]}, data[t], size[t], "idle", H!None, unlinked)
    BY <1>5, <2>1, StackHold
  <2>6. \A i \in 0 .. H!held'[t] - 1 : data[t][i] \in unlinked => i \in 0 .. H!held[t] - 1
    BY <1>5, <1>12, <2>2, <2>4
  <2> QED
    BY <1>2, <1>9, <1>12, <2>1, <2>3, <2>4, <2>5, <2>6
<1>13. CASE H!notRetiredCallback(t) /\ obj[t] \in unlinked
  <2>1. /\ pc[t] = "callback" /\ pc' = [pc EXCEPT ![t] = "erase"]
        /\ UNCHANGED <<size, data, holds, obj, retired, unlinked, freed, comparing, other, ixHP, sz>>
    BY <1>13 DEF H!notRetiredCallback, H!Goto, H!scanVars, H!announceVars
  <2>2. /\ pc'[t] = "erase" /\ pc' \in [H!Tids -> HazardPlaces] /\ \A u \in H!Tids : u # t => pc'[u] = pc[u]
    BY <1>2, <2>1 DEF HazardPlaces
  <2>3. H!held'[t] = H!held[t]
    BY <1>4, <2>1, <2>2 DEF HazardHolding, Announced
  <2>4. Stack(H!held[t], holds[t], data[t], size[t], "erase", obj[t], unlinked)
    BY <1>5, <2>1 DEF Stack, Announced
  <2> QED
    BY <1>2, <1>9, <2>1, <2>2, <2>3, <2>4
<1>14. ASSUME NEW r \in HazardRecords, H!unprotect(t, r) PROVE H!IInv'
  <2>1. /\ pc[t] = "idle" /\ pc' = [pc EXCEPT ![t] = "erase"] /\ r \in holds[t]
        /\ r = data[t][size[t] - 1] /\ holds' = [holds EXCEPT ![t] = @ \ {r}]
        /\ obj' = [obj EXCEPT ![t] = r]
        /\ UNCHANGED <<size, data, retired, unlinked, freed, comparing, other, ixHP, sz>>
    BY <1>14 DEF H!unprotect, H!Goto, H!Set, H!scanVars, H!announceVars
  <2>2. /\ holds'[t] = holds[t] \ {r} /\ obj'[t] = r /\ pc'[t] = "erase"
        /\ pc' \in [H!Tids -> HazardPlaces] /\ obj' \in [H!Tids -> R] /\ holds' \in [H!Tids -> SUBSET HazardRecords]
        /\ \A u \in H!Tids : u # t => holds'[u] = holds[u] /\ pc'[u] = pc[u] /\ obj'[u] = obj[u]
    BY <1>2, <2>1 DEF HazardPlaces
  <2>3. H!held'[t] = size[t] - 1 /\ H!held[t] = size[t]
    BY <1>4, <1>5, <2>1, <2>2 DEF HazardHolding, Announced
  <2>4. Stack(size[t] - 1, holds[t] \ {r}, data[t], size[t], "erase", r, unlinked)
    <3>1. size[t] \in Nat /\ Stack(H!held[t], holds[t], data[t], size[t], "idle", obj[t], unlinked)
      BY <1>5, <2>1
    <3> QED
      BY <1>14, <2>1, <3>1, StackUnprotect
  <2>5. \A i \in 0 .. H!held'[t] - 1 : i \in 0 .. H!held[t] - 1
    BY <1>5, <2>3
  <2> QED
    BY <1>2, <1>9, <2>1, <2>2, <2>3, <2>4, <2>5
<1>15. CASE H!EraseMove(t)
  <2>1. /\ pc[t] = "erase" /\ pc' = [pc EXCEPT ![t] = "erased"]
        /\ data' = [data EXCEPT ![t][H!Min({i \in 0 .. size[t] - 1 : data[t][i] = obj[t]})] = data[t][size[t] - 1]]
        /\ UNCHANGED <<size, retired, unlinked, freed, holds, obj, comparing, other, ixHP, sz>>
    BY <1>15 DEF H!EraseMove, H!getIndex, H!Goto, H!scanVars
  <2>2. data' = data
    <3>1. data[t] \in [0 .. M - 1 -> R]
      BY <1>2
    <3>2. [data[t] EXCEPT ![H!Min({i \in 0 .. size[t] - 1 : data[t][i] = obj[t]})] = data[t][size[t] - 1]]
            = data[t]
      <4>1. size[t] \in Nat /\ Stack(H!held[t], holds[t], data[t], size[t], "erase", obj[t], unlinked)
        BY <1>5, <2>1
      <4>2. H!Min({i \in 0 .. size[t] - 1 : data[t][i] = obj[t]}) = size[t] - 1
        BY <4>1, StackErase
      <4>3. [data[t] EXCEPT ![size[t] - 1] = data[t][size[t] - 1]] = data[t]
        BY <3>1
      <4> QED
        BY <4>2, <4>3
    <3> QED
      BY <1>2, <2>1, <3>2
  <2>3. /\ pc'[t] = "erased" /\ pc' \in [H!Tids -> HazardPlaces] /\ \A u \in H!Tids : u # t => pc'[u] = pc[u]
    BY <1>2, <2>1 DEF HazardPlaces
  <2>4. H!held'[t] = H!held[t]
    BY <1>4, <2>1, <2>3 DEF HazardHolding, Announced
  <2>5. Stack(H!held[t], holds[t], data[t], size[t], "erased", obj[t], unlinked)
    BY <1>5, <2>1 DEF Stack, Announced
  <2> QED
    BY <1>2, <1>9, <2>1, <2>2, <2>3, <2>4, <2>5
<1>16. CASE H!EraseSize(t)
  <2>1. /\ pc[t] = "erased" /\ pc' = [pc EXCEPT ![t] = "idle"] /\ size' = [size EXCEPT ![t] = @ - 1]
        /\ obj' = [obj EXCEPT ![t] = H!None]
        /\ UNCHANGED <<data, retired, unlinked, freed, holds, comparing, other, ixHP, sz>>
    BY <1>16 DEF H!EraseSize, H!Goto, H!Set, H!scanVars
  <2>2. /\ size'[t] = size[t] - 1 /\ obj'[t] = H!None /\ pc'[t] = "idle"
        /\ pc' \in [H!Tids -> HazardPlaces] /\ obj' \in [H!Tids -> R]
        /\ \A u \in H!Tids : u # t => size'[u] = size[u] /\ pc'[u] = pc[u] /\ obj'[u] = obj[u]
    BY <1>2, <2>1 DEF HazardPlaces
  <2>3. size[t] > 0 /\ H!held[t] = size[t] - 1
    BY <1>5, <2>1 DEF Announced
  <2>4. size' \in [H!Tids -> 0 .. M]
    BY <1>0, <1>2, <1>5, <2>1, <2>3
  <2>5. H!held'[t] = H!held[t]
    BY <1>4, <2>2, <2>3 DEF HazardHolding, Announced
  <2>6. Stack(H!held[t], holds[t], data[t], size[t] - 1, "idle", H!None, unlinked)
    <3>1. Stack(H!held[t], holds[t], data[t], size[t], "erased", obj[t], unlinked)
      BY <1>5, <2>1
    <3>2. \A i \in 0 .. (size[t] - 1) - 1 : i \in 0 .. size[t] - 1
      BY <1>5
    <3> QED
      BY <2>3, <3>1, <3>2 DEF Stack, Announced
  <2> QED
    BY <1>2, <1>9, <2>1, <2>2, <2>4, <2>5, <2>6
<1>17. CASE H!endOp(t)
  <2>1. /\ pc[t] = "idle" /\ holds' = [holds EXCEPT ![t] = {}] /\ size' = [size EXCEPT ![t] = 0]
        /\ UNCHANGED <<data, retired, unlinked, freed, pc, obj, comparing, other, ixHP, sz>>
    BY <1>17 DEF H!endOp, H!Set, H!scanVars
  <2>2. /\ size'[t] = 0 /\ holds'[t] = {} /\ holds' \in [H!Tids -> SUBSET HazardRecords]
        /\ \A u \in H!Tids : u # t => size'[u] = size[u] /\ holds'[u] = holds[u]
    BY <1>2, <2>1
  <2>3. size' \in [H!Tids -> 0 .. M]
    BY <1>0, <1>2, <2>1
  <2>4. H!held'[t] = 0
    BY <1>4, <2>1, <2>2 DEF HazardHolding, Announced
  <2>5. Stack(0, {}, data[t], 0, "idle", obj[t], unlinked)
    <3>1. {} = {data[t][i] : i \in 0 .. 0 - 1}
      OBVIOUS
    <3> QED
      BY <3>1 DEF Stack, Announced
  <2> QED
    BY <1>2, <1>9, <2>1, <2>2, <2>3, <2>4, <2>5
<1>18. ASSUME NEW r \in HazardRecords, H!Unlink(t, r) PROVE H!IInv'
  <2>1. /\ pc[t] = "idle" /\ pc' = [pc EXCEPT ![t] = "retire"] /\ unlinked' = unlinked \cup {r}
        /\ obj' = [obj EXCEPT ![t] = r]
        /\ UNCHANGED <<size, data, retired, freed, holds, comparing, other, ixHP, sz>>
    BY <1>18 DEF H!Unlink, H!Goto, H!Set, H!scanVars, H!announceVars
  <2>2. /\ obj'[t] = r /\ pc'[t] = "retire" /\ pc' \in [H!Tids -> HazardPlaces] /\ obj' \in [H!Tids -> R]
        /\ \A u \in H!Tids : u # t => pc'[u] = pc[u] /\ obj'[u] = obj[u]
        /\ unlinked \subseteq unlinked' /\ unlinked' \subseteq HazardRecords
    BY <1>2, <1>18, <2>1 DEF HazardPlaces
  <2>3. H!held'[t] = H!held[t]
    BY <1>4, <2>1, <2>2 DEF HazardHolding, Announced
  <2>4. Stack(H!held[t], holds[t], data[t], size[t], "retire", r, unlinked')
    BY <1>5, <1>18, <2>1 DEF Stack, Announced
  <2> QED
    BY <1>2, <1>9, <2>1, <2>2, <2>3, <2>4
\* The scan does not touch the lists.
<1>19. ASSUME size' = size, data' = data, holds' = holds, pc' \in [H!Tids -> HazardPlaces],
              \A u \in H!Tids : u # t => pc'[u] = pc[u] /\ obj'[u] = obj[u], unlinked' = unlinked,
              pc[t] \notin Announced, pc'[t] \notin Announced, pc'[t] \notin {"add", "retire"}
       PROVE  HazardStacks' /\ \A u \in H!Tids : H!held'[u] = H!held[u]
  <2>1. H!held'[t] = H!held[t]
    BY <1>4, <1>19 DEF HazardHolding
  <2>2. Stack(H!held[t], holds[t], data[t], size[t], pc'[t], obj'[t], unlinked)
    BY <1>5, <1>19 DEF Stack, Announced
  <2> QED
    BY <1>8, <1>19, <2>1, <2>2
<1>20. \A u, v \in H!Tids : \A i \in 0 .. H!held[v] - 1 : data[v][i] \in retired[u] =>
         /\ v < other[u] => data[v][i] \in comparing[u]
         /\ pc[u] = "get" /\ v = other[u] => i < sz[u] /\ (i < ixHP[u] => data[v][i] \in comparing[u])
  BY <1>3 DEF H!ScanInv
<1>21. \A u \in H!Tids : /\ pc[u] \notin {"size", "get"} => other[u] = 0
                         /\ pc[u] = "get" => other[u] < N
  BY <1>3 DEF H!ScanInv
\* What the scan of t has to have seen; the other scans go on as they were.
<1>22. ASSUME data' = data, \A u \in H!Tids : H!held'[u] = H!held[u],
              \A u \in H!Tids : u # t => /\ pc'[u] = pc[u] /\ other'[u] = other[u] /\ sz'[u] = sz[u]
                                         /\ ixHP'[u] = ixHP[u] /\ comparing'[u] = comparing[u]
                                         /\ retired'[u] = retired[u],
              pc'[t] \notin {"size", "get"} => other'[t] = 0, pc'[t] = "get" => other'[t] < N,
              \A v \in H!Tids : \A i \in 0 .. H!held[v] - 1 : data[v][i] \in retired'[t] =>
                /\ v < other'[t] => data[v][i] \in comparing'[t]
                /\ pc'[t] = "get" /\ v = other'[t] =>
                     i < sz'[t] /\ (i < ixHP'[t] => data[v][i] \in comparing'[t])
       PROVE  H!ScanInv'
  <2> SUFFICES ASSUME NEW u \in H!Tids
               PROVE  /\ pc'[u] \notin {"size", "get"} => other'[u] = 0
                      /\ pc'[u] = "get" => other'[u] < N
                      /\ \A v \in H!Tids : \A i \in 0 .. H!held[v] - 1 : data[v][i] \in retired'[u] =>
                           /\ v < other'[u] => data[v][i] \in comparing'[u]
                           /\ pc'[u] = "get" /\ v = other'[u] =>
                                i < sz'[u] /\ (i < ixHP'[u] => data[v][i] \in comparing'[u])
    BY <1>22 DEF H!ScanInv, H!Tids
  <2>1. CASE u = t
    BY <1>22, <2>1
  <2>2. CASE u # t
    BY <1>20, <1>21, <1>22, <2>2
  <2> QED
    BY <2>1, <2>2
<1>23. CASE H!retire(t)
  <2>1. /\ pc[t] = "retire" /\ pc' \in {[pc EXCEPT ![t] = "size"], [pc EXCEPT ![t] = "idle"]}
        /\ retired' = [retired EXCEPT ![t] = @ \cup {obj[t]}] /\ obj' = [obj EXCEPT ![t] = H!None]
        /\ UNCHANGED <<size, data, unlinked, freed, holds, comparing, other, ixHP, sz>>
    BY <1>23 DEF H!retire, H!Goto, H!Set, H!scanVars, H!announceVars
  <2>2. /\ pc'[t] \in {"size", "idle"} /\ pc' \in [H!Tids -> HazardPlaces] /\ obj' \in [H!Tids -> R]
        /\ \A u \in H!Tids : u # t => pc'[u] = pc[u] /\ obj'[u] = obj[u] /\ retired'[u] = retired[u]
    BY <1>2, <2>1 DEF HazardPlaces
  <2>3. retired' \in [H!Tids -> SUBSET unlinked]
    <3>1. obj[t] \in unlinked
      BY <1>5, <2>1 DEF Stack
    <3> QED
      BY <1>2, <2>1, <3>1
  <2>4. HazardStacks' /\ \A u \in H!Tids : H!held'[u] = H!held[u]
    BY <1>19, <2>1, <2>2 DEF Announced
  <2>5. H!ScanInv'
    <3>1. other[t] = 0
      BY <1>21, <2>1
    <3> QED
      BY <1>0, <1>22, <2>1, <2>2, <2>4, <3>1
  <2>6. H!NoProtectedFreed'
    BY <1>3, <2>1 DEF H!NoProtectedFreed, H!Tids
  <2> QED
    BY <1>2, <1>7, <2>1, <2>2, <2>3, <2>4, <2>5, <2>6
<1>24. CASE H!ScanSize(t)
  <2>1. /\ pc[t] = "size" /\ other[t] < N /\ pc' = [pc EXCEPT ![t] = "get"]
        /\ sz' = [sz EXCEPT ![t] = size[other[t]]] /\ ixHP' = [ixHP EXCEPT ![t] = 0]
        /\ UNCHANGED <<size, data, retired, comparing, unlinked, freed, holds, obj, other>>
    BY <1>24 DEF H!ScanSize, H!Goto, H!Set, H!announceVars
  <2>2. other[t] \in H!Tids
    BY <1>0, <1>2, <2>1 DEF H!Tids
  <2>3. /\ pc'[t] = "get" /\ pc' \in [H!Tids -> HazardPlaces] /\ sz'[t] = size[other[t]] /\ ixHP'[t] = 0
        /\ \A u \in H!Tids : u # t => pc'[u] = pc[u] /\ sz'[u] = sz[u] /\ ixHP'[u] = ixHP[u]
        /\ sz' \in [H!Tids -> 0 .. M] /\ ixHP' \in [H!Tids -> Nat]
    BY <1>2, <2>1, <2>2 DEF HazardPlaces
  <2>4. HazardStacks' /\ \A u \in H!Tids : H!held'[u] = H!held[u]
    BY <1>19, <2>1, <2>3 DEF Announced
  <2>5. H!ScanInv'
    <3>1. ASSUME NEW v \in H!Tids, NEW i \in 0 .. H!held[v] - 1, data[v][i] \in retired[t]
          PROVE  /\ v < other[t] => data[v][i] \in comparing[t]
                 /\ v = other[t] => i < size[other[t]] /\ ~(i < 0)
      <4>1. v < other[t] => data[v][i] \in comparing[t]
        BY <1>20, <3>1
      <4>2. i < size[v] /\ ~(i < 0)
        BY <1>5
      <4> QED
        BY <4>1, <4>2
    <3> QED
      BY <1>22, <2>1, <2>3, <2>4, <3>1
  <2>6. H!NoProtectedFreed'
    BY <1>3, <2>1 DEF H!NoProtectedFreed, H!Tids
  <2> QED
    BY <1>2, <1>7, <2>1, <2>3, <2>4, <2>5, <2>6
<1>25. CASE H!ScanGet(t) /\ ixHP[t] < sz[t]
  <2>1. /\ pc[t] = "get" /\ comparing' = [comparing EXCEPT ![t] = @ \cup {data[other[t]][ixHP[t]]}]
        /\ ixHP' = [ixHP EXCEPT ![t] = @ + 1]
        /\ UNCHANGED <<size, data, retired, unlinked, freed, holds, obj, pc, other, sz>>
    BY <1>25 DEF H!ScanGet, H!announceVars
  <2>2. other[t] \in H!Tids /\ ixHP[t] \in 0 .. M - 1
    BY <1>0, <1>2, <1>21, <1>25, <2>1, SMTT(30) DEF H!Tids
  <2>3. data[other[t]][ixHP[t]] \in R
    <3>1. data[other[t]] \in [0 .. M - 1 -> R]
      BY <1>2, <2>2
    <3> QED
      BY <2>2, <3>1
  <2>4. /\ comparing'[t] = comparing[t] \cup {data[other[t]][ixHP[t]]} /\ ixHP'[t] = ixHP[t] + 1
        /\ \A u \in H!Tids : u # t => comparing'[u] = comparing[u] /\ ixHP'[u] = ixHP[u]
        /\ comparing' \in [H!Tids -> SUBSET R] /\ ixHP' \in [H!Tids -> Nat]
    BY <1>2, <2>1, <2>2, <2>3
  <2>5. HazardStacks' /\ \A u \in H!Tids : H!held'[u] = H!held[u]
    BY <1>2, <1>19, <2>1 DEF Announced
  <2>6. H!ScanInv'
    <3>1. ASSUME NEW v \in H!Tids, NEW i \in 0 .. H!held[v] - 1, data[v][i] \in retired[t]
          PROVE  /\ v < other[t] => data[v][i] \in comparing'[t]
                 /\ v = other[t] => i < sz[t] /\ (i < ixHP'[t] => data[v][i] \in comparing'[t])
      <4>1. /\ v < other[t] => data[v][i] \in comparing[t]
            /\ v = other[t] => i < sz[t] /\ (i < ixHP[t] => data[v][i] \in comparing[t])
        BY <1>20, <2>1, <3>1
      <4>2. i < ixHP'[t] => i < ixHP[t] \/ i = ixHP[t]
        BY <2>2, <2>4
      <4> QED
        BY <2>4, <4>1, <4>2
    <3> QED
      BY <1>21, <1>22, <2>1, <2>4, <2>5, <3>1
  <2>7. H!NoProtectedFreed'
    BY <1>3, <2>1 DEF H!NoProtectedFreed, H!Tids
  <2> QED
    BY <1>2, <1>7, <2>1, <2>4, <2>5, <2>6, <2>7
<1>26. CASE H!ScanGet(t) /\ ~(ixHP[t] < sz[t])
  <2>1. /\ pc[t] = "get" /\ pc' = [pc EXCEPT ![t] = "size"] /\ other' = [other EXCEPT ![t] = @ + 1]
        /\ ixHP' = [ixHP EXCEPT ![t] = 0] /\ sz' = [sz EXCEPT ![t] = 0]
        /\ UNCHANGED <<size, data, retired, unlinked, freed, holds, obj, comparing>>
    BY <1>26 DEF H!ScanGet, H!Goto, H!Set, H!announceVars
  <2>2. other[t] \in Nat /\ other[t] < N /\ ixHP[t] \in Nat /\ sz[t] \in Nat
    BY <1>0, <1>2, <1>21, <2>1
  <2>3. /\ pc'[t] = "size" /\ pc' \in [H!Tids -> HazardPlaces] /\ sz'[t] = 0 /\ ixHP'[t] = 0
        /\ other'[t] = other[t] + 1
        /\ \A u \in H!Tids : u # t => /\ pc'[u] = pc[u] /\ sz'[u] = sz[u] /\ ixHP'[u] = ixHP[u]
                                     /\ other'[u] = other[u]
    BY <1>2, <2>1 DEF HazardPlaces
  <2>4. sz' \in [H!Tids -> 0 .. M] /\ ixHP' \in [H!Tids -> Nat] /\ other' \in [H!Tids -> 0 .. N]
    BY <1>0, <1>2, <2>1, <2>2, SMTT(30)
  <2>5. HazardStacks' /\ \A u \in H!Tids : H!held'[u] = H!held[u]
    BY <1>19, <2>1, <2>3 DEF Announced
  <2>6. H!ScanInv'
    <3>1. ASSUME NEW v \in H!Tids, NEW i \in 0 .. H!held[v] - 1, data[v][i] \in retired[t], v < other[t] + 1
          PROVE  data[v][i] \in comparing[t]
      <4>1. /\ v < other[t] => data[v][i] \in comparing[t]
            /\ v = other[t] => i < sz[t] /\ (i < ixHP[t] => data[v][i] \in comparing[t])
        BY <1>20, <2>1, <3>1
      <4>2. v < other[t] \/ v = other[t]
        BY <1>0, <2>2, <3>1
      <4>3. i < sz[t] => i < ixHP[t]
        BY <1>26, <2>2
      <4> QED
        BY <4>1, <4>2, <4>3
    <3> QED
      BY <1>22, <2>1, <2>3, <2>5, <3>1
  <2>7. H!NoProtectedFreed'
    BY <1>3, <2>1 DEF H!NoProtectedFreed, H!Tids
  <2> QED
    BY <1>2, <1>7, <2>1, <2>3, <2>4, <2>5, <2>6, <2>7
<1>27. CASE H!FreeRest(t)
  <2>1. /\ pc[t] = "size" /\ other[t] = N /\ pc' = [pc EXCEPT ![t] = "idle"]
        /\ freed' = freed \cup (retired[t] \ comparing[t])
        /\ retired' = [retired EXCEPT ![t] = @ \cap comparing[t]]
        /\ comparing' = [comparing EXCEPT ![t] = {}] /\ other' = [other EXCEPT ![t] = 0]
        /\ UNCHANGED <<size, data, unlinked, holds, obj, ixHP, sz>>
    BY <1>27 DEF H!FreeRest, H!Goto, H!Set, H!announceVars
  <2>2. /\ pc'[t] = "idle" /\ pc' \in [H!Tids -> HazardPlaces] /\ other'[t] = 0
        /\ \A u \in H!Tids : u # t => /\ pc'[u] = pc[u] /\ retired'[u] = retired[u]
                                     /\ comparing'[u] = comparing[u] /\ other'[u] = other[u]
        /\ comparing' \in [H!Tids -> SUBSET R]
    BY <1>2, <2>1 DEF HazardPlaces
  <2>3. /\ retired' \in [H!Tids -> SUBSET unlinked] /\ freed' \subseteq unlinked
        /\ other' \in [H!Tids -> 0 .. N]
    BY <1>0, <1>2, <2>1
  <2>4. HazardStacks' /\ \A u \in H!Tids : H!held'[u] = H!held[u]
    BY <1>19, <2>1, <2>2 DEF Announced
  <2>5. H!ScanInv'
    BY <1>0, <1>22, <2>1, <2>2, <2>4
  <2>6. H!NoProtectedFreed'
    <3>1. ASSUME NEW u \in H!Tids, NEW x \in holds[u], x \in retired[t] PROVE x \in comparing[t]
      <4>1. PICK i \in 0 .. H!held[u] - 1 : x = data[u][i]
        BY <1>5
      <4> QED
        BY <1>0, <1>20, <2>1, <3>1, <4>1
    <3>2. \A u \in H!Tids : holds[u] \cap freed' = {}
      BY <1>3, <2>1, <3>1 DEF H!NoProtectedFreed
    <3> QED
      BY <2>1, <3>2 DEF H!NoProtectedFreed, H!Tids
  <2> QED
    BY <1>2, <1>7, <2>1, <2>2, <2>3, <2>4, <2>5, <2>6
<1> QED
  BY <1>1, <1>10, <1>11, <1>12, <1>13, <1>14, <1>15, <1>16, <1>17, <1>18, <1>23, <1>24, <1>25,
     <1>26, <1>27

-----------------------------------------------------------------------------
(* All of them *)

\* What a step that changes nothing keeps.
LEMMA Stutters ==
  ASSUME UNCHANGED vars
  PROVE  /\ D!IInv => D!IInv'
         /\ K!IInv => K!IInv'
         /\ E!IInv => E!IInv'
         /\ H!IInv => H!IInv'
<1> USE DEF vars, bagVars, debraOnly, tokenOnly, treeOnly, hazardOnly
<1>1. D!IInv => D!IInv'
  <2>1. D!active' = D!active
    BY DEF D!active
  <2>2. D!TypeOK => D!TypeOK'
    BY <2>1 DEF D!TypeOK
  <2>3. D!AnnounceInv => D!AnnounceInv'
    BY DEF D!AnnounceInv
  <2>4. D!ScanInv => D!ScanInv'
    BY DEF D!ScanInv
  <2>5. D!stoppers' = D!stoppers
    BY <2>1 DEF D!stoppers, D!Stops
  <2>6. D!waits' = D!waits
    BY <2>1, <2>5 DEF D!waits
  <2>7. D!BagInv => D!BagInv'
    BY <2>6 DEF D!BagInv
  <2> QED
    BY <2>2, <2>3, <2>4, <2>7 DEF D!IInv
<1>2. K!IInv => K!IInv'
  <2>1. K!active' = K!active /\ K!holders' = K!holders
    BY DEF K!active, K!holders
  <2>2. K!ahead' = K!ahead
    BY <2>1 DEF K!ahead
  <2>3. K!waitsCurr' = K!waitsCurr /\ K!waitsLast' = K!waitsLast
    BY <2>1, <2>2 DEF K!waitsCurr, K!waitsLast
  <2> QED
    BY <2>1, <2>3 DEF K!IInv, K!TypeOK, K!TokenInv, K!BagInv
<1>3. E!IInv => E!IInv'
  <2>1. E!active' = E!active
    BY DEF E!active
  <2>2. E!waits' = E!waits
    BY <2>1 DEF E!waits, E!val
  <2>3. E!TypeOK => E!TypeOK'
    BY <2>1 DEF E!TypeOK
  <2>4. E!TreeInv => E!TreeInv'
    BY DEF E!TreeInv, E!val
  <2>5. E!ClimbInv => E!ClimbInv'
    BY DEF E!ClimbInv, E!val, E!Reached
  <2>6. E!BagInv => E!BagInv'
    BY <2>2 DEF E!BagInv
  <2> QED
    BY <2>3, <2>4, <2>5, <2>6 DEF E!IInv
<1>4. H!IInv => H!IInv'
  <2>1. H!held' = H!held
    BY DEF H!held
  <2> QED
    BY <2>1 DEF H!IInv, H!TypeOK, H!StackInv, H!ScanInv, H!NoProtectedFreed
<1> QED
  BY <1>1, <1>2, <1>3, <1>4

ReclaimersInv ==
  /\ kind = "debra" => D!IInv
  /\ kind = "token" => K!IInv
  /\ kind = "tree" => E!IInv
  /\ kind = "hazard" => H!IInv

\* Nobody is in an operation, and nothing is retired.
LEMMA InitReclaimers == Init => ReclaimersInv /\ GP!Init
<1> SUFFICES ASSUME Init PROVE ReclaimersInv /\ GP!Init
  OBVIOUS
<1>1. CASE kind = "debra" /\ D!Init
  <2>1. active = {} /\ limbo = GP!NoRecords
    BY <1>1 DEF D!Init, active, GP!NoRecords, D!GP!NoRecords
  <2> QED
    BY <1>1, <2>1, DebraInit DEF ReclaimersInv, GP!Init
<1>2. CASE kind = "token" /\ K!Init
  <2>1. active = {} /\ limbo = GP!NoRecords
    BY <1>2 DEF K!Init, active, GP!NoRecords, K!GP!NoRecords
  <2> QED
    BY <1>2, <2>1, TokenInit DEF ReclaimersInv, GP!Init
<1>3. CASE kind = "tree" /\ E!Init
  <2>1. active = {} /\ limbo = GP!NoRecords
    BY <1>3 DEF E!Init, active, GP!NoRecords, E!GP!NoRecords
  <2> QED
    BY <1>3, <2>1, TreeInit DEF ReclaimersInv, GP!Init
<1>4. CASE kind = "hazard" /\ H!Init /\ limbo = GP!NoRecords
  <2>1. active = {}
    BY <1>4 DEF H!Init, active
  <2> QED
    BY <1>4, <2>1, HazardInit DEF ReclaimersInv, GP!Init
<1> QED
  BY <1>1, <1>2, <1>3, <1>4 DEF Init

\* Every step keeps the invariant and is a step of the grace period, or none.
LEMMA NextReclaimers ==
  ReclaimersInv /\ [Next]_vars => ReclaimersInv' /\ [GP!Next]_(GP!vars)
<1> SUFFICES ASSUME ReclaimersInv, [Next]_vars
             PROVE  ReclaimersInv' /\ [GP!Next]_(GP!vars)
  OBVIOUS
<1>1. CASE UNCHANGED vars
  <2>1. kind' = kind /\ active' = active /\ limbo' = limbo
    BY <1>1 DEF vars, active
  <2>2. [GP!Next]_(GP!vars)
    BY <2>1 DEF GP!vars
  <2> QED
    BY <1>1, <2>1, <2>2, Stutters DEF ReclaimersInv
<1>2. CASE UNCHANGED kind /\ kind = "debra" /\ D!Next
  <2>1. PICK t \in D!Tids : D!ReadEpoch(t) \/ D!Step(t) \/ \E r \in Records : D!retire(t, r)
    BY <1>2 DEF D!Next
  <2>2. D!IInv' /\ [GP!Next]_(GP!vars)
    BY <1>2, <2>1, DebraStep DEF ReclaimersInv
  <2> QED
    BY <1>2, <2>2 DEF ReclaimersInv
<1>3. CASE UNCHANGED kind /\ kind = "token" /\ K!Next
  <2>1. PICK t \in K!Tids : K!Step(t) \/ \E r \in Records : K!retire(t, r)
    BY <1>3 DEF K!Next
  <2>2. K!IInv' /\ [GP!Next]_(GP!vars)
    BY <1>3, <2>1, TokenStep DEF ReclaimersInv
  <2> QED
    BY <1>3, <2>2 DEF ReclaimersInv
<1>4. CASE UNCHANGED kind /\ kind = "tree" /\ E!Next
  <2>1. PICK t \in E!Tids : E!Step(t) \/ \E r \in Records : E!retire(t, r)
    BY <1>4 DEF E!Next
  <2>2. E!IInv' /\ [GP!Next]_(GP!vars)
    BY <1>4, <2>1, TreeStep DEF ReclaimersInv
  <2> QED
    BY <1>4, <2>2 DEF ReclaimersInv
<1>5. CASE UNCHANGED kind /\ kind = "hazard" /\ H!Next /\ UNCHANGED limbo
  <2>1. H!IInv /\ H!IInv'
    BY <1>5, HazardStep DEF ReclaimersInv
  <2>2. pc \in [H!Tids -> HazardPlaces] /\ pc' \in [H!Tids -> HazardPlaces]
    BY <2>1 DEF H!IInv, H!TypeOK, H!Tids, HazardPlaces
  <2>3. active = {} /\ active' = {}
    BY <2>2 DEF active, HazardPlaces
  <2>4. [GP!Next]_(GP!vars)
    BY <1>5, <2>3 DEF GP!vars
  <2> QED
    BY <1>5, <2>1, <2>4 DEF ReclaimersInv
<1> QED
  BY <1>1, <1>2, <1>3, <1>4, <1>5 DEF Next

\* The invariant holds in every state.
THEOREM ReclaimersInvariant == Spec => []ReclaimersInv
<1>1. Init => ReclaimersInv
  BY InitReclaimers
<1>2. ReclaimersInv /\ [Next]_vars => ReclaimersInv'
  BY NextReclaimers
<1> QED
  BY <1>1, <1>2, PTL DEF Spec

\* Every epoch-based reclaimer keeps the grace period: a record is given to the pool only after
\* every operation that was running when it was retired has ended.
THEOREM ReclaimersKeepGracePeriod == Spec => GracePeriodKept
<1>1. Init => ReclaimersInv /\ GP!Init
  BY InitReclaimers
<1>2. ReclaimersInv /\ [Next]_vars => ReclaimersInv' /\ [GP!Next]_(GP!vars)
  BY NextReclaimers
<1> QED
  BY <1>1, <1>2, PTL DEF Spec, GracePeriodKept, GP!Spec

\* DEBRA's scan stays within the announcements of the threads there are.
THEOREM DebraScansInRange == Spec => []ScanInRange
<1>1. ReclaimersInv => ScanInRange
  <2> SUFFICES ASSUME D!IInv, NEW t \in D!Tids, pc[t] \in {"announce", "check"}
               PROVE  checked[t] < DebraProcesses
    BY DEF ReclaimersInv, ScanInRange, D!ScanInRange
  <2>1. checked \in [D!Tids -> 0 .. DebraProcesses] /\ DebraProcesses \in Nat
    BY ProcessesAssumption DEF D!IInv, D!TypeOK
  <2>2. checked[t] # DebraProcesses
    BY DEF D!IInv, D!ScanInv
  <2> QED
    BY <2>1, <2>2
<1> QED
  BY <1>1, ReclaimersInvariant, PTL

\* With hazard pointers no record is given to the pool that a thread may use, as long as
\* records are released last first.
THEOREM HazardPointersProtect == Spec => []NoProtectedFreed
<1>1. ReclaimersInv => NoProtectedFreed
  BY DEF ReclaimersInv, NoProtectedFreed, H!IInv
<1> QED
  BY <1>1, ReclaimersInvariant, PTL
=============================================================================
