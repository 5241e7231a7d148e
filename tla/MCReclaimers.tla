---------------------------- MODULE MCReclaimers ----------------------------
(***************************************************************************)
(* The reclaimers side by side: `kind` says which of them this behaviour   *)
(* uses; the variables only the others have are 0.  With the epoch-based   *)
(* ones there is one record, which may be retired again once it has been   *)
(* freed: the records in the bags do not influence each other.             *)
(***************************************************************************)
EXTENDS Integers

CONSTANTS NUM_PROCESSES, numThreadsPow2, MIN_OPS_BEFORE_READ, MIN_TIME_BEFORE_TRY_ADVANCE,
          Records, MaxEpoch,
          DebraProcesses, DebraMaxEpoch,   \* DEBRA has more states
          HazardProcesses, HazardRecords, MAX_HAZARDPTRS_PER_THREAD, scanThreshold

\* NUM_PROCESSES is rounded up to numThreadsPow2.
ASSUME ProcessesAssumption ==
  /\ NUM_PROCESSES \in Nat \ {0} /\ DebraProcesses \in 1 .. NUM_PROCESSES
  /\ numThreadsPow2 \in Nat /\ NUM_PROCESSES <= numThreadsPow2
  /\ HazardProcesses \in Nat \ {0} /\ MAX_HAZARDPTRS_PER_THREAD \in Nat \ {0}

VARIABLES kind, pc, limbo,
          epochbags, index, readEpoch,
          epoch, announcedEpoch, localvar_announcedEpoch, checked, opsSinceRead,
          token, curr, last,
          nodes, timeSinceTryAdvance, currIx, parentVal,
          size, data, retired, comparing, unlinked, freed, holds, obj, other, ixHP, sz

D == INSTANCE Debra WITH NUM_PROCESSES <- DebraProcesses, MaxEpoch <- DebraMaxEpoch
K == INSTANCE EbrToken
E == INSTANCE EbrTree
H == INSTANCE HazardPtr WITH NUM_PROCESSES <- HazardProcesses, Records <- HazardRecords,
                             AnyOrder <- FALSE

active == {t \in DOMAIN pc : pc[t] = "op"}
GP == INSTANCE GracePeriod WITH Threads <- 0 .. NUM_PROCESSES - 1

debraOnly == <<epoch, announcedEpoch, localvar_announcedEpoch, checked, opsSinceRead>>
tokenOnly == <<token, curr, last>>
treeOnly == <<nodes, timeSinceTryAdvance, currIx, parentVal>>
hazardOnly == <<size, data, retired, comparing, unlinked, freed, holds, obj, other, ixHP, sz>>
bagVars == <<epochbags, index, readEpoch>>
vars == <<kind, pc, limbo, bagVars, debraOnly, tokenOnly, treeOnly, hazardOnly>>

NoDebra == /\ epoch = 0 /\ announcedEpoch = 0 /\ localvar_announcedEpoch = 0
           /\ checked = 0 /\ opsSinceRead = 0
NoToken == token = 0 /\ curr = 0 /\ last = 0
NoTree == nodes = 0 /\ timeSinceTryAdvance = 0 /\ currIx = 0 /\ parentVal = 0
NoBags == epochbags = 0 /\ index = 0 /\ readEpoch = 0
NoHazard == /\ size = 0 /\ data = 0 /\ retired = 0 /\ comparing = 0 /\ unlinked = 0 /\ freed = 0
            /\ holds = 0 /\ obj = 0 /\ other = 0 /\ ixHP = 0 /\ sz = 0

Init ==
  \/ kind = "debra" /\ D!Init /\ NoToken /\ NoTree /\ NoHazard
  \/ kind = "token" /\ K!Init /\ NoDebra /\ NoTree /\ NoBags /\ NoHazard
  \/ kind = "tree" /\ E!Init /\ NoDebra /\ NoToken /\ NoHazard
  \/ kind = "hazard" /\ H!Init /\ NoDebra /\ NoToken /\ NoTree /\ NoBags /\ limbo = GP!NoRecords

Next ==
  /\ UNCHANGED kind
  /\ \/ kind = "debra" /\ D!Next /\ UNCHANGED <<tokenOnly, treeOnly, hazardOnly>>
     \/ kind = "token" /\ K!Next /\ UNCHANGED <<bagVars, debraOnly, treeOnly, hazardOnly>>
     \/ kind = "tree" /\ E!Next /\ UNCHANGED <<debraOnly, tokenOnly, hazardOnly>>
     \/ /\ kind = "hazard" /\ H!Next
        /\ UNCHANGED <<limbo, bagVars, debraOnly, tokenOnly, treeOnly>>

(***************************************************************************)
(* Operations end.  With DEBRA one thread goes on starting operations, the *)
(* others may stop between two; with the others all have to go on.         *)
(***************************************************************************)
Fairness ==
  \A t \in 0 .. NUM_PROCESSES - 1 :
    WF_vars(/\ UNCHANGED kind
            /\ \/ kind = "debra" /\ t \in D!Tids /\ (D!Step(t) \/ (t = 0 /\ D!ReadEpoch(t)))
                  /\ UNCHANGED <<tokenOnly, treeOnly, hazardOnly>>
               \/ kind = "token" /\ K!Step(t)
                  /\ UNCHANGED <<bagVars, debraOnly, treeOnly, hazardOnly>>
               \/ kind = "tree" /\ E!Step(t) /\ UNCHANGED <<debraOnly, tokenOnly, hazardOnly>>)

Spec == Init /\ [][Next]_vars /\ Fairness

-----------------------------------------------------------------------------
\* A record goes back to the pool only after every operation that was running when it was
\* retired has ended, however the announcements, the scans and the rotations interleave.
GracePeriodKept == GP!Spec

\* DEBRA's scan stays within the announcements of the threads there are.
ScanInRange == kind = "debra" => D!ScanInRange

\* With hazard pointers a record is not given to the pool while a thread may use it, if
\* threads release the record they have protected last, or all of them.
NoProtectedFreed == kind = "hazard" => H!NoProtectedFreed

\* The epoch advances, and the token comes round: a thread that has ended its operation is
\* not waited for by DEBRA, and the threads that carry an announcement to the root of the
\* tree do not all leave it to one another.
ReclamationGoesOn ==
  /\ <>(kind = "debra" => epoch = DebraMaxEpoch)
  /\ <>(kind = "tree" => nodes[1] = MaxEpoch)
  /\ []<>(kind = "token" => limbo = GP!NoRecords)
=============================================================================
