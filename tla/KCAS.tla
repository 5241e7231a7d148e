-------------------------------- MODULE KCAS --------------------------------
(***************************************************************************)
(* The lock-free k-word compare-and-swap of common/kcas/kcas_reuse_impl.h, *)
(* with descriptors that are used again.  A word holds a value, or a       *)
(* tagged pointer to a descriptor: of a k-word operation that has locked   *)
(* the word, or of an RDCSS about to lock it for one.  Who meets a         *)
(* descriptor helps; a sequence number in the tag tells whether the        *)
(* descriptor still belongs to that operation.                             *)
(*                                                                         *)
(* One action is one access to shared memory, with these merged: a         *)
(* descriptor is prepared with its publication, since nobody has the tag   *)
(* before; a snapshot of a descriptor is taken with the read that follows, *)
(* since the final compare-and-swap fails if the tag is gone.  All the     *)
(* descriptors a thread has ever used are kept: the last is the valid one. *)
(***************************************************************************)
EXTENDS Integers, Sequences, SequencesExt

CONSTANTS Threads, Addrs,
          Scripts   \* what the threads call: sets of functions from threads to sequences of
                    \* sets of calls, of which one is picked

ASSUME AddrsAssumption == Addrs \subseteq Nat

VARIABLES words,             \* the memory
          kcasDescriptors,   \* of each thread: [entries, state]
          rdcssDescriptors,  \* of each thread: [seq, tag (old1 and new2), addr2, old2]
          stack,             \* the activations of help, or of readPtr, of each thread
          todo,              \* the calls to come
          call, seen, answer \* history: see MultiCAS

vars == <<words, kcasDescriptors, rdcssDescriptors, stack, todo, call, seen, answer>>

Value(v) == [kind |-> "value", v |-> v]
KcasTag(t, seq) == [kind |-> "kcas", tid |-> t, seq |-> seq]
RdcssTag(t, seq) == [kind |-> "rdcss", tid |-> t, seq |-> seq]
NoTag == Value(0)

\* The descriptor a tag was made for; whether it still is that one.
Desc(tag) == kcasDescriptors[tag.tid][tag.seq]
Current(tag) == Len(kcasDescriptors[tag.tid]) = tag.seq
Undecided(tag) == Current(tag) /\ Desc(tag).state = "UNDECIDED"

-----------------------------------------------------------------------------
(* The memory as MultiCAS sees it *)

LogicalValue(a) ==
  LET w == words[a] IN
  CASE w.kind = "value" -> w.v
    [] w.kind = "rdcss" -> rdcssDescriptors[w.tid].old2
    [] w.kind = "kcas" ->
         LET e == CHOOSE e \in ToSet(Desc(w).entries) : e.addr = a
         IN  IF Desc(w).state = "SUCCEEDED" THEN e.new ELSE e.old

mem == [a \in Addrs |-> LogicalValue(a)]
done == [t \in Threads |-> /\ call[t].op = "kcas"
                           /\ Last(kcasDescriptors[t]).state = "SUCCEEDED"]

Calls == UNION {UNION {UNION ToSet(s[t]) : t \in Threads} : s \in Scripts}
\* The calls as MultiCAS knows them: the order of the entries does not matter.
Abstracted(c) == IF c.op = "kcas" THEN [op |-> "kcas", entries |-> ToSet(c.entries)] ELSE c
M == INSTANCE MultiCAS WITH Calls <- {Abstracted(c) : c \in Calls}

-----------------------------------------------------------------------------
(* Activations *)

Frame(tag, helpingOther, pc) ==
  [tag |-> tag, helpingOther |-> helpingOther, pc |-> pc, i |-> 1, failed |-> FALSE,
   rtag |-> NoTag, undecided |-> FALSE]

Top(t) == Last(stack[t])
At(t, pc) == stack[t] # <<>> /\ Top(t).pc = pc
SetTop(t, f) == stack' = [stack EXCEPT ![t][Len(stack[t])] = f]
Goto(t, pc) == SetTop(t, [Top(t) EXCEPT !.pc = pc])

\* The last activation returns r: its caller tries again, or the call ends.
Leave(t, r) ==
  /\ stack' = [stack EXCEPT ![t] = Front(@)]
  /\ IF Len(stack[t]) = 1
     THEN /\ call' = [call EXCEPT ![t] = M!NoCall]
          /\ answer' = [answer EXCEPT ![t] = r]
     ELSE UNCHANGED <<call, answer>>

InCall == UNCHANGED <<call, answer, todo>>

\* helpOther: nothing if the descriptor has been used again.
helpOther(t, tag) ==
  stack' = IF Current(tag) THEN [stack EXCEPT ![t] = Append(@, Frame(tag, TRUE, "state"))]
                           ELSE stack

Entry(f) == Desc(f.tag).entries[f.i]
NumEntries(f) == Len(Desc(f.tag).entries)

\* The loop over the entries goes on, or phase 1 is over.
NextEntry(f) == IF f.i < NumEntries(f) THEN [f EXCEPT !.i = @ + 1, !.pc = "entry"]
                                       ELSE [f EXCEPT !.pc = "decide"]

-----------------------------------------------------------------------------
(* Calls *)

Init ==
  /\ words = [a \in Addrs |-> Value(0)]
  /\ kcasDescriptors = [t \in Threads |-> <<[entries |-> <<>>, state |-> "UNDECIDED"]>>]
  /\ rdcssDescriptors = [t \in Threads |-> [seq |-> 0, tag |-> NoTag, addr2 |-> 0, old2 |-> 0]]
  /\ stack = [t \in Threads |-> <<>>]
  /\ todo \in Scripts
  /\ call = [t \in Threads |-> M!NoCall]
  /\ seen = [t \in Threads |-> {}]
  /\ answer = [t \in Threads |-> M!Failed]

kcasdesc_sort(entries) == SortSeq(entries, LAMBDA d, e : d.addr < e.addr)

Invoke(t, c) ==
  /\ stack[t] = <<>> /\ todo[t] # <<>>
  /\ todo' = [todo EXCEPT ![t] = Tail(@)]
  /\ call' = [call EXCEPT ![t] = Abstracted(c)]
  /\ UNCHANGED <<words, rdcssDescriptors, answer>>

\* start, add for each entry, and execute up to help
execute(t, c) ==
  /\ c.op = "kcas" /\ Invoke(t, c)
  /\ kcasDescriptors' = [kcasDescriptors EXCEPT ![t] =
       Append(@, [entries |-> kcasdesc_sort(c.entries), state |-> "UNDECIDED"])]
  /\ stack' = [stack EXCEPT ![t] = <<Frame(KcasTag(t, Len(kcasDescriptors[t]) + 1), FALSE, "state")>>]

StartRead(t, c) ==
  /\ c.op = "read" /\ Invoke(t, c)
  /\ stack' = [stack EXCEPT ![t] = <<Frame(NoTag, FALSE, "read")>>]
  /\ UNCHANGED kcasDescriptors

\* readPtr and rdcssRead
readPtr(t) ==
  LET w == words[call[t].addr] IN
  /\ At(t, "read")
  /\ \/ w.kind = "value" /\ Leave(t, w.v)
     \/ w.kind = "rdcss" /\ SetTop(t, [Top(t) EXCEPT !.pc = "rdcss_read", !.rtag = w])
                         /\ UNCHANGED <<call, answer>>
     \/ w.kind = "kcas" /\ helpOther(t, w) /\ UNCHANGED <<call, answer>>
  /\ UNCHANGED <<words, kcasDescriptors, rdcssDescriptors, todo>>

-----------------------------------------------------------------------------
(* help, phase 1: the words are locked one after the other *)

ReadState(t) ==
  LET f == Top(t)
      first == IF f.helpingOther THEN 1 ELSE 0
  IN  /\ At(t, "state")
      /\ \/ ~Current(f.tag) /\ Leave(t, M!Failed)
         \/ /\ Undecided(f.tag)
            /\ SetTop(t, NextEntry([f EXCEPT !.i = first]))
            /\ UNCHANGED <<call, answer>>
         \/ /\ Current(f.tag) /\ ~Undecided(f.tag)
            /\ Goto(t, "phase2") /\ UNCHANGED <<call, answer>>
      /\ UNCHANGED <<words, kcasDescriptors, rdcssDescriptors, todo>>

\* The compare-and-swap of rdcss, and what follows from the word it has found.
rdcss(t) ==
  LET f == Top(t)
      e == Entry(f)
      w == words[e.addr]
      tag == RdcssTag(t, rdcssDescriptors[t].seq + 1)
  IN  /\ At(t, "entry")
      /\ \/ /\ w = Value(e.old)
            /\ words' = [words EXCEPT ![e.addr] = tag]
            /\ rdcssDescriptors' = [rdcssDescriptors EXCEPT ![t] =
                 [seq |-> tag.seq, tag |-> f.tag, addr2 |-> e.addr, old2 |-> e.old]]
            /\ SetTop(t, [f EXCEPT !.pc = "rdcss_read", !.rtag = tag])
         \/ /\ UNCHANGED <<words, rdcssDescriptors>>
            /\ \/ w.kind = "value" /\ w.v # e.old
                    /\ SetTop(t, [f EXCEPT !.pc = "decide", !.failed = TRUE])
               \/ w.kind = "rdcss" /\ SetTop(t, [f EXCEPT !.pc = "rdcss_read", !.rtag = w])
               \/ w.kind = "kcas" /\ w = f.tag /\ SetTop(t, NextEntry(f))
               \/ w.kind = "kcas" /\ w # f.tag /\ helpOther(t, w)
      /\ UNCHANGED kcasDescriptors /\ InCall

\* Mutant of rdcssHelpRead: an RDCSS that is over is waited for.
rdcssHelpWait(t) ==
  LET f == Top(t)
      d == rdcssDescriptors[f.rtag.tid]
  IN  /\ At(t, "rdcss_read")
      /\ IF d.seq = f.rtag.seq
         THEN SetTop(t, [f EXCEPT !.pc = "rdcss_cas", !.undecided = Undecided(d.tag)])
         ELSE UNCHANGED stack
      /\ UNCHANGED <<words, kcasDescriptors, rdcssDescriptors>> /\ InCall

\* Mutant of rdcssHelpRead: the word is locked without a look at the state.
rdcssHelpBlind(t) ==
  LET f == Top(t)
      d == rdcssDescriptors[f.rtag.tid]
  IN  /\ At(t, "rdcss_read")
      /\ IF d.seq = f.rtag.seq
         THEN SetTop(t, [f EXCEPT !.pc = "rdcss_cas", !.undecided = TRUE])
         ELSE SetTop(t, [f EXCEPT !.pc = IF f.tag = NoTag THEN "read" ELSE "entry", !.rtag = NoTag])
      /\ UNCHANGED <<words, kcasDescriptors, rdcssDescriptors>> /\ InCall

\* rdcssHelp reads the state; if the RDCSS is over there is nothing to do.
rdcssHelpRead(t) ==
  LET f == Top(t)
      d == rdcssDescriptors[f.rtag.tid]
  IN  /\ At(t, "rdcss_read")
      /\ IF d.seq = f.rtag.seq
         THEN SetTop(t, [f EXCEPT !.pc = "rdcss_cas", !.undecided = Undecided(d.tag)])
         ELSE SetTop(t, [f EXCEPT !.pc = IF f.tag = NoTag THEN "read" ELSE "entry", !.rtag = NoTag])
      /\ UNCHANGED <<words, kcasDescriptors, rdcssDescriptors>> /\ InCall

\* Its compare-and-swap.  One's own RDCSS is then over; another's made way to try again.
rdcssHelpCAS(t) ==
  LET f == Top(t)
      d == rdcssDescriptors[f.rtag.tid]
      g == [f EXCEPT !.rtag = NoTag, !.undecided = FALSE]
  IN  /\ At(t, "rdcss_cas")
      /\ words' = IF d.seq = f.rtag.seq /\ words[d.addr2] = f.rtag
                  THEN [words EXCEPT ![d.addr2] = IF f.undecided THEN d.tag ELSE Value(d.old2)]
                  ELSE words
      /\ SetTop(t, IF f.rtag.tid = t THEN NextEntry(g)
                   ELSE [g EXCEPT !.pc = IF f.tag = NoTag THEN "read" ELSE "entry"])
      /\ UNCHANGED <<kcasDescriptors, rdcssDescriptors>> /\ InCall

\* Mutant of Decide: a helper decides although somebody has decided before.
DecideAgain(t) ==
  LET f == Top(t) IN
  /\ At(t, "decide")
  /\ kcasDescriptors' = [kcasDescriptors EXCEPT ![f.tag.tid][f.tag.seq].state =
                           IF f.failed THEN "FAILED" ELSE "SUCCEEDED"]
  /\ SetTop(t, [f EXCEPT !.pc = "phase2", !.failed = FALSE])
  /\ UNCHANGED <<words, rdcssDescriptors>> /\ InCall

Decide(t) ==
  LET f == Top(t) IN
  /\ At(t, "decide")
  /\ kcasDescriptors' =
       IF Undecided(f.tag)
       THEN [kcasDescriptors EXCEPT ![f.tag.tid][f.tag.seq].state =
               IF f.failed THEN "FAILED" ELSE "SUCCEEDED"]
       ELSE kcasDescriptors
  /\ SetTop(t, [f EXCEPT !.pc = "phase2", !.failed = FALSE])
  /\ UNCHANGED <<words, rdcssDescriptors>> /\ InCall

-----------------------------------------------------------------------------
(* help, phase 2: the words get their new values, or their old ones back *)

ReadStateAgain(t) ==
  LET f == Top(t) IN
  /\ At(t, "phase2")
  /\ \/ ~Current(f.tag) /\ Leave(t, M!Failed)
     \/ /\ Current(f.tag) /\ SetTop(t, [f EXCEPT !.pc = "unlock", !.i = 1])
        /\ UNCHANGED <<call, answer>>
  /\ UNCHANGED <<words, kcasDescriptors, rdcssDescriptors, todo>>

Unlock(t) ==
  LET f == Top(t)
      succeeded == Desc(f.tag).state = "SUCCEEDED"
  IN  /\ At(t, "unlock")
      /\ words' = IF words[Entry(f).addr] = f.tag
                  THEN [words EXCEPT ![Entry(f).addr] =
                          Value(IF succeeded THEN Entry(f).new ELSE Entry(f).old)]
                  ELSE words
      /\ \/ /\ f.i < NumEntries(f) /\ SetTop(t, [f EXCEPT !.i = @ + 1])
            /\ UNCHANGED <<call, answer>>
         \/ f.i = NumEntries(f) /\ Leave(t, IF succeeded THEN M!Succeeded ELSE M!Failed)
      /\ UNCHANGED <<kcasDescriptors, rdcssDescriptors, todo>>

-----------------------------------------------------------------------------
Step(t) ==
  /\ \/ readPtr(t) \/ ReadState(t) \/ rdcss(t) \/ rdcssHelpRead(t) \/ rdcssHelpCAS(t)
     \/ Decide(t) \/ ReadStateAgain(t) \/ Unlock(t)
  /\ M!Look

Begin(t) ==
  /\ todo[t] # <<>>
  /\ \E c \in Head(todo[t]) : execute(t, c) \/ StartRead(t, c)
  /\ M!Look

\* All calls have been made.
Finished == (\A t \in Threads : stack[t] = <<>> /\ todo[t] = <<>>) /\ UNCHANGED vars

Next == (\E t \in Threads : Begin(t) \/ Step(t)) \/ Finished

Spec == Init /\ [][Next]_vars

\* A thread is never stopped in the middle of a call.
Fairness == \A t \in Threads : WF_vars(Step(t))

FairSpec == Spec /\ Fairness

-----------------------------------------------------------------------------
(* Properties *)

\* Every k-word compare-and-swap and every read takes effect at one instant between its call
\* and its return, whoever helped, in which order, and however often the descriptors have
\* been used again.
ImplementsMultiCAS == M!Spec

\* A word left locked by an operation whose descriptor has been used again: a helper has let
\* its RDCSS take effect, "if (!successBit) return false", after the owner had gone on.
LeftLocked(a) == words[a].kind = "kcas" /\ ~Current(words[a])

\* Once no call is running no word is locked, and none is about to be: "all addresses" that
\* help has locked in phase 1 are unlocked in phase 2, by somebody.
UnlockedWhenQuiet ==
  (\A t \in Threads : stack[t] = <<>>) => \A a \in Addrs : words[a].kind = "value"

\* What is true of it: a word is left locked only by an operation that has failed, so that it
\* stands for its old value and takes no effect late; and once no call is running nothing but
\* such a lock is left, no RDCSS and no lock that belongs to the last operation of a thread.
OnlyFailedLeaveLocks ==
  /\ \A a \in Addrs : LeftLocked(a) => Desc(words[a]).state = "FAILED"
  /\ (\A t \in Threads : stack[t] = <<>>) =>
       \A a \in Addrs : words[a].kind = "value" \/ LeftLocked(a)

\* Every call returns, unless a word is left locked: the entries are sorted "to guarantee progress".
EveryCallReturns ==
  \A t \in Threads : call[t].op # "none" ~>
    (call[t].op = "none" \/ \E a \in Addrs : LeftLocked(a))
=============================================================================
