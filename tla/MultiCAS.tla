------------------------------ MODULE MultiCAS ------------------------------
(***************************************************************************)
(* What common/kcas promises: a k-word compare-and-swap takes effect at    *)
(* once, on all of its words if each has its old value and on none         *)
(* otherwise, and a read returns a value the word had during the call.     *)
(***************************************************************************)
EXTENDS Integers

CONSTANTS Threads, Addrs,
          Calls    \* [op |-> "kcas", entries |-> ...] and [op |-> "read", addr |-> ...]

VARIABLES mem,     \* the value of each word
          call,    \* what each thread is doing
          done,    \* its compare-and-swap has taken effect
          seen,    \* what its call may answer without an effect
          answer   \* of the last call of each thread

vars == <<mem, call, done, seen, answer>>

NoCall == [op |-> "none"]
Failed == -1
Succeeded == -2

\* What memory m answers: the value read, or that an entry has not its old value.
Answers(c, m) == CASE c.op = "none" -> {}
                   [] c.op = "read" -> {m[c.addr]}
                   [] c.op = "kcas" -> {Failed : e \in {e \in c.entries : m[e.addr] # e.old}}

\* The answers a call has seen, when memory m is what it sees now.
SeenNow(t, c, m) ==
  Answers(c, m) \cup (IF call[t] = NoCall \/ c = NoCall THEN {} ELSE seen[t])
Look == seen' = [t \in Threads |-> SeenNow(t, call'[t], mem')]

Init ==
  /\ mem = [a \in Addrs |-> 0]
  /\ call = [t \in Threads |-> NoCall]
  /\ done = [t \in Threads |-> FALSE]
  /\ seen = [t \in Threads |-> {}]
  /\ answer = [t \in Threads |-> Failed]

Invoke(t, c) ==
  /\ call[t] = NoCall
  /\ call' = [call EXCEPT ![t] = c]
  /\ UNCHANGED <<mem, done, answer>> /\ Look

Apply(t) ==
  /\ call[t].op = "kcas" /\ ~done[t]
  /\ \A e \in call[t].entries : mem[e.addr] = e.old
  /\ mem' = [a \in Addrs |-> IF \E e \in call[t].entries : e.addr = a
                             THEN (CHOOSE e \in call[t].entries : e.addr = a).new
                             ELSE mem[a]]
  /\ done' = [done EXCEPT ![t] = TRUE]
  /\ UNCHANGED <<call, answer>> /\ Look

Return(t, r) ==
  /\ call[t] # NoCall
  /\ r \in IF done[t] THEN {Succeeded} ELSE seen[t]
  /\ answer' = [answer EXCEPT ![t] = r]
  /\ call' = [call EXCEPT ![t] = NoCall]
  /\ done' = [done EXCEPT ![t] = FALSE]
  /\ UNCHANGED mem /\ Look

Next == \E t \in Threads :
          \/ call[t] = NoCall /\ \E c \in Calls : Invoke(t, c)
          \/ Apply(t)
          \/ call[t] # NoCall /\ Return(t, answer'[t])

Spec == Init /\ [][Next]_vars
=============================================================================
