----------------------------- MODULE Dictionary -----------------------------
(***************************************************************************)
(* What the search structures under ds/ promise to the threads that share  *)
(* them: every call takes effect at one instant between its invocation and *)
(* its return.  The operations are those of ds_adapter: contains, find,    *)
(* insert, insertIfAbsent and erase, over a map from keys to values.       *)
(*                                                                         *)
(* An update changes the map at most once per call, and what it found then *)
(* is its answer.  An answer that changes nothing must be true of the map  *)
(* at some instant of the call; `seen` collects the values the key has had *)
(* since the invocation.                                                   *)
(***************************************************************************)
CONSTANTS Threads, Keys, Values, NoValue

VARIABLES dict,   \* the value of each key, NoValue if absent
          call    \* the call each thread is in

vars == <<dict, call>>

Ops == {"contains", "find", "insert", "insertIfAbsent", "erase"}

\* `effect` holds the answer of an update that has changed the map.
Call(op, k, v) ==
  [op |-> op, key |-> k, value |-> v, seen |-> {dict[k]}, effect |-> <<>>]

\* Between two calls a thread holds the answer of the last one; contains answers
\* with a value for true and with NoValue for false.
Answered(r) == [op |-> "none", answer |-> r]
Outside(t) == call[t].op = "none"

\* The history starts with any contents: the clients fill the map first.
Init ==
  /\ dict \in [Keys -> Values \cup {NoValue}]
  /\ call = [t \in Threads |-> Answered(NoValue)]

Invoke(t, op, k, v) ==
  /\ Outside(t)
  /\ call' = [call EXCEPT ![t] = Call(op, k, v)]
  /\ UNCHANGED dict

\* The calls after thread t has changed key k to v, which fixes its answer r.
Witnessed(t, k, v, r) ==
  [s \in Threads |->
     IF Outside(s) \/ call[s].key # k THEN call[s]
     ELSE [call[s] EXCEPT !.seen = @ \cup {v},
                          !.effect = IF s = t THEN <<r>> ELSE @]]

\* The call of t gives its key the value v.
Change(t, v) ==
  LET k == call[t].key IN
  /\ call[t].effect = <<>>
  /\ dict' = [dict EXCEPT ![k] = v]
  /\ call' = Witnessed(t, k, v, dict[k])

Insert(t) ==
  /\ call[t].op \in {"insert", "insertIfAbsent"}
  /\ call[t].op = "insertIfAbsent" => dict[call[t].key] = NoValue
  /\ Change(t, call[t].value)

Erase(t) ==
  /\ call[t].op = "erase" /\ dict[call[t].key] # NoValue
  /\ Change(t, NoValue)

\* r is an answer that call c may give.
Answers(c, r) ==
  IF c.effect # <<>> THEN c.effect = <<r>>
  ELSE CASE c.op = "contains" -> IF r # NoValue THEN c.seen # {NoValue} ELSE NoValue \in c.seen
         [] c.op = "find" -> r \in c.seen
         [] c.op = "insert" -> FALSE
         [] c.op = "insertIfAbsent" -> r # NoValue /\ r \in c.seen
         [] c.op = "erase" -> r = NoValue /\ r \in c.seen

Return(t, r) ==
  /\ ~Outside(t) /\ Answers(call[t], r)
  /\ call' = [call EXCEPT ![t] = Answered(r)]
  /\ UNCHANGED dict

\* Outside(t)' only says again what Invoke does: it spares TLC the choice of op, k and v.
Next == \E t \in Threads :
  \/ Outside(t) /\ ~Outside(t)' /\ \E op \in Ops, k \in Keys, v \in Values : Invoke(t, op, k, v)
  \/ ~Outside(t) /\ (Insert(t) \/ Erase(t) \/ \E r \in Values \cup {NoValue} : Return(t, r))

Spec == Init /\ [][Next]_vars
=============================================================================
