------------------------------- MODULE Queue -------------------------------
(***************************************************************************)
(* The asynchronous queue of src/queue.ts, as the values it goes through:  *)
(* each operator is the queue after one call of a method.                   *)
(*                                                                         *)
(* A consumer is one user of the queue's iterator, with at most one next()  *)
(* outstanding, as `for await` has; `results` holds what its latest next()  *)
(* has come to.  `drains` names the calls of drained() that wait for        *)
(* drainEvent.  raise(), which nothing in src/ calls, is left out.  A       *)
(* variant that precedes a definition is faulty and unused.                 *)
(***************************************************************************)
EXTENDS Sequences

CONSTANT Consumers

Outcome(kind) == [kind |-> kind]
Value(v) == [kind |-> "value", value |-> v]

NewQueue ==
  [items |-> <<>>, consumers |-> {}, drains |-> {}, terminated |-> FALSE,
   results |-> [c \in Consumers |-> Outcome("none")]]

\* Every waiting consumer is told the same, and waits no longer.
StillWaiting(q) == q.consumers

NoLongerWaiting(q) == {}

Wake(q, outcome) ==
  [q EXCEPT !.consumers = NoLongerWaiting(q),
            !.results = [c \in Consumers |->
                           IF c \in q.consumers THEN outcome ELSE @[c]]]

\* push: a value goes to every waiting consumer, or else into the queue.
PushFirst(q, v) ==
  IF q.consumers = {} THEN [q EXCEPT !.items = <<v>> \o @]
                      ELSE Wake(q, Value(v))

Push(q, v) ==
  IF q.consumers = {} THEN [q EXCEPT !.items = Append(@, v)]
                      ELSE Wake(q, Value(v))

\* drained, called by d: resolved at once when the queue is empty.
Drained(q, d) ==
  IF q.items = <<>> THEN q ELSE [q EXCEPT !.drains = @ \cup {d}]

TerminateAtOnce(q) ==
  [Wake(q, Outcome("done")) EXCEPT !.terminated = TRUE, !.items = <<>>]

Terminate(q) == [Wake(q, Outcome("done")) EXCEPT !.terminated = TRUE]

\* next(): what is queued comes before the end, and its last value resolves
\* the drain event.
ConsumeUndrained(q, c) ==
  IF q.items # <<>>
    THEN [q EXCEPT !.items = Tail(@), !.results[c] = Value(Head(q.items))]
  ELSE IF q.terminated THEN [q EXCEPT !.results[c] = Outcome("done")]
  ELSE [q EXCEPT !.consumers = @ \cup {c}, !.results[c] = Outcome("pending")]

Consume(q, c) ==
  IF q.items # <<>>
    THEN [q EXCEPT !.items = Tail(@), !.results[c] = Value(Head(q.items)),
                   !.drains = IF Len(q.items) = 1 THEN {} ELSE @]
  ELSE IF q.terminated THEN [q EXCEPT !.results[c] = Outcome("done")]
  ELSE [q EXCEPT !.consumers = @ \cup {c}, !.results[c] = Outcome("pending")]
=============================================================================
