---------------------------- MODULE MessageQueue ----------------------------
(***************************************************************************)
(* messageQueue of src/client/subscription.ts: a loop that receives the    *)
(* messages of one subscription, reads their bodies and hands them to the   *)
(* callers of the function it returns.                                     *)
(*                                                                         *)
(* Messages are numbered in the order session.receive() returns them (see   *)
(* Delivery), calls in the order they are made.  A variant that precedes a  *)
(* definition is faulty and unused.                                        *)
(***************************************************************************)
EXTENDS Integers, Sequences, Functions

CONSTANTS
  MaxMessages,  \* bound: messages received
  MaxCalls      \* bound: calls of the returned function

ASSUME MessageQueueAssumption == MaxMessages \in Nat /\ MaxCalls \in Nat

Calls == 1..MaxCalls
Messages == 1..MaxMessages

\* What a call has come to, other than a message.
Uncalled == 0
Waiting == -1
Terminated == -2

VARIABLES
  queue, consumers,
  terminatedResult,  \* whether it is defined
  loop,              \* receiveLoop: "receive", "readBody" or "returned"
  received,          \* number of messages received
  calls,             \* number of calls
  results            \* the promises they returned

vars == <<queue, consumers, terminatedResult, loop, received, calls, results>>

TypeOK ==
  /\ Range(queue) \subseteq Messages /\ Range(consumers) \subseteq Calls
  /\ terminatedResult = (loop = "returned")
  /\ loop \in {"receive", "readBody", "returned"}
  /\ received \in 0..MaxMessages /\ calls \in 0..MaxCalls
  /\ results \in [Calls -> Messages \cup {Uncalled, Waiting, Terminated}]

Init ==
  /\ queue = <<>> /\ consumers = <<>>
  /\ terminatedResult = FALSE
  /\ loop = "receive"
  /\ received = 0 /\ calls = 0
  /\ results = [c \in Calls |-> Uncalled]

\* dequeue, over messages q and callers cs: each caller gets a message while
\* there is one, and then, if the loop has ended, its result.
DequeueNone(q, cs) == 0

DequeueAll(q, cs) == IF Len(q) < Len(cs) THEN Len(q) ELSE Len(cs)

Dequeue(q, cs, ended, outcomes) ==
  LET n == DequeueAll(q, cs)
  IN /\ queue' = SubSeq(q, n + 1, Len(q))
     /\ consumers' = IF ended THEN <<>> ELSE SubSeq(cs, n + 1, Len(cs))
     /\ results' =
          [c \in Calls |->
             IF \E i \in 1..n : cs[i] = c
               THEN q[CHOOSE i \in 1..n : cs[i] = c]
             ELSE IF ended /\ c \in Range(cs) THEN Terminated
             ELSE outcomes[c]]

\* A call of the returned function.
Call ==
  /\ calls < MaxCalls
  /\ calls' = calls + 1
  /\ Dequeue(queue, Append(consumers, calls + 1), terminatedResult,
             [results EXCEPT ![calls + 1] = Waiting])
  /\ UNCHANGED <<terminatedResult, loop, received>>

\* session.receive() returns a message; its body is read next.
ReceiveMessage ==
  /\ loop = "receive"
  /\ received < MaxMessages
  /\ received' = received + 1
  /\ loop' = "readBody"
  /\ UNCHANGED <<queue, consumers, terminatedResult, calls, results>>

\* The body has been read: the message is queued and the loop goes on.
QueuedFirst(m) == <<m>> \o queue

Queued(m) == Append(queue, m)

BodyRead ==
  /\ loop = "readBody"
  /\ loop' = "receive"
  /\ Dequeue(Queued(received), consumers, terminatedResult, results)
  /\ UNCHANGED <<terminatedResult, received, calls>>

\* session.receive() fails or is cancelled, or the body cannot be read: the
\* loop returns, and every caller without a message gets that result.
LoopFails ==
  /\ loop \in {"receive", "readBody"}
  /\ loop' = "returned"
  /\ terminatedResult' = TRUE
  /\ Dequeue(queue, consumers, TRUE, results)
  /\ UNCHANGED <<received, calls>>

Next == Call \/ ReceiveMessage \/ BodyRead \/ LoopFails

Spec == Init /\ [][Next]_vars

-----------------------------------------------------------------------------
(* Properties.                                                              *)

\* The n-th call gets the n-th message, whichever of them comes first.
CallsInOrder == \A c \in Calls : results[c] \in Messages => results[c] = c

\* No call waits while a message is queued or after the loop has returned.
NobodyWaitsInVain ==
  \A c \in Calls : results[c] = Waiting => queue = <<>> /\ loop # "returned"

\* A call is told of the end only after every message read has been handed out.
MessagesBeforeEnd ==
  \A c \in Calls : results[c] = Terminated =>
    queue = <<>> /\ \A d \in Calls : d > c => results[d] \notin Messages
=============================================================================
