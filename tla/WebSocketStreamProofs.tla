----------------------- MODULE WebSocketStreamProofs -----------------------
(***************************************************************************)
(* Theorems about WebSocketStream, for any number of writes and arrivals.  *)
(***************************************************************************)
EXTENDS WebSocketStream, SequenceTheorems, TLAPS

-----------------------------------------------------------------------------
(* The queue: what each of its operations returns.                          *)

Users == {"pump", "reader"}

\* What next() has come to, in a queue of values V.
Results(V) ==
  [kind : {"none", "pending", "done"}] \cup [kind : {"value"}, value : V]

\* The queues of values V, with waiting calls D of drained().
Queues(V, D) ==
  [items : Seq(V), consumers : SUBSET Users, drains : SUBSET D,
   terminated : BOOLEAN, results : [Users -> Results(V)]]

\* A new queue is empty.
LEMMA NewQueueFields ==
  ASSUME NEW V, NEW D
  PROVE  /\ Q!NewQueue \in Queues(V, D)
         /\ Q!NewQueue.items = <<>> /\ Q!NewQueue.consumers = {}
         /\ Q!NewQueue.drains = {} /\ Q!NewQueue.terminated = FALSE
         /\ \A c \in Users : Q!NewQueue.results[c].kind = "none"
  BY DEF Q!NewQueue, Q!Outcome, Queues, Results, Users

\* push() appends, or gives the value to all who wait.
LEMMA PushFields ==
  ASSUME NEW V, NEW D, NEW q \in Queues(V, D), NEW v \in V
  PROVE  LET p == Q!Push(q, v)
         IN /\ p \in Queues(V, D)
            /\ p.drains = q.drains /\ p.terminated = q.terminated
            /\ q.consumers = {} =>
                 /\ p.items = Append(q.items, v)
                 /\ p.consumers = {} /\ p.results = q.results
            /\ q.consumers # {} =>
                 /\ p.items = q.items /\ p.consumers = {}
                 /\ \A c \in q.consumers : /\ p.results[c].kind = "value"
                                           /\ p.results[c].value = v
                 /\ \A c \in Users \ q.consumers : p.results[c] = q.results[c]
  <1>1. Q!Value(v) \in Results(V) /\ Q!Value(v).kind = "value"
          /\ Q!Value(v).value = v
    BY DEF Q!Value, Results
  <1>2. CASE q.consumers = {}
    <2>1. Q!Push(q, v) = [q EXCEPT !.items = Append(@, v)]
      BY <1>2 DEF Q!Push
    <2>2. Append(q.items, v) \in Seq(V)
      BY DEF Queues
    <2> QED
      BY <1>2, <2>1, <2>2 DEF Queues
  <1>3. CASE q.consumers # {}
    <2> DEFINE r == [c \in Users |-> IF c \in q.consumers THEN Q!Value(v)
                                                          ELSE q.results[c]]
    <2>1. Q!Push(q, v) = [q EXCEPT !.consumers = {}, !.results = r]
      BY <1>3 DEF Q!Push, Q!Wake, Q!NoLongerWaiting, Users, Queues
    <2>2. r \in [Users -> Results(V)]
      BY <1>1 DEF Queues
    <2>3. \A c \in Users : r[c] = IF c \in q.consumers THEN Q!Value(v)
                                                       ELSE q.results[c]
      OBVIOUS
    <2> HIDE DEF r
    <2>4. /\ Q!Push(q, v) \in Queues(V, D)
          /\ Q!Push(q, v).items = q.items
          /\ Q!Push(q, v).consumers = {}
          /\ Q!Push(q, v).drains = q.drains
          /\ Q!Push(q, v).terminated = q.terminated
          /\ Q!Push(q, v).results = r
      BY <2>1, <2>2 DEF Queues
    <2>5. q.consumers \subseteq Users
      BY DEF Queues
    <2> QED
      BY <1>1, <1>3, <2>3, <2>4, <2>5
  <1> QED
    BY <1>2, <1>3

\* drained() adds its caller to those who wait, unless the queue is empty.
LEMMA DrainedFields ==
  ASSUME NEW V, NEW D, NEW q \in Queues(V, D), NEW d \in D
  PROVE  LET p == Q!Drained(q, d)
         IN /\ p \in Queues(V, D)
            /\ p.items = q.items /\ p.consumers = q.consumers
            /\ p.terminated = q.terminated /\ p.results = q.results
            /\ q.items = <<>> => p.drains = q.drains
            /\ q.items # <<>> => p.drains = q.drains \cup {d}
  BY DEF Q!Drained, Queues

\* terminate() tells all who wait of the end and keeps what is queued.
LEMMA TerminateFields ==
  ASSUME NEW V, NEW D, NEW q \in Queues(V, D)
  PROVE  LET p == Q!Terminate(q)
         IN /\ p \in Queues(V, D)
            /\ p.items = q.items /\ p.drains = q.drains
            /\ p.terminated /\ p.consumers = {}
            /\ \A c \in q.consumers : p.results[c].kind = "done"
            /\ \A c \in Users \ q.consumers : p.results[c] = q.results[c]
  <1>1. Q!Outcome("done") \in Results(V) /\ Q!Outcome("done").kind = "done"
    BY DEF Q!Outcome, Results
  <1> DEFINE r == [c \in Users |-> IF c \in q.consumers THEN Q!Outcome("done")
                                                        ELSE q.results[c]]
  <1>2. Q!Terminate(q) = [[q EXCEPT !.consumers = {}, !.results = r]
                            EXCEPT !.terminated = TRUE]
    BY DEF Q!Terminate, Q!Wake, Q!NoLongerWaiting, Users, Queues
  <1>3. r \in [Users -> Results(V)]
    BY <1>1 DEF Queues
  <1>4. \A c \in Users : r[c] = IF c \in q.consumers THEN Q!Outcome("done")
                                                     ELSE q.results[c]
    OBVIOUS
  <1> HIDE DEF r
  <1>5. /\ Q!Terminate(q) \in Queues(V, D)
        /\ Q!Terminate(q).items = q.items
        /\ Q!Terminate(q).consumers = {}
        /\ Q!Terminate(q).drains = q.drains
        /\ Q!Terminate(q).terminated
        /\ Q!Terminate(q).results = r
    BY <1>2, <1>3 DEF Queues
  <1>6. q.consumers \subseteq Users
    BY DEF Queues
  <1> QED
    BY <1>1, <1>4, <1>5, <1>6

\* next() takes the head, and with the last item wakes those who wait for the
\* queue to be empty; or it returns the end; or it waits.
LEMMA ConsumeFields ==
  ASSUME NEW V, NEW D, NEW q \in Queues(V, D), NEW c \in Users
  PROVE  LET p == Q!Consume(q, c)
         IN /\ p \in Queues(V, D)
            /\ p.terminated = q.terminated
            /\ \A d \in Users \ {c} : p.results[d] = q.results[d]
            /\ q.items # <<>> =>
                 /\ p.items = Tail(q.items) /\ p.consumers = q.consumers
                 /\ p.results[c].kind = "value"
                 /\ p.results[c].value = Head(q.items)
                 /\ p.drains = IF Len(q.items) = 1 THEN {} ELSE q.drains
            /\ q.items = <<>> =>
                 /\ p.items = <<>> /\ p.drains = q.drains
                 /\ q.terminated => /\ p.results[c].kind = "done"
                                    /\ p.consumers = q.consumers
                 /\ ~q.terminated => /\ p.results[c].kind = "pending"
                                     /\ p.consumers = q.consumers \cup {c}
  <1> DEFINE p == Q!Consume(q, c)
  <1>1. CASE q.items # <<>>
    <2>1. /\ Tail(q.items) \in Seq(V) /\ Head(q.items) \in V
      BY <1>1 DEF Queues
    <2>2. /\ Q!Value(Head(q.items)) \in Results(V)
          /\ Q!Value(Head(q.items)).kind = "value"
          /\ Q!Value(Head(q.items)).value = Head(q.items)
      BY <2>1 DEF Q!Value, Results
    <2>3. p = [q EXCEPT !.items = Tail(@),
                        !.results[c] = Q!Value(Head(q.items)),
                        !.drains = IF Len(q.items) = 1 THEN {} ELSE @]
      BY <1>1 DEF Q!Consume
    <2> HIDE DEF p
    <2>4. /\ p \in Queues(V, D)
          /\ p.items = Tail(q.items) /\ p.consumers = q.consumers
          /\ p.terminated = q.terminated
          /\ p.results = [q.results EXCEPT ![c] = Q!Value(Head(q.items))]
          /\ p.drains = IF Len(q.items) = 1 THEN {} ELSE q.drains
      BY <2>1, <2>2, <2>3 DEF Queues
    <2>5. q.results \in [Users -> Results(V)]
      BY DEF Queues
    <2> QED
      BY <1>1, <2>2, <2>4, <2>5 DEF p
  <1>2. CASE q.items = <<>> /\ q.terminated
    <2>1. /\ Q!Outcome("done") \in Results(V)
          /\ Q!Outcome("done").kind = "done"
      BY DEF Q!Outcome, Results
    <2>2. p = [q EXCEPT !.results[c] = Q!Outcome("done")]
      BY <1>2 DEF Q!Consume
    <2> HIDE DEF p
    <2>3. /\ p \in Queues(V, D)
          /\ p.items = q.items /\ p.consumers = q.consumers
          /\ p.terminated = q.terminated /\ p.drains = q.drains
          /\ p.results = [q.results EXCEPT ![c] = Q!Outcome("done")]
      BY <2>1, <2>2 DEF Queues
    <2>4. q.results \in [Users -> Results(V)]
      BY DEF Queues
    <2> QED
      BY <1>2, <2>1, <2>3, <2>4 DEF p
  <1>3. CASE q.items = <<>> /\ ~q.terminated
    <2>1. /\ Q!Outcome("pending") \in Results(V)
          /\ Q!Outcome("pending").kind = "pending"
      BY DEF Q!Outcome, Results
    <2>2. p = [q EXCEPT !.consumers = @ \cup {c},
                        !.results[c] = Q!Outcome("pending")]
      BY <1>3 DEF Q!Consume
    <2> HIDE DEF p
    <2>3. /\ p \in Queues(V, D)
          /\ p.items = q.items /\ p.consumers = q.consumers \cup {c}
          /\ p.terminated = q.terminated /\ p.drains = q.drains
          /\ p.results = [q.results EXCEPT ![c] = Q!Outcome("pending")]
      BY <2>1, <2>2 DEF Queues
    <2>4. q.results \in [Users -> Results(V)]
      BY DEF Queues
    <2> QED
      BY <1>3, <2>1, <2>3, <2>4 DEF p
  <1> QED
    BY <1>1, <1>2, <1>3

-----------------------------------------------------------------------------
(* Writing.  The writes accepted are, in order, those that were sent (or     *)
(* dropped by a socket that was closing), the one the pump holds and those   *)
(* in the queue.                                                             *)

Items == output.items
Kind == output.results["pump"].kind
Held == IF Kind = "value" THEN 1 ELSE 0

\* How many writes the pump has taken from the queue.
Taken == Len(accepted) - Len(Items)

OutputType ==
  /\ socket \in {"connecting", "open", "closing", "closed"}
  /\ output \in Queues(Writes, Writes \cup {EndOfWrites})
  /\ pump \in {"waiting", "opening", "sending", "returned", "ended"}
  /\ accepted \in Seq(Writes) /\ sent \in Seq(Writes)
  /\ writeCalls \in 0..MaxWrites /\ Len(accepted) <= writeCalls
  /\ ending \in -1..MaxWrites /\ ending <= Len(accepted)

\* What the pump is doing agrees with what its next() has come to.
PumpState ==
  /\ output.consumers = IF pump = "waiting" /\ Kind = "pending"
                          THEN {"pump"} ELSE {}
  /\ Kind \in {"pending", "value", "done"}
  /\ pump \in {"opening", "sending", "returned"} => Kind = "value"
  /\ pump = "sending" => socket # "connecting"
  /\ pump = "ended" => Kind = "done"
  /\ Kind = "pending" => /\ pump = "waiting" /\ Items = <<>>
                         /\ ~output.terminated

\* The end of the queue is reached only behind what was written before it.
EndState ==
  /\ output.terminated <=> ending # -1
  /\ Kind = "done" => ending # -1 /\ ending <= Taken

Order ==
  /\ Held <= Taken
  /\ \A i \in 1..Len(Items) : Items[i] = accepted[Taken + i]
  /\ Kind = "value" => output.results["pump"].value = accepted[Taken]
  /\ Len(sent) <= Taken - Held
  /\ \A i \in 1..Len(sent) : sent[i] = accepted[i]
  /\ socket \in {"connecting", "open"} => Len(sent) = Taken - Held

OutputInv == OutputType /\ PumpState /\ EndState /\ Order /\ NoLostDrain

\* Nothing has been written, and the pump waits.
LEMMA InitOutput == Init => OutputInv
  <1> SUFFICES ASSUME Init PROVE OutputInv
    OBVIOUS
  <1> DEFINE D == Writes \cup {EndOfWrites}
  <1>1. /\ Q!NewQueue \in Queues(Writes, D)
        /\ Q!NewQueue.items = <<>> /\ Q!NewQueue.consumers = {}
        /\ Q!NewQueue.drains = {} /\ ~Q!NewQueue.terminated
    BY NewQueueFields
  <1>2. "pump" \in Users /\ output = Q!Consume(Q!NewQueue, "pump")
    BY DEF Users, Init
  <1> HIDE DEF D
  <1>3. /\ output \in Queues(Writes, D)
        /\ Items = <<>> /\ output.drains = {} /\ ~output.terminated
        /\ Kind = "pending" /\ output.consumers = {"pump"}
    BY <1>1, <1>2, ConsumeFields DEF Kind, Items
  <1>4. OutputType
    <2>1. accepted \in Seq(Writes) /\ sent \in Seq(Writes) /\ Len(accepted) = 0
      BY DEF Init
    <2>2. writeCalls \in 0..MaxWrites /\ ending \in -1..MaxWrites
      BY WebSocketAssumption DEF Init
    <2> QED
      BY <1>3, <2>1, <2>2 DEF OutputType, Init, D
  <1>5. PumpState /\ NoLostDrain
    BY <1>3 DEF PumpState, NoLostDrain, Items, Init
  <1>6. EndState /\ Order
    BY <1>3 DEF EndState, Order, Held, Taken, Init
  <1> QED
    BY <1>4, <1>5, <1>6 DEF OutputInv

\* write(): a write that is accepted goes behind all others, into the queue or
\* into the hands of a pump that waits over an empty one.
LEMMA WriteOutput ==
  ASSUME OutputInv, Write
  PROVE  OutputInv'
  <1> DEFINE w == writeCalls + 1
             p == Q!Push(output, w)
             D == Writes \cup {EndOfWrites}
  <1>1. /\ w \in Writes /\ w \in D /\ writeCalls' = w /\ w \in 0..MaxWrites
        /\ UNCHANGED <<socket, pump, sent, ending>>
        /\ writeCalls \in Nat
    BY WebSocketAssumption DEF OutputInv, OutputType, Write, Writes
  <1>2. CASE UNCHANGED <<output, accepted>>
    <2>1. OutputType'
      BY <1>1, <1>2 DEF OutputInv, OutputType
    <2> QED
      BY <1>1, <1>2, <2>1
      DEF OutputInv, PumpState, EndState, Order, NoLostDrain, Kind, Held, Taken,
          Items
  <1>3. CASE /\ output' = Q!Drained(p, w)
             /\ accepted' = Append(accepted, w)
    <2>1. /\ output \in Queues(Writes, D)
          /\ accepted \in Seq(Writes) /\ sent \in Seq(Writes)
          /\ Items \in Seq(Writes)
          /\ Len(accepted) \in Nat /\ Len(Items) \in Nat
          /\ Len(sent) \in Nat
      BY DEF OutputInv, OutputType, Queues, Items
    <2> HIDE DEF w, D
    <2>2. /\ p \in Queues(Writes, D)
          /\ p.drains = output.drains /\ p.terminated = output.terminated
          /\ output.consumers = {} =>
               /\ p.items = Append(Items, w)
               /\ p.consumers = {} /\ p.results = output.results
          /\ output.consumers # {} =>
               /\ p.items = Items /\ p.consumers = {}
               /\ \A c \in output.consumers : /\ p.results[c].kind = "value"
                                              /\ p.results[c].value = w
      <3>1. output \in Queues(Writes, D) /\ w \in Writes
        BY <1>1, <2>1
      <3>2. /\ p \in Queues(Writes, D)
            /\ p.drains = output.drains /\ p.terminated = output.terminated
            /\ output.consumers = {} =>
                 /\ p.items = Append(output.items, w)
                 /\ p.consumers = {} /\ p.results = output.results
            /\ output.consumers # {} =>
                 /\ p.items = output.items /\ p.consumers = {}
                 /\ \A c \in output.consumers : /\ p.results[c].kind = "value"
                                                /\ p.results[c].value = w
                 /\ \A c \in Users \ output.consumers : p.results[c] = output.results[c]
        BY <3>1, PushFields, SMT
      <3> HIDE DEF p
      <3> QED
        BY <3>2 DEF Items
    <2> HIDE DEF p
    <2>3. /\ output' \in Queues(Writes, D)
          /\ Items' = p.items /\ output'.consumers = p.consumers
          /\ output'.terminated = p.terminated /\ output'.results = p.results
          /\ p.items = <<>> => output'.drains = p.drains
      BY <1>1, <1>3, <2>2, DrainedFields DEF Items
    <2>4. /\ accepted' \in Seq(Writes) /\ Len(accepted') = Len(accepted) + 1
          /\ \A i \in 1..Len(accepted) : accepted'[i] = accepted[i]
          /\ accepted'[Len(accepted) + 1] = w
      BY <1>1, <1>3, <2>1
    <2>5. OutputType'
      <3>1. Len(accepted') <= writeCalls'
        BY <1>1, <2>1, <2>4 DEF OutputInv, OutputType, w
      <3> QED
        BY <1>1, <2>1, <2>3, <2>4, <3>1 DEF OutputInv, OutputType, D
    <2>6. NoLostDrain'
      <3>1. Items # <<>> => p.items # <<>>
        BY <1>1, <2>1, <2>2
      <3> QED
        BY <2>2, <2>3, <3>1 DEF OutputInv, NoLostDrain, Items
    <2>7. CASE output.consumers = {}
      <3>1. ~(pump = "waiting" /\ Kind = "pending") /\ Kind # "pending"
        BY <2>7 DEF OutputInv, PumpState
      <3>2. /\ Kind' = Kind
            /\ output'.results["pump"] = output.results["pump"]
        BY <2>2, <2>3, <2>7 DEF Kind
      <3>3. /\ Len(Items') = Len(Items) + 1
            /\ \A i \in 1..Len(Items) :
                 Items'[i] = Items[i]
            /\ Items'[Len(Items) + 1] = w
        <4>1. Items' = Append(Items, w)
          BY <2>2, <2>3, <2>7
        <4> QED
          BY <1>1, <2>1, <4>1
      <3>4. Taken' = Taken /\ Taken \in Int /\ Held' = Held /\ Held \in {0, 1}
        BY <2>1, <2>4, <3>2, <3>3 DEF Taken, Held
      <3>5. PumpState' /\ EndState'
        BY <1>1, <2>2, <2>3, <2>7, <3>1, <3>2, <3>4
        DEF OutputInv, PumpState, EndState
      <3>6. \A i \in 1..Len(Items') :
              Items'[i] = accepted'[Taken + i]
        <4> SUFFICES ASSUME NEW i \in 1..Len(Items')
                     PROVE  Items'[i] = accepted'[Taken + i]
          OBVIOUS
        <4>0. Taken = Len(accepted) - Len(Items) /\ Taken >= 0
          BY <3>4 DEF OutputInv, Order, Taken
        <4>1. CASE i = Len(Items) + 1
          <5>0. Len(accepted) \in Nat /\ Len(Items) \in Nat
            BY <2>1
          <5>1. Taken + i = Len(accepted) + 1
            BY <4>0, <4>1, <5>0
          <5> QED
            BY <2>4, <3>3, <4>1, <5>1
        <4>2. CASE i # Len(Items) + 1
          <5>1. i \in 1..Len(Items)
            BY <2>1, <3>3, <4>2
          <5>2. Taken + i \in 1..Len(accepted)
            BY <2>1, <4>0, <5>1
          <5> QED
            BY <2>4, <3>3, <5>1, <5>2 DEF OutputInv, Order
        <4> QED
          BY <4>1, <4>2
      <3>7. \A i \in 1..Len(accepted) : accepted'[i] = accepted[i]
        BY <2>4
      <3>8. Taken <= Len(accepted) /\ (Kind = "value" => Taken >= 1)
        <4>1. Taken <= Len(accepted)
          BY <2>1 DEF Taken
        <4>2. Kind = "value" => Held = 1
          BY DEF Held
        <4> QED
          BY <3>4, <4>1, <4>2 DEF OutputInv, Order
      <3>9. Kind = "value" => output'.results["pump"].value = accepted'[Taken]
        BY <2>1, <2>4, <3>2, <3>4, <3>8 DEF OutputInv, Order
      <3>10. \A i \in 1..Len(sent) : sent[i] = accepted'[i]
        <4>1. \A i \in 1..Len(sent) : i \in 1..Len(accepted)
          BY <2>1, <3>4, <3>8 DEF OutputInv, Order
        <4> QED
          BY <2>4, <4>1 DEF OutputInv, Order
      <3>11. Order'
        BY <1>1, <3>2, <3>4, <3>6, <3>9, <3>10 DEF OutputInv, Order
      <3> QED
        BY <2>5, <2>6, <3>5, <3>11 DEF OutputInv
    <2>8. CASE output.consumers # {}
      <3>1. /\ pump = "waiting" /\ Kind = "pending"
            /\ output.consumers = {"pump"} /\ Items = <<>>
            /\ ~output.terminated
        BY <2>8 DEF OutputInv, PumpState
      <3>2. /\ Items' = <<>> /\ output'.consumers = {}
            /\ output'.terminated = output.terminated
            /\ Kind' = "value" /\ output'.results["pump"].value = w
        BY <2>2, <2>3, <2>8, <3>1 DEF Kind
      <3>3. /\ Taken = Len(accepted) /\ Taken' = Len(accepted) + 1
            /\ Held = 0 /\ Held' = 1
        BY <2>1, <2>4, <3>1, <3>2 DEF Taken, Held
      <3>4. PumpState' /\ EndState'
        BY <1>1, <3>1, <3>2 DEF OutputInv, PumpState, EndState
      <3>5. \A i \in 1..Len(sent) : sent[i] = accepted'[i]
        <4>1. \A i \in 1..Len(sent) : i \in 1..Len(accepted)
          BY <2>1, <3>3 DEF OutputInv, Order
        <4> QED
          BY <2>4, <4>1 DEF OutputInv, Order
      <3>6. Order'
        BY <1>1, <2>1, <2>4, <3>2, <3>3, <3>5 DEF OutputInv, Order
      <3> QED
        BY <2>5, <2>6, <3>4, <3>6 DEF OutputInv
    <2> QED
      BY <2>7, <2>8
  <1> QED
    BY <1>2, <1>3 DEF Write

\* writeEnd() tells a pump that waits of the end: nothing is queued then.
LEMMA WriteEndOutput ==
  ASSUME OutputInv, WriteEnd
  PROVE  OutputInv'
  <1> DEFINE p == Q!Terminate(output)
             D == Writes \cup {EndOfWrites}
  <1>1. /\ output \in Queues(Writes, D)
        /\ accepted \in Seq(Writes) /\ Len(accepted) \in 0..MaxWrites
        /\ Len(Items) \in Nat
        /\ EndOfWrites \in D /\ "pump" \in Users
        /\ UNCHANGED <<socket, pump, writeCalls, accepted, sent>>
        /\ ending' = Len(accepted)
    BY WebSocketAssumption
    DEF OutputInv, OutputType, WriteEnd, Queues, Users, Items
  <1> HIDE DEF D
  <1>2. /\ p \in Queues(Writes, D)
        /\ p.items = Items /\ p.drains = output.drains
        /\ p.terminated /\ p.consumers = {}
        /\ \A c \in output.consumers : p.results[c].kind = "done"
        /\ \A c \in Users \ output.consumers : p.results[c] = output.results[c]
    BY <1>1, TerminateFields DEF Items
  <1>3. output' = Q!Drained(p, EndOfWrites)
    BY DEF WriteEnd
  <1> HIDE DEF p
  <1>4. /\ output' \in Queues(Writes, D)
        /\ Items' = Items /\ output'.consumers = {}
        /\ output'.terminated /\ output'.results = p.results
        /\ Items = <<>> => output'.drains = output.drains
    BY <1>1, <1>2, <1>3, DrainedFields DEF Items
  <1>5. OutputType'
    BY <1>1, <1>4 DEF OutputInv, OutputType, D
  <1>6. NoLostDrain'
    BY <1>4 DEF OutputInv, NoLostDrain, Items
  <1>7. Taken' = Taken
    BY <1>1, <1>4 DEF Taken
  <1>8. CASE Kind = "pending"
    <2>1. output.consumers = {"pump"} /\ Items = <<>> /\ pump = "waiting"
      BY <1>8 DEF OutputInv, PumpState
    <2>2. Kind' = "done" /\ Held' = Held
      BY <1>2, <1>4, <1>8, <2>1 DEF Kind, Held
    <2>3. Taken = Len(accepted)
      BY <1>1, <2>1 DEF Taken
    <2>4. PumpState' /\ EndState'
      BY <1>1, <1>4, <1>7, <2>1, <2>2, <2>3 DEF PumpState, EndState
    <2>5. Order'
      BY <1>1, <1>4, <1>7, <1>8, <2>2 DEF OutputInv, Order
    <2> QED
      BY <1>5, <1>6, <2>4, <2>5 DEF OutputInv
  <1>9. CASE Kind # "pending"
    <2>1. output.consumers = {}
      BY <1>9 DEF OutputInv, PumpState
    <2>2. /\ output'.results["pump"] = output.results["pump"]
          /\ Kind' = Kind /\ Held' = Held
      BY <1>1, <1>2, <1>4, <2>1 DEF Kind, Held
    <2>3. ending = -1 /\ Kind # "done"
      BY DEF WriteEnd, OutputInv, EndState
    <2>4. PumpState' /\ EndState'
      BY <1>1, <1>4, <1>7, <1>9, <2>1, <2>2, <2>3
      DEF OutputInv, PumpState, EndState
    <2>5. Order'
      BY <1>1, <1>4, <1>7, <2>2 DEF OutputInv, Order
    <2> QED
      BY <1>5, <1>6, <2>4, <2>5 DEF OutputInv
  <1> QED
    BY <1>8, <1>9

\* A step that changes the socket and the pump only.
LEMMA QueueKept ==
  ASSUME OutputInv, UNCHANGED <<output, writeCalls, accepted, sent, ending>>,
         socket' \in {"connecting", "open", "closing", "closed"},
         socket' \in {"connecting", "open"} => socket \in {"connecting", "open"},
         pump' \in {"waiting", "opening", "sending", "returned", "ended"},
         pump' = "waiting" => pump = "waiting",
         Kind = "pending" => pump' = pump,
         pump' \in {"opening", "sending", "returned"} => Kind = "value",
         pump' = "sending" => socket' # "connecting",
         pump' = "ended" => Kind = "done"
  PROVE  OutputInv'
  <1>1. OutputType'
    BY DEF OutputInv, OutputType
  <1>2. Kind' = Kind /\ Held' = Held /\ Taken' = Taken /\ Items' = Items
    BY DEF Kind, Held, Taken, Items
  <1>3. PumpState'
    <2>1. output.consumers = IF pump' = "waiting" /\ Kind = "pending"
                               THEN {"pump"} ELSE {}
      BY DEF OutputInv, PumpState
    <2> QED
      BY <1>2, <2>1 DEF OutputInv, PumpState
  <1>4. EndState' /\ Order' /\ NoLostDrain'
    BY <1>2 DEF OutputInv, EndState, Order, NoLostDrain
  <1> QED
    BY <1>1, <1>3, <1>4 DEF OutputInv

\* The pump sends what it holds, and takes the next write from the queue.
LEMMA PumpSendsOutput ==
  ASSUME OutputInv, PumpSends
  PROVE  OutputInv'
  <1> DEFINE D == Writes \cup {EndOfWrites}
             value == output.results["pump"].value
  <1>1. /\ output \in Queues(Writes, D)
        /\ accepted \in Seq(Writes) /\ sent \in Seq(Writes)
        /\ Items \in Seq(Writes) /\ Len(accepted) \in Nat
        /\ Len(Items) \in Nat /\ Len(sent) \in Nat
        /\ pump = "sending" /\ pump' = "waiting" /\ "pump" \in Users
        /\ UNCHANGED <<socket, writeCalls, accepted, ending>>
        /\ output' = Q!Consume(output, "pump")
    BY DEF OutputInv, OutputType, PumpSends, Queues, Users, Items
  <1> HIDE DEF D
  <1>2. /\ Kind = "value" /\ output.consumers = {}
        /\ socket # "connecting"
    BY <1>1 DEF OutputInv, PumpState
  <1>3. /\ Taken \in Int /\ Taken = Len(accepted) - Len(Items) /\ Taken >= 1
        /\ value = accepted[Taken]
        /\ Len(sent) <= Taken - 1
        /\ \A i \in 1..Len(sent) : sent[i] = accepted[i]
        /\ socket = "open" => Len(sent) = Taken - 1
    BY <1>1, <1>2 DEF OutputInv, Order, Taken, Held
  <1>4. value \in Writes
    <2>1. Taken \in 1..Len(accepted)
      BY <1>1, <1>3
    <2> HIDE DEF value
    <2> QED
      BY <1>1, <1>3, <2>1
  <1>5. /\ sent' \in Seq(Writes) /\ Len(sent') <= Taken
        /\ \A i \in 1..Len(sent') : sent'[i] = accepted[i]
        /\ socket = "open" => Len(sent') = Taken
    <2>1. CASE socket = "open"
      <3>1. sent' = Append(sent, value)
        BY <2>1 DEF PumpSends
      <3> HIDE DEF value
      <3>2. /\ sent' \in Seq(Writes) /\ Len(sent') = Len(sent) + 1
            /\ \A i \in 1..Len(sent) : sent'[i] = sent[i]
            /\ sent'[Len(sent) + 1] = value
        BY <1>1, <1>4, <3>1
      <3>3. Len(sent') = Taken
        BY <1>1, <1>3, <2>1, <3>2
      <3>4. \A i \in 1..Len(sent') : i \in 1..Len(sent) \/ i = Taken
        BY <1>1, <1>3, <2>1, <3>3
      <3>5. sent'[Taken] = accepted[Taken]
        BY <1>1, <1>3, <2>1, <3>2
      <3> QED
        BY <1>3, <3>2, <3>3, <3>4, <3>5
    <2>2. CASE socket # "open"
      <3>1. sent' = sent
        BY <2>2 DEF PumpSends
      <3> QED
        BY <1>1, <1>3, <2>2, <3>1
    <2> QED
      BY <2>1, <2>2
  <1>6. /\ output' \in Queues(Writes, D)
        /\ output'.terminated = output.terminated
        /\ Items # <<>> =>
             /\ Items' = Tail(Items) /\ output'.consumers = {}
             /\ Kind' = "value" /\ value' = Head(Items)
             /\ output'.drains = IF Len(Items) = 1 THEN {} ELSE output.drains
        /\ Items = <<>> =>
             /\ Items' = <<>> /\ output'.drains = output.drains
             /\ output.terminated => Kind' = "done" /\ output'.consumers = {}
             /\ ~output.terminated => /\ Kind' = "pending"
                                      /\ output'.consumers = {"pump"}
    BY <1>1, <1>2, ConsumeFields DEF Kind, Items
  <1>7. OutputType'
    BY <1>1, <1>5, <1>6 DEF OutputInv, OutputType, D
  <1> HIDE DEF value
  <1>8. CASE Items # <<>>
    <2>1. /\ Len(Items) >= 1 /\ Items' \in Seq(Writes)
          /\ Len(Items') = Len(Items) - 1 /\ value' = Items[1]
          /\ \A i \in 1..Len(Items') : Items'[i] = Items[i + 1]
      BY <1>1, <1>6, <1>8
    <2>2. Taken' = Taken + 1 /\ Held' = 1
      BY <1>1, <1>3, <1>6, <1>8, <2>1 DEF Taken, Held
    <2>3. \A i \in 1..Len(Items) : Items[i] = accepted[Taken + i]
      BY DEF OutputInv, Order
    <2>4. value' = accepted[Taken + 1]
      BY <1>1, <2>1, <2>3
    <2>5. \A i \in 1..Len(Items') : Items'[i] = accepted[Taken + 1 + i]
      <3> SUFFICES ASSUME NEW i \in 1..Len(Items')
                   PROVE  Items'[i] = accepted[Taken + 1 + i]
        OBVIOUS
      <3>1. i + 1 \in 1..Len(Items) /\ Taken + (i + 1) = Taken + 1 + i
        BY <1>1, <1>3, <2>1
      <3> QED
        BY <2>1, <2>3, <3>1
    <2>6. Order'
      <3>1. Len(sent') <= Taken' - Held' /\ Held' <= Taken'
        BY <1>1, <1>3, <1>5, <2>2
      <3>2. socket' \in {"connecting", "open"} => Len(sent') = Taken' - Held'
        <4>1. socket' \in {"connecting", "open"} => socket = "open"
          BY <1>1, <1>2
        <4>2. Taken' - Held' = Taken
          BY <1>3, <2>2
        <4> QED
          BY <1>5, <4>1, <4>2
      <3>3. \A i \in 1..Len(Items') : Items'[i] = accepted'[Taken' + i]
        BY <1>1, <2>2, <2>5
      <3>4. value' = accepted'[Taken']
        BY <1>1, <2>2, <2>4
      <3>5. \A i \in 1..Len(sent') : sent'[i] = accepted'[i]
        BY <1>1, <1>5
      <3> QED
        BY <3>1, <3>2, <3>3, <3>4, <3>5 DEF Order, value
    <2>7. PumpState' /\ EndState'
      BY <1>1, <1>6, <1>8 DEF OutputInv, PumpState, EndState
    <2>8. NoLostDrain'
      <3>1. Len(Items) # 1 => Items' # <<>>
        BY <1>1, <2>1
      <3> QED
        BY <1>6, <1>8, <3>1 DEF NoLostDrain, Items
    <2> QED
      BY <1>7, <2>6, <2>7, <2>8 DEF OutputInv
  <1>9. CASE Items = <<>>
    <2>1. Taken = Len(accepted) /\ Taken' = Len(accepted) /\ Held' = 0
      BY <1>1, <1>3, <1>6, <1>9 DEF Taken, Held
    <2>2. Order'
      BY <1>1, <1>2, <1>3, <1>5, <1>6, <1>9, <2>1 DEF Order
    <2>3. PumpState'
      BY <1>1, <1>6, <1>9 DEF PumpState
    <2>4. EndState'
      <3>1. ending <= Len(accepted)
        BY DEF OutputInv, OutputType
      <3> QED
        BY <1>1, <1>6, <1>9, <2>1, <3>1 DEF OutputInv, EndState
    <2>5. NoLostDrain'
      BY <1>6, <1>9 DEF OutputInv, NoLostDrain, Items
    <2> QED
      BY <1>7, <2>2, <2>3, <2>4, <2>5 DEF OutputInv
  <1> QED
    BY <1>8, <1>9

\* The steps of the pump and of the socket that leave the queue alone.
LEMMA SocketOutput ==
  ASSUME OutputInv,
         PumpTakes \/ PumpEnds \/ Close \/ SocketOpens \/ SocketCloses
  PROVE  OutputInv'
  <1>1. /\ socket \in {"connecting", "open", "closing", "closed"}
        /\ pump \in {"waiting", "opening", "sending", "returned", "ended"}
        /\ pump \in {"opening", "sending", "returned"} => Kind = "value"
        /\ pump = "sending" => socket # "connecting"
        /\ pump = "ended" => Kind = "done"
        /\ Kind = "pending" => pump = "waiting"
    BY DEF OutputInv, OutputType, PumpState
  <1>2. CASE PumpTakes
    BY <1>1, <1>2, QueueKept DEF PumpTakes, Kind
  <1>3. CASE PumpEnds
    BY <1>1, <1>3, QueueKept DEF PumpEnds, SocketClose, Kind
  <1>4. CASE Close
    BY <1>1, <1>4, QueueKept DEF Close, SocketClose, outputVars
  <1>5. CASE SocketOpens
    BY <1>1, <1>5, QueueKept DEF SocketOpens
  <1>6. CASE SocketCloses
    BY <1>1, <1>6, QueueKept DEF SocketCloses
  <1> QED
    BY <1>2, <1>3, <1>4, <1>5, <1>6

\* Every step keeps OutputInv.
LEMMA NextOutput == OutputInv /\ [Next]_vars => OutputInv'
  <1> SUFFICES ASSUME OutputInv, [Next]_vars PROVE OutputInv'
    OBVIOUS
  <1>1. CASE Write \/ WriteEnd \/ PumpSends
    BY <1>1, WriteOutput, WriteEndOutput, PumpSendsOutput
  <1>2. CASE PumpTakes \/ PumpEnds \/ Close \/ SocketOpens \/ SocketCloses
    BY <1>2, SocketOutput
  <1>3. CASE UNCHANGED <<socket, outputVars>>
    BY <1>3 DEF OutputInv, OutputType, PumpState, EndState, Order, NoLostDrain,
                Kind, Held, Taken, Items, outputVars
  <1>4. CASE \/ \E kind \in Kinds : Arrive(kind)
             \/ \E n \in 1..MaxArrivals : BlobRead(n)
             \/ Pull \/ Yield \/ UNCHANGED vars
    BY <1>3, <1>4 DEF Arrive, BlobRead, Pull, Yield, vars
  <1> QED
    BY <1>1, <1>2, <1>4 DEF Next

\* What is sent, held and queued is what was accepted, in order, whatever the
\* socket and the caller do meanwhile.
THEOREM OutputInvCorrect == Spec => []OutputInv
  BY InitOutput, NextOutput, PTL DEF Spec

\* Chunks go out in the order written, without gaps.
THEOREM OutputInOrderCorrect == Spec => []OutputInOrder
  <1>1. OutputInv => OutputInOrder
    <2> SUFFICES ASSUME OutputInv PROVE IsPrefix(sent, accepted)
      BY DEF OutputInOrder
    <2>1. /\ accepted \in Seq(Writes) /\ sent \in Seq(Writes)
          /\ Len(accepted) \in Nat /\ Len(sent) \in Nat /\ Len(Items) \in Nat
          /\ \A i \in 1..Len(sent) : sent[i] = accepted[i]
      BY DEF OutputInv, OutputType, Order, Queues, Items
    <2>2. Held \in {0, 1}
      BY DEF Held
    <2>3. Len(sent) <= Len(accepted)
      BY <2>1, <2>2 DEF OutputInv, Order, Taken
    <2>4. sent = SubSeq(accepted, 1, Len(sent))
      BY <2>1, <2>3
    <2> QED
      BY <2>1, <2>3, <2>4 DEF IsPrefix
  <1> QED
    BY <1>1, OutputInvCorrect, PTL

\* No drained() call is left behind by an empty queue.
THEOREM NoLostDrainCorrect == Spec => []NoLostDrain
  <1>1. OutputInv => NoLostDrain
    BY DEF OutputInv
  <1> QED
    BY <1>1, OutputInvCorrect, PTL

\* The pump closes the socket only when all that was written before writeEnd()
\* has been sent.
THEOREM EndSendsAllCorrect == Spec => EndSendsAll
  <1>1. OutputInv /\ [Next]_vars =>
          [(pump' = "ended" /\ pump # "ended" /\ socket = "open")
             => Len(sent) >= ending]_vars
    <2> SUFFICES ASSUME OutputInv, Next, pump' = "ended", pump # "ended",
                        socket = "open"
                 PROVE  Len(sent) >= ending
      OBVIOUS
    <2>1. PumpEnds
      BY DEF Next, Write, WriteEnd, Close, PumpTakes, PumpSends, SocketOpens,
             SocketCloses, Arrive, BlobRead, Pull, Yield, outputVars
    <2>2. Kind = "done"
      BY <2>1 DEF PumpEnds, Kind
    <2>3. ending <= Taken /\ Len(sent) = Taken - 0
      BY <2>2 DEF OutputInv, EndState, Order, Held
    <2>4. /\ Len(accepted) \in Nat /\ Len(Items) \in Nat /\ Len(sent) \in Nat
          /\ ending \in Int
      BY WebSocketAssumption DEF OutputInv, OutputType, Queues, Items
    <2> QED
      BY <2>3, <2>4 DEF Taken
  <1> QED
    BY <1>1, OutputInvCorrect, PTL DEF Spec, EndSendsAll

-----------------------------------------------------------------------------
(* Reading.  What has been yielded, what the reader holds and what is queued *)
(* form one sequence, which grows at its end as messages come in.            *)

Inputs == 1..MaxArrivals

InItems == input.items
InKind == input.results["reader"].kind
InValue == input.results["reader"].value
InHand == IF reader = "waiting" /\ InKind = "value" THEN <<InValue>> ELSE <<>>
Pipeline == (yielded \o InHand) \o InItems

InputType ==
  /\ socket \in {"connecting", "open", "closing", "closed"}
  /\ input \in Queues(Inputs, {})
  /\ reader \in {"idle", "waiting", "ended"}
  /\ arrived \in 0..MaxArrivals
  /\ blobs \subseteq asBlob /\ asBlob \subseteq 1..arrived
  /\ yielded \in Seq(Inputs)

\* The reader waits only over an empty queue, and is told of the end of the
\* connection.
ReaderState ==
  /\ input.consumers = IF reader = "waiting" /\ InKind = "pending"
                         THEN {"reader"} ELSE {}
  /\ reader = "waiting" => InKind \in {"pending", "value", "done"}
  /\ reader = "waiting" /\ InKind = "pending"
       => InItems = <<>> /\ ~input.terminated
  /\ input.terminated => socket = "closed"

\* Behind the end of the queue only blobs come, late.
ReaderEnd ==
  reader = "ended" \/ (reader = "waiting" /\ InKind = "done")
    => /\ input.terminated
       /\ \A i \in 1..Len(InItems) : InItems[i] \in asBlob

\* A sequence that holds every message read once, the bytes in order.
InOrder(s) ==
  /\ \A i \in 1..Len(s) : s[i] \in (1..arrived) \ blobs
  /\ \A i, j \in 1..Len(s) : i < j =>
       /\ s[i] # s[j]
       /\ s[i] \notin asBlob /\ s[j] \notin asBlob => s[i] < s[j]
  /\ \A n \in (1..arrived) \ asBlob : \E i \in 1..Len(s) : s[i] = n

InputInv == InputType /\ ReaderState /\ ReaderEnd /\ InOrder(Pipeline)

\* What is appended to two joined sequences is appended to the second.
LEMMA AppendConcat ==
  ASSUME NEW V, NEW s \in Seq(V), NEW t \in Seq(V), NEW v \in V
  PROVE  s \o Append(t, v) = Append(s \o t, v)
  <1>1. /\ Append(t, v) = t \o <<v>> /\ <<v>> \in Seq(V)
        /\ s \o t \in Seq(V)
    OBVIOUS
  <1>2. Append(s \o t, v) = (s \o t) \o <<v>>
    BY <1>1
  <1> QED
    BY <1>1, <1>2, ConcatAssociative

\* The head of the second of two sequences may be counted to the first.
LEMMA HeadThenTail ==
  ASSUME NEW V, NEW s \in Seq(V), NEW t \in Seq(V), t # <<>>
  PROVE  s \o t = (s \o <<Head(t)>>) \o Tail(t)
  <1>1. /\ Head(t) \in V /\ Tail(t) \in Seq(V) /\ <<Head(t)>> \in Seq(V)
        /\ t = <<Head(t)>> \o Tail(t)
    OBVIOUS
  <1> QED
    BY <1>1, ConcatAssociative

\* The parts of the pipeline are sequences of messages.
LEMMA PipelineParts ==
  ASSUME InputType
  PROVE  /\ InItems \in Seq(Inputs) /\ InHand \in Seq(Inputs)
         /\ yielded \o InHand \in Seq(Inputs)
         /\ Pipeline \in Seq(Inputs)
         /\ InKind = "value" => InValue \in Inputs
  <1>1. /\ InItems \in Seq(Inputs) /\ yielded \in Seq(Inputs)
        /\ InKind = "value" => InValue \in Inputs
    BY DEF InputType, Queues, Results, Users, InItems, InKind, InValue
  <1>2. InHand \in Seq(Inputs)
    BY <1>1 DEF InHand
  <1>3. yielded \o InHand \in Seq(Inputs)
    BY <1>1, <1>2
  <1>4. Pipeline \in Seq(Inputs)
    BY <1>1, <1>3 DEF Pipeline
  <1> QED
    BY <1>1, <1>2, <1>3, <1>4

\* InputInv holds initially.
LEMMA InitInput == Init => InputInv
  <1> SUFFICES ASSUME Init PROVE InputInv
    OBVIOUS
  <1>1. /\ input \in Queues(Inputs, {})
        /\ InItems = <<>> /\ input.consumers = {} /\ ~input.terminated
    BY NewQueueFields DEF Init, InItems
  <1>2. reader = "idle" /\ yielded = <<>> /\ arrived = 0
    BY DEF Init
  <1>3. InputType
    BY <1>1, WebSocketAssumption DEF InputType, Init
  <1>4. ReaderState /\ ReaderEnd
    BY <1>1, <1>2 DEF ReaderState, ReaderEnd
  <1>5. Len(Pipeline) = 0
    BY <1>1, <1>2 DEF Pipeline, InHand
  <1>6. InOrder(Pipeline)
    BY <1>2, <1>5 DEF InOrder
  <1> QED
    BY <1>3, <1>4, <1>6 DEF InputInv

\* What is pushed goes behind everything else, whether the reader waits for it
\* or not.
LEMMA PushInput ==
  ASSUME InputType, ReaderState, ReaderEnd, NEW n \in Inputs,
         input' = Q!Push(input, n), UNCHANGED <<socket, reader, yielded>>,
         asBlob \subseteq asBlob',
         input.terminated => n \in asBlob'
  PROVE  /\ input' \in Queues(Inputs, {})
         /\ Pipeline' = Append(Pipeline, n)
         /\ ReaderState' /\ ReaderEnd'
  <1>1. /\ input \in Queues(Inputs, {}) /\ "reader" \in Users
        /\ yielded \in Seq(Inputs)
    BY DEF InputType, Users
  <1>2. /\ input' \in Queues(Inputs, {})
        /\ input'.terminated = input.terminated
        /\ input.consumers = {} =>
             /\ InItems' = Append(InItems, n)
             /\ input'.consumers = {} /\ input'.results = input.results
        /\ input.consumers # {} =>
             /\ InItems' = InItems /\ input'.consumers = {}
             /\ \A c \in input.consumers : /\ input'.results[c].kind = "value"
                                            /\ input'.results[c].value = n
    BY <1>1, PushFields DEF InItems
  <1>3. CASE input.consumers = {}
    <2>1. /\ InKind' = InKind /\ InHand' = InHand
          /\ ~(reader = "waiting" /\ InKind = "pending")
      BY <1>2, <1>3 DEF InKind, InHand, InValue, ReaderState
    <2>2. Pipeline' = (yielded \o InHand) \o Append(InItems, n)
      BY <1>2, <1>3, <2>1 DEF Pipeline
    <2>3. Pipeline' = Append(Pipeline, n)
      BY <2>2, PipelineParts, AppendConcat DEF Pipeline
    <2>4. ReaderState'
      BY <1>2, <1>3, <2>1 DEF ReaderState
    <2>5. ASSUME input.terminated, \A i \in 1..Len(InItems) : InItems[i] \in asBlob,
                 NEW i \in 1..Len(InItems')
          PROVE  InItems'[i] \in asBlob'
      <3>1. InItems \in Seq(Inputs) /\ InItems' = Append(InItems, n)
        BY <1>2, <1>3, PipelineParts
      <3>2. InItems'[i] = n \/ (i \in 1..Len(InItems) /\ InItems'[i] = InItems[i])
        BY <3>1
      <3> QED
        BY <2>5, <3>2
    <2>6. ReaderEnd'
      BY <1>2, <2>1, <2>5 DEF ReaderEnd
    <2> QED
      BY <1>2, <2>3, <2>4, <2>6
  <1>4. CASE input.consumers # {}
    <2>1. /\ reader = "waiting" /\ InKind = "pending" /\ InItems = <<>>
          /\ input.consumers = {"reader"} /\ ~input.terminated
      BY <1>4 DEF ReaderState
    <2>2. /\ InHand = <<>> /\ InKind' = "value" /\ InValue' = n
          /\ InHand' = <<n>> /\ InItems' = <<>>
      BY <1>2, <1>4, <2>1 DEF InKind, InHand, InValue
    <2>3. Pipeline' = Append(Pipeline, n)
      <3>1. Pipeline = yielded
        BY <1>1, <2>1, <2>2 DEF Pipeline
      <3>2. yielded \o <<n>> = Append(yielded, n)
        BY <1>1
      <3>3. Append(yielded, n) \in Seq(Inputs)
        BY <1>1
      <3>4. Append(yielded, n) \o <<>> = Append(yielded, n)
        BY <3>3
      <3> QED
        BY <2>2, <3>1, <3>2, <3>4 DEF Pipeline
    <2>4. ReaderState' /\ ReaderEnd'
      BY <1>2, <1>4, <2>1, <2>2 DEF ReaderState, ReaderEnd
    <2> QED
      BY <1>2, <2>3, <2>4
  <1> QED
    BY <1>3, <1>4

\* A message that comes, as bytes or as a blob yet to be read.
LEMMA ArriveInput ==
  ASSUME InputInv, NEW kind, Arrive(kind)
  PROVE  InputInv'
  <1>1. /\ InputType /\ ReaderState /\ ReaderEnd /\ InOrder(Pipeline)
        /\ arrived \in 0..MaxArrivals /\ arrived + 1 \in Inputs
        /\ arrived' = arrived + 1 /\ socket # "closed"
        /\ UNCHANGED <<socket, reader, yielded>>
        /\ blobs \subseteq asBlob /\ asBlob \subseteq 1..arrived
    BY WebSocketAssumption DEF InputInv, InputType, Arrive, Inputs
  <1>2. Pipeline \in Seq(Inputs)
    BY <1>1, PipelineParts
  <1>3. CASE input' = Q!Push(input, arrived + 1) /\ UNCHANGED <<blobs, asBlob>>
    <2>1. ~input.terminated
      BY <1>1 DEF ReaderState
    <2>2. /\ input' \in Queues(Inputs, {}) /\ ReaderState' /\ ReaderEnd'
          /\ Pipeline' = Append(Pipeline, arrived + 1)
      BY <1>1, <1>3, <2>1, PushInput
    <2>3. InputType'
      BY <1>1, <1>3, <2>2 DEF InputType, Inputs
    <2>4. /\ Len(Pipeline') = Len(Pipeline) + 1
          /\ \A i \in 1..Len(Pipeline) : Pipeline'[i] = Pipeline[i]
          /\ Pipeline'[Len(Pipeline) + 1] = arrived + 1
          /\ Len(Pipeline) \in Nat
      BY <1>1, <1>2, <2>2
    <2> HIDE DEF Pipeline
    <2>5. InOrder(Pipeline)'
      <3>1. /\ \A i \in 1..Len(Pipeline') :
                 i \in 1..Len(Pipeline) \/ i = Len(Pipeline) + 1
            /\ \A i \in 1..Len(Pipeline) : i < Len(Pipeline) + 1
            /\ Len(Pipeline) + 1 \in 1..Len(Pipeline')
            /\ 1..Len(Pipeline) \subseteq 1..Len(Pipeline')
        BY <2>4
      <3>2. /\ \A i \in 1..Len(Pipeline) :
                 Pipeline[i] \in (1..arrived) \ blobs /\ Pipeline[i] < arrived + 1
            /\ arrived + 1 \in (1..arrived') \ blobs' /\ arrived \in Nat
            /\ 1..arrived' = (1..arrived) \cup {arrived + 1}
        BY <1>1, <1>3 DEF InOrder
      <3>3. \A i \in 1..Len(Pipeline') : Pipeline'[i] \in (1..arrived') \ blobs'
        BY <1>3, <2>4, <3>1, <3>2
      <3>4. ASSUME NEW i \in 1..Len(Pipeline'), NEW j \in 1..Len(Pipeline'), i < j
            PROVE  /\ Pipeline'[i] # Pipeline'[j]
                   /\ Pipeline'[i] \notin asBlob' /\ Pipeline'[j] \notin asBlob'
                        => Pipeline'[i] < Pipeline'[j]
        <4>1. i \in 1..Len(Pipeline)
          BY <2>4, <3>1, <3>4
        <4>2. CASE j \in 1..Len(Pipeline)
          BY <1>1, <1>3, <2>4, <3>4, <4>1, <4>2 DEF InOrder
        <4>3. CASE j = Len(Pipeline) + 1
          BY <2>4, <3>2, <4>1, <4>3
        <4> QED
          BY <3>1, <4>2, <4>3
      <3>5. ASSUME NEW n \in (1..arrived') \ asBlob'
            PROVE  \E i \in 1..Len(Pipeline') : Pipeline'[i] = n
        <4>1. CASE n = arrived + 1
          BY <2>4, <3>1, <4>1
        <4>2. CASE n \in 1..arrived
          BY <1>1, <1>3, <2>4, <3>1, <4>2 DEF InOrder
        <4> QED
          BY <3>2, <4>1, <4>2
      <3> QED
        BY <3>3, <3>4, <3>5 DEF InOrder
    <2> QED
      BY <2>2, <2>3, <2>5 DEF InputInv
  <1>4. CASE /\ blobs' = blobs \cup {arrived + 1}
             /\ asBlob' = asBlob \cup {arrived + 1}
             /\ UNCHANGED input
    <2>1. /\ InItems' = InItems /\ InKind' = InKind /\ InHand' = InHand
          /\ Pipeline' = Pipeline
      BY <1>1, <1>4 DEF InItems, InKind, InValue, InHand, Pipeline
    <2>2. InputType'
      <3>1. blobs' \subseteq asBlob' /\ arrived' \in 0..MaxArrivals
        BY <1>1, <1>4 DEF Inputs
      <3>2. asBlob' \subseteq 1..arrived'
        BY <1>1, <1>4
      <3> QED
        BY <1>1, <1>4, <3>1, <3>2 DEF InputType
    <2>3. ReaderState'
      BY <1>1, <1>4, <2>1 DEF ReaderState
    <2>4. ReaderEnd'
      <3> HIDE DEF InItems, InKind
      <3> QED
        BY <1>1, <1>4, <2>1 DEF ReaderEnd, ReaderState
    <2>5. InOrder(Pipeline)'
      BY <1>1, <1>4, <2>1 DEF InOrder
    <2> QED
      BY <2>2, <2>3, <2>4, <2>5 DEF InputInv
  <1> QED
    BY <1>3, <1>4 DEF Arrive

\* A blob that has been read, maybe out of turn.
LEMMA BlobReadInput ==
  ASSUME InputInv, NEW n \in 1..MaxArrivals, BlobRead(n)
  PROVE  InputInv'
  <1>1. /\ InputType /\ ReaderState /\ ReaderEnd /\ InOrder(Pipeline)
        /\ n \in blobs /\ n \in asBlob /\ n \in Inputs /\ n \in 1..arrived
        /\ UNCHANGED <<socket, reader, yielded, arrived, asBlob>>
        /\ blobs' = blobs \ {n} /\ input' = Q!Push(input, n)
        /\ arrived \in Nat
    BY WebSocketAssumption DEF InputInv, InputType, BlobRead, Inputs
  <1>2. Pipeline \in Seq(Inputs)
    BY <1>1, PipelineParts
  <1>3. /\ input' \in Queues(Inputs, {}) /\ ReaderState' /\ ReaderEnd'
        /\ Pipeline' = Append(Pipeline, n)
    BY <1>1, PushInput
  <1>4. InputType'
    BY <1>1, <1>3 DEF InputType
  <1>5. /\ Len(Pipeline') = Len(Pipeline) + 1
        /\ \A i \in 1..Len(Pipeline) : Pipeline'[i] = Pipeline[i]
        /\ Pipeline'[Len(Pipeline) + 1] = n
        /\ Len(Pipeline) \in Nat
    BY <1>1, <1>2, <1>3
  <1>6. InOrder(Pipeline)'
    <2> HIDE DEF Pipeline
    <2>1. /\ \A i \in 1..Len(Pipeline') :
               i \in 1..Len(Pipeline) \/ i = Len(Pipeline) + 1
          /\ 1..Len(Pipeline) \subseteq 1..Len(Pipeline')
      BY <1>5
    <2>2. \A i \in 1..Len(Pipeline) : Pipeline[i] \in (1..arrived) \ blobs
      BY <1>1 DEF InOrder
    <2>3. \A i \in 1..Len(Pipeline') : Pipeline'[i] \in (1..arrived') \ blobs'
      BY <1>1, <1>5, <2>1, <2>2
    <2>4. ASSUME NEW i \in 1..Len(Pipeline'), NEW j \in 1..Len(Pipeline'), i < j
          PROVE  /\ Pipeline'[i] # Pipeline'[j]
                 /\ Pipeline'[i] \notin asBlob' /\ Pipeline'[j] \notin asBlob'
                      => Pipeline'[i] < Pipeline'[j]
      <3>1. i \in 1..Len(Pipeline)
        BY <1>5, <2>1, <2>4
      <3>2. CASE j \in 1..Len(Pipeline)
        BY <1>1, <1>5, <2>4, <3>1, <3>2 DEF InOrder
      <3>3. CASE j = Len(Pipeline) + 1
        BY <1>1, <1>5, <2>2, <3>1, <3>3
      <3> QED
        BY <2>1, <3>2, <3>3
    <2>5. ASSUME NEW m \in (1..arrived') \ asBlob'
          PROVE  \E i \in 1..Len(Pipeline') : Pipeline'[i] = m
      BY <1>1, <1>5, <2>1 DEF InOrder
    <2> QED
      BY <2>3, <2>4, <2>5 DEF InOrder
  <1> QED
    BY <1>3, <1>4, <1>6 DEF InputInv

\* The reader takes the head of the queue, meets its end or waits.
LEMMA PullInput ==
  ASSUME InputInv, Pull
  PROVE  InputInv'
  <1>1. /\ InputType /\ ReaderState /\ ReaderEnd /\ InOrder(Pipeline)
        /\ input \in Queues(Inputs, {}) /\ "reader" \in Users
        /\ reader = "idle" /\ reader' = "waiting"
        /\ UNCHANGED <<socket, yielded, arrived, blobs, asBlob>>
        /\ input' = Q!Consume(input, "reader")
        /\ yielded \in Seq(Inputs)
    BY DEF InputInv, InputType, Pull, Users
  <1>2. /\ InItems \in Seq(Inputs) /\ InHand = <<>> /\ input.consumers = {}
        /\ Pipeline = yielded \o InItems
    BY <1>1, PipelineParts DEF InHand, ReaderState, Pipeline
  <1>3. /\ input' \in Queues(Inputs, {})
        /\ input'.terminated = input.terminated
        /\ InItems # <<>> =>
             /\ InItems' = Tail(InItems) /\ input'.consumers = {}
             /\ InKind' = "value" /\ InValue' = Head(InItems)
        /\ InItems = <<>> =>
             /\ InItems' = <<>>
             /\ input.terminated => InKind' = "done" /\ input'.consumers = {}
             /\ ~input.terminated => /\ InKind' = "pending"
                                     /\ input'.consumers = {"reader"}
    BY <1>1, <1>2, ConsumeFields DEF InItems, InKind, InValue
  <1>4. InputType'
    BY <1>1, <1>3 DEF InputType
  <1>5. ReaderState'
    BY <1>1, <1>3 DEF ReaderState
  <1>6. ReaderEnd'
    <2>1. CASE InItems # <<>>
      BY <1>1, <1>3, <2>1 DEF ReaderEnd
    <2>2. CASE InItems = <<>>
      <3>1. Len(InItems') = 0
        BY <1>3, <2>2
      <3> QED
        BY <1>1, <1>3, <2>2, <3>1 DEF ReaderEnd
    <2> QED
      BY <2>1, <2>2
  <1>7. Pipeline' = Pipeline
    <2>1. CASE InItems # <<>>
      <3>1. Pipeline' = (yielded \o <<Head(InItems)>>) \o Tail(InItems)
        BY <1>1, <1>3, <2>1 DEF Pipeline, InHand
      <3> QED
        BY <1>1, <1>2, <2>1, <3>1, HeadThenTail
    <2>2. CASE InItems = <<>>
      <3>1. InKind' # "value" /\ InHand' = <<>> /\ InItems' = <<>>
        BY <1>3, <2>2 DEF InHand
      <3> QED
        BY <1>1, <1>2, <2>2, <3>1 DEF Pipeline
    <2> QED
      BY <2>1, <2>2
  <1>8. InOrder(Pipeline)'
    BY <1>1, <1>7 DEF InOrder
  <1> QED
    BY <1>4, <1>5, <1>6, <1>8 DEF InputInv

\* The iterator yields what the reader holds, or ends.
LEMMA YieldInput ==
  ASSUME InputInv, Yield
  PROVE  InputInv'
  <1>1. /\ InputType /\ ReaderState /\ ReaderEnd /\ InOrder(Pipeline)
        /\ reader = "waiting"
        /\ UNCHANGED <<socket, input, arrived, blobs, asBlob>>
        /\ yielded \in Seq(Inputs)
        /\ InItems' = InItems /\ InKind' = InKind /\ InValue' = InValue
    BY DEF InputInv, InputType, Yield, outputVars, InItems, InKind, InValue
  <1>2. CASE /\ InKind = "value" /\ reader' = "idle"
             /\ yielded' = Append(yielded, InValue)
    <2>1. InValue \in Inputs /\ InHand = <<InValue>> /\ InHand' = <<>>
      BY <1>1, <1>2, PipelineParts DEF InHand
    <2>2. yielded' \in Seq(Inputs)
      BY <1>1, <1>2, <2>1
    <2>3. InputType' /\ ReaderState' /\ ReaderEnd'
      BY <1>1, <1>2, <2>2 DEF InputType, ReaderState, ReaderEnd
    <2>4. yielded' \o InHand' = yielded \o InHand
      BY <1>1, <1>2, <2>1, <2>2
    <2>5. Pipeline' = Pipeline
      BY <1>1, <2>4 DEF Pipeline
    <2>6. InOrder(Pipeline)'
      BY <1>1, <2>5 DEF InOrder
    <2> QED
      BY <2>3, <2>6 DEF InputInv
  <1>3. CASE InKind = "done" /\ reader' = "ended" /\ UNCHANGED yielded
    <2>1. InputType' /\ ReaderState' /\ ReaderEnd'
      BY <1>1, <1>3 DEF InputType, ReaderState, ReaderEnd
    <2>2. InHand' = InHand /\ Pipeline' = Pipeline
      BY <1>1, <1>3 DEF InHand, Pipeline
    <2>3. InOrder(Pipeline)'
      BY <1>1, <2>2 DEF InOrder
    <2> QED
      BY <2>1, <2>3 DEF InputInv
  <1> QED
    BY <1>2, <1>3 DEF Yield, InKind, InValue

\* The end of the connection ends the queue, which keeps what has come.
LEMMA SocketClosesInput ==
  ASSUME InputInv, SocketCloses
  PROVE  InputInv'
  <1>1. /\ InputType /\ ReaderState /\ ReaderEnd /\ InOrder(Pipeline)
        /\ input \in Queues(Inputs, {}) /\ "reader" \in Users
        /\ socket' = "closed" /\ input' = Q!Terminate(input)
        /\ UNCHANGED <<reader, yielded, arrived, blobs, asBlob>>
    BY DEF InputInv, InputType, SocketCloses, Users
  <1>2. /\ input' \in Queues(Inputs, {})
        /\ InItems' = InItems /\ input'.terminated /\ input'.consumers = {}
        /\ \A c \in input.consumers : input'.results[c].kind = "done"
        /\ \A c \in Users \ input.consumers :
             input'.results[c] = input.results[c]
    BY <1>1, TerminateFields DEF InItems
  <1>3. InputType'
    BY <1>1, <1>2 DEF InputType
  <1>4. CASE reader = "waiting" /\ InKind = "pending"
    <2>1. input.consumers = {"reader"} /\ InItems = <<>>
      BY <1>1, <1>4 DEF ReaderState
    <2>2. InKind' = "done" /\ InHand' = <<>> /\ InHand = <<>>
      BY <1>2, <1>4, <2>1 DEF InKind, InHand
    <2>3. ReaderState' /\ ReaderEnd' /\ Pipeline' = Pipeline
      BY <1>1, <1>2, <1>4, <2>1, <2>2 DEF ReaderState, ReaderEnd, Pipeline
    <2>4. InOrder(Pipeline)'
      BY <1>1, <2>3 DEF InOrder
    <2> QED
      BY <1>3, <2>3, <2>4 DEF InputInv
  <1>5. CASE ~(reader = "waiting" /\ InKind = "pending")
    <2>1. input.consumers = {}
      BY <1>1, <1>5 DEF ReaderState
    <2>2. InKind' = InKind /\ InHand' = InHand
      BY <1>1, <1>2, <2>1 DEF InKind, InValue, InHand
    <2>3. ReaderState' /\ ReaderEnd' /\ Pipeline' = Pipeline
      BY <1>1, <1>2, <1>5, <2>2 DEF ReaderState, ReaderEnd, Pipeline
    <2>4. InOrder(Pipeline)'
      BY <1>1, <2>3 DEF InOrder
    <2> QED
      BY <1>3, <2>3, <2>4 DEF InputInv
  <1> QED
    BY <1>4, <1>5

\* Every step keeps InputInv.
LEMMA NextInput == InputInv /\ [Next]_vars => InputInv'
  <1> SUFFICES ASSUME InputInv, [Next]_vars PROVE InputInv'
    OBVIOUS
  <1>1. CASE \E kind \in Kinds : Arrive(kind)
    BY <1>1, ArriveInput
  <1>2. CASE \E n \in 1..MaxArrivals : BlobRead(n)
    BY <1>2, BlobReadInput
  <1>3. CASE Pull \/ Yield \/ SocketCloses
    BY <1>3, PullInput, YieldInput, SocketClosesInput
  <1>4. ASSUME UNCHANGED inputVars,
               socket' \in {"connecting", "open", "closing", "closed"},
               socket = "closed" => socket' = "closed"
        PROVE  InputInv'
    <2>1. /\ UNCHANGED <<input, reader, arrived, blobs, asBlob, yielded>>
          /\ InItems' = InItems /\ InKind' = InKind /\ InHand' = InHand
          /\ Pipeline' = Pipeline
      BY <1>4 DEF inputVars, InItems, InKind, InValue, InHand, Pipeline
    <2>2. InputType' /\ ReaderState' /\ ReaderEnd'
      BY <1>4, <2>1 DEF InputInv, InputType, ReaderState, ReaderEnd
    <2>3. InOrder(Pipeline)'
      BY <2>1 DEF InputInv, InOrder
    <2> QED
      BY <2>2, <2>3 DEF InputInv
  <1>5. CASE Write \/ WriteEnd \/ PumpTakes \/ PumpSends \/ UNCHANGED vars
    <2>1. UNCHANGED socket /\ UNCHANGED inputVars
      BY <1>5 DEF Write, WriteEnd, PumpTakes, PumpSends, vars
    <2> QED
      BY <1>4, <2>1 DEF InputInv, InputType
  <1>6. CASE Close \/ PumpEnds \/ SocketOpens
    BY <1>4, <1>6 DEF Close, PumpEnds, SocketOpens, SocketClose, InputInv,
                      InputType
  <1> QED
    BY <1>1, <1>2, <1>3, <1>5, <1>6 DEF Next

\* What is yielded, held and queued is what came in, each message once, the
\* bytes in order.
THEOREM InputInvCorrect == Spec => []InputInv
  BY InitInput, NextInput, PTL DEF Spec

\* The iterator yields no chunk twice, the bytes in order, and ends only when it
\* has yielded all of them.
THEOREM InputInOrderCorrect == Spec => []InputInOrder
  <1>1. InputInv => InputInOrder
    <2> SUFFICES ASSUME InputInv PROVE InputInOrder
      OBVIOUS
    <2> DEFINE t == yielded \o InHand
    <2>1. /\ InputType /\ InOrder(Pipeline)
          /\ yielded \in Seq(Inputs) /\ InHand \in Seq(Inputs)
          /\ InItems \in Seq(Inputs) /\ t \in Seq(Inputs)
          /\ Len(yielded) \in Nat /\ Len(InItems) \in Nat
      BY PipelineParts DEF InputInv, InputType
    <2>2. /\ Len(t) \in Nat /\ Len(yielded) <= Len(t)
          /\ \A i \in 1..Len(yielded) : t[i] = yielded[i]
      BY <2>1
    <2> HIDE DEF t
    <2>3. /\ Len(Pipeline) = Len(t) + Len(InItems)
          /\ \A i \in 1..Len(t) : Pipeline[i] = t[i]
          /\ \A i \in 1..Len(InItems) : Pipeline[Len(t) + i] = InItems[i]
      BY <2>1, <2>2 DEF Pipeline, t
    <2>4. \A i \in 1..Len(yielded) :
            i \in 1..Len(Pipeline) /\ Pipeline[i] = yielded[i]
      <3> HIDE DEF Pipeline
      <3>1. 1..Len(yielded) \subseteq 1..Len(t) /\ 1..Len(t) \subseteq 1..Len(Pipeline)
        BY <2>1, <2>2, <2>3
      <3> QED
        BY <2>2, <2>3, <3>1, Zenon
    <2>5. \A i, j \in 1..Len(yielded) : i < j =>
            /\ yielded[i] # yielded[j]
            /\ {yielded[i], yielded[j]} \cap asBlob = {}
                 => yielded[i] < yielded[j]
      BY <2>1, <2>4 DEF InOrder
    <2>6. ASSUME reader = "ended", NEW n \in (1..arrived) \ asBlob
          PROVE  n \in Range(yielded)
      <3>1. PICK i \in 1..Len(Pipeline) : Pipeline[i] = n
        BY <2>1 DEF InOrder
      <3>2. t = yielded
        BY <2>1, <2>6 DEF t, InHand
      <3>3. \A k \in 1..Len(InItems) : InItems[k] # n
        BY <2>6 DEF InputInv, ReaderEnd
      <3>4. ~(i > Len(t))
        <4> SUFFICES ASSUME i > Len(t) PROVE FALSE
          OBVIOUS
        <4>1. i - Len(t) \in 1..Len(InItems) /\ Len(t) + (i - Len(t)) = i
          BY <2>1, <2>2, <2>3
        <4> QED
          BY <2>3, <3>1, <3>3, <4>1
      <3>5. i \in 1..Len(yielded) /\ yielded[i] = n
        BY <2>1, <2>2, <2>3, <3>1, <3>2, <3>4
      <3> QED
        BY <2>1, <3>5 DEF Range
    <2> QED
      BY <2>5, <2>6 DEF InputInOrder
  <1> QED
    BY <1>1, InputInvCorrect, PTL

-----------------------------------------------------------------------------
\* Types, and that the output queue has a consumer exactly while the pump waits.
THEOREM TypeCorrect == Spec => []TypeOK
  <1>1. OutputInv /\ InputInv => TypeOK
    <2> SUFFICES ASSUME OutputInv, InputInv PROVE TypeOK
      OBVIOUS
    <2>1. /\ socket \in {"connecting", "open", "closing", "closed"}
          /\ pump \in {"waiting", "opening", "sending", "returned", "ended"}
          /\ reader \in {"idle", "waiting", "ended"}
          /\ writeCalls \in 0..MaxWrites /\ ending \in -1..MaxWrites
          /\ arrived \in 0..MaxArrivals
          /\ blobs \subseteq asBlob /\ asBlob \subseteq 1..MaxArrivals
      BY WebSocketAssumption DEF OutputInv, OutputType, InputInv, InputType
    <2>2. /\ accepted \in Seq(Writes) /\ sent \in Seq(Writes)
          /\ output.items \in Seq(Writes)
          /\ output.drains \subseteq Writes \cup {EndOfWrites}
      BY DEF OutputInv, OutputType, Queues
    <2>3. yielded \in Seq(Inputs) /\ input.items \in Seq(Inputs)
      BY DEF InputInv, InputType, Queues
    <2>4. ASSUME NEW V, NEW s \in Seq(V) PROVE Range(s) \subseteq V
      BY DEF Range
    <2>5. \A s \in {accepted, sent, output.items} : Range(s) \subseteq Writes
      BY <2>2, <2>4
    <2>6. \A s \in {yielded, input.items} : Range(s) \subseteq 1..MaxArrivals
      BY <2>3, <2>4 DEF Inputs
    <2>7. output.consumers = IF pump = "waiting"
                                  /\ output.results["pump"].kind = "pending"
                               THEN {"pump"} ELSE {}
      BY DEF OutputInv, PumpState, Kind
    <2> QED
      BY <2>1, <2>2, <2>5, <2>6, <2>7 DEF TypeOK
  <1> QED
    BY <1>1, OutputInvCorrect, InputInvCorrect, PTL
=============================================================================
