------------------------- MODULE MessageQueueProofs -------------------------
(***************************************************************************)
(* Theorems about MessageQueue, for any number of messages and of calls.   *)
(***************************************************************************)
EXTENDS MessageQueue, TLAPS

\* What the calls have come to when h of them have a message, the w after
\* these wait, and all others of the k made so far were told of the end.
Outcomes(h, w, k) ==
  [c \in Calls |-> IF c <= h THEN c
                   ELSE IF c <= h + w THEN Waiting
                   ELSE IF c <= k THEN Terminated
                   ELSE Uncalled]

\* The messages or calls of s are h+1, h+2, ... without a gap.
Follow(s, h) == \A i \in 1..Len(s) : s[i] = h + i

\* h messages have been handed out, to the first h calls.
Handed(h) ==
  /\ Follow(queue, h) /\ Follow(consumers, h)
  /\ h + Len(consumers) <= calls
  /\ results = Outcomes(h, Len(consumers), calls)
  /\ queue # <<>> => h = calls
  /\ loop # "returned" => h + Len(consumers) = calls
  /\ loop = "receive" => h + Len(queue) = received
  /\ loop = "readBody" => h + Len(queue) = received - 1
  /\ loop = "returned" => consumers = <<>>

TypeInv ==
  /\ queue \in Seq(Messages) /\ consumers \in Seq(Calls)
  /\ terminatedResult \in BOOLEAN
  /\ terminatedResult <=> loop = "returned"
  /\ loop \in {"receive", "readBody", "returned"}
  /\ received \in 0..MaxMessages /\ calls \in 0..MaxCalls

QueueInv == TypeInv /\ \E h \in Nat : Handed(h)

-----------------------------------------------------------------------------
\* dequeue hands as many messages as there are callers to the callers in turn,
\* and tells the others of the end if there is one.
LEMMA DequeueHands ==
  ASSUME NEW q \in Seq(Messages), NEW cs \in Seq(Calls), NEW ended \in BOOLEAN,
         NEW h \in Nat, NEW k \in Nat,
         Follow(q, h), Follow(cs, h), h + Len(cs) <= k,
         Dequeue(q, cs, ended, Outcomes(h, Len(cs), k))
  PROVE  LET n == DequeueAll(q, cs)
         IN /\ n \in 0..Len(q) /\ n \in 0..Len(cs)
            /\ queue' \in Seq(Messages) /\ Len(queue') = Len(q) - n
            /\ Follow(queue', h + n)
            /\ consumers' \in Seq(Calls) /\ Follow(consumers', h + n)
            /\ Len(consumers') = IF ended THEN 0 ELSE Len(cs) - n
            /\ results' = Outcomes(h + n, Len(consumers'), k)
  <1> DEFINE n == DequeueAll(q, cs)
  <1>1. /\ Len(q) \in Nat /\ Len(cs) \in Nat
        /\ n \in 0..Len(q) /\ n \in 0..Len(cs)
    BY DEF DequeueAll
  <1>2. /\ queue' = SubSeq(q, n + 1, Len(q))
        /\ consumers' = IF ended THEN <<>> ELSE SubSeq(cs, n + 1, Len(cs))
        /\ results' = [c \in Calls |->
             IF \E i \in 1..n : cs[i] = c
               THEN q[CHOOSE i \in 1..n : cs[i] = c]
             ELSE IF ended /\ c \in Range(cs) THEN Terminated
             ELSE Outcomes(h, Len(cs), k)[c]]
    BY DEF Dequeue
  <1> HIDE DEF n
  <1>3. /\ queue' \in Seq(Messages) /\ Len(queue') = Len(q) - n
        /\ Follow(queue', h + n)
    BY <1>1, <1>2 DEF Follow
  <1>4. /\ consumers' \in Seq(Calls) /\ Follow(consumers', h + n)
        /\ Len(consumers') = IF ended THEN 0 ELSE Len(cs) - n
    BY <1>1, <1>2 DEF Follow
  <1>5. results' = Outcomes(h + n, Len(consumers'), k)
    <2> SUFFICES ASSUME NEW c \in Calls
                 PROVE  results'[c] = Outcomes(h + n, Len(consumers'), k)[c]
      BY <1>2 DEF Outcomes
    <2>0. c \in Nat /\ c >= 1
      BY DEF Calls
    <2>1. Outcomes(h, Len(cs), k)[c] =
            IF c <= h THEN c ELSE IF c <= h + Len(cs) THEN Waiting
            ELSE IF c <= k THEN Terminated ELSE Uncalled
      BY DEF Outcomes
    <2>2. Outcomes(h + n, Len(consumers'), k)[c] =
            IF c <= h + n THEN c
            ELSE IF c <= h + n + Len(consumers') THEN Waiting
            ELSE IF c <= k THEN Terminated ELSE Uncalled
      BY DEF Outcomes
    <2>3. (\E i \in 1..n : cs[i] = c) <=> h < c /\ c <= h + n
      <3>1. ASSUME NEW i \in 1..n, cs[i] = c PROVE h < c /\ c <= h + n
        <4>1. i \in 1..Len(cs) /\ i \in Nat /\ i <= n /\ 0 < i
          BY <1>1
        <4>2. c = h + i
          BY <3>1, <4>1 DEF Follow
        <4> QED
          BY <1>1, <4>1, <4>2
      <3>2. ASSUME h < c, c <= h + n PROVE c - h \in 1..n /\ cs[c - h] = c
        BY <1>1, <2>0, <3>2 DEF Follow
      <3> QED
        BY <3>1, <3>2
    <2>4. c \in Range(cs) <=> h < c /\ c <= h + Len(cs)
      <3>1. ASSUME NEW i \in 1..Len(cs), cs[i] = c
            PROVE  h < c /\ c <= h + Len(cs)
        BY <1>1, <3>1 DEF Follow
      <3>2. ASSUME h < c, c <= h + Len(cs)
            PROVE  c - h \in 1..Len(cs) /\ cs[c - h] = c
        BY <1>1, <2>0, <3>2 DEF Follow
      <3>3. DOMAIN cs = 1..Len(cs)
        OBVIOUS
      <3> QED
        BY <3>1, <3>2, <3>3 DEF Range
    <2>5. CASE \E i \in 1..n : cs[i] = c
      <3> DEFINE i == CHOOSE i \in 1..n : cs[i] = c
      <3>1. i \in 1..n /\ cs[i] = c
        BY <2>5
      <3>2. results'[c] = q[i]
        BY <1>2, <2>5
      <3> HIDE DEF i
      <3>3. q[i] = h + i /\ cs[i] = h + i
        BY <1>1, <3>1 DEF Follow
      <3> QED
        BY <2>2, <2>3, <2>5, <3>1, <3>2, <3>3
    <2>6. CASE ~ \E i \in 1..n : cs[i] = c
      <3>1. results'[c] = IF ended /\ c \in Range(cs) THEN Terminated
                          ELSE Outcomes(h, Len(cs), k)[c]
        BY <1>2, <2>6
      <3>2. c <= h \/ h + n < c
        BY <1>1, <2>0, <2>3, <2>6
      <3>3. CASE ended
        BY <1>1, <1>4, <2>0, <2>1, <2>2, <2>4, <3>1, <3>2, <3>3
      <3>4. CASE ~ended
        BY <1>1, <1>4, <2>0, <2>1, <2>2, <3>1, <3>2, <3>4
      <3> QED
        BY <3>3, <3>4
    <2> QED
      BY <2>5, <2>6
  <1> QED
    BY <1>1, <1>3, <1>4, <1>5 DEF n

\* Nothing has been received and nobody has called.
LEMMA InitHanded == Init => QueueInv
  <1> SUFFICES ASSUME Init PROVE QueueInv
    OBVIOUS
  <1>1. TypeInv
    <2>1. queue \in Seq(Messages) /\ consumers \in Seq(Calls)
      BY DEF Init
    <2>2. terminatedResult \in BOOLEAN /\ (terminatedResult <=> loop = "returned")
      BY DEF Init
    <2>3. received \in 0..MaxMessages /\ calls \in 0..MaxCalls
      BY MessageQueueAssumption DEF Init
    <2> QED
      BY <2>1, <2>2, <2>3 DEF Init, TypeInv
  <1>2. results = Outcomes(0, 0, 0)
    BY DEF Init, Outcomes, Calls, Uncalled, Waiting, Terminated
  <1>3. Handed(0)
    BY <1>2 DEF Init, Handed, Follow
  <1> QED
    BY <1>1, <1>3 DEF QueueInv

\* A call takes a queued message, waits, or is told of the end.
LEMMA CallHanded ==
  ASSUME TypeInv, NEW h \in Nat, Handed(h), Call
  PROVE  QueueInv'
  <1> DEFINE cs == Append(consumers, calls + 1)
             n == DequeueAll(queue, cs)
  <1>1. /\ cs \in Seq(Calls) /\ Len(cs) = Len(consumers) + 1
        /\ Len(consumers) \in Nat /\ Len(queue) \in Nat
        /\ calls \in Nat /\ calls' = calls + 1 /\ calls' \in 0..MaxCalls
        /\ UNCHANGED <<terminatedResult, loop, received>>
    BY MessageQueueAssumption DEF TypeInv, Call, Calls
  <1>2. CASE h + Len(consumers) = calls
    <2>1. Follow(cs, h)
      <3>1. /\ cs[Len(consumers) + 1] = calls + 1
            /\ \A i \in 1..Len(consumers) : cs[i] = consumers[i]
        BY <1>1 DEF TypeInv
      <3>2. \A i \in 1..Len(cs) : i \in 1..Len(consumers) \/ i = Len(consumers) + 1
        BY <1>1
      <3>3. \A i \in 1..Len(consumers) : consumers[i] = h + i
        BY DEF Handed, Follow
      <3> HIDE DEF cs
      <3> QED
        BY <1>1, <1>2, <3>1, <3>2, <3>3 DEF Follow
    <2>2. [results EXCEPT ![calls + 1] = Waiting]
            = Outcomes(h, Len(cs), calls + 1)
      <3>1. results = Outcomes(h, Len(consumers), calls)
        BY DEF Handed
      <3> SUFFICES ASSUME NEW c \in Calls
                   PROVE  [results EXCEPT ![calls + 1] = Waiting][c]
                            = Outcomes(h, Len(cs), calls + 1)[c]
        BY <3>1 DEF Outcomes
      <3>2. c \in Nat
        BY DEF Calls
      <3>3. CASE c = calls + 1
        BY <1>1, <1>2, <3>1, <3>2, <3>3 DEF Outcomes
      <3>4. CASE c # calls + 1
        BY <1>1, <1>2, <3>1, <3>2, <3>4 DEF Outcomes
      <3> QED
        BY <3>3, <3>4
    <2>3. Dequeue(queue, cs, terminatedResult, Outcomes(h, Len(cs), calls + 1))
      BY <2>2 DEF Call
    <2> HIDE DEF cs
    <2>4. /\ n \in 0..Len(queue) /\ n \in 0..Len(cs)
          /\ queue' \in Seq(Messages) /\ Len(queue') = Len(queue) - n
          /\ Follow(queue', h + n)
          /\ consumers' \in Seq(Calls) /\ Follow(consumers', h + n)
          /\ Len(consumers') = IF terminatedResult THEN 0 ELSE Len(cs) - n
          /\ results' = Outcomes(h + n, Len(consumers'), calls')
      BY <1>1, <1>2, <2>1, <2>3, DequeueHands DEF TypeInv, Handed
    <2>5. queue # <<>> => n = 1 /\ Len(consumers) = 0
      BY <1>1, <1>2 DEF Handed, DequeueAll, n
    <2>6. queue = <<>> => n = 0
      BY <2>4
    <2> HIDE DEF n
    <2>7. PICK m \in Nat : m = n
      BY <1>1, <2>4
    <2>8. Handed(h + m)'
      <3>1. queue' # <<>> => Len(queue') > 0
        BY <2>4
      <3>2. queue = <<>> => Len(queue) = 0
        OBVIOUS
      <3>3. terminatedResult => consumers' = <<>>
        BY <2>4
      <3>4. queue' # <<>> => queue # <<>>
        BY <1>1, <2>4, <3>1, <3>2
      <3>5. h + m + Len(consumers') <= calls'
        <4>1. Len(consumers') = 0 \/ Len(consumers') = Len(cs) - m
          BY <2>4, <2>7
        <4>2. m <= Len(cs) /\ Len(cs) \in Nat
          BY <1>1, <2>4, <2>7
        <4> QED
          BY <1>1, <1>2, <4>1, <4>2
      <3>6. queue' # <<>> => h + m = calls'
        BY <1>1, <1>2, <2>5, <2>7, <3>4
      <3>7. ~terminatedResult => h + m + Len(consumers') = calls'
        <4>1. PICK k \in Nat : k = Len(consumers)
          BY <1>1
        <4>2. Len(cs) = k + 1 /\ calls' = (h + k) + 1
          BY <1>1, <1>2, <4>1
        <4>3. ~terminatedResult => Len(consumers') = (k + 1) - m
          BY <2>4, <2>7, <4>2
        <4>4. h + m + ((k + 1) - m) = (h + k) + 1
          BY <4>1
        <4> QED
          BY <4>2, <4>3, <4>4
      <3>8. /\ loop = "receive" => h + m + Len(queue') = received
            /\ loop = "readBody" => h + m + Len(queue') = received - 1
        <4>1. Len(queue') = Len(queue) - m /\ received \in Nat
          BY <2>4, <2>7 DEF TypeInv
        <4>2. /\ loop = "receive" => h + Len(queue) = received
              /\ loop = "readBody" => h + Len(queue) = received - 1
          BY DEF Handed
        <4> QED
          BY <1>1, <4>1, <4>2
      <3>9. terminatedResult <=> loop = "returned"
        BY DEF TypeInv
      <3> QED
        BY <1>1, <2>4, <2>7, <3>3, <3>5, <3>6, <3>7, <3>8, <3>9 DEF Handed
    <2>9. TypeInv'
      BY <1>1, <2>4 DEF TypeInv
    <2> QED
      BY <2>7, <2>8, <2>9 DEF QueueInv
  <1>3. CASE h + Len(consumers) # calls
    <2>1. /\ loop = "returned" /\ terminatedResult /\ queue = <<>>
          /\ consumers = <<>> /\ h < calls
      BY <1>1, <1>3 DEF Handed, TypeInv
    <2>2. n = 0
      BY <1>1, <2>1 DEF DequeueAll
    <2>3. cs = <<calls + 1>> /\ Range(cs) = {calls + 1}
      BY <2>1 DEF Range
    <2>4. /\ queue' = <<>> /\ consumers' = <<>>
          /\ results' = [c \in Calls |-> IF c = calls + 1 THEN Terminated
                           ELSE [results EXCEPT ![calls + 1] = Waiting][c]]
      BY <2>1, <2>2, <2>3 DEF Call, Dequeue
    <2>5. results' = Outcomes(h, 0, calls + 1)
      BY <1>1, <2>1, <2>4 DEF Handed, Outcomes, Calls
    <2>6. Handed(h)'
      BY <1>1, <2>1, <2>4, <2>5 DEF Handed, Follow
    <2>7. TypeInv'
      BY <1>1, <2>4 DEF TypeInv
    <2> QED
      BY <2>6, <2>7 DEF QueueInv
  <1> QED
    BY <1>2, <1>3

\* The loop receives a message whose body it still has to read.
LEMMA ReceiveHanded ==
  ASSUME TypeInv, NEW h \in Nat, Handed(h), ReceiveMessage
  PROVE  QueueInv'
  <1>1. TypeInv'
    BY MessageQueueAssumption DEF TypeInv, ReceiveMessage
  <1>2. Handed(h)'
    BY DEF TypeInv, Handed, ReceiveMessage
  <1> QED
    BY <1>1, <1>2 DEF QueueInv

\* A message read to its end goes to the first caller, or into the queue.
LEMMA BodyReadHanded ==
  ASSUME TypeInv, NEW h \in Nat, Handed(h), BodyRead
  PROVE  QueueInv'
  <1> DEFINE q == Queued(received)
             n == DequeueAll(q, consumers)
  <1>1. /\ loop = "readBody" /\ ~terminatedResult /\ loop' = "receive"
        /\ UNCHANGED <<terminatedResult, received, calls>>
        /\ Len(consumers) \in Nat /\ Len(queue) \in Nat
        /\ calls \in Nat /\ received \in Nat
        /\ h + Len(queue) = received - 1 /\ h + Len(consumers) = calls
    BY DEF BodyRead, TypeInv, Handed
  <1>2. /\ q \in Seq(Messages) /\ Len(q) = Len(queue) + 1
        /\ q[Len(queue) + 1] = received
        /\ \A i \in 1..Len(queue) : q[i] = queue[i]
    BY <1>1, MessageQueueAssumption DEF Queued, TypeInv, Messages
  <1>3. Follow(q, h)
    <2>1. \A i \in 1..Len(queue) : queue[i] = h + i
      BY DEF Handed, Follow
    <2>2. PICK k \in Nat : k = Len(queue) /\ h + k = received - 1
      BY <1>1
    <2> HIDE DEF q
    <2>3. ASSUME NEW i \in 1..Len(q) PROVE q[i] = h + i
      <3>1. i \in 1..k \/ i = k + 1
        BY <1>2, <2>2, <2>3
      <3>2. h + (k + 1) = received
        BY <1>1, <2>2
      <3> QED
        BY <1>2, <2>1, <2>2, <3>1, <3>2
    <2> QED
      BY <2>3 DEF Follow
  <1>4. Dequeue(q, consumers, terminatedResult,
                Outcomes(h, Len(consumers), calls))
    BY DEF BodyRead, Handed
  <1> HIDE DEF q
  <1>5. /\ n \in 0..Len(q) /\ n \in 0..Len(consumers)
        /\ queue' \in Seq(Messages) /\ Len(queue') = Len(q) - n
        /\ Follow(queue', h + n)
        /\ consumers' \in Seq(Calls) /\ Follow(consumers', h + n)
        /\ Len(consumers') = Len(consumers) - n
        /\ results' = Outcomes(h + n, Len(consumers'), calls')
    BY <1>1, <1>2, <1>3, <1>4, DequeueHands DEF TypeInv, Handed
  <1>6. /\ consumers # <<>> => n = 1 /\ Len(queue) = 0
        /\ consumers = <<>> => n = 0
    <2>1. consumers = <<>> => Len(consumers) = 0
      OBVIOUS
    <2>2. consumers # <<>> => Len(consumers) > 0
      BY DEF TypeInv
    <2>3. consumers # <<>> => Len(queue) = 0
      BY <1>1, <2>2 DEF Handed
    <2>4. /\ Len(q) < Len(consumers) => n = Len(q)
          /\ ~(Len(q) < Len(consumers)) => n = Len(consumers)
      BY DEF DequeueAll
    <2>5. Len(q) = Len(queue) + 1 /\ Len(consumers) \in Nat
      BY <1>1, <1>2
    <2> HIDE DEF n
    <2>6. CASE consumers = <<>>
      BY <2>1, <2>4, <2>5, <2>6, <1>1
    <2>7. CASE consumers # <<>>
      <3>1. Len(q) = 1 /\ Len(consumers) \in Nat /\ Len(consumers) >= 1
        BY <2>2, <2>3, <2>5, <2>7
      <3>2. n = 1
        BY <2>4, <3>1
      <3> QED
        BY <2>3, <2>7, <3>2
    <2> QED
      BY <2>6, <2>7
  <1> HIDE DEF n
  <1>m. PICK m \in Nat : m = n
    BY <1>1, <1>5
  <1>7. Handed(h + m)'
    <2>1. queue' # <<>> => Len(queue') > 0
      BY <1>5
    <2>2. consumers = <<>> => Len(consumers) = 0
      OBVIOUS
    <2>3. queue' # <<>> => h + m = calls'
      BY <1>1, <1>2, <1>5, <1>6, <1>m, <2>1, <2>2
    <2>4. h + m + Len(consumers') = calls' /\ h + m + Len(queue') = received'
      <3>1. /\ Len(queue') = Len(queue) + 1 - m
            /\ Len(consumers') = Len(consumers) - m
        BY <1>2, <1>5, <1>m
      <3>2. calls' = calls /\ received' = received
        BY <1>1
      <3> QED
        BY <1>1, <3>1, <3>2
    <2> QED
      BY <1>1, <1>5, <1>m, <2>3, <2>4 DEF Handed
  <1>8. TypeInv'
    BY <1>1, <1>5 DEF TypeInv
  <1> QED
    BY <1>m, <1>7, <1>8 DEF QueueInv

\* The loop fails: every caller who waits is told of the end.
LEMMA LoopFailsHanded ==
  ASSUME TypeInv, NEW h \in Nat, Handed(h), LoopFails
  PROVE  QueueInv'
  <1> DEFINE n == DequeueAll(queue, consumers)
  <1>1. /\ loop # "returned" /\ loop' = "returned" /\ terminatedResult' = TRUE
        /\ UNCHANGED <<received, calls>>
        /\ Len(consumers) \in Nat /\ Len(queue) \in Nat /\ calls \in Nat
        /\ h + Len(consumers) = calls
    BY DEF LoopFails, TypeInv, Handed
  <1>2. Dequeue(queue, consumers, TRUE, Outcomes(h, Len(consumers), calls))
    BY DEF LoopFails, Handed
  <1>3. /\ n \in 0..Len(queue) /\ n \in 0..Len(consumers)
        /\ queue' \in Seq(Messages) /\ Len(queue') = Len(queue) - n
        /\ Follow(queue', h + n)
        /\ consumers' \in Seq(Calls) /\ Follow(consumers', h + n)
        /\ Len(consumers') = 0
        /\ results' = Outcomes(h + n, Len(consumers'), calls')
    <2>1. /\ queue \in Seq(Messages) /\ consumers \in Seq(Calls)
          /\ Follow(queue, h) /\ Follow(consumers, h)
      BY DEF TypeInv, Handed
    <2>2. TRUE \in BOOLEAN /\ h + Len(consumers) <= calls
      BY <1>1
    <2>3. /\ n \in 0..Len(queue) /\ n \in 0..Len(consumers)
          /\ queue' \in Seq(Messages) /\ Len(queue') = Len(queue) - n
          /\ Follow(queue', h + n)
          /\ consumers' \in Seq(Calls) /\ Follow(consumers', h + n)
          /\ Len(consumers') = IF TRUE THEN 0 ELSE Len(consumers) - n
          /\ results' = Outcomes(h + n, Len(consumers'), calls)
      BY <1>1, <1>2, <2>1, <2>2, DequeueHands, ZenonT(30)
    <2> QED
      BY <1>1, <2>3
  <1>4. n = 0
    BY <1>1 DEF Handed, TypeInv, DequeueAll
  <1> HIDE DEF n
  <1>5. queue' # <<>> => queue # <<>>
    BY <1>1, <1>3
  <1>6. Handed(h)'
    BY <1>1, <1>3, <1>4, <1>5 DEF Handed
  <1>7. TypeInv'
    BY <1>1, <1>3 DEF TypeInv
  <1> QED
    BY <1>6, <1>7 DEF QueueInv

\* Every step keeps QueueInv.
LEMMA NextHanded == QueueInv /\ [Next]_vars => QueueInv'
  <1> SUFFICES ASSUME TypeInv, NEW h \in Nat, Handed(h), [Next]_vars
               PROVE  QueueInv'
    BY DEF QueueInv
  <1>1. CASE UNCHANGED vars
    <2>1. TypeInv' /\ Handed(h)'
      BY <1>1 DEF TypeInv, Handed, vars
    <2> QED
      BY <2>1 DEF QueueInv
  <1> QED
    BY <1>1, CallHanded, ReceiveHanded, BodyReadHanded, LoopFailsHanded DEF Next

\* The inductive invariant: the messages handed out are 1..h for some h, the
\* calls that have them are 1..h as well, and the queue and the callers who wait
\* go on from there.
THEOREM QueueInvCorrect == Spec => []QueueInv
  BY InitHanded, NextHanded, PTL DEF Spec

-----------------------------------------------------------------------------
\* The n-th call gets the n-th message.
THEOREM CallsInOrderCorrect == Spec => []CallsInOrder
  <1>1. QueueInv => CallsInOrder
    BY DEF QueueInv, Handed, Outcomes, CallsInOrder, Messages, Uncalled,
           Waiting, Terminated
  <1> QED
    BY <1>1, QueueInvCorrect, PTL

\* No call waits while a message is queued or after the loop has returned.
THEOREM NobodyWaitsCorrect == Spec => []NobodyWaitsInVain
  <1>1. QueueInv => NobodyWaitsInVain
    <2> SUFFICES ASSUME TypeInv, NEW h \in Nat, Handed(h), NEW c \in Calls,
                        results[c] = Waiting
                 PROVE  queue = <<>> /\ loop # "returned"
      BY DEF QueueInv, NobodyWaitsInVain
    <2>1. Len(consumers) \in Nat /\ c \in Nat /\ c >= 1 /\ calls \in Nat
      BY DEF TypeInv, Calls
    <2>2. c > h /\ c <= h + Len(consumers)
      BY <2>1 DEF Handed, Outcomes, Waiting, Terminated, Uncalled
    <2> QED
      BY <2>1, <2>2 DEF Handed
  <1> QED
    BY <1>1, QueueInvCorrect, PTL

\* A call is told of the end only after every message read has been handed out.
THEOREM MessagesBeforeEndCorrect == Spec => []MessagesBeforeEnd
  <1>1. QueueInv => MessagesBeforeEnd
    <2> SUFFICES ASSUME TypeInv, NEW h \in Nat, Handed(h), NEW c \in Calls,
                        results[c] = Terminated
                 PROVE  /\ queue = <<>>
                        /\ \A d \in Calls : d > c => results[d] \notin Messages
      BY DEF QueueInv, MessagesBeforeEnd
    <2>1. Len(consumers) \in Nat /\ c \in Nat /\ c >= 1 /\ calls \in Nat
      BY DEF TypeInv, Calls
    <2>2. c > h /\ c <= calls
      BY <2>1 DEF Handed, Outcomes, Waiting, Terminated, Uncalled
    <2>3. \A d \in Calls : d > c => results[d] \in {Waiting, Terminated, Uncalled}
      BY <2>1, <2>2 DEF Handed, Outcomes, Calls
    <2>4. {Waiting, Terminated, Uncalled} \cap Messages = {}
      BY MessageQueueAssumption
      DEF Waiting, Terminated, Uncalled, Messages
    <2> QED
      BY <2>1, <2>2, <2>3, <2>4 DEF Handed
  <1> QED
    BY <1>1, QueueInvCorrect, PTL
=============================================================================
