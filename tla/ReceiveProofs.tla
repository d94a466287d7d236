---------------------------- MODULE ReceiveProofs ----------------------------
(***************************************************************************)
(* Theorems about the receive side of Session: the receive loop, the count  *)
(* of the frames it has to read, what terminate() settles, and Delivery.    *)
(***************************************************************************)
EXTENDS SessionProofs, FiniteSetTheorems

-----------------------------------------------------------------------------
(* The loop and the frame it is at.                                         *)

\* A step that leaves the frame alone and at most starts an idle loop.
LoopKept ==
  /\ UNCHANGED <<frame, body, unhandledMessage>>
  /\ \/ receiveLoop' = receiveLoop
     \/ /\ receiveLoop = "idle"
        /\ receiveLoop' \in {"idle", "read", "closedRead"}
        /\ receiveLoop' = "read" => ~terminateCalled

\* addReceiveRequest starts the loop only when it is idle.
LEMMA AddRequestLoop ==
  ASSUME NEW n, AddReceiveRequest(n)
  PROVE  \/ receiveLoop' = receiveLoop
         \/ /\ receiveLoop = "idle"
            /\ receiveLoop' \in {"idle", "read", "closedRead"}
            /\ receiveLoop' = "read" => ~terminateCalled
  BY DEF AddReceiveRequest, LoopState

\* So does the send loop, for the receipts it asks for.
LEMMA SendLoopLoop ==
  ASSUME NEW op, NEW r, NEW results, NEW flight, SendLoop(op, r, results, flight)
  PROVE  \/ receiveLoop' = receiveLoop
         \/ /\ receiveLoop = "idle"
            /\ receiveLoop' \in {"idle", "read", "closedRead"}
            /\ receiveLoop' = "read" => ~terminateCalled
  BY AddRequestLoop DEF SendLoop

\* Sends, timers, the server and the calls of the application other than
\* receive() do not move the loop.
LEMMA KeptSteps ==
  ASSUME \/ \E r \in Requests : Send(r)
         \/ \E sub \in Subscriptions : CancelReceive(sub) \/ ServerPublishes(sub)
         \/ \E op \in Sends :
              WriteSucceeds(op) \/ WriteFails(op) \/ ReceiptTimesOut(op)
         \/ Shutdown \/ ServerProcesses \/ ServerFails
  PROVE  LoopKept
  <1> USE DEF LoopKept, frameVars
  <1>1. ASSUME NEW r \in Requests, Send(r) PROVE LoopKept
    BY <1>1, SendLoopLoop DEF Send
  <1>2. ASSUME NEW sub \in Subscriptions, CancelReceive(sub) PROVE LoopKept
    BY <1>2 DEF CancelReceive
  <1>3. ASSUME NEW sub \in Subscriptions, ServerPublishes(sub) PROVE LoopKept
    BY <1>3 DEF ServerPublishes, ServerUnchanged
  <1>4. ASSUME NEW op \in Sends, WriteSucceeds(op) PROVE LoopKept
    BY <1>4, SendLoopLoop DEF WriteSucceeds
  <1>5. ASSUME NEW op \in Sends, WriteFails(op) PROVE LoopKept
    BY <1>5 DEF WriteFails
  <1>6. ASSUME NEW op \in Sends, ReceiptTimesOut(op) PROVE LoopKept
    BY <1>6 DEF ReceiptTimesOut
  <1>7. CASE Shutdown
    BY <1>7 DEF Shutdown
  <1>8. CASE ServerProcesses \/ ServerFails
    BY <1>8 DEF ServerProcesses, ServerFails, ServerUnchanged
  <1> QED
    BY <1>1, <1>2, <1>3, <1>4, <1>5, <1>6, <1>7, <1>8

\* receive() leaves the frame alone too, but may take the parked message.
LEMMA ReceiveKeepsFrame ==
  ASSUME NEW sub, Receive(sub)
  PROVE  /\ UNCHANGED <<frame, body>>
         /\ unhandledMessage' \in {unhandledMessage, NoFrame}
         /\ \/ receiveLoop' = receiveLoop
            \/ /\ receiveLoop = "idle"
               /\ receiveLoop' \in {"idle", "read", "closedRead"}
               /\ receiveLoop' = "read" => ~terminateCalled
  BY AddRequestLoop DEF Receive, ParkedTaken

\* The continuations of the loop that take no frame.
LEMMA IterationEnds ==
  ASSUME ReadFails \/ EndMessage \/ EndReceipt \/ ReceiptBodyFails \/ EndError
  PROVE  /\ receiveLoop' = "check"
         /\ receiveLoop \in {"read", "closedRead", "messageEnd", "receipt", "error"}
         /\ UNCHANGED <<frame, unhandledMessage, inbox>>
         /\ body' \in {"read", "failed", body}
  BY DEF ReadFails, EndMessage, EndReceipt, ReceiptBodyFails, EndError,
         LoopUnchanged

\* Every step keeps ParkedHeld.
LEMMA NextParked == ParkedHeld /\ [Next]_vars => ParkedHeld'
  <1> SUFFICES ASSUME ParkedHeld, [Next]_vars PROVE ParkedHeld'
    OBVIOUS
  <1> USE DEF ParkedHeld
  <1>1. CASE LoopKept
    BY <1>1 DEF LoopKept
  <1>2. ASSUME NEW sub \in Subscriptions, Receive(sub) PROVE ParkedHeld'
    BY <1>2, ReceiveKeepsFrame
  <1>3. CASE ReadBody \/ BodyFails
    BY <1>3 DEF ReadBody, BodyFails, BodyEnds
  <1>4. CASE ReadFails \/ EndMessage \/ EndReceipt \/ ReceiptBodyFails \/ EndError
    BY <1>4, IterationEnds
  <1>5. CASE CheckLoop
    BY <1>5 DEF CheckLoop, LoopUnchanged
  <1>6. CASE DeliverMessage \/ RejectMessage \/ ReadHeader
    BY <1>6 DEF DeliverMessage, RejectMessage, ReadHeader, TakeFrame
  <1>7. CASE ParkMessage
    BY <1>7 DEF ParkMessage, AfterMessage
  <1>8. CASE UNCHANGED vars
    BY <1>8 DEF vars, frameVars
  <1> QED
    BY <1>1, <1>2, <1>3, <1>4, <1>5, <1>6, <1>7, <1>8, KeptSteps DEF Next

\* A parked message is neither overwritten nor dropped: the loop waits at it,
\* and so reads no other frame, until receive() takes it (session.ts:648-657).
THEOREM ParkedHeldCorrect == Spec => []ParkedHeld
  <1>1. Init => ParkedHeld
    BY DEF Init, ParkedHeld
  <1> QED
    BY <1>1, NextParked, PTL DEF Spec

-----------------------------------------------------------------------------
(* The body of a frame has ended before the next frame is read.             *)

\* Between its header and its end a body belongs to the branch of the loop that
\* awaits that end, unless the session was terminated on the header.
BodyInv ==
  /\ TypeOK
  /\ body = "unread" =>
       \/ terminateCalled
       \/ receiveLoop \in {"message", "receipt", "error"}
       \/ frame.command = "OTHER"
  /\ BodyBeforeNextFrame

\* terminate() leaves the session terminated.
LEMMA TerminateCalled ==
  ASSUME NEW results, NEW received, NEW receipts, NEW subs, NEW msgs,
         Terminate(results, received, receipts, subs, msgs)
  PROVE  terminateCalled'
  BY DEF Terminate

\* Termination is final.
LEMMA StaysTerminated ==
  ASSUME terminateCalled, [Next]_vars
  PROVE  terminateCalled'
  <1>1. ASSUME NEW r \in Requests, Send(r) PROVE terminateCalled'
    BY <1>1 DEF Send
  <1>2. ASSUME NEW sub \in Subscriptions,
               Receive(sub) \/ CancelReceive(sub) \/ ServerPublishes(sub)
        PROVE  terminateCalled'
    BY <1>2 DEF Receive, CancelReceive, ServerPublishes, ServerUnchanged
  <1>3. ASSUME NEW op \in Sends,
               WriteSucceeds(op) \/ WriteFails(op) \/ ReceiptTimesOut(op)
        PROVE  terminateCalled'
    BY <1>3, TerminateCalled DEF WriteSucceeds, WriteFails, ReceiptTimesOut
  <1>4. CASE \/ Shutdown \/ ReadBody \/ BodyFails \/ EndMessage \/ CheckLoop
             \/ ServerProcesses \/ ServerFails \/ UNCHANGED vars
    BY <1>4 DEF Shutdown, ReadBody, BodyFails, BodyEnds, EndMessage, CheckLoop,
                ServerProcesses,
                ServerFails, ServerUnchanged, vars
  <1>5. CASE DeliverMessage \/ ParkMessage \/ RejectMessage \/ ReadHeader
    BY <1>5, TerminateCalled
    DEF DeliverMessage, ParkMessage, RejectMessage, ReadHeader, TerminateNow
  <1>6. CASE ReadFails \/ ReceiptBodyFails
    BY <1>6, TerminateCalled DEF ReadFails, ReceiptBodyFails, TerminateNow
  <1>7. CASE EndReceipt
    BY <1>7, TerminateCalled DEF EndReceipt, TerminateNow, CompleteDisconnect
  <1>8. CASE EndError
    BY <1>8, TerminateCalled DEF EndError, CompleteDisconnect
  <1> QED
    BY <1>1, <1>2, <1>3, <1>4, <1>5, <1>6, <1>7, <1>8 DEF Next

\* What arrives, and what the loop has taken, is in the order of the stream.
LEMMA AppendInbox ==
  ASSUME TypeOK, NEW f, inbox' = Append(inbox, f)
  PROVE  /\ Len(inbox) \in Nat /\ Len(inbox') = Len(inbox) + 1
         /\ \A i \in 1..Len(inbox) : inbox'[i] = inbox[i]
         /\ inbox'[Len(inbox) + 1] = f
  BY DEF TypeOK, LoopTypeOK

\* A frame that is read leaves the front of the inbox.
LEMMA TakeInbox ==
  ASSUME TypeOK, TakeFrame
  PROVE  /\ Len(inbox) \in Nat /\ Len(inbox) >= 1
         /\ Len(inbox') = Len(inbox) - 1
         /\ frame' = inbox[1]
         /\ \A i \in 1..Len(inbox') : i + 1 \in 1..Len(inbox)
                                        /\ inbox'[i] = inbox[i + 1]
  <1>1. /\ inbox \in Seq(Frame) /\ inbox # <<>>
        /\ frame' = Head(inbox) /\ inbox' = Tail(inbox)
    BY DEF TypeOK, LoopTypeOK, TakeFrame
  <1> QED
    BY <1>1

\* Every step keeps BodyInv.
LEMMA NextBody ==
  ASSUME BodyInv, [Next]_vars
  PROVE  BodyInv'
  <1> USE DEF BodyInv, BodyBeforeNextFrame
  <1>1. TypeOK'
    BY NextType
  <1>2. terminateCalled => terminateCalled'
    BY StaysTerminated
  <1>3. CASE LoopKept
    BY <1>1, <1>2, <1>3 DEF LoopKept
  <1>4. ASSUME NEW sub \in Subscriptions, Receive(sub) PROVE BodyInv'
    BY <1>1, <1>2, <1>4, ReceiveKeepsFrame
  <1>5. CASE ReadBody \/ BodyFails
    BY <1>1, <1>5 DEF ReadBody, BodyFails, BodyEnds
  <1>6. CASE EndReceipt \/ EndError
    BY <1>1, <1>6 DEF EndReceipt, EndError
  <1>7. CASE ReadFails \/ ReceiptBodyFails
    <2>1. terminateCalled'
      BY <1>7, TerminateCalled DEF ReadFails, ReceiptBodyFails, TerminateNow
    <2> QED
      BY <1>1, <1>7, <2>1, IterationEnds
  <1>8. CASE EndMessage
    BY <1>1, <1>2, <1>8 DEF EndMessage, LoopUnchanged
  <1>9. CASE CheckLoop
    BY <1>1, <1>2, <1>9 DEF CheckLoop, LoopState, LoopUnchanged
  <1>10. CASE DeliverMessage \/ ParkMessage
    BY <1>1, <1>10 DEF DeliverMessage, ParkMessage, AfterMessage
  <1>11. CASE RejectMessage
    BY <1>1, <1>11, TerminateCalled DEF RejectMessage, TerminateNow
  <1>12. CASE ReadHeader
    BY <1>1, <1>12 DEF ReadHeader
  <1>13. CASE UNCHANGED vars
    BY <1>1, <1>13 DEF vars, frameVars
  <1> QED
    BY <1>3, <1>4, <1>5, <1>6, <1>7, <1>8, <1>9, <1>10, <1>11, <1>12, <1>13,
       KeptSteps DEF Next

\* readFrame is not called before the previous body has ended
\* (transport.ts:37, session.ts:657), except behind a frame of a command the
\* loop ignores, whose body it does not read (session.ts:620).
THEOREM BodyBeforeNextFrameCorrect == Spec => []BodyBeforeNextFrame
  <1>1. Init => BodyInv
    BY InitType DEF Init, BodyInv, BodyBeforeNextFrame
  <1>2. BodyInv /\ [Next]_vars => BodyInv'
    BY NextBody
  <1>3. BodyInv => BodyBeforeNextFrame
    BY DEF BodyInv
  <1> QED
    BY <1>1, <1>2, <1>3, PTL DEF Spec

-----------------------------------------------------------------------------
(* The count of the frames to read covers what is awaited.                  *)

\* The receipts in the stream.
Receipts == {i \in 1..Len(inbox) : inbox[i].command = "RECEIPT" /\ inbox[i].id # 0}
Arriving == {inbox[i].id : i \in Receipts}

\* Sends whose frame asks for a receipt and has not reached the server yet.
Unanswered ==
  {op \in Sends : /\ receiptSeq[op] # 0
                  /\ \E i \in (processed + 1)..Len(written) : written[i] = op}

AtReceipt == receiveLoop = "receipt" /\ frame.id # 0

\* The receipts that are awaited or that may still be read: a receipt whose
\* timer has fired still takes the read it was counted for.
Due == receiptRequests \cup Unanswered \cup Arriving
         \cup (IF AtReceipt THEN {frame.id} ELSE {})

\* The server answers a receipt once.
OneReceipt ==
  /\ \A i, j \in Receipts : i # j => inbox[i].id # inbox[j].id
  /\ AtReceipt => frame.id \notin Arriving

IdleDone == receiveLoop = "idle" => receiveFrameRequests <= 0

AtMessage == IF receiveLoop \in {"message", "messageEnd"} THEN 1 ELSE 0

Covered ==
  ~terminateCalled =>
    Cardinality(AwaitedReceives) + Cardinality(Due) + AtMessage
      <= receiveFrameRequests + parkings

CoverInv ==
  /\ ReceiptInv
  /\ OneReceipt
  /\ IdleDone
  /\ IsFiniteSet(AwaitedReceives)
  /\ Covered

\* How a step changes a set that is counted: at most `n` elements more.
Change(S, T, n) ==
  \/ n = 0  /\ T \subseteq S
  \/ n = 1  /\ \E x : T \subseteq S \cup {x}
  \/ n = -1 /\ \E x \in S : T \subseteq S \ {x}

\* The size of a set changes as its elements do.
LEMMA ChangeCount ==
  ASSUME NEW S, IsFiniteSet(S), NEW T, NEW n \in {-1, 0, 1}, Change(S, T, n)
  PROVE  /\ IsFiniteSet(T) /\ Cardinality(T) \in Nat /\ Cardinality(S) \in Nat
         /\ Cardinality(T) <= Cardinality(S) + n
  <1>1. Cardinality(S) \in Nat
    BY FS_CardinalityType
  <1>2. ASSUME NEW U, IsFiniteSet(U), T \subseteq U
        PROVE  /\ IsFiniteSet(T) /\ Cardinality(T) \in Nat /\ Cardinality(U) \in Nat
               /\ Cardinality(T) <= Cardinality(U)
    BY <1>2, FS_Subset, FS_CardinalityType
  <1>3. CASE n = 0 /\ T \subseteq S
    BY <1>1, <1>2, <1>3
  <1>4. CASE n = 1 /\ \E x : T \subseteq S \cup {x}
    <2>1. PICK x : T \subseteq S \cup {x}
      BY <1>4
    <2>2. /\ IsFiniteSet(S \cup {x})
          /\ Cardinality(S \cup {x}) <= Cardinality(S) + 1
      <3>1. /\ IsFiniteSet(S \cup {x})
            /\ Cardinality(S \cup {x}) = IF x \in S THEN Cardinality(S)
                                                   ELSE Cardinality(S) + 1
        BY FS_AddElement, Zenon
      <3> QED
        BY <1>1, <3>1
    <2> QED
      BY <1>1, <1>2, <1>4, <2>1, <2>2
  <1>5. CASE n = -1 /\ \E x \in S : T \subseteq S \ {x}
    <2>1. PICK x \in S : T \subseteq S \ {x}
      BY <1>5
    <2>2. /\ IsFiniteSet(S \ {x})
          /\ Cardinality(S \ {x}) = Cardinality(S) - 1
      BY FS_RemoveElement
    <2> QED
      BY <1>1, <1>2, <1>5, <2>1, <2>2
  <1> QED
    BY <1>3, <1>4, <1>5 DEF Change

\* The receipts in question are of sends, so there are finitely many.
LEMMA DueFinite ==
  ASSUME ReceiptInv
  PROVE  Due \subseteq Sends /\ IsFiniteSet(Due)
  <1>1. /\ receiptRequests \subseteq Sends /\ written \in Seq(Sends)
        /\ processed \in 0..Len(written)
    BY DEF ReceiptInv, OrderInv, TypeOK, RequestsTypeOK, SendTypeOK, ServerTypeOK
  <1>2. Processed \subseteq Sends
    BY <1>1 DEF Processed
  <1>3. Arriving \subseteq Sends
    BY <1>2 DEF Arriving, Receipts, ReceiptInv, Replies, Genuine
  <1>4. AtReceipt => frame.id \in Sends
    BY <1>2 DEF AtReceipt, ReceiptInv, Replies, Genuine
  <1>5. Due \subseteq Sends
    BY <1>1, <1>3, <1>4 DEF Due, Unanswered
  <1>6. IsFiniteSet(Sends)
    BY SessionAssumption, FS_Interval DEF Sends
  <1> QED
    BY <1>5, <1>6, FS_Subset

\* A frame that has been processed is not among those that have not.
LEMMA AnsweredOnce ==
  ASSUME OrderInv, NEW op \in Processed
  PROVE  op \notin Unanswered
  <1>1. /\ written \in Seq(Sends) /\ Len(written) \in Nat
        /\ processed \in 0..Len(written)
    BY DEF OrderInv, TypeOK, SendTypeOK, ServerTypeOK
  <1>2. PICK i \in 1..processed : op = written[i]
    BY DEF Processed
  <1> SUFFICES ASSUME NEW j \in (processed + 1)..Len(written), written[j] = op
               PROVE  FALSE
    BY DEF Unanswered
  <1>3. i \in 1..Len(written) /\ j \in 1..Len(written) /\ i < j
    BY <1>1
  <1>4. written[i] < written[j]
    BY <1>3 DEF OrderInv, SendsInOrder
  <1>5. op \in Nat
    BY <1>1, <1>2, <1>3, SessionAssumption DEF Sends
  <1> QED
    BY <1>2, <1>4, <1>5

\* The arithmetic of Covered: what one side gains the other gains.
LEMMA CountsKept ==
  ASSUME NEW a \in Int, NEW d \in Int, NEW m \in Int, NEW r \in Int, NEW p \in Int,
         NEW a1 \in Int, NEW d1 \in Int, NEW m1 \in Int, NEW r1 \in Int,
         NEW p1 \in Int, NEW da \in Int, NEW dd \in Int,
         a + d + m <= r + p, a1 <= a + da, d1 <= d + dd,
         da + dd + m1 + r + p <= m + r1 + p1
  PROVE  a1 + d1 + m1 <= r1 + p1
  OBVIOUS

\* What is counted is finite.
LEMMA CoverTypes ==
  ASSUME CoverInv
  PROVE  /\ receiveFrameRequests \in Int /\ parkings \in Int /\ AtMessage \in Int
         /\ IsFiniteSet(AwaitedReceives) /\ IsFiniteSet(Due)
  BY DueFinite
  DEF CoverInv, ReceiptInv, OrderInv, TypeOK, RequestsTypeOK, LoopTypeOK, AtMessage

\* The inequality is kept when both sides change by as much.
LEMMA CoverStep ==
  ASSUME CoverInv, ReceiptInv', OneReceipt', IdleDone',
         terminateCalled => terminateCalled',
         NEW da \in {-1, 0, 1}, Change(AwaitedReceives, AwaitedReceives', da),
         NEW dd \in {-1, 0, 1}, Change(Due, Due', dd),
         da + dd + AtMessage' + receiveFrameRequests + parkings
           <= AtMessage + receiveFrameRequests' + parkings'
  PROVE  CoverInv'
  <1>1. /\ receiveFrameRequests' \in Int /\ parkings' \in Int /\ AtMessage' \in Int
    BY DEF ReceiptInv, OrderInv, TypeOK, RequestsTypeOK, LoopTypeOK, AtMessage
  <1>2. /\ IsFiniteSet(AwaitedReceives')
        /\ Cardinality(AwaitedReceives) \in Int /\ Cardinality(AwaitedReceives') \in Int
        /\ Cardinality(AwaitedReceives') <= Cardinality(AwaitedReceives) + da
    BY CoverTypes, ChangeCount
  <1>3. /\ Cardinality(Due) \in Int /\ Cardinality(Due') \in Int
        /\ Cardinality(Due') <= Cardinality(Due) + dd
    BY CoverTypes, ChangeCount
  <1>4. Covered'
    <2> SUFFICES ASSUME ~terminateCalled'
                 PROVE  Cardinality(AwaitedReceives') + Cardinality(Due') + AtMessage'
                          <= receiveFrameRequests' + parkings'
      BY DEF Covered
    <2>1. Cardinality(AwaitedReceives) + Cardinality(Due) + AtMessage
            <= receiveFrameRequests + parkings
      BY DEF CoverInv, Covered
    <2>2. PICK a, d, m, r, p, a1, d1, m1, r1, p1 :
            /\ a = Cardinality(AwaitedReceives) /\ d = Cardinality(Due)
            /\ m = AtMessage /\ r = receiveFrameRequests /\ p = parkings
            /\ a1 = Cardinality(AwaitedReceives') /\ d1 = Cardinality(Due')
            /\ m1 = AtMessage' /\ r1 = receiveFrameRequests' /\ p1 = parkings'
      OBVIOUS
    <2>3. /\ a \in Int /\ d \in Int /\ m \in Int /\ r \in Int /\ p \in Int
          /\ a1 \in Int /\ d1 \in Int /\ m1 \in Int /\ r1 \in Int /\ p1 \in Int
      BY <1>1, <1>2, <1>3, <2>2, CoverTypes
    <2>4. a + d + m <= r + p
      BY <2>1, <2>2
    <2>5. a1 <= a + da /\ d1 <= d + dd
      BY <1>2, <1>3, <2>2
    <2>6. da + dd + m1 + r + p <= m + r1 + p1
      BY <2>2
    <2>7. a1 + d1 + m1 <= r1 + p1
      BY <2>3, <2>4, <2>5, <2>6
    <2> QED
      BY <2>2, <2>7
  <1> QED
    BY <1>2, <1>4 DEF CoverInv

\* Once the session is terminated nothing is counted any more.
LEMMA TerminatedCover ==
  ASSUME CoverInv, ReceiptInv', OneReceipt', IdleDone', terminateCalled',
         AwaitedReceives' \subseteq AwaitedReceives
  PROVE  CoverInv'
  <1>1. IsFiniteSet(AwaitedReceives')
    BY FS_Subset DEF CoverInv
  <1> QED
    BY <1>1 DEF CoverInv, Covered

\* The stream and the frame stay as they are.
LEMMA StreamKept ==
  ASSUME OneReceipt, UNCHANGED <<inbox, frame>>,
         receiveLoop' = "receipt" => receiveLoop = "receipt"
  PROVE  /\ OneReceipt' /\ UNCHANGED Arriving
         /\ AtReceipt' => AtReceipt
  BY DEF OneReceipt, Receipts, Arriving, AtReceipt

\* A step that asks for no receipt and reads no frame adds nothing to Due.
LEMMA DueKept ==
  ASSUME OneReceipt, UNCHANGED <<inbox, frame, receiptSeq, processed, written>>,
         receiveLoop' = "receipt" => receiveLoop = "receipt",
         receiptRequests' \subseteq receiptRequests
  PROVE  OneReceipt' /\ Due' \subseteq Due
  <1>1. OneReceipt' /\ UNCHANGED <<Arriving, Unanswered>> /\ (AtReceipt' => AtReceipt)
    BY StreamKept DEF Unanswered
  <1> QED
    BY <1>1 DEF Due

\* A frame with a receipt, about to be written, becomes due; other frames do not.
LEMMA DueWritten ==
  ASSUME ReceiptInv, OneReceipt, UNCHANGED <<inbox, frame, processed>>,
         receiveLoop' = "receipt" => receiveLoop = "receipt",
         NEW op \in Sends, written' = Append(written, op), op \notin Written,
         \/ /\ UNCHANGED receiptVars
         \/ /\ receiptRequests' = receiptRequests \cup {op}
            /\ receiptSeq' = [receiptSeq EXCEPT ![op] = nextReceiptSeq]
  PROVE  /\ OneReceipt'
         /\ Due' \subseteq Due \cup {op}
         /\ UNCHANGED receiptVars => Due' \subseteq Due
  <1>1. /\ written \in Seq(Sends) /\ Len(written) \in Nat /\ processed \in Nat
        /\ receiptSeq \in [Sends -> Nat]
    BY DEF ReceiptInv, OrderInv, TypeOK, SendTypeOK, ServerTypeOK
  <1>2. /\ Len(written') = Len(written) + 1
        /\ \A i \in 1..Len(written) : written'[i] = written[i]
        /\ written'[Len(written) + 1] = op
    BY <1>1
  <1>3. receiptSeq[op] = 0
    BY DEF ReceiptInv, ReceiptSeqs
  <1>4. ASSUME NEW o \in Unanswered', o # op PROVE o \in Unanswered
    <2>1. PICK i \in (processed' + 1)..Len(written') : written'[i] = o
      BY <1>4 DEF Unanswered
    <2>2. i \in (processed + 1)..Len(written) /\ i \in 1..Len(written)
      BY <1>1, <1>2, <1>4, <2>1
    <2>3. o \in Sends /\ receiptSeq'[o] # 0
      BY <1>4 DEF Unanswered
    <2>4. receiptSeq[o] # 0
      BY <1>1, <1>4, <2>3 DEF receiptVars
    <2> QED
      BY <1>2, <2>1, <2>2, <2>3, <2>4 DEF Unanswered
  <1>5. UNCHANGED receiptVars => op \notin Unanswered'
    BY <1>3 DEF Unanswered, receiptVars
  <1>6. OneReceipt' /\ UNCHANGED Arriving /\ (AtReceipt' => AtReceipt)
    BY StreamKept
  <1>7. /\ receiptRequests' \subseteq receiptRequests \cup {op}
        /\ UNCHANGED receiptVars => UNCHANGED receiptRequests
    BY DEF receiptVars
  <1>8. Due' \subseteq Due \cup {op}
    BY <1>4, <1>6, <1>7 DEF Due
  <1>9. UNCHANGED receiptVars => Due' \subseteq Due
    BY <1>4, <1>5, <1>6, <1>7 DEF Due
  <1> QED
    BY <1>6, <1>8, <1>9

\* addReceiveRequest starts the loop if there is a frame to read.
LEMMA AddRequestDone ==
  ASSUME NEW n \in Int, AddReceiveRequest(n), receiveLoop = "idle" => n <= 0
  PROVE  /\ IdleDone'
         /\ receiveFrameRequests' = n + 1
         /\ AtMessage' = AtMessage
         /\ receiveLoop' = "receipt" => receiveLoop = "receipt"
  BY DEF AddReceiveRequest, LoopState, IdleDone, AtMessage

\* A session that is terminated, or a loop that has more to do, is not idle
\* with frames to read.
LEMMA TerminateIdle ==
  ASSUME NEW results, NEW received, NEW receipts, NEW subs, NEW msgs, TypeOK,
         IdleDone, Terminate(results, received, receipts, subs, msgs),
         receiveLoop' = "idle" => receiveLoop = "idle"
  PROVE  IdleDone'
  BY DEF Terminate, CloseRequests, IdleDone

\* terminate() awaits no more than its caller left.
LEMMA TerminateAwaits ==
  ASSUME NEW results, NEW received, NEW receipts, NEW subs, NEW msgs,
         Terminate(results, received, receipts, subs, msgs),
         \A sub \in Subscriptions :
           msgs[sub] # NoReceive => messageRequests[sub] # NoReceive
  PROVE  AwaitedReceives' \subseteq AwaitedReceives
  BY DEF Terminate, CloseRequests, AwaitedReceives

\* A step that counts nothing new.
LEMMA QuietCover ==
  ASSUME CoverInv, ReceiptInv', IdleDone',
         UNCHANGED <<inbox, frame, receiptSeq, processed, written, parkings,
                     receiveFrameRequests>>,
         terminateCalled => terminateCalled',
         receiveLoop' = "receipt" => receiveLoop = "receipt",
         AtMessage' = AtMessage,
         receiptRequests' \subseteq receiptRequests,
         AwaitedReceives' \subseteq AwaitedReceives
  PROVE  CoverInv'
  <1>1. OneReceipt' /\ Due' \subseteq Due
    BY DueKept DEF CoverInv
  <1>2. Change(Due, Due', 0) /\ Change(AwaitedReceives, AwaitedReceives', 0)
    BY <1>1 DEF Change
  <1>3. 0 + 0 + AtMessage' + receiveFrameRequests + parkings
          <= AtMessage + receiveFrameRequests' + parkings'
    BY CoverTypes
  <1> QED
    BY <1>1, <1>2, <1>3, CoverStep

\* sendLoop counts the receipt it asks for.
LEMMA SendLoopCover ==
  ASSUME CoverInv, ReceiptInv', NEW op \in Sends, op \notin Written,
         NEW r, NEW results, NEW flight, SendLoop(op, r, results, flight),
         UNCHANGED <<inbox, frame, processed, parkings, terminateCalled>>,
         AwaitedReceives' \subseteq AwaitedReceives
  PROVE  CoverInv'
  <1>1. CASE disconnected
    <2>1. UNCHANGED <<receiptVars, receiveFrameRequests, receiveLoop, written>>
      BY <1>1 DEF SendLoop
    <2>2. IdleDone' /\ AtMessage' = AtMessage
      BY <2>1 DEF IdleDone, AtMessage, CoverInv
    <2> QED
      BY <2>1, <2>2, QuietCover DEF receiptVars
  <1>2. CASE ~disconnected
    <2>1. written' = Append(written, op)
      BY <1>2 DEF SendLoop
    <2>2. Change(AwaitedReceives, AwaitedReceives', 0)
      BY DEF Change
    <2>3. CASE UNCHANGED <<receiptVars, receiveFrameRequests, receiveLoop>>
      <3>1. OneReceipt' /\ Due' \subseteq Due
        BY <2>1, <2>3, DueWritten DEF CoverInv
      <3>2. IdleDone' /\ AtMessage' = AtMessage /\ Change(Due, Due', 0)
        BY <2>3, <3>1 DEF IdleDone, AtMessage, Change, CoverInv
      <3>3. 0 + 0 + AtMessage' + receiveFrameRequests + parkings
              <= AtMessage + receiveFrameRequests' + parkings'
        BY <2>3, <3>2, CoverTypes
      <3> QED
        BY <2>2, <3>1, <3>2, <3>3, CoverStep
    <2>4. CASE /\ receiptRequests' = receiptRequests \cup {op}
               /\ receiptSeq' = [receiptSeq EXCEPT ![op] = nextReceiptSeq]
               /\ AddReceiveRequest(receiveFrameRequests)
      <3>1. /\ IdleDone' /\ receiveFrameRequests' = receiveFrameRequests + 1
            /\ AtMessage' = AtMessage
            /\ receiveLoop' = "receipt" => receiveLoop = "receipt"
        BY <2>4, CoverTypes, AddRequestDone DEF CoverInv, IdleDone
      <3>2. OneReceipt' /\ Due' \subseteq Due \cup {op}
        BY <2>1, <2>4, <3>1, DueWritten DEF CoverInv
      <3>3. Change(Due, Due', 1)
        BY <3>2 DEF Change
      <3>4. 0 + 1 + AtMessage' + receiveFrameRequests + parkings
              <= AtMessage + receiveFrameRequests' + parkings'
        BY <3>1, CoverTypes
      <3> QED
        BY <2>2, <3>1, <3>2, <3>3, <3>4, CoverStep
    <2> QED
      BY <1>2, <2>3, <2>4 DEF SendLoop
  <1> QED
    BY <1>1, <1>2

\* send() counts a read for the receipt it asks for.
LEMMA SendCover ==
  ASSUME CoverInv, ReceiptInv', NEW r \in Requests, Send(r)
  PROVE  CoverInv'
  <1>1. /\ UNCHANGED <<inbox, frame, processed, parkings, terminateCalled,
                       messageRequests>>
        /\ UNCHANGED AwaitedReceives
    BY DEF Send, frameVars, serverVars, historyVars, subscriptionVars,
           AwaitedReceives
  <1>2. CASE UNCHANGED <<receiveFrameRequests, receiveLoop, written, receiptVars>>
    <2>1. IdleDone' /\ AtMessage' = AtMessage
      BY <1>2 DEF IdleDone, AtMessage, CoverInv
    <2> QED
      BY <1>1, <1>2, <2>1, QuietCover DEF receiptVars
  <1>3. CASE SendLoop(sends + 1, r,
                      [sendResult EXCEPT ![sends + 1] = "pending"], writing)
    <2>1. sends \in Nat /\ sends + 1 \in Sends
      BY SessionAssumption
      DEF CoverInv, ReceiptInv, OrderInv, TypeOK, SendTypeOK, Send, Sends
    <2>2. sends + 1 \notin Written
      BY <2>1 DEF Written, CoverInv, ReceiptInv, OrderInv, WrittenCalled
    <2> QED
      BY <1>1, <1>3, <2>1, <2>2, SendLoopCover
  <1> QED
    BY <1>2, <1>3 DEF Send, sendVars

\* A write succeeds, and the next request is written.
LEMMA WriteSucceedsCover ==
  ASSUME CoverInv, ReceiptInv', NEW op \in Sends, WriteSucceeds(op)
  PROVE  CoverInv'
  <1>1. /\ UNCHANGED <<inbox, frame, processed, parkings, terminateCalled>>
        /\ AwaitedReceives' \subseteq AwaitedReceives
    BY DEF WriteSucceeds, frameVars, serverVars, historyVars, AwaitedReceives,
           MessageRequestsAfter
  <1>2. CASE LoopStops
    <2>1. UNCHANGED <<receiveFrameRequests, receiveLoop, written, receiptVars>>
      BY <1>2 DEF WriteSucceeds
    <2>2. IdleDone' /\ AtMessage' = AtMessage
      BY <2>1 DEF IdleDone, AtMessage, CoverInv
    <2> QED
      BY <1>1, <2>1, <2>2, QuietCover DEF receiptVars
  <1>3. CASE ~LoopStops
    <2>1. PICK results, flight :
            SendLoop(Head(sendQueue), request[Head(sendQueue)], results, flight)
      BY <1>3 DEF WriteSucceeds
    <2>2. /\ sendQueue \in Seq(Sends) /\ sendQueue # <<>>
          /\ Head(sendQueue) \in Sends /\ Head(sendQueue) = sendQueue[1]
          /\ Len(sendQueue) \in Nat /\ 1 \in 1..Len(sendQueue)
      BY <1>3 DEF LoopStops, CoverInv, ReceiptInv, OrderInv, TypeOK, RequestsTypeOK
    <2>3. Head(sendQueue) \in Range(sendQueue)
      BY <2>2 DEF Range
    <2>4. Head(sendQueue) \notin Written
      BY <2>3, WrittenNotQueued DEF CoverInv, ReceiptInv
    <2> QED
      BY <1>1, <2>1, <2>2, <2>4, SendLoopCover
  <1> QED
    BY <1>2, <1>3

\* receive() counts a read for a new request, none for one that replaces
\* another or takes the parked message.
LEMMA ReceiveCover ==
  ASSUME CoverInv, ReceiptInv', NEW sub \in Subscriptions, Receive(sub)
  PROVE  CoverInv'
  <1>1. UNCHANGED <<inbox, frame, processed, parkings, terminateCalled,
                    receiptVars, written>>
    BY DEF Receive, sendVars, serverVars
  <1>2. CASE UNCHANGED <<messageRequests, receiveFrameRequests, receiveLoop>>
    <2>1. IdleDone' /\ AtMessage' = AtMessage /\ UNCHANGED AwaitedReceives
      BY <1>2 DEF IdleDone, AtMessage, AwaitedReceives, CoverInv
    <2> QED
      BY <1>1, <1>2, <2>1, QuietCover DEF receiptVars
  <1>3. CASE /\ messageRequests' = [messageRequests EXCEPT ![sub] = receives + 1]
             /\ AddReceiveRequest(RequestsWithout(sub))
    <2>1. /\ RequestsWithout(sub) \in Int
          /\ RequestsWithout(sub) <= receiveFrameRequests
          /\ messageRequests[sub] = NoReceive =>
               RequestsWithout(sub) = receiveFrameRequests
          /\ RequestsWithout(sub) >= receiveFrameRequests - 1
      BY CoverTypes DEF RequestsWithout
    <2>2. receiveLoop = "idle" => RequestsWithout(sub) <= 0
      BY <2>1, CoverTypes DEF CoverInv, IdleDone
    <2>3. /\ IdleDone' /\ receiveFrameRequests' = RequestsWithout(sub) + 1
          /\ AtMessage' = AtMessage
          /\ receiveLoop' = "receipt" => receiveLoop = "receipt"
      BY <1>3, <2>1, <2>2, AddRequestDone
    <2>4. OneReceipt' /\ Due' \subseteq Due
      BY <1>1, <2>3, DueKept DEF CoverInv, receiptVars
    <2>5. Change(Due, Due', 0)
      BY <2>4 DEF Change
    <2>6. AwaitedReceives' \subseteq AwaitedReceives \cup {sub}
      BY <1>3 DEF AwaitedReceives, CoverInv, ReceiptInv, OrderInv, TypeOK,
                  RequestsTypeOK
    <2>7. CASE messageRequests[sub] = NoReceive
      <3>1. Change(AwaitedReceives, AwaitedReceives', 1)
        BY <2>6 DEF Change
      <3>2. 1 + 0 + AtMessage' + receiveFrameRequests + parkings
              <= AtMessage + receiveFrameRequests' + parkings'
        BY <1>1, <2>1, <2>3, <2>7, CoverTypes
      <3> QED
        BY <1>1, <2>3, <2>4, <2>5, <3>1, <3>2, CoverStep
    <2>8. CASE messageRequests[sub] # NoReceive
      <3>1. Change(AwaitedReceives, AwaitedReceives', 0)
        BY <2>6, <2>8 DEF Change, AwaitedReceives
      <3>2. 0 + 0 + AtMessage' + receiveFrameRequests + parkings
              <= AtMessage + receiveFrameRequests' + parkings'
        BY <1>1, <2>1, <2>3, CoverTypes
      <3> QED
        BY <1>1, <2>3, <2>4, <2>5, <3>1, <3>2, CoverStep
    <2> QED
      BY <2>7, <2>8
  <1> QED
    BY <1>2, <1>3 DEF Receive

\* The calls, timers and continuations that count nothing.
LEMMA IdleCover ==
  ASSUME CoverInv, ReceiptInv',
         \/ \E sub \in Subscriptions : CancelReceive(sub)
         \/ \E op \in Sends : ReceiptTimesOut(op)
         \/ ReadBody \/ BodyFails \/ CheckLoop
  PROVE  CoverInv'
  <1>1. /\ UNCHANGED <<inbox, frame, receiptSeq, processed, written, parkings,
                       receiveFrameRequests, terminateCalled>>
        /\ receiptRequests' \subseteq receiptRequests
    BY DEF CancelReceive, ReceiptTimesOut, ReadBody, BodyFails, BodyEnds, CheckLoop,
           LoopUnchanged,
           receiptVars, sendVars, serverVars, historyVars, frameVars
  <1>2. AwaitedReceives' \subseteq AwaitedReceives
    <2>1. ASSUME NEW sub \in Subscriptions, CancelReceive(sub)
          PROVE  AwaitedReceives' \subseteq AwaitedReceives
      BY <2>1 DEF CancelReceive, AwaitedReceives, CoverInv, ReceiptInv, OrderInv,
                  TypeOK, RequestsTypeOK
    <2>2. CASE UNCHANGED messageRequests
      BY <2>2 DEF AwaitedReceives
    <2> QED
      BY <2>1, <2>2 DEF ReceiptTimesOut, ReadBody, BodyFails, BodyEnds, CheckLoop,
                        subscriptionVars
  <1>3. /\ receiveLoop' = "receipt" => receiveLoop = "receipt"
        /\ AtMessage' = AtMessage
    BY DEF CancelReceive, ReceiptTimesOut, ReadBody, BodyFails, BodyEnds, CheckLoop,
           LoopState,
           AtMessage
  <1>4. IdleDone'
    BY CoverTypes
    DEF CancelReceive, ReceiptTimesOut, ReadBody, BodyFails, BodyEnds, CheckLoop,
        LoopState, IdleDone,
        CoverInv
  <1> QED
    BY <1>1, <1>2, <1>3, <1>4, QuietCover

\* The steps that terminate the session.
LEMMA ShutdownCover ==
  ASSUME CoverInv, ReceiptInv', Shutdown
  PROVE  CoverInv'
  <1>1. OneReceipt'
    BY StreamKept DEF CoverInv, Shutdown, frameVars
  <1>2. IdleDone' /\ terminateCalled' /\ AwaitedReceives' = {}
    BY DEF Shutdown, CloseRequests, IdleDone, AwaitedReceives
  <1> QED
    BY <1>1, <1>2, TerminatedCover

\* terminate() leaves nothing to cover.
LEMMA TerminateCover ==
  ASSUME CoverInv, ReceiptInv', OneReceipt',
         NEW results, NEW received, NEW receipts, NEW subs, NEW msgs,
         Terminate(results, received, receipts, subs, msgs),
         receiveLoop' = "idle" => receiveLoop = "idle",
         \A sub \in Subscriptions :
           msgs[sub] # NoReceive => messageRequests[sub] # NoReceive
  PROVE  CoverInv'
  <1>1. terminateCalled'
    BY TerminateCalled
  <1>2. IdleDone'
    BY TerminateIdle DEF CoverInv, ReceiptInv, OrderInv
  <1>3. AwaitedReceives' \subseteq AwaitedReceives
    BY TerminateAwaits
  <1> QED
    BY <1>1, <1>2, <1>3, TerminatedCover

\* A write fails.
LEMMA WriteFailsCover ==
  ASSUME CoverInv, ReceiptInv', NEW op \in Sends, WriteFails(op)
  PROVE  CoverInv'
  <1>1. OneReceipt'
    BY StreamKept DEF CoverInv, WriteFails, frameVars
  <1> QED
    BY <1>1, TerminateCover DEF WriteFails

\* A read fails.
LEMMA ReadErrorCover ==
  ASSUME CoverInv, ReceiptInv', ReadFails \/ ReceiptBodyFails
  PROVE  CoverInv'
  <1>1. receiveLoop' = "check" /\ OneReceipt'
    BY StreamKept DEF CoverInv, ReadFails, ReceiptBodyFails, LoopUnchanged
  <1> QED
    BY <1>1, TerminateCover DEF ReadFails, ReceiptBodyFails, TerminateNow

\* An ERROR has been read.
LEMMA EndErrorCover ==
  ASSUME CoverInv, ReceiptInv', EndError
  PROVE  CoverInv'
  <1>1. receiveLoop' = "check" /\ OneReceipt'
    BY StreamKept DEF CoverInv, EndError, LoopUnchanged
  <1>2. CASE CompleteDisconnect(Blamed, "ServerError")
    <2>1. IdleDone' /\ terminateCalled' /\ AwaitedReceives' = {}
      BY <1>2
      DEF CompleteDisconnect, CloseRequests, IdleDone, AwaitedReceives
    <2> QED
      BY <1>1, <2>1, TerminatedCover
  <1>3. CASE Terminate(Settle(sendResult, Blamed, "ServerError"),
                       ReceiveResultAfter(Blamed), receiptRequests \ Blamed,
                       SubscriptionsAfter(Blamed), MessageRequestsAfter(Blamed))
    <2>1. \A sub \in Subscriptions :
            MessageRequestsAfter(Blamed)[sub] # NoReceive =>
              messageRequests[sub] # NoReceive
      BY DEF MessageRequestsAfter
    <2> QED
      BY <1>1, <1>3, <2>1, TerminateCover
  <1> QED
    BY <1>2, <1>3 DEF EndError

\* A message has been read.
LEMMA EndMessageCover ==
  ASSUME CoverInv, ReceiptInv', EndMessage
  PROVE  CoverInv'
  <1>1. /\ UNCHANGED <<inbox, frame, receiptSeq, processed, written, parkings,
                       receiptRequests, messageRequests, terminateCalled>>
        /\ receiveFrameRequests' = receiveFrameRequests - 1
        /\ receiveLoop' = "check" /\ receiveLoop = "messageEnd"
    BY DEF EndMessage, LoopUnchanged, serverVars, historyVars, subscriptionVars
  <1>2. OneReceipt' /\ Due' \subseteq Due
    BY <1>1, DueKept DEF CoverInv
  <1>3. /\ Change(Due, Due', 0)
        /\ Change(AwaitedReceives, AwaitedReceives', 0)
    BY <1>1, <1>2 DEF Change, AwaitedReceives
  <1>4. IdleDone' /\ AtMessage = 1 /\ AtMessage' = 0
    BY <1>1 DEF IdleDone, AtMessage
  <1>5. 0 + 0 + AtMessage' + receiveFrameRequests + parkings
          <= AtMessage + receiveFrameRequests' + parkings'
    BY <1>1, <1>4, CoverTypes
  <1> QED
    BY <1>1, <1>2, <1>3, <1>4, <1>5, CoverStep

\* The RECEIPT that has been read is not due any more.
LEMMA EndReceiptCover ==
  ASSUME CoverInv, ReceiptInv', EndReceipt
  PROVE  CoverInv'
  <1> DEFINE ops == Answered(frame.id)
  <1>1. /\ receiveLoop' = "check" /\ receiveLoop = "receipt"
        /\ UNCHANGED <<inbox, frame, receiptSeq, processed, written, parkings>>
    BY DEF EndReceipt, LoopUnchanged, serverVars, historyVars
  <1>2. OneReceipt'
    BY <1>1, StreamKept DEF CoverInv
  <1>3. CASE TerminateNow
    BY <1>1, <1>2, <1>3, TerminateCover DEF TerminateNow
  <1>4. CASE CompleteDisconnect(ops, "ok")
    <2>1. IdleDone' /\ terminateCalled' /\ AwaitedReceives' = {}
      BY <1>4
      DEF CompleteDisconnect, CloseRequests, IdleDone, AwaitedReceives
    <2> QED
      BY <1>2, <2>1, TerminatedCover
  <1>5. CASE /\ frame.id # 0
             /\ receiveFrameRequests' = receiveFrameRequests - 1
             /\ receiptRequests' = receiptRequests \ ops
             /\ messageRequests' = MessageRequestsAfter(ops)
             /\ UNCHANGED terminateCalled
    <2>1. /\ AtReceipt /\ ~AtReceipt' /\ frame.id \notin Arriving
          /\ UNCHANGED <<Arriving, Unanswered>>
      BY <1>1, <1>5, StreamKept
      DEF AtReceipt, CoverInv, OneReceipt, Unanswered
    <2>2. frame.id \in Processed
      BY <1>1, <1>5 DEF CoverInv, ReceiptInv, Replies, Genuine
    <2>3. frame.id \notin Unanswered
      BY <2>2, AnsweredOnce DEF CoverInv, ReceiptInv
    <2>4. frame.id \notin receiptRequests'
      <3>1. receiptSeq \in [Sends -> Nat] /\ receiptRequests \subseteq Sends
        BY DEF CoverInv, ReceiptInv, OrderInv, TypeOK, SendTypeOK, RequestsTypeOK
      <3> QED
        BY <1>5, <3>1 DEF Answered
    <2>5. /\ frame.id \in Due
          /\ Due' \subseteq Due \ {frame.id}
      BY <1>5, <2>1, <2>3, <2>4 DEF Due
    <2>6. Change(Due, Due', -1)
      BY <2>5 DEF Change
    <2>7. Change(AwaitedReceives, AwaitedReceives', 0)
      BY <1>5 DEF Change, AwaitedReceives, MessageRequestsAfter
    <2>8. IdleDone' /\ AtMessage' = 0 /\ AtMessage = 0
      BY <1>1 DEF IdleDone, AtMessage
    <2>9. 0 + (-1) + AtMessage' + receiveFrameRequests + parkings
            <= AtMessage + receiveFrameRequests' + parkings'
      BY <1>1, <1>5, <2>8, CoverTypes
    <2> QED
      BY <1>2, <1>5, <2>6, <2>7, <2>8, <2>9, CoverStep
  <1> QED
    BY <1>3, <1>4, <1>5 DEF EndReceipt

\* A RECEIPT that is taken is due as long as it is read.
LEMMA TakeReceipt ==
  ASSUME CoverInv, TakeFrame, receiveLoop' = "receipt" => frame'.command = "RECEIPT"
  PROVE  /\ OneReceipt'
         /\ receiptRequests' \subseteq receiptRequests => Due' \subseteq Due
  <1>1. TypeOK
    BY DEF CoverInv, ReceiptInv, OrderInv
  <1>2. /\ Len(inbox) \in Nat /\ Len(inbox) >= 1
        /\ Len(inbox') = Len(inbox) - 1
        /\ frame' = inbox[1]
        /\ \A i \in 1..Len(inbox') : i + 1 \in 1..Len(inbox)
                                       /\ inbox'[i] = inbox[i + 1]
    BY <1>1, TakeInbox
  <1>3. \A i \in Receipts' : /\ i \in Nat /\ i + 1 \in Receipts
                             /\ inbox'[i] = inbox[i + 1]
    BY <1>2 DEF Receipts
  <1>4. Arriving' \subseteq Arriving
    BY <1>3 DEF Arriving
  <1>5. AtReceipt' => 1 \in Receipts
    BY <1>2 DEF AtReceipt, Receipts
  <1>6. AtReceipt' => frame'.id \in Arriving
    BY <1>2, <1>5 DEF Arriving
  <1>7. \A i, j \in Receipts : i # j => inbox[i].id # inbox[j].id
    BY DEF CoverInv, OneReceipt
  <1>8. \A i, j \in Receipts' : i # j => inbox'[i].id # inbox'[j].id
    BY <1>3, <1>7
  <1>9. AtReceipt' => frame'.id \notin Arriving'
    <2> SUFFICES ASSUME AtReceipt', NEW i \in Receipts', inbox'[i].id = frame'.id
                 PROVE  FALSE
      BY DEF Arriving
    <2>1. /\ i + 1 \in Receipts /\ 1 \in Receipts /\ i + 1 # 1
          /\ inbox[i + 1].id = inbox[1].id
      <3>1. i \in Nat /\ i + 1 \in Receipts /\ inbox'[i] = inbox[i + 1]
        BY <1>3
      <3>2. i # 0
        BY DEF Receipts
      <3> QED
        BY <1>2, <1>5, <3>1, <3>2
    <2> QED
      BY <1>7, <2>1
  <1>10. UNCHANGED Unanswered
    BY DEF TakeFrame, serverVars, Unanswered
  <1>11. OneReceipt'
    BY <1>8, <1>9 DEF OneReceipt
  <1>12. receiptRequests' \subseteq receiptRequests => Due' \subseteq Due
    BY <1>4, <1>6, <1>10 DEF Due
  <1> QED
    BY <1>11, <1>12

\* The frames taken: the loop is at a message, for which either a request or a
\* parking makes up, or at the body of another frame.
LEMMA ReadFrameCover ==
  ASSUME CoverInv, ReceiptInv',
         DeliverMessage \/ ParkMessage \/ RejectMessage \/ ReadHeader
  PROVE  CoverInv'
  <1>1. /\ TakeFrame /\ receiveLoop = "read"
        /\ receiveLoop' = "receipt" => frame'.command = "RECEIPT"
    BY DEF DeliverMessage, ParkMessage, RejectMessage, ReadHeader, TakeFrame,
           AfterMessage
  <1>2. /\ OneReceipt'
        /\ receiptRequests' \subseteq receiptRequests => Due' \subseteq Due
    BY <1>1, TakeReceipt
  <1>3. CASE RejectMessage
    BY <1>2, <1>3, TerminateCover DEF RejectMessage, TerminateNow
  <1>4. CASE DeliverMessage
    <2>1. PICK sub : sub = frame'.subscription
      OBVIOUS
    <2>2. /\ UNCHANGED <<terminateCalled, receiveFrameRequests, receiptRequests,
                         parkings>>
          /\ messageRequests' = [messageRequests EXCEPT ![sub] = NoReceive]
          /\ messageRequests[sub] # NoReceive /\ sub # None
          /\ receiveLoop' = "message"
      BY <1>4, <2>1 DEF DeliverMessage, Requested, AfterMessage
    <2>3. sub \in Subscriptions
      <3>1. frame' \in Frame
        BY DEF ReceiptInv, OrderInv, TypeOK, LoopTypeOK
      <3> QED
        BY <2>1, <2>2, <3>1 DEF Frame
    <2>4. sub \in AwaitedReceives /\ AwaitedReceives' \subseteq AwaitedReceives \ {sub}
      BY <2>2, <2>3
      DEF AwaitedReceives, CoverInv, ReceiptInv, OrderInv, TypeOK, RequestsTypeOK
    <2>5. Change(AwaitedReceives, AwaitedReceives', -1) /\ Change(Due, Due', 0)
      BY <1>2, <2>2, <2>4 DEF Change
    <2>6. IdleDone' /\ AtMessage = 0 /\ AtMessage' = 1
      BY <1>1, <2>2 DEF IdleDone, AtMessage
    <2>7. (-1) + 0 + AtMessage' + receiveFrameRequests + parkings
            <= AtMessage + receiveFrameRequests' + parkings'
      BY <2>2, <2>6, CoverTypes
    <2> QED
      BY <1>2, <2>2, <2>5, <2>6, <2>7, CoverStep
  <1>5. CASE ParkMessage
    <2>1. /\ UNCHANGED <<terminateCalled, receiveFrameRequests, receiptRequests,
                         messageRequests>>
          /\ parkings' = parkings + 1
          /\ receiveLoop' = "message"
      BY <1>5 DEF ParkMessage, AfterMessage, subscriptionVars
    <2>2. Change(AwaitedReceives, AwaitedReceives', 0) /\ Change(Due, Due', 0)
      BY <1>2, <2>1 DEF Change, AwaitedReceives
    <2>3. IdleDone' /\ AtMessage = 0 /\ AtMessage' = 1
      BY <1>1, <2>1 DEF IdleDone, AtMessage
    <2>4. 0 + 0 + AtMessage' + receiveFrameRequests + parkings
            <= AtMessage + receiveFrameRequests' + parkings'
      BY <2>1, <2>3, CoverTypes
    <2> QED
      BY <1>2, <2>1, <2>2, <2>3, <2>4, CoverStep
  <1>6. CASE ReadHeader
    <2>1. /\ UNCHANGED <<terminateCalled, receiveFrameRequests, receiptRequests,
                         messageRequests, parkings>>
          /\ receiveLoop' \in {"receipt", "error", "check"}
      BY <1>6 DEF ReadHeader, subscriptionVars, historyVars
    <2>2. Change(AwaitedReceives, AwaitedReceives', 0) /\ Change(Due, Due', 0)
      BY <1>2, <2>1 DEF Change, AwaitedReceives
    <2>3. IdleDone' /\ AtMessage = 0 /\ AtMessage' = 0
      BY <1>1, <2>1 DEF IdleDone, AtMessage
    <2>4. 0 + 0 + AtMessage' + receiveFrameRequests + parkings
            <= AtMessage + receiveFrameRequests' + parkings'
      BY <2>1, <2>3, CoverTypes
    <2> QED
      BY <1>2, <2>1, <2>2, <2>3, <2>4, CoverStep
  <1> QED
    BY <1>3, <1>4, <1>5, <1>6

\* A frame that arrives, which is no receipt or answers what was not answered.
LEMMA ArriveReceipt ==
  ASSUME CoverInv, ReceiptInv', UNCHANGED <<frame, receiveLoop>>,
         NEW f, inbox' = Append(inbox, f),
         f.command = "RECEIPT" /\ f.id # 0 => f.id \in Unanswered
  PROVE  /\ OneReceipt'
         /\ Arriving' \subseteq Arriving \cup Unanswered
  <1>1. TypeOK
    BY DEF CoverInv, ReceiptInv, OrderInv
  <1>2. /\ Len(inbox) \in Nat /\ Len(inbox') = Len(inbox) + 1
        /\ \A i \in 1..Len(inbox) : inbox'[i] = inbox[i]
        /\ inbox'[Len(inbox) + 1] = f
    BY <1>1, AppendInbox
  <1>3. ASSUME NEW i \in Receipts'
        PROVE  \/ i \in Receipts /\ inbox'[i] = inbox[i]
               \/ i = Len(inbox) + 1 /\ inbox'[i].id \in Unanswered
    <2>1. i \in 1..Len(inbox') /\ inbox'[i].command = "RECEIPT" /\ inbox'[i].id # 0
      BY DEF Receipts
    <2>2. CASE i \in 1..Len(inbox)
      BY <1>2, <2>1, <2>2 DEF Receipts
    <2>3. CASE i = Len(inbox) + 1
      BY <1>2, <2>1, <2>3
    <2> QED
      BY <1>2, <2>1, <2>2, <2>3
  <1>4. \A i \in Receipts : inbox[i].id \notin Unanswered
    <2>1. ASSUME NEW i \in Receipts PROVE inbox[i].id \in Processed
      BY DEF Receipts, CoverInv, ReceiptInv, Replies, Genuine
    <2> QED
      BY <2>1, AnsweredOnce DEF CoverInv, ReceiptInv
  <1>5. AtReceipt => frame.id \notin Unanswered
    <2>1. ASSUME AtReceipt PROVE frame.id \in Processed
      BY <2>1 DEF AtReceipt, CoverInv, ReceiptInv, Replies, Genuine
    <2> QED
      BY <2>1, AnsweredOnce DEF CoverInv, ReceiptInv
  <1>6. /\ \A i, j \in Receipts : i # j => inbox[i].id # inbox[j].id
        /\ AtReceipt => frame.id \notin Arriving
    BY DEF CoverInv, OneReceipt
  <1>7. \A i, j \in Receipts' : i # j => inbox'[i].id # inbox'[j].id
    <2> SUFFICES ASSUME NEW i \in Receipts', NEW j \in Receipts', i # j
                 PROVE  inbox'[i].id # inbox'[j].id
      OBVIOUS
    <2> Len(inbox) + 1 \notin Receipts
      BY <1>2 DEF Receipts
    <2>1. CASE i = Len(inbox) + 1
      <3>1. j \in Receipts /\ inbox'[j] = inbox[j]
        BY <1>3, <2>1
      <3> QED
        BY <1>3, <1>4, <2>1, <3>1
    <2>2. CASE j = Len(inbox) + 1
      <3>1. i \in Receipts /\ inbox'[i] = inbox[i]
        BY <1>3, <2>2
      <3> QED
        BY <1>3, <1>4, <2>2, <3>1
    <2>3. CASE i # Len(inbox) + 1 /\ j # Len(inbox) + 1
      <3>1. /\ i \in Receipts /\ inbox'[i] = inbox[i]
            /\ j \in Receipts /\ inbox'[j] = inbox[j]
        BY <1>3, <2>3
      <3> QED
        BY <1>6, <3>1
    <2> QED
      BY <2>1, <2>2, <2>3
  <1>8. Arriving' \subseteq Arriving \cup Unanswered
    BY <1>3 DEF Arriving
  <1>9. AtReceipt' => frame'.id \notin Arriving'
    BY <1>5, <1>6, <1>8 DEF AtReceipt
  <1> QED
    BY <1>7, <1>8, <1>9 DEF OneReceipt

\* The server answers a receipt: it was due before and is due now.
LEMMA ServerCover ==
  ASSUME CoverInv, ReceiptInv',
         \/ ServerProcesses \/ ServerFails
         \/ \E sub \in Subscriptions : ServerPublishes(sub)
  PROVE  CoverInv'
  <1>1. UNCHANGED <<frame, receiveLoop, receiveFrameRequests, parkings, receiptSeq,
                    receiptRequests, messageRequests, terminateCalled, written>>
    BY DEF ServerProcesses, ServerFails, ServerPublishes, ServerUnchanged,
           sendVars, receiptVars, frameVars, subscriptionVars, historyVars
  <1>2. /\ written \in Seq(Sends) /\ Len(written) \in Nat
        /\ processed \in 0..Len(written)
    BY DEF CoverInv, ReceiptInv, OrderInv, TypeOK, SendTypeOK, ServerTypeOK
  <1>3. OneReceipt' /\ Arriving' \subseteq Arriving \cup Unanswered
          /\ Unanswered' \subseteq Unanswered
    <2>1. CASE UNCHANGED inbox
      <3>1. OneReceipt' /\ UNCHANGED Arriving
        BY <1>1, <2>1, StreamKept DEF CoverInv
      <3>2. CASE ServerProcesses
        <4>1. processed' = processed + 1
          BY <3>2 DEF ServerProcesses
        <4>2. \A i \in (processed' + 1)..Len(written) :
                i \in (processed + 1)..Len(written)
          BY <1>2, <4>1
        <4> QED
          BY <1>1, <3>1, <4>2 DEF Unanswered
      <3>3. CASE UNCHANGED processed
        BY <1>1, <3>1, <3>3 DEF Unanswered
      <3> QED
        BY <3>2, <3>3 DEF ServerFails, ServerPublishes
    <2>2. CASE ServerProcesses /\ ~UNCHANGED inbox
      <3>0. PICK op : op = written[processed + 1]
        OBVIOUS
      <3>1. /\ processed' = processed + 1 /\ processed + 1 \in 1..Len(written)
            /\ processed + 1 \in (processed + 1)..Len(written)
            /\ receiptSeq[op] # 0 /\ inbox' = Append(inbox, Reply("RECEIPT", op))
        BY <1>2, <2>2, <3>0 DEF ServerProcesses
      <3>2. op \in Sends /\ op \in Unanswered
        BY <1>2, <3>0, <3>1 DEF Unanswered
      <3>3. OneReceipt' /\ Arriving' \subseteq Arriving \cup Unanswered
        BY <1>1, <3>1, <3>2, ArriveReceipt DEF Reply
      <3>4. \A i \in (processed' + 1)..Len(written) :
              i \in (processed + 1)..Len(written)
        BY <1>2, <3>1
      <3> QED
        BY <1>1, <3>3, <3>4 DEF Unanswered
    <2>3. CASE ServerFails
      <3>1. PICK f \in FaultyFrames : inbox' = Append(inbox, f) /\ UNCHANGED processed
        BY <2>3 DEF ServerFails
      <3>2. ~(f.command = "RECEIPT" /\ f.id # 0)
        BY DEF FaultyFrames, Reply, Message, NoFrame
      <3> QED
        BY <1>1, <3>1, <3>2, ArriveReceipt DEF Unanswered
    <2>4. ASSUME NEW sub \in Subscriptions, ServerPublishes(sub)
          PROVE  OneReceipt' /\ Arriving' \subseteq Arriving \cup Unanswered
                   /\ Unanswered' \subseteq Unanswered
      <3>1. /\ inbox' = Append(inbox, Message(sub, published[sub] + 1))
            /\ UNCHANGED processed
        BY <2>4 DEF ServerPublishes
      <3>2. Message(sub, published[sub] + 1).command # "RECEIPT"
        BY DEF Message
      <3> QED
        BY <1>1, <3>1, <3>2, ArriveReceipt DEF Unanswered
    <2> QED
      BY <2>1, <2>2, <2>3, <2>4
  <1>4. Due' \subseteq Due
    BY <1>1, <1>3 DEF Due, AtReceipt
  <1>5. /\ Change(Due, Due', 0) /\ Change(AwaitedReceives, AwaitedReceives', 0)
        /\ IdleDone' /\ AtMessage' = AtMessage
    BY <1>1, <1>4 DEF Change, AwaitedReceives, IdleDone, AtMessage, CoverInv
  <1>6. 0 + 0 + AtMessage' + receiveFrameRequests + parkings
          <= AtMessage + receiveFrameRequests' + parkings'
    BY <1>1, <1>5, CoverTypes
  <1> QED
    BY <1>1, <1>3, <1>5, <1>6, CoverStep

\* CoverInv holds initially.
LEMMA InitCover == Init => CoverInv
  <1> SUFFICES ASSUME Init PROVE CoverInv
    OBVIOUS
  <1>1. /\ receiptRequests = {} /\ inbox = <<>> /\ Len(inbox) = 0
        /\ receiveLoop = "idle" /\ receiveFrameRequests = 0 /\ parkings = 0
        /\ \A op \in Sends : receiptSeq[op] = 0
        /\ \A sub \in Subscriptions : messageRequests[sub] = NoReceive
    BY DEF Init
  <1>2. Receipts = {} /\ Arriving = {} /\ Unanswered = {} /\ ~AtReceipt
    BY <1>1 DEF Receipts, Arriving, Unanswered, AtReceipt
  <1>3. Due = {} /\ AwaitedReceives = {} /\ AtMessage = 0
    BY <1>1, <1>2 DEF Due, AwaitedReceives, AtMessage
  <1>4. OneReceipt /\ IdleDone
    BY <1>1, <1>2 DEF OneReceipt, IdleDone
  <1>5. IsFiniteSet(AwaitedReceives) /\ Cardinality(AwaitedReceives) = 0
          /\ Cardinality(Due) = 0
    BY <1>3, FS_EmptySet
  <1>6. Covered
    BY <1>1, <1>3, <1>5 DEF Covered
  <1> QED
    BY <1>4, <1>5, <1>6, InitReceipts DEF CoverInv

\* Every step keeps CoverInv.
LEMMA NextCover == CoverInv /\ [Next]_vars => CoverInv'
  <1> SUFFICES ASSUME CoverInv, [Next]_vars PROVE CoverInv'
    OBVIOUS
  <1>1. ReceiptInv'
    BY NextReceipts DEF CoverInv
  <1>2. CASE UNCHANGED vars
    <2>1. UNCHANGED <<inbox, frame, receiptSeq, processed, written, parkings,
                      receiveFrameRequests, terminateCalled, receiveLoop,
                      receiptRequests, messageRequests>>
      BY <1>2 DEF vars, sendVars, receiptVars, frameVars, serverVars,
                  subscriptionVars, historyVars
    <2>2. IdleDone' /\ AtMessage' = AtMessage /\ UNCHANGED AwaitedReceives
      BY <2>1 DEF IdleDone, AtMessage, AwaitedReceives, CoverInv
    <2> QED
      BY <1>1, <2>1, <2>2, QuietCover
  <1>3. CASE Next
    BY <1>1, <1>3, SendCover, ReceiveCover, IdleCover, ShutdownCover,
       WriteSucceedsCover, WriteFailsCover, ReadFrameCover, ReadErrorCover,
       EndMessageCover, EndReceiptCover, EndErrorCover, ServerCover
    DEF Next
  <1> QED
    BY <1>2, <1>3

\* The inductive invariant of the count.
THEOREM CoverInvCorrect == Spec => []CoverInv
  BY InitCover, NextCover, PTL DEF Spec

\* CoverInv in numbers.
LEMMA CoverCounts ==
  ASSUME CoverInv, ~terminateCalled
  PROVE  /\ Cardinality(AwaitedReceives) \in Nat
         /\ Cardinality(receiptRequests) \in Nat
         /\ Cardinality(AwaitedReceives) + Cardinality(receiptRequests) + AtMessage
              <= receiveFrameRequests + parkings
         /\ Cardinality(AwaitedReceives) = 0 => AwaitedReceives = {}
         /\ Cardinality(receiptRequests) = 0 => receiptRequests = {}
  <1>1. /\ Cardinality(AwaitedReceives) \in Nat /\ Cardinality(Due) \in Nat
        /\ IsFiniteSet(AwaitedReceives) /\ IsFiniteSet(Due)
    BY CoverTypes, FS_CardinalityType
  <1>2. receiptRequests \subseteq Due
    BY DEF Due
  <1>3. /\ IsFiniteSet(receiptRequests)
        /\ Cardinality(receiptRequests) <= Cardinality(Due)
    BY <1>1, <1>2, FS_Subset
  <1>4. Cardinality(receiptRequests) \in Nat
    BY <1>3, FS_CardinalityType
  <1>5. Cardinality(AwaitedReceives) + Cardinality(Due) + AtMessage
          <= receiveFrameRequests + parkings
    BY DEF CoverInv, Covered
  <1>6. Cardinality(AwaitedReceives) + Cardinality(receiptRequests) + AtMessage
          <= receiveFrameRequests + parkings
    BY <1>1, <1>3, <1>4, <1>5, CoverTypes
  <1> QED
    BY <1>1, <1>3, <1>4, <1>6, FS_EmptySet

\* The operations that await a frame never outnumber the frames still to be
\* read, but for one per message ever parked (session.ts:339, 530, 659, 679).
THEOREM ReadsCoverRequestsCorrect == Spec => []ReadsCoverRequests
  <1>1. CoverInv => ReadsCoverRequests
    BY CoverCounts DEF ReadsCoverRequests, AtMessage
  <1> QED
    BY <1>1, CoverInvCorrect, PTL

\* When no message was parked no read: an awaited receipt or message does not
\* find the receive loop idle.
LEMMA NoneAwaited ==
  ASSUME CoverInv, ~terminateCalled, parkings = 0, receiveFrameRequests <= 0
  PROVE  AwaitedReceives = {} /\ receiptRequests = {}
  <1>1. AtMessage \in Nat /\ receiveFrameRequests \in Int
    BY CoverTypes DEF AtMessage
  <1>2. PICK a, d, m, r : /\ a = Cardinality(AwaitedReceives)
                          /\ d = Cardinality(receiptRequests)
                          /\ m = AtMessage /\ r = receiveFrameRequests
    OBVIOUS
  <1>3. a \in Nat /\ d \in Nat /\ m \in Nat /\ r \in Int /\ a + d + m <= r + 0 /\ r <= 0
    BY <1>1, <1>2, CoverCounts
  <1>4. a = 0 /\ d = 0
    BY <1>3
  <1> QED
    BY <1>2, <1>4, CoverCounts

\* Until a message is parked, whatever awaits a frame has the loop reading.
THEOREM PendingIsReadCorrect == Spec => []PendingIsRead
  <1>1. CoverInv => PendingIsRead
    BY NoneAwaited DEF PendingIsRead, CoverInv, IdleDone
  <1> QED
    BY <1>1, CoverInvCorrect, PTL

-----------------------------------------------------------------------------
(* terminate() settles what is awaited.                                     *)

\* A receive() that is pending is the one awaited on its subscription.
Received(c) == \E sub \in Subscriptions : messageRequests[sub] = c

PendingAwaited ==
  \A c \in Receives : receiveResult[c] = "pending" => Received(c)

AwaitInv == CoverInv /\ PendingAwaited

\* The callbacks of closeReceiveRequests.
LEMMA CloseReceives ==
  ASSUME NEW results, NEW received \in [Receives -> ReceiveResult], NEW receipts,
         NEW error \in {"OperationCancelled", "SessionClosed"},
         CloseRequests(results, received, receipts, error),
         TypeOK,
         \A c \in Receives : received[c] = "pending" => Received(c)
  PROVE  \A c \in Receives : receiveResult'[c] # "pending"
  <1> SUFFICES ASSUME NEW c \in Receives PROVE receiveResult'[c] # "pending"
    OBVIOUS
  <1>1. receiveResult' = Settle(received, Range(messageRequests), CancelOrFail(error))
    BY DEF CloseRequests
  <1>2. CancelOrFail(error) # "pending"
    BY DEF CancelOrFail
  <1>3. received[c] = "pending" => c \in Range(messageRequests)
    BY DEF Received, Range, TypeOK, RequestsTypeOK
  <1> QED
    BY <1>1, <1>2, <1>3, SettleResult

\* observeSendCompletion cancels the receive() of a subscription it removes.
LEMMA UnsubscribeAwaited ==
  ASSUME TypeOK, PendingAwaited, NEW ops
  PROVE  \A c \in Receives : ReceiveResultAfter(ops)[c] = "pending" =>
           /\ receiveResult[c] = "pending"
           /\ \E sub \in Subscriptions : MessageRequestsAfter(ops)[sub] = c
  <1> SUFFICES ASSUME NEW c \in Receives, ReceiveResultAfter(ops)[c] = "pending"
               PROVE  /\ receiveResult[c] = "pending"
                      /\ \E sub \in Subscriptions : MessageRequestsAfter(ops)[sub] = c
    OBVIOUS
  <1> DEFINE gone == {messageRequests[sub] : sub \in Unsubscribed(ops)}
  <1>1. /\ c \in gone /\ receiveResult[c] = "pending" =>
             ReceiveResultAfter(ops)[c] = "cancelled"
        /\ ~(c \in gone /\ receiveResult[c] = "pending") =>
             ReceiveResultAfter(ops)[c] = receiveResult[c]
    <2>1. receiveResult \in [Receives -> ReceiveResult]
      BY DEF TypeOK, RequestsTypeOK
    <2>2. ReceiveResultAfter(ops) = Settle(receiveResult, gone, "cancelled")
      BY DEF ReceiveResultAfter
    <2> HIDE DEF gone
    <2> QED
      BY <2>1, <2>2, SettleResult
  <1>2. receiveResult[c] = "pending" /\ c \notin gone
    BY <1>1
  <1>3. PICK sub \in Subscriptions : messageRequests[sub] = c
    BY <1>2 DEF PendingAwaited, Received
  <1>4. sub \notin Unsubscribed(ops)
    BY <1>2, <1>3
  <1> QED
    BY <1>2, <1>3, <1>4 DEF MessageRequestsAfter

\* terminate() leaves no receive() that is pending and unknown to it.
LEMMA TerminateReceives ==
  ASSUME TypeOK, NEW results, NEW received \in [Receives -> ReceiveResult],
         NEW receipts, NEW subs, NEW msgs,
         Terminate(results, received, receipts, subs, msgs),
         \A c \in Receives : received[c] = "pending" =>
           Received(c) /\ \E sub \in Subscriptions : msgs[sub] = c
  PROVE  PendingAwaited'
  <1>1. CASE ~terminateCalled /\ RequestsOpen
    <2>1. CloseRequests(results, received, receipts, "SessionClosed")
      BY <1>1 DEF Terminate
    <2> QED
      BY <2>1, CloseReceives DEF PendingAwaited
  <1>2. CASE ~(~terminateCalled /\ RequestsOpen)
    BY <1>2 DEF Terminate, PendingAwaited, Received
  <1> QED
    BY <1>1, <1>2

\* receive() cancels the request it replaces.
LEMMA ReceiveAwaited ==
  ASSUME TypeOK, PendingAwaited, NEW sub \in Subscriptions, Receive(sub)
  PROVE  PendingAwaited'
  <1>1. /\ receives \in Nat /\ receives + 1 \in Receives
        /\ messageRequests \in [Subscriptions -> Receives \cup {NoReceive}]
        /\ receiveResult \in [Receives -> ReceiveResult]
    BY SessionAssumption
    DEF TypeOK, LoopTypeOK, RequestsTypeOK, Receive, Receives
  <1>2. CASE /\ receiveResult' = [receiveResult EXCEPT ![receives + 1] = "message"]
             /\ UNCHANGED messageRequests
    BY <1>1, <1>2 DEF PendingAwaited, Received
  <1>3. CASE /\ receiveResult' =
                  [Settle(receiveResult, {messageRequests[sub]}, "cancelled")
                     EXCEPT ![receives + 1] = "pending"]
             /\ messageRequests' = [messageRequests EXCEPT ![sub] = receives + 1]
    <2> DEFINE settled == Settle(receiveResult, {messageRequests[sub]}, "cancelled")
    <2>1. \A c \in Receives : settled[c] = "pending" =>
            receiveResult[c] = "pending" /\ c # messageRequests[sub]
      BY <1>1 DEF Settle
    <2>2. settled \in [Receives -> ReceiveResult]
      BY <1>1, SettleType DEF ReceiveResult
    <2> HIDE DEF settled
    <2>3. ASSUME NEW c \in Receives, receiveResult'[c] = "pending"
          PROVE  Received(c)'
      <3>1. CASE c = receives + 1
        BY <1>1, <1>3, <3>1 DEF Received
      <3>2. CASE c # receives + 1
        <4>1. settled[c] = "pending"
          BY <1>1, <1>3, <2>2, <2>3, <3>2 DEF settled
        <4>2. PICK s \in Subscriptions : messageRequests[s] = c
          BY <2>1, <4>1 DEF PendingAwaited, Received
        <4>3. s # sub
          BY <2>1, <4>1, <4>2
        <4> QED
          BY <1>1, <1>3, <4>2, <4>3 DEF Received
      <3> QED
        BY <3>1, <3>2
    <2> QED
      BY <2>3 DEF PendingAwaited
  <1> QED
    BY <1>2, <1>3 DEF Receive

\* cancelReceive(), and the delivery of a message, settle the request they take.
LEMMA RequestTaken ==
  ASSUME TypeOK, PendingAwaited, NEW sub \in Subscriptions, NEW r \in ReceiveResult,
         r # "pending",
         messageRequests' = [messageRequests EXCEPT ![sub] = NoReceive],
         receiveResult' = Settle(receiveResult, {messageRequests[sub]}, r)
  PROVE  PendingAwaited'
  <1>1. /\ messageRequests \in [Subscriptions -> Receives \cup {NoReceive}]
        /\ receiveResult \in [Receives -> ReceiveResult]
    BY DEF TypeOK, RequestsTypeOK
  <1>2. \A c \in Receives : receiveResult'[c] = "pending" =>
          receiveResult[c] = "pending" /\ c # messageRequests[sub]
    BY <1>1 DEF Settle
  <1>3. ASSUME NEW c \in Receives, receiveResult'[c] = "pending"
        PROVE  Received(c)'
    <2>1. PICK s \in Subscriptions : messageRequests[s] = c
      BY <1>2, <1>3 DEF PendingAwaited, Received
    <2>2. s # sub
      BY <1>2, <1>3, <2>1
    <2> QED
      BY <1>1, <2>1, <2>2 DEF Received
  <1> QED
    BY <1>3 DEF PendingAwaited

\* Every step keeps PendingAwaited.
LEMMA NextAwaited ==
  ASSUME TypeOK, TypeOK', PendingAwaited, [Next]_vars
  PROVE  PendingAwaited'
  <1>1. receiveResult \in [Receives -> ReceiveResult]
    BY DEF TypeOK, RequestsTypeOK
  <1>2. \A c \in Receives : receiveResult[c] = "pending" => Received(c)
    BY DEF PendingAwaited
  <1>3. CASE UNCHANGED <<messageRequests, receiveResult>>
    BY <1>3 DEF PendingAwaited, Received
  <1>4. ASSUME NEW sub \in Subscriptions, CancelReceive(sub) PROVE PendingAwaited'
    BY <1>4, RequestTaken DEF CancelReceive, ReceiveResult
  <1>5. CASE Shutdown
    BY <1>1, <1>2, <1>5, CloseReceives DEF Shutdown, PendingAwaited
  <1>6. ASSUME NEW ops, messageRequests' = MessageRequestsAfter(ops),
               receiveResult' = ReceiveResultAfter(ops)
        PROVE  PendingAwaited'
    BY <1>6, UnsubscribeAwaited DEF PendingAwaited, Received
  <1>7. CASE DeliverMessage
    <2>1. PICK sub : sub = frame'.subscription
      OBVIOUS
    <2>2. /\ sub # None
          /\ messageRequests' = [messageRequests EXCEPT ![sub] = NoReceive]
          /\ receiveResult' = Settle(receiveResult, {messageRequests[sub]}, "message")
      BY <1>7, <2>1 DEF DeliverMessage, Requested
    <2>3. sub \in Subscriptions
      <3>1. frame' \in Frame
        BY DEF TypeOK, LoopTypeOK
      <3> QED
        BY <2>1, <2>2, <3>1 DEF Frame
    <2> QED
      BY <2>2, <2>3, RequestTaken DEF ReceiveResult
  <1>8. CASE TerminateNow
    BY <1>1, <1>2, <1>8, TerminateReceives DEF TerminateNow, Received
  <1>9. ASSUME NEW op \in Sends, WriteFails(op) PROVE PendingAwaited'
    BY <1>1, <1>2, <1>9, TerminateReceives DEF WriteFails, Received
  <1>10. ASSUME NEW ops, NEW result, CompleteDisconnect(ops, result)
         PROVE  PendingAwaited'
    <2>1. ReceiveResultAfter(ops) \in [Receives -> ReceiveResult]
      BY ObserveType DEF TypeOK
    <2>2. \A c \in Receives : ReceiveResultAfter(ops)[c] = "pending" => Received(c)
      BY <1>2, UnsubscribeAwaited
    <2> QED
      BY <1>10, <2>1, <2>2, CloseReceives DEF CompleteDisconnect, PendingAwaited
  <1>11. CASE EndReceipt
    BY <1>6, <1>8, <1>10, <1>11 DEF EndReceipt
  <1>12. CASE EndError
    <2>1. CASE CompleteDisconnect(Blamed, "ServerError")
      BY <1>10, <2>1
    <2>2. CASE Terminate(Settle(sendResult, Blamed, "ServerError"),
                         ReceiveResultAfter(Blamed), receiptRequests \ Blamed,
                         SubscriptionsAfter(Blamed), MessageRequestsAfter(Blamed))
      <3>1. ReceiveResultAfter(Blamed) \in [Receives -> ReceiveResult]
        BY ObserveType DEF TypeOK
      <3>2. \A c \in Receives : ReceiveResultAfter(Blamed)[c] = "pending" =>
              /\ Received(c)
              /\ \E sub \in Subscriptions : MessageRequestsAfter(Blamed)[sub] = c
        BY <1>2, UnsubscribeAwaited
      <3> QED
        BY <2>2, <3>1, <3>2, TerminateReceives
    <2> QED
      BY <1>12, <2>1, <2>2 DEF EndError
  <1>13. CASE \E op \in Sends : WriteSucceeds(op)
    BY <1>6, <1>13 DEF WriteSucceeds
  <1>14. CASE \/ \E r \in Requests : Send(r)
              \/ \E op \in Sends : ReceiptTimesOut(op)
              \/ \E sub \in Subscriptions : ServerPublishes(sub)
              \/ ReadBody \/ BodyFails \/ ParkMessage \/ ReadHeader \/ EndMessage
              \/ CheckLoop
              \/ ServerProcesses \/ ServerFails \/ UNCHANGED vars
    BY <1>3, <1>14
    DEF Send, ReceiptTimesOut, ServerPublishes, ReadBody, BodyFails, BodyEnds,
        ParkMessage, ReadHeader,
        EndMessage, CheckLoop, ServerProcesses, ServerFails, ServerUnchanged,
        subscriptionVars, vars
  <1> QED
    BY <1>4, <1>5, <1>7, <1>8, <1>9, <1>11, <1>12, <1>13, <1>14, ReceiveAwaited
    DEF Next, RejectMessage, ReadFails, ReceiptBodyFails

\* What closes the session empties the queue and, but for the operations that a
\* parked message has left without a read, all that is awaited.
Emptied ==
  /\ sendQueue' = <<>>
  /\ parkings = 0 => AwaitedReceives' = {} /\ receiptRequests' = {}

\* closeSendRequests and closeReceiveRequests leave nothing awaited.
LEMMA CloseEmpties ==
  ASSUME NEW results, NEW received, NEW receipts, NEW error,
         CloseRequests(results, received, receipts, error)
  PROVE  Emptied
  BY DEF CloseRequests, Emptied, AwaitedReceives

\* Nor does terminate(), unless a parked message has used up the count.
LEMMA TerminateEmpties ==
  ASSUME CoverInv, ~terminateCalled,
         NEW results, NEW received, NEW receipts, NEW subs, NEW msgs,
         Terminate(results, received, receipts, subs, msgs),
         receipts \subseteq receiptRequests,
         \A sub \in Subscriptions :
           msgs[sub] # NoReceive => messageRequests[sub] # NoReceive
  PROVE  Emptied
  <1>1. CASE RequestsOpen
    BY <1>1, CloseEmpties DEF Terminate
  <1>2. CASE ~RequestsOpen
    <2>1. sendQueue = <<>> /\ receiveFrameRequests <= 0
      BY <1>2, CoverTypes DEF RequestsOpen
    <2>2. /\ UNCHANGED sendQueue /\ receiptRequests' = receipts
          /\ messageRequests' = msgs
      BY <1>2 DEF Terminate
    <2>3. parkings = 0 => AwaitedReceives = {} /\ receiptRequests = {}
      BY <2>1, NoneAwaited
    <2>4. AwaitedReceives' \subseteq AwaitedReceives
      BY TerminateAwaits
    <2> QED
      BY <2>1, <2>2, <2>3, <2>4 DEF Emptied
  <1> QED
    BY <1>1, <1>2

\* Every step that terminates the session empties it.
LEMMA TerminationEmpties ==
  ASSUME CoverInv, [Next]_vars, ~terminateCalled, terminateCalled'
  PROVE  Emptied
  <1>1. CASE TerminateNow
    BY <1>1, TerminateEmpties DEF TerminateNow
  <1>2. ASSUME NEW op \in Sends, WriteFails(op) PROVE Emptied
    <2>1. receiptRequests \ {op} \subseteq receiptRequests
      OBVIOUS
    <2> QED
      BY <1>2, <2>1, TerminateEmpties DEF WriteFails
  <1>3. CASE Shutdown
    BY <1>3, CloseEmpties DEF Shutdown
  <1>4. ASSUME NEW ops, NEW result, CompleteDisconnect(ops, result) PROVE Emptied
    BY <1>4, CloseEmpties DEF CompleteDisconnect
  <1>5. CASE EndError
    <2>1. CASE Terminate(Settle(sendResult, Blamed, "ServerError"),
                         ReceiveResultAfter(Blamed), receiptRequests \ Blamed,
                         SubscriptionsAfter(Blamed), MessageRequestsAfter(Blamed))
      <3>1. receiptRequests \ Blamed \subseteq receiptRequests
        OBVIOUS
      <3>2. \A sub \in Subscriptions :
              MessageRequestsAfter(Blamed)[sub] # NoReceive =>
                messageRequests[sub] # NoReceive
        BY DEF MessageRequestsAfter
      <3> QED
        BY <2>1, <3>1, <3>2, TerminateEmpties
    <2> QED
      BY <1>4, <1>5, <2>1 DEF EndError
  <1>6. CASE EndReceipt
    BY <1>1, <1>4, <1>6 DEF EndReceipt
  <1>7. CASE \/ \E r \in Requests : Send(r)
             \/ \E sub \in Subscriptions :
                  Receive(sub) \/ CancelReceive(sub) \/ ServerPublishes(sub)
             \/ \E op \in Sends : WriteSucceeds(op) \/ ReceiptTimesOut(op)
             \/ ReadBody \/ BodyFails \/ DeliverMessage \/ ParkMessage \/ ReadHeader
             \/ EndMessage \/ CheckLoop \/ ServerProcesses \/ ServerFails
             \/ UNCHANGED vars
    <2>1. UNCHANGED terminateCalled
      BY <1>7
      DEF Send, Receive, CancelReceive, ServerPublishes, WriteSucceeds,
          ReceiptTimesOut, ReadBody, BodyFails, BodyEnds, DeliverMessage,
          ParkMessage, ReadHeader,
          EndMessage, CheckLoop, ServerProcesses, ServerFails, ServerUnchanged, vars
    <2> QED
      BY <2>1
  <1> QED
    BY <1>1, <1>2, <1>3, <1>5, <1>6, <1>7
    DEF Next, RejectMessage, ReadFails, ReceiptBodyFails

\* Where nothing is awaited everything is settled, but for the write in flight.
LEMMA EmptiedSettles ==
  ASSUME TypeOK, Settleable', PendingAwaited', Emptied
  PROVE  /\ \A op \in Sends : sendResult'[op] = "pending" =>
              op \in writing' \/ (parkings > 0 /\ op \in receiptRequests')
         /\ parkings = 0 =>
              \A call \in Receives : receiveResult'[call] # "pending"
  <1>1. parkings \in Nat
    BY DEF TypeOK, LoopTypeOK
  <1>2. ASSUME NEW op \in Sends, sendResult'[op] = "pending"
        PROVE  op \in writing' \/ (parkings > 0 /\ op \in receiptRequests')
    <2>1. op \notin Range(sendQueue')
      BY DEF Emptied, Range
    <2>2. op \in writing' \/ op \in receiptRequests'
      BY <1>2, <2>1 DEF Settleable
    <2> QED
      BY <1>1, <2>2 DEF Emptied
  <1>3. ASSUME parkings = 0, NEW call \in Receives, receiveResult'[call] = "pending"
        PROVE  FALSE
    <2>1. PICK sub \in Subscriptions : messageRequests'[sub] = call
      BY <1>3 DEF PendingAwaited, Received
    <2>2. call # NoReceive
      BY SessionAssumption DEF Receives, NoReceive
    <2>3. sub \in AwaitedReceives'
      BY <2>1, <2>2 DEF AwaitedReceives
    <2> QED
      BY <1>3, <2>3 DEF Emptied
  <1> QED
    BY <1>2, <1>3

\* Every step keeps AwaitInv.
LEMMA NextAwait == AwaitInv /\ [Next]_vars => AwaitInv'
  <1> SUFFICES ASSUME AwaitInv, [Next]_vars PROVE AwaitInv'
    OBVIOUS
  <1>1. CoverInv' /\ TypeOK /\ TypeOK'
    BY NextCover DEF AwaitInv, CoverInv, ReceiptInv, OrderInv
  <1> QED
    BY <1>1, NextAwaited DEF AwaitInv

\* The step that terminates the session leaves nothing pending but the frame in
\* flight and, once a message was parked, what has lost its read
\* (terminate(), session.ts:444-461).
THEOREM TerminateSettlesCorrect == Spec => TerminateSettles
  <1>1. Init => AwaitInv
    BY InitCover DEF Init, AwaitInv, PendingAwaited
  <1>2. AwaitInv /\ [Next]_vars => AwaitInv'
    BY NextAwait
  <1>3. AwaitInv /\ AwaitInv' /\ [Next]_vars =>
          ((terminateCalled' /\ ~terminateCalled) =>
             /\ \A op \in Sends : sendResult'[op] = "pending" =>
                  op \in writing' \/ (parkings > 0 /\ op \in receiptRequests')
             /\ parkings = 0 =>
                  \A call \in Receives : receiveResult'[call] # "pending")
    <2> SUFFICES ASSUME AwaitInv, AwaitInv', [Next]_vars, terminateCalled',
                        ~terminateCalled
                 PROVE  /\ \A op \in Sends : sendResult'[op] = "pending" =>
                             \/ op \in writing'
                             \/ parkings > 0 /\ op \in receiptRequests'
                        /\ parkings = 0 =>
                             \A call \in Receives : receiveResult'[call] # "pending"
      OBVIOUS
    <2>1. Emptied
      BY TerminationEmpties DEF AwaitInv
    <2>2. TypeOK /\ Settleable' /\ PendingAwaited'
      BY DEF AwaitInv, CoverInv, ReceiptInv, OrderInv
    <2> QED
      BY <2>1, <2>2, EmptiedSettles
  <1> QED
    BY <1>1, <1>2, <1>3, PTL DEF Spec, TerminateSettles

-----------------------------------------------------------------------------
(* Session implements Delivery: each subscription is a FIFO channel.         *)

\* The last message of a subscription that the loop has taken for a receiver,
\* the parked one included.
Taken(sub) ==
  Len(delivered[sub]) + (IF unhandledMessage.subscription = sub THEN 1 ELSE 0)

\* Its messages in the stream.
Messages(sub) ==
  {i \in 1..Len(inbox) : /\ inbox[i].command = "MESSAGE"
                         /\ inbox[i].subscription = sub}

\* They are those published and not taken, each once and in order.
Channel(sub) ==
  /\ Taken(sub) <= published[sub]
  /\ \A i \in Messages(sub) :
       Taken(sub) < inbox[i].id /\ inbox[i].id <= published[sub]
  /\ \A i, j \in Messages(sub) : i < j => inbox[i].id < inbox[j].id
  /\ \A n \in Nat : Taken(sub) < n /\ n <= published[sub] =>
       \E i \in Messages(sub) : inbox[i].id = n

\* A session that is terminated may still deliver the frame its loop is reading,
\* and none after it: a message that was rejected is not missed.
Channels ==
  ~terminateCalled \/ receiveLoop = "read" => \A sub \in Subscriptions : Channel(sub)

ParkedNext ==
  \A sub \in Subscriptions : unhandledMessage.subscription = sub =>
    /\ unhandledMessage.id = Len(delivered[sub]) + 1
    /\ unhandledMessage.id <= published[sub]

ChannelInv == TypeOK /\ ParkedHeld /\ ParkedNext /\ Channels

\* The types of a channel.
LEMMA ChannelTypes ==
  ASSUME TypeOK, NEW sub \in Subscriptions
  PROVE  /\ Len(delivered[sub]) \in Nat /\ Taken(sub) \in Nat
         /\ published[sub] \in Nat /\ Len(inbox) \in Nat
         /\ \A i \in 1..Len(inbox) : inbox[i].id \in Nat
         /\ delivered \in [Subscriptions -> Seq(Nat)]
  <1>1. /\ delivered \in [Subscriptions -> Seq(Nat)] /\ inbox \in Seq(Frame)
        /\ published[sub] \in Nat
    BY SessionAssumption DEF TypeOK, LoopTypeOK, ServerTypeOK
  <1>2. Len(delivered[sub]) \in Nat /\ Len(inbox) \in Nat
    BY <1>1
  <1>3. Taken(sub) \in {Len(delivered[sub]) + 1, Len(delivered[sub]) + 0}
    BY DEF Taken
  <1>4. ASSUME NEW i \in 1..Len(inbox) PROVE inbox[i].id \in Nat
    <2>1. inbox[i] \in Frame
      BY <1>1
    <2> QED
      BY <2>1 DEF Frame
  <1> QED
    BY <1>1, <1>2, <1>3, <1>4

\* The first message of a subscription in the stream is the one it waits for.
LEMMA FirstIsNext ==
  ASSUME TypeOK, NEW sub \in Subscriptions, Channel(sub), 1 \in Messages(sub)
  PROVE  inbox[1].id = Taken(sub) + 1 /\ inbox[1].id <= published[sub]
  <1>1. /\ Taken(sub) \in Nat /\ published[sub] \in Nat /\ Len(inbox) \in Nat
        /\ \A i \in 1..Len(inbox) : inbox[i].id \in Nat
    BY ChannelTypes
  <1>2. Taken(sub) < inbox[1].id /\ inbox[1].id <= published[sub]
          /\ inbox[1].id \in Nat
    BY <1>1 DEF Channel, Messages
  <1>3. Taken(sub) + 1 <= published[sub] /\ Taken(sub) < Taken(sub) + 1
          /\ Taken(sub) + 1 \in Nat
    BY <1>1, <1>2
  <1>4. PICK i \in Messages(sub) : inbox[i].id = Taken(sub) + 1
    BY <1>3 DEF Channel
  <1>5. i \in Nat /\ i >= 1
    BY <1>1 DEF Messages
  <1>6. i = 1
    <2> SUFFICES ASSUME 1 < i PROVE FALSE
      BY <1>5
    <2>1. inbox[1].id < inbox[i].id
      BY DEF Channel
    <2> QED
      BY <1>1, <1>2, <1>4, <2>1
  <1> QED
    BY <1>2, <1>4, <1>6

\* Taking the first frame takes the message in it, if it is one.
LEMMA TakeChannel ==
  ASSUME TypeOK, TakeFrame, NEW sub \in Subscriptions, Channel(sub),
         UNCHANGED published,
         \/ 1 \notin Messages(sub) /\ Taken(sub)' = Taken(sub)
         \/ 1 \in Messages(sub) /\ Taken(sub)' = Taken(sub) + 1
  PROVE  Channel(sub)'
  <1>1. /\ Taken(sub) \in Nat /\ published[sub] \in Nat
        /\ \A i \in 1..Len(inbox) : inbox[i].id \in Nat
    BY ChannelTypes
  <1>2. /\ Len(inbox) \in Nat /\ Len(inbox) >= 1
        /\ Len(inbox') = Len(inbox) - 1
        /\ \A i \in 1..Len(inbox') : i + 1 \in 1..Len(inbox)
                                       /\ inbox'[i] = inbox[i + 1]
    BY TakeInbox
  <1>3. \A i \in Messages(sub)' : /\ i \in Nat /\ i >= 1 /\ i + 1 \in Messages(sub)
                                  /\ inbox'[i] = inbox[i + 1]
    BY <1>2 DEF Messages
  <1>4. ASSUME NEW j \in Messages(sub), j # 1
        PROVE  j - 1 \in Messages(sub)' /\ inbox'[j - 1] = inbox[j]
    <2>1. j \in 1..Len(inbox) /\ j - 1 \in 1..Len(inbox') /\ (j - 1) + 1 = j
      BY <1>2, <1>4 DEF Messages
    <2>2. inbox'[j - 1] = inbox[j]
      BY <1>2, <2>1
    <2> QED
      BY <2>1, <2>2 DEF Messages
  <1>5. ASSUME NEW i \in Messages(sub)'
        PROVE  Taken(sub)' < inbox'[i].id /\ inbox'[i].id <= published'[sub]
    <2>1. /\ i + 1 \in Messages(sub) /\ inbox'[i] = inbox[i + 1] /\ i \in Nat /\ i >= 1
          /\ i + 1 \in 1..Len(inbox) /\ inbox[i + 1].id \in Nat
      BY <1>1, <1>3 DEF Messages
    <2>2. Taken(sub) < inbox[i + 1].id /\ inbox[i + 1].id <= published[sub]
      BY <2>1 DEF Channel
    <2>3. CASE 1 \in Messages(sub) /\ Taken(sub)' = Taken(sub) + 1
      <3>1. inbox[1].id = Taken(sub) + 1
        BY <2>3, FirstIsNext
      <3>2. 1 < i + 1
        BY <2>1
      <3>3. inbox[1].id < inbox[i + 1].id
        BY <2>1, <2>3, <3>2 DEF Channel
      <3> QED
        BY <2>1, <2>2, <2>3, <3>1, <3>3
    <2> QED
      BY <2>1, <2>2, <2>3
  <1>6. ASSUME NEW i \in Messages(sub)', NEW j \in Messages(sub)', i < j
        PROVE  inbox'[i].id < inbox'[j].id
    <2>1. i + 1 < j + 1
      BY <1>3, <1>6
    <2> QED
      BY <1>3, <2>1 DEF Channel
  <1>7. ASSUME NEW n \in Nat, Taken(sub)' < n, n <= published'[sub]
        PROVE  \E i \in Messages(sub)' : inbox'[i].id = n
    <2>1. Taken(sub) < n /\ n <= published[sub]
      BY <1>1, <1>7
    <2>2. PICK j \in Messages(sub) : inbox[j].id = n
      BY <2>1 DEF Channel
    <2>3. j # 1
      <3>1. CASE 1 \in Messages(sub) /\ Taken(sub)' = Taken(sub) + 1
        <4>1. inbox[1].id = Taken(sub) + 1
          BY <3>1, FirstIsNext
        <4> QED
          BY <1>1, <1>7, <2>2, <3>1, <4>1
      <3> QED
        BY <3>1
    <2> QED
      BY <1>4, <2>2, <2>3
  <1>8. Taken(sub)' <= published'[sub]
    BY FirstIsNext DEF Channel
  <1> QED
    BY <1>5, <1>6, <1>7, <1>8 DEF Channel

\* A frame that is no message of the subscription.
LEMMA OtherArrives ==
  ASSUME TypeOK, NEW sub \in Subscriptions, Channel(sub), NEW f,
         inbox' = Append(inbox, f),
         ~(f.command = "MESSAGE" /\ f.subscription = sub),
         published'[sub] = published[sub], Taken(sub)' = Taken(sub)
  PROVE  Channel(sub)'
  <1>1. /\ Len(inbox) \in Nat /\ Len(inbox') = Len(inbox) + 1
        /\ \A i \in 1..Len(inbox) : inbox'[i] = inbox[i]
        /\ inbox'[Len(inbox) + 1] = f
    BY AppendInbox
  <1>2. \A i \in 1..Len(inbox') : i \in 1..Len(inbox) \/ i = Len(inbox) + 1
    BY <1>1
  <1>3. Messages(sub)' = Messages(sub)
    <2>1. \A i \in 1..Len(inbox) : i \in 1..Len(inbox')
      BY <1>1
    <2> QED
      BY <1>1, <1>2, <2>1 DEF Messages
  <1>4. \A i \in Messages(sub) : inbox'[i] = inbox[i]
    BY <1>1 DEF Messages
  <1> QED
    BY <1>3, <1>4 DEF Channel

\* The next message of the subscription.
LEMMA MessageArrives ==
  ASSUME TypeOK, NEW sub \in Subscriptions, Channel(sub),
         inbox' = Append(inbox, Message(sub, published[sub] + 1)),
         published'[sub] = published[sub] + 1, Taken(sub)' = Taken(sub)
  PROVE  Channel(sub)'
  <1>0. PICK taken, count, next, last :
          /\ taken = Taken(sub) /\ count = published[sub] /\ next = count + 1
          /\ last = Len(inbox) + 1
    OBVIOUS
  <1>1. /\ Len(inbox) \in Nat /\ Len(inbox') = Len(inbox) + 1
        /\ \A i \in 1..Len(inbox) : inbox'[i] = inbox[i]
        /\ inbox'[last] = Message(sub, next)
    <2>1. inbox' = Append(inbox, Message(sub, next))
      BY <1>0
    <2> QED
      BY <1>0, <2>1, AppendInbox
  <1>2. /\ taken \in Nat /\ count \in Nat /\ last \in Nat /\ taken <= count
        /\ \A i \in 1..Len(inbox) : inbox[i].id \in Nat
    <2>1. taken \in Nat /\ count \in Nat /\ Len(inbox) \in Nat
            /\ \A i \in 1..Len(inbox) : inbox[i].id \in Nat
      BY <1>0, ChannelTypes
    <2>2. taken <= count
      BY <1>0 DEF Channel
    <2> QED
      BY <1>0, <2>1, <2>2
  <1>3. inbox'[last].id = next /\ next \in Nat /\ count < next /\ taken < next
    BY <1>0, <1>1, <1>2 DEF Message
  <1>4. /\ \A i \in Messages(sub) : i \in Messages(sub)' /\ inbox'[i] = inbox[i]
        /\ last \in Messages(sub)'
    <2>1. \A i \in 1..Len(inbox) : i \in 1..Len(inbox')
      BY <1>1
    <2>2. last \in 1..Len(inbox')
      BY <1>0, <1>1
    <2> QED
      BY <1>1, <2>1, <2>2 DEF Messages, Message
  <1>5. \A i \in Messages(sub) : /\ inbox[i].id \in Nat
                                 /\ taken < inbox[i].id /\ inbox[i].id <= count
    BY <1>0, <1>2 DEF Messages, Channel
  <1>6. ASSUME NEW i \in Messages(sub)'
        PROVE  /\ i \in Nat /\ i <= last
               /\ i # last => i \in Messages(sub) /\ inbox'[i] = inbox[i]
    <2>1. i \in 1..Len(inbox')
      BY DEF Messages
    <2>2. CASE i \in 1..Len(inbox)
      BY <1>0, <1>1, <2>1, <2>2 DEF Messages
    <2>3. CASE i = last
      BY <1>2, <2>3
    <2> QED
      BY <1>0, <1>1, <2>1, <2>2, <2>3
  <1>7. Taken(sub)' = taken /\ published'[sub] = next
    BY <1>0
  <1>8. ASSUME NEW i \in Messages(sub)'
        PROVE  taken < inbox'[i].id /\ inbox'[i].id <= next
    <2>1. CASE i = last
      <3>1. inbox'[i].id = next
        BY <1>3, <2>1
      <3>2. taken < next /\ next <= next
        BY <1>3
      <3> QED
        BY <3>1, <3>2
    <2>2. CASE i # last
      <3>1. PICK n : n = inbox[i].id
        OBVIOUS
      <3>2. n \in Nat /\ taken < n /\ n <= count /\ inbox'[i].id = n
        BY <1>5, <1>6, <2>2, <3>1
      <3>3. n <= next
        BY <1>2, <1>3, <3>2
      <3> QED
        BY <3>2, <3>3
    <2> QED
      BY <2>1, <2>2
  <1>9. ASSUME NEW i \in Messages(sub)', NEW j \in Messages(sub)', i < j
        PROVE  inbox'[i].id < inbox'[j].id
    <2>1. i # last
      BY <1>2, <1>6, <1>9
    <2>2. i \in Messages(sub) /\ inbox'[i] = inbox[i]
      BY <1>6, <2>1
    <2>3. CASE j = last
      <3>1. PICK n : n = inbox[i].id
        OBVIOUS
      <3>2. n \in Nat /\ n <= count /\ inbox'[i].id = n
        BY <1>5, <2>2, <3>1
      <3>3. n < next
        BY <1>2, <1>3, <3>2
      <3> QED
        BY <1>3, <2>3, <3>2, <3>3
    <2>4. CASE j # last
      BY <1>6, <1>9, <2>2, <2>4 DEF Channel
    <2> QED
      BY <2>3, <2>4
  <1>10. ASSUME NEW n \in Nat, taken < n, n <= next
         PROVE  \E i \in Messages(sub)' : inbox'[i].id = n
    <2>1. CASE n = next
      BY <1>3, <1>4, <2>1
    <2>2. CASE n # next
      <3>1. n <= count
        BY <1>0, <1>2, <1>10, <2>2
      <3>2. PICK i \in Messages(sub) : inbox[i].id = n
        BY <1>0, <1>10, <3>1 DEF Channel
      <3> QED
        BY <1>4, <3>2
    <2> QED
      BY <2>1, <2>2
  <1>11. taken <= next
    BY <1>2, <1>3
  <1> QED
    BY <1>7, <1>8, <1>9, <1>10, <1>11 DEF Channel

-----------------------------------------------------------------------------
(* Steps.                                                                   *)

\* A step that neither publishes nor hands out a message, and takes no frame.
LEMMA SilentChannels ==
  ASSUME ChannelInv, TypeOK', ParkedHeld',
         UNCHANGED <<inbox, published, delivered, unhandledMessage>>,
         ~terminateCalled' \/ receiveLoop' = "read" =>
           ~terminateCalled \/ receiveLoop = "read"
  PROVE  ChannelInv'
  <1>1. \A sub \in Subscriptions : Taken(sub)' = Taken(sub)
                                     /\ Messages(sub)' = Messages(sub)
    BY DEF Taken, Messages
  <1>2. ASSUME NEW sub \in Subscriptions, Channel(sub) PROVE Channel(sub)'
    BY <1>1, <1>2 DEF Channel
  <1>3. Channels'
    BY <1>2 DEF Channels, ChannelInv
  <1>4. ParkedNext'
    BY DEF ParkedNext, ChannelInv
  <1> QED
    BY <1>3, <1>4 DEF ChannelInv

\* receive() takes the parked message, which is the next one.
LEMMA ReceiveChannels ==
  ASSUME ChannelInv, TypeOK', ParkedHeld', NEW sub \in Subscriptions, Receive(sub)
  PROVE  ChannelInv'
  <1>1. /\ UNCHANGED <<inbox, published, terminateCalled>>
        /\ receiveLoop' = "read" => ~terminateCalled \/ receiveLoop = "read"
    BY ReceiveKeepsFrame DEF Receive, serverVars
  <1>2. CASE UNCHANGED <<delivered, unhandledMessage>>
    BY <1>1, <1>2, SilentChannels
  <1>3. CASE /\ unhandledMessage.subscription = sub
             /\ delivered' = [delivered EXCEPT
                                ![sub] = Append(@, unhandledMessage.id)]
             /\ unhandledMessage' = NoFrame
    <2>1. /\ delivered \in [Subscriptions -> Seq(Nat)] /\ Len(delivered[sub]) \in Nat
          /\ unhandledMessage.id \in Nat
      <3>1. unhandledMessage \in Frame
        BY DEF ChannelInv, TypeOK, LoopTypeOK
      <3> QED
        BY <3>1, ChannelTypes DEF ChannelInv, Frame
    <2>2. /\ Len(delivered'[sub]) = Len(delivered[sub]) + 1
          /\ \A s \in Subscriptions \ {sub} : delivered'[s] = delivered[s]
      BY <1>3, <2>1
    <2>3. unhandledMessage'.subscription = None /\ None \notin Subscriptions
      BY <1>3, SessionAssumption DEF NoFrame
    <2>4. ASSUME NEW s \in Subscriptions PROVE Taken(s)' = Taken(s)
      <3>1. CASE s = sub
        BY <1>3, <2>1, <2>2, <2>3, <3>1 DEF Taken
      <3>2. CASE s # sub
        BY <1>3, <2>2, <2>3, <3>2 DEF Taken
      <3> QED
        BY <3>1, <3>2
    <2>5. ASSUME NEW s \in Subscriptions, Channel(s) PROVE Channel(s)'
      BY <1>1, <2>4, <2>5 DEF Channel, Messages
    <2>6. Channels'
      BY <1>1, <2>5 DEF Channels, ChannelInv
    <2>7. ParkedNext'
      BY <2>3 DEF ParkedNext
    <2> QED
      BY <2>6, <2>7 DEF ChannelInv
  <1> QED
    BY <1>2, <1>3 DEF Receive, ParkedTaken

\* The messages taken by the loop.
LEMMA TakenMessage ==
  ASSUME ChannelInv, TakeFrame, frame'.command = "MESSAGE",
         NEW sub \in Subscriptions, frame'.subscription = sub
  PROVE  /\ unhandledMessage = NoFrame
         /\ 1 \in Messages(sub)
         /\ \A s \in Subscriptions \ {sub} : 1 \notin Messages(s)
         /\ \A s \in Subscriptions : Channel(s) /\ Taken(s) = Len(delivered[s])
         /\ frame'.id = Len(delivered[sub]) + 1
         /\ frame'.id <= published[sub]
  <1>1. receiveLoop = "read" /\ TypeOK
    BY DEF TakeFrame, ChannelInv
  <1>2. frame' = inbox[1] /\ Len(inbox) \in Nat /\ Len(inbox) >= 1
    BY <1>1, TakeInbox
  <1>3. unhandledMessage = NoFrame
    BY <1>1 DEF ChannelInv, ParkedHeld
  <1>4. /\ 1 \in Messages(sub)
        /\ \A s \in Subscriptions \ {sub} : 1 \notin Messages(s)
    BY <1>2 DEF Messages
  <1>5. ASSUME NEW s \in Subscriptions
        PROVE  Channel(s) /\ Taken(s) = Len(delivered[s])
    <2>1. Len(delivered[s]) \in Nat
      BY <1>1, ChannelTypes
    <2>2. unhandledMessage.subscription # s
      BY <1>3, SessionAssumption DEF NoFrame
    <2> QED
      BY <1>1, <2>1, <2>2 DEF ChannelInv, Channels, Taken
  <1>6. inbox[1].id = Taken(sub) + 1 /\ inbox[1].id <= published[sub]
    BY <1>1, <1>4, <1>5, FirstIsNext
  <1> QED
    BY <1>2, <1>3, <1>4, <1>5, <1>6

\* A message is handed to the receive() that waits for it.
LEMMA DeliverChannels ==
  ASSUME ChannelInv, TypeOK', ParkedHeld', DeliverMessage
  PROVE  ChannelInv'
  <1>1. /\ TakeFrame /\ frame'.command = "MESSAGE"
        /\ UNCHANGED <<published, terminateCalled, unhandledMessage>>
        /\ receiveLoop' = "message"
    BY DEF DeliverMessage, TakeFrame, serverVars, AfterMessage
  <1>2. PICK sub : sub = frame'.subscription
    OBVIOUS
  <1>3. /\ delivered' = [delivered EXCEPT ![sub] = Append(@, frame'.id)]
        /\ sub # None
    BY <1>2 DEF DeliverMessage, Requested
  <1>4. sub \in Subscriptions /\ frame'.id \in Nat
    <2>1. frame' \in Frame
      BY DEF TypeOK, LoopTypeOK
    <2> QED
      BY <1>2, <1>3, <2>1 DEF Frame
  <1>5. /\ unhandledMessage = NoFrame /\ 1 \in Messages(sub)
        /\ \A s \in Subscriptions \ {sub} : 1 \notin Messages(s)
        /\ \A s \in Subscriptions : Channel(s) /\ Taken(s) = Len(delivered[s])
    BY <1>1, <1>2, <1>4, TakenMessage
  <1>6. /\ delivered \in [Subscriptions -> Seq(Nat)] /\ TypeOK
        /\ \A s \in Subscriptions : Len(delivered[s]) \in Nat
    BY ChannelTypes DEF ChannelInv, TypeOK, LoopTypeOK
  <1>7. /\ Len(delivered'[sub]) = Len(delivered[sub]) + 1
        /\ \A s \in Subscriptions \ {sub} : delivered'[s] = delivered[s]
    BY <1>3, <1>4, <1>6
  <1>8. \A s \in Subscriptions : unhandledMessage'.subscription # s
    BY <1>1, <1>5, SessionAssumption DEF NoFrame
  <1>9. ASSUME NEW s \in Subscriptions
        PROVE  /\ Len(delivered'[s]) \in Nat
               /\ Taken(s)' = Len(delivered'[s])
    <2>1. Len(delivered'[s]) \in Nat
      BY <1>4, <1>6, <1>7
    <2>2. Taken(s)' = Len(delivered'[s]) + 0
      BY <1>8 DEF Taken
    <2> QED
      BY <2>1, <2>2
  <1>10. ASSUME NEW s \in Subscriptions PROVE Channel(s)'
    <2>1. CASE s = sub
      <3>1. Taken(s)' = Taken(s) + 1
        BY <1>5, <1>7, <1>9, <2>1
      <3> QED
        BY <1>1, <1>5, <1>6, <2>1, <3>1, TakeChannel
    <2>2. CASE s # sub
      <3>1. Taken(s)' = Taken(s) /\ 1 \notin Messages(s)
        BY <1>5, <1>7, <1>9, <2>2
      <3> QED
        BY <1>1, <1>5, <1>6, <3>1, TakeChannel
    <2> QED
      BY <2>1, <2>2
  <1>11. Channels'
    BY <1>10 DEF Channels
  <1>12. ParkedNext'
    BY <1>8 DEF ParkedNext
  <1> QED
    BY <1>11, <1>12 DEF ChannelInv

\* A message that nobody waits for is parked.
LEMMA ParkChannels ==
  ASSUME ChannelInv, TypeOK', ParkedHeld', ParkMessage
  PROVE  ChannelInv'
  <1>1. /\ TakeFrame /\ frame'.command = "MESSAGE"
        /\ UNCHANGED <<published, terminateCalled, delivered>>
        /\ receiveLoop' = "message" /\ unhandledMessage' = frame'
        /\ frame'.subscription \in Subscriptions
    BY DEF ParkMessage, TakeFrame, serverVars, AfterMessage, ChannelInv, TypeOK,
           RequestsTypeOK
  <1>2. PICK sub \in Subscriptions : sub = frame'.subscription
    BY <1>1
  <1>3. /\ 1 \in Messages(sub)
        /\ \A s \in Subscriptions \ {sub} : 1 \notin Messages(s)
        /\ \A s \in Subscriptions : Channel(s) /\ Taken(s) = Len(delivered[s])
        /\ frame'.id = Len(delivered[sub]) + 1
        /\ frame'.id <= published[sub]
    BY <1>1, <1>2, TakenMessage
  <1>4. TypeOK /\ \A s \in Subscriptions : Len(delivered[s]) \in Nat
    BY ChannelTypes DEF ChannelInv
  <1>5. ASSUME NEW s \in Subscriptions PROVE Channel(s)'
    <2>1. CASE s = sub
      <3>1. Taken(s)' = Len(delivered[s]) + 1
        BY <1>1, <1>2, <2>1 DEF Taken
      <3>2. Taken(s)' = Taken(s) + 1
        BY <1>3, <3>1
      <3> QED
        BY <1>1, <1>3, <1>4, <2>1, <3>2, TakeChannel
    <2>2. CASE s # sub
      <3>1. Taken(s)' = Len(delivered[s]) + 0
        BY <1>1, <1>2, <2>2 DEF Taken
      <3>2. Taken(s)' = Taken(s) /\ 1 \notin Messages(s)
        BY <1>3, <1>4, <2>2, <3>1
      <3> QED
        BY <1>1, <1>3, <1>4, <3>2, TakeChannel
    <2> QED
      BY <2>1, <2>2
  <1>6. Channels'
    BY <1>5 DEF Channels
  <1>7. ParkedNext'
    BY <1>1, <1>2, <1>3 DEF ParkedNext
  <1> QED
    BY <1>6, <1>7 DEF ChannelInv

\* A frame that is no message is read.
LEMMA ReadHeaderChannels ==
  ASSUME ChannelInv, TypeOK', ParkedHeld', ReadHeader
  PROVE  ChannelInv'
  <1>1. /\ TakeFrame /\ frame'.command # "MESSAGE" /\ receiveLoop = "read"
        /\ UNCHANGED <<published, terminateCalled, delivered, unhandledMessage>>
    BY DEF ReadHeader, TakeFrame, serverVars, historyVars
  <1>2. TypeOK /\ \A s \in Subscriptions : Channel(s)
    BY <1>1 DEF ChannelInv, Channels
  <1>3. \A s \in Subscriptions : Taken(s)' = Taken(s) /\ 1 \notin Messages(s)
    BY <1>1, <1>2, TakeInbox DEF Taken, Messages
  <1>4. Channels'
    BY <1>1, <1>2, <1>3, TakeChannel DEF Channels
  <1>5. ParkedNext'
    BY <1>1 DEF ParkedNext, ChannelInv
  <1> QED
    BY <1>4, <1>5 DEF ChannelInv

\* A message that is rejected ends the session: no later one is delivered.
LEMMA RejectChannels ==
  ASSUME ChannelInv, TypeOK', ParkedHeld', RejectMessage
  PROVE  ChannelInv'
  <1>1. /\ terminateCalled' /\ receiveLoop' = "check"
        /\ UNCHANGED <<published, delivered, unhandledMessage>>
    BY TerminateCalled
    DEF RejectMessage, TerminateNow, TakeFrame, serverVars, historyVars
  <1> QED
    BY <1>1 DEF ChannelInv, Channels, ParkedNext

\* The server publishes, answers, or fails.
LEMMA ServerChannels ==
  ASSUME ChannelInv, TypeOK', ParkedHeld',
         \/ ServerProcesses \/ ServerFails
         \/ \E sub \in Subscriptions : ServerPublishes(sub)
  PROVE  ChannelInv'
  <1>1. /\ ~terminateCalled
        /\ UNCHANGED <<delivered, unhandledMessage, terminateCalled, receiveLoop>>
    BY DEF ServerProcesses, ServerFails, ServerPublishes, ServerUnchanged,
           frameVars, historyVars
  <1>2. TypeOK /\ \A s \in Subscriptions : Channel(s) /\ Taken(s)' = Taken(s)
    BY <1>1 DEF ChannelInv, Channels, Taken
  <1>3. ASSUME NEW f, inbox' = Append(inbox, f), UNCHANGED published,
               f.command = "MESSAGE" => f.subscription \notin Subscriptions
        PROVE  ChannelInv'
    <2>1. Channels'
      BY <1>2, <1>3, OtherArrives DEF Channels
    <2> QED
      BY <1>1, <1>3, <2>1 DEF ChannelInv, ParkedNext
  <1>4. CASE UNCHANGED inbox /\ UNCHANGED published
    BY <1>1, <1>4, SilentChannels
  <1>5. CASE ServerProcesses
    <2>1. PICK op : inbox' = Append(inbox, Reply("RECEIPT", op)) \/ UNCHANGED inbox
      BY <1>5 DEF ServerProcesses
    <2>2. Reply("RECEIPT", op).command # "MESSAGE" /\ UNCHANGED published
      BY <1>5 DEF Reply, ServerProcesses
    <2> QED
      BY <1>3, <1>4, <2>1, <2>2
  <1>6. CASE ServerFails
    <2>1. PICK f \in FaultyFrames : inbox' = Append(inbox, f) /\ UNCHANGED published
      BY <1>6 DEF ServerFails
    <2>2. f.command = "MESSAGE" => f.subscription \notin Subscriptions
      BY SessionAssumption DEF FaultyFrames, Reply, Message, NoFrame
    <2> QED
      BY <1>3, <2>1, <2>2
  <1>7. ASSUME NEW sub \in Subscriptions, ServerPublishes(sub) PROVE ChannelInv'
    <2>1. /\ published' = [published EXCEPT ![sub] = @ + 1]
          /\ inbox' = Append(inbox, Message(sub, published[sub] + 1))
          /\ published \in [Subscriptions -> 0..MaxMessages]
      BY <1>2, <1>7 DEF ServerPublishes, TypeOK, ServerTypeOK
    <2>2. /\ published'[sub] = published[sub] + 1
          /\ \A s \in Subscriptions \ {sub} : published'[s] = published[s]
      BY <2>1
    <2>3. ASSUME NEW s \in Subscriptions PROVE Channel(s)'
      <3>1. CASE s = sub
        BY <1>2, <2>1, <2>2, <3>1, MessageArrives
      <3>2. CASE s # sub
        <4>1. Message(sub, published[sub] + 1).subscription # s
          BY <3>2 DEF Message
        <4> QED
          BY <1>2, <2>1, <2>2, <3>2, <4>1, OtherArrives
      <3> QED
        BY <3>1, <3>2
    <2>4. Channels'
      BY <2>3 DEF Channels
    <2>5. ASSUME NEW s \in Subscriptions, unhandledMessage.subscription = s
          PROVE  unhandledMessage.id <= published'[s]
      <3>1. /\ unhandledMessage.id = Len(delivered[s]) + 1
            /\ unhandledMessage.id <= published[s]
        BY <2>5 DEF ChannelInv, ParkedNext
      <3>2. Len(delivered[s]) \in Nat /\ published[s] \in Nat
        BY <1>2, ChannelTypes
      <3>3. published'[s] \in {published[s], published[s] + 1}
        BY <2>2
      <3> QED
        BY <3>1, <3>2, <3>3
    <2>6. ParkedNext'
      BY <1>1, <2>5 DEF ParkedNext, ChannelInv
    <2> QED
      BY <2>4, <2>6 DEF ChannelInv
  <1> QED
    BY <1>5, <1>6, <1>7

\* ChannelInv holds initially.
LEMMA InitChannels == Init => ChannelInv
  <1> SUFFICES ASSUME Init PROVE ChannelInv
    OBVIOUS
  <1>1. /\ inbox = <<>> /\ Len(inbox) = 0 /\ unhandledMessage = NoFrame
        /\ \A s \in Subscriptions : delivered[s] = <<>> /\ published[s] = 0
    BY DEF Init
  <1>2. ASSUME NEW s \in Subscriptions PROVE Taken(s) = 0 /\ Messages(s) = {}
    <2>1. unhandledMessage.subscription # s /\ Len(delivered[s]) = 0
      BY <1>1, SessionAssumption DEF NoFrame
    <2> QED
      BY <1>1, <2>1 DEF Taken, Messages
  <1>3. Channels
    BY <1>1, <1>2 DEF Channels, Channel
  <1>4. ParkedNext
    BY <1>1, SessionAssumption DEF ParkedNext, NoFrame
  <1>5. ParkedHeld
    BY <1>1 DEF ParkedHeld
  <1> QED
    BY <1>3, <1>4, <1>5, InitType DEF ChannelInv

\* The steps that hand out, publish and take no message.
SilentStep ==
  \/ \E r \in Requests : Send(r)
  \/ \E sub \in Subscriptions : CancelReceive(sub)
  \/ \E op \in Sends : WriteSucceeds(op) \/ WriteFails(op) \/ ReceiptTimesOut(op)
  \/ Shutdown \/ ReadBody \/ BodyFails \/ ReadFails \/ EndMessage \/ EndReceipt
  \/ ReceiptBodyFails \/ EndError \/ CheckLoop
  \/ UNCHANGED vars

\* The steps that touch neither messages nor the parked one.
LEMMA SilentKeeps ==
  ASSUME SilentStep
  PROVE  UNCHANGED <<inbox, published, delivered, unhandledMessage>>
  <1> USE DEF frameVars, serverVars, historyVars, LoopUnchanged
  <1>1. ASSUME NEW r \in Requests, Send(r)
        PROVE  UNCHANGED <<inbox, published, delivered, unhandledMessage>>
    BY <1>1 DEF Send
  <1>2. CASE \/ \E sub \in Subscriptions : CancelReceive(sub)
             \/ \E op \in Sends : ReceiptTimesOut(op)
             \/ Shutdown \/ ReadBody \/ BodyFails \/ EndMessage \/ CheckLoop
    BY <1>2 DEF CancelReceive, ReceiptTimesOut, Shutdown, ReadBody, BodyFails,
                BodyEnds, EndMessage,
                CheckLoop
  <1>3. ASSUME NEW op \in Sends, WriteSucceeds(op) \/ WriteFails(op)
        PROVE  UNCHANGED <<inbox, published, delivered, unhandledMessage>>
    BY <1>3 DEF WriteSucceeds, WriteFails
  <1>4. CASE ReadFails \/ EndReceipt \/ ReceiptBodyFails \/ EndError
    BY <1>4 DEF ReadFails, EndReceipt, ReceiptBodyFails, EndError
  <1>5. CASE UNCHANGED vars
    BY <1>5 DEF vars
  <1> QED
    BY <1>1, <1>2, <1>3, <1>4, <1>5 DEF SilentStep

\* Every step keeps ChannelInv.
LEMMA NextChannels == ChannelInv /\ [Next]_vars => ChannelInv'
  <1> SUFFICES ASSUME ChannelInv, [Next]_vars PROVE ChannelInv'
    OBVIOUS
  <1>1. TypeOK' /\ ParkedHeld'
    BY NextType, NextParked DEF ChannelInv
  <1>2. CASE SilentStep
    <2>1. UNCHANGED <<inbox, published, delivered, unhandledMessage>>
      BY <1>2, SilentKeeps
    <2>2. ~terminateCalled' => ~terminateCalled
      BY StaysTerminated
    <2>3. receiveLoop' = "read" => ~terminateCalled \/ receiveLoop = "read"
      <3>1. CASE LoopKept
        BY <3>1 DEF LoopKept
      <3>2. CASE ReadFails \/ EndMessage \/ EndReceipt \/ ReceiptBodyFails \/ EndError
        BY <3>2, IterationEnds
      <3>3. CASE ReadBody \/ BodyFails \/ CheckLoop \/ UNCHANGED vars
        BY <3>3 DEF ReadBody, BodyFails, BodyEnds, CheckLoop, LoopState, vars
      <3> QED
        BY <1>2, <3>1, <3>2, <3>3, KeptSteps DEF SilentStep
    <2> QED
      BY <1>1, <2>1, <2>2, <2>3, SilentChannels
  <1> QED
    BY <1>1, <1>2, ReceiveChannels, DeliverChannels, ParkChannels, RejectChannels,
       ReadHeaderChannels, ServerChannels
    DEF Next, SilentStep

\* The inductive invariant of the subscriptions.
THEOREM ChannelInvCorrect == Spec => []ChannelInv
  BY InitChannels, NextChannels, PTL DEF Spec

-----------------------------------------------------------------------------
(* Every step of the session is a step of the channels, or a stutter.       *)

\* Handing out the message that follows the last one.
LEMMA HandOut ==
  ASSUME TypeOK, NEW sub \in Subscriptions, NEW id,
         delivered' = [delivered EXCEPT ![sub] = Append(@, id)],
         id = Len(delivered[sub]) + 1, id <= published[sub], UNCHANGED published
  PROVE  Delivery!Deliver(sub)
  <1>1. Len(delivered[sub]) \in Nat /\ published[sub] \in Nat
    BY ChannelTypes
  <1>2. Len(delivered[sub]) < published[sub]
    BY <1>1
  <1> QED
    BY <1>2 DEF Delivery!Deliver

\* Every step of Session is a step of Delivery or leaves its variables alone.
LEMMA StepImplements ==
  ASSUME ChannelInv, [Next]_vars
  PROVE  [Delivery!Next]_<<published, delivered>>
  <1>1. TypeOK /\ TypeOK'
    BY NextType DEF ChannelInv
  <1>2. CASE SilentStep
    BY <1>2, SilentKeeps
  <1>3. ASSUME NEW sub \in Subscriptions, Receive(sub)
        PROVE  [Delivery!Next]_<<published, delivered>>
    <2>1. UNCHANGED published
      BY <1>3 DEF Receive, serverVars
    <2>2. CASE /\ unhandledMessage.subscription = sub
               /\ delivered' = [delivered EXCEPT
                                  ![sub] = Append(@, unhandledMessage.id)]
      <3>1. /\ unhandledMessage.id = Len(delivered[sub]) + 1
            /\ unhandledMessage.id <= published[sub]
        BY <2>2 DEF ChannelInv, ParkedNext
      <3>2. Delivery!Deliver(sub)
        BY <1>1, <2>1, <2>2, <3>1, HandOut
      <3> QED
        BY <3>2 DEF Delivery!Next
    <2>3. CASE UNCHANGED delivered
      BY <2>1, <2>3
    <2> QED
      BY <1>3, <2>2, <2>3 DEF Receive
  <1>4. CASE DeliverMessage
    <2>1. PICK sub : sub = frame'.subscription
      OBVIOUS
    <2>2. /\ TakeFrame /\ frame'.command = "MESSAGE" /\ UNCHANGED published
          /\ delivered' = [delivered EXCEPT ![sub] = Append(@, frame'.id)]
          /\ sub # None
      BY <1>4, <2>1 DEF DeliverMessage, Requested, TakeFrame, serverVars
    <2>3. sub \in Subscriptions
      <3>1. frame' \in Frame
        BY <1>1 DEF TypeOK, LoopTypeOK
      <3> QED
        BY <2>1, <2>2, <3>1 DEF Frame
    <2>4. frame'.id = Len(delivered[sub]) + 1 /\ frame'.id <= published[sub]
      BY <2>1, <2>2, <2>3, TakenMessage
    <2>5. Delivery!Deliver(sub)
      BY <1>1, <2>2, <2>3, <2>4, HandOut
    <2> QED
      BY <2>3, <2>5 DEF Delivery!Next
  <1>5. CASE \/ ParkMessage \/ RejectMessage \/ ReadHeader
             \/ ServerProcesses \/ ServerFails
    BY <1>5 DEF ParkMessage, RejectMessage, ReadHeader, TakeFrame,
                ServerProcesses, ServerFails, ServerUnchanged, serverVars,
                historyVars
  <1>6. ASSUME NEW sub \in Subscriptions, ServerPublishes(sub)
        PROVE  [Delivery!Next]_<<published, delivered>>
    <2>1. Delivery!Publish(sub)
      BY <1>6 DEF ServerPublishes, ServerUnchanged, historyVars, Delivery!Publish
    <2> QED
      BY <2>1 DEF Delivery!Next
  <1> QED
    BY <1>2, <1>3, <1>4, <1>5, <1>6 DEF Next, SilentStep

\* Whatever is parked, cancelled, replaced, unsubscribed or closed on the way, a
\* subscription hands out its messages without loss, duplication or reordering.
THEOREM DeliveryCorrect == Spec => DeliverySpec
  <1>1. Init => Delivery!Init
    BY DEF Init, Delivery!Init
  <1>2. ChannelInv /\ [Next]_vars => [Delivery!Next]_<<published, delivered>>
    BY StepImplements
  <1> QED
    BY <1>1, <1>2, ChannelInvCorrect, PTL DEF Spec, DeliverySpec, Delivery!Spec
=============================================================================
