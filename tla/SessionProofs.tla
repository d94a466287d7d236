--------------------------- MODULE SessionProofs ---------------------------
(***************************************************************************)
(* Theorems about the send side and the receipts of Session, for every     *)
(* value of its constants.                                                 *)
(***************************************************************************)
EXTENDS Session, TLAPS

-----------------------------------------------------------------------------
(* Type correctness.                                                        *)

\* Calling back keeps the type of a table of promises.
LEMMA SettleType ==
  ASSUME NEW D, NEW R, NEW results \in [D -> R], NEW calls, NEW r \in R
  PROVE  Settle(results, calls, r) \in [D -> R]
  BY DEF Settle

\* observeSendCompletion keeps the types of what it changes.
LEMMA ObserveType ==
  ASSUME TypeOK, NEW ops
  PROVE  /\ SubscriptionsAfter(ops) \subseteq Subscriptions
         /\ MessageRequestsAfter(ops)
              \in [Subscriptions -> Receives \cup {NoReceive}]
         /\ ReceiveResultAfter(ops) \in [Receives -> ReceiveResult]
  <1>1. SubscriptionsAfter(ops) \subseteq Subscriptions
    BY DEF SubscriptionsAfter
  <1>2. MessageRequestsAfter(ops)
          \in [Subscriptions -> Receives \cup {NoReceive}]
    BY DEF MessageRequestsAfter, TypeOK, RequestsTypeOK
  <1>3. ReceiveResultAfter(ops) \in [Receives -> ReceiveResult]
    <2>1. receiveResult \in [Receives -> ReceiveResult]
      BY DEF TypeOK, RequestsTypeOK
    <2>2. "cancelled" \in ReceiveResult
      BY DEF ReceiveResult
    <2> QED
      BY <2>1, <2>2, SettleType DEF ReceiveResultAfter
  <1> QED
    BY <1>1, <1>2, <1>3

\* Closing all requests keeps their types.
LEMMA CloseType ==
  ASSUME TypeOK,
         NEW results \in [Sends -> SendResult],
         NEW received \in [Receives -> ReceiveResult],
         NEW receipts,
         NEW error \in {"OperationCancelled", "SessionClosed"},
         CloseRequests(results, received, receipts, error)
  PROVE  RequestsTypeOK'
  <1>1. error \in SendResult /\ CancelOrFail(error) \in ReceiveResult
    BY DEF SendResult, ReceiveResult, CancelOrFail
  <1>2. sendResult' \in [Sends -> SendResult]
    BY <1>1, SettleType DEF CloseRequests
  <1>3. receiveResult' \in [Receives -> ReceiveResult]
    BY <1>1, SettleType DEF CloseRequests
  <1> QED
    BY <1>2, <1>3 DEF CloseRequests, RequestsTypeOK

\* terminate() keeps the types, whatever its caller leaves.
LEMMA TerminateType ==
  ASSUME TypeOK,
         NEW results \in [Sends -> SendResult],
         NEW received \in [Receives -> ReceiveResult],
         NEW receipts \in SUBSET Sends,
         NEW subs \in SUBSET Subscriptions,
         NEW msgs \in [Subscriptions -> Receives \cup {NoReceive}],
         Terminate(results, received, receipts, subs, msgs)
  PROVE  RequestsTypeOK'
  <1>1. CASE ~terminateCalled /\ RequestsOpen
    <2>1. CloseRequests(results, received, receipts, "SessionClosed")
      BY <1>1 DEF Terminate
    <2> QED
      BY <2>1, CloseType
  <1>2. CASE ~(~terminateCalled /\ RequestsOpen)
    BY <1>2 DEF Terminate, TypeOK, RequestsTypeOK
  <1> QED
    BY <1>1, <1>2

\* terminate() settles promises and empties what it owns within their types.
LEMMA TerminateNowType ==
  ASSUME TypeOK, TerminateNow
  PROVE  RequestsTypeOK' /\ terminateCalled' /\ disconnected'
  <1>1. RequestsTypeOK'
    BY TerminateType DEF TerminateNow, TypeOK, RequestsTypeOK
  <1>2. terminateCalled' /\ disconnected'
    BY DEF TerminateNow, Terminate
  <1> QED
    BY <1>1, <1>2

\* sendLoop keeps the types of what it changes.
LEMMA SendLoopType ==
  ASSUME TypeOK,
         NEW op \in Sends,
         NEW r,
         NEW results \in [Sends -> SendResult],
         NEW flight \in SUBSET Sends,
         SendLoop(op, r, results, flight)
  PROVE  /\ disconnected' \in BOOLEAN /\ sendLoopRunning' \in BOOLEAN
         /\ receiveFrameRequests' \in Int
         /\ receiveLoop' \in LoopStates
         /\ receiptRequests' \subseteq Sends
         /\ receiptSeq' \in [Sends -> Nat]
         /\ nextReceiptSeq' \in Nat
         /\ sendResult' \in [Sends -> SendResult]
         /\ writing' \subseteq Sends
         /\ written' \in Seq(Sends)
         /\ Len(written') >= Len(written)
  <1>1. disconnected' \in BOOLEAN /\ sendLoopRunning' \in BOOLEAN
    BY DEF SendLoop, TypeOK, FlagsTypeOK, EntersDisconnected
  <1>2. /\ sendResult' \in [Sends -> SendResult]
        /\ writing' \subseteq Sends
        /\ written' \in Seq(Sends)
        /\ Len(written') >= Len(written)
    <2>1. "SessionClosed" \in SendResult
      BY DEF SendResult
    <2>2. Settle(results, {op}, "SessionClosed") \in [Sends -> SendResult]
      BY <2>1, SettleType
    <2>3. sendResult' \in [Sends -> SendResult]
      BY <2>2 DEF SendLoop
    <2>4. writing' \subseteq Sends
      BY DEF SendLoop
    <2>5. written' = written \/ written' = Append(written, op)
      BY DEF SendLoop
    <2>6. written' \in Seq(Sends) /\ Len(written') >= Len(written)
      <3>1. written \in Seq(Sends)
        BY DEF TypeOK, SendTypeOK
      <3> QED
        BY <2>5, <3>1
    <2> QED
      BY <2>3, <2>4, <2>6
  <1>3. receiveFrameRequests' \in Int /\ receiveLoop' \in LoopStates
    BY DEF SendLoop, TypeOK, RequestsTypeOK, LoopTypeOK, AddReceiveRequest,
           LoopState, LoopStates
  <1>4. /\ receiptRequests' \subseteq Sends
        /\ receiptSeq' \in [Sends -> Nat]
        /\ nextReceiptSeq' \in Nat
    BY DEF SendLoop, TypeOK, RequestsTypeOK, SendTypeOK, receiptVars
  <1> QED
    BY <1>1, <1>2, <1>3, <1>4

\* The frame taken from the inbox is a frame.
LEMMA TakeFrameType ==
  ASSUME TypeOK, TakeFrame
  PROVE  frame' \in Frame /\ inbox' \in Seq(Frame)
  BY DEF TypeOK, LoopTypeOK, TakeFrame

\* The server's fields, when the client only writes more.
LEMMA ServerTypeGrows ==
  ASSUME TypeOK, UNCHANGED serverVars,
         written' \in Seq(Sends), Len(written') >= Len(written)
  PROVE  ServerTypeOK'
  <1>1. Len(written) \in Nat /\ Len(written') \in Nat
    BY DEF TypeOK, SendTypeOK
  <1> QED
    BY <1>1 DEF TypeOK, ServerTypeOK, serverVars

\* A new session is well typed.
LEMMA InitType == Init => TypeOK
  <1> SUFFICES ASSUME Init PROVE TypeOK
    OBVIOUS
  <1>1. RequestsTypeOK
    BY DEF Init, RequestsTypeOK, SendResult, ReceiveResult
  <1>2. FlagsTypeOK
    BY DEF Init, FlagsTypeOK, BodyStates
  <1>3. SendTypeOK
    <2>1. NoRequest \in Request
      BY DEF NoRequest, Request, Commands, RECEIPT_NOT_REQUESTED,
             RECEIPT_DEFAULT_TIMEOUT
    <2> QED
      BY <2>1, SessionAssumption DEF Init, SendTypeOK
  <1>4. LoopTypeOK
    <2>1. NoFrame \in Frame
      BY DEF NoFrame, Frame
    <2> QED
      BY <2>1, SessionAssumption DEF Init, LoopTypeOK, LoopStates
  <1>5. ServerTypeOK
    BY SessionAssumption DEF Init, ServerTypeOK
  <1> QED
    BY <1>1, <1>2, <1>3, <1>4, <1>5 DEF TypeOK

-----------------------------------------------------------------------------
(* Every action keeps TypeOK.                                               *)

\* send(): a call refused at once, or one more in the queue or with the loop.
LEMMA SendType ==
  ASSUME TypeOK, NEW r \in Requests, Send(r)
  PROVE  TypeOK'
  <1> USE DEF sendVars, receiptVars, subscriptionVars, callVars, frameVars,
              serverVars, historyVars
  <1>1. sends + 1 \in Sends /\ sends' \in 0..MaxSends
    BY SessionAssumption DEF TypeOK, SendTypeOK, Send, Sends
  <1>2. request' \in [Sends -> Request]
    BY SessionAssumption DEF TypeOK, SendTypeOK, Send
  <1>3. /\ [sendResult EXCEPT ![sends + 1] = "pending"] \in [Sends -> SendResult]
        /\ [sendResult EXCEPT ![sends + 1] = "rejected"] \in [Sends -> SendResult]
    BY DEF TypeOK, RequestsTypeOK, SendResult
  <1>4. LoopTypeOK' /\ ServerTypeOK'
    <2>1. /\ receiveLoop' \in LoopStates
          /\ written' \in Seq(Sends)
          /\ Len(written') >= Len(written)
      <3>1. CASE UNCHANGED <<receiveLoop, written>>
        BY <3>1 DEF TypeOK, LoopTypeOK, SendTypeOK
      <3>2. CASE SendLoop(sends + 1, r,
                          [sendResult EXCEPT ![sends + 1] = "pending"], writing)
        <4>1. writing \in SUBSET Sends
          BY DEF TypeOK, SendTypeOK
        <4> QED
          BY <1>1, <1>3, <3>2, <4>1, SendLoopType
      <3> QED
        BY <3>1, <3>2 DEF Send
    <2>2. LoopTypeOK'
      BY <2>1 DEF TypeOK, LoopTypeOK, Send
    <2>3. UNCHANGED serverVars
      BY DEF Send
    <2> QED
      BY <2>1, <2>2, <2>3, ServerTypeGrows
  <1>5. CASE RefusesSend(r)
    <2>1. RequestsTypeOK'
      BY <1>3, <1>5 DEF TypeOK, RequestsTypeOK, Send
    <2>2. FlagsTypeOK'
      BY <1>5 DEF TypeOK, FlagsTypeOK, Send
    <2>3. SendTypeOK'
      BY <1>1, <1>2, <1>5 DEF TypeOK, SendTypeOK, Send
    <2> QED
      BY <1>4, <2>1, <2>2, <2>3 DEF TypeOK
  <1>6. CASE ~RefusesSend(r) /\ ~StartsLoop
    <2> DEFINE results == [sendResult EXCEPT ![sends + 1] = "pending"]
    <2>a. /\ sendQueue' = Append(sendQueue, sends + 1)
          /\ sendResult' = results
          /\ UNCHANGED <<subscriptions, receiveFrameRequests, messageRequests,
                         receiptRequests, receiveResult>>
      BY <1>6 DEF Send, Queued
    <2>b. results \in [Sends -> SendResult]
      BY <1>3
    <2> HIDE DEF results
    <2>1. RequestsTypeOK'
      BY <1>1, <2>a, <2>b DEF TypeOK, RequestsTypeOK
    <2>2. FlagsTypeOK'
      BY <1>6 DEF TypeOK, FlagsTypeOK, Send
    <2>3. SendTypeOK'
      BY <1>1, <1>2, <1>6 DEF TypeOK, SendTypeOK, Send
    <2> QED
      BY <1>4, <2>1, <2>2, <2>3 DEF TypeOK
  <1>7. CASE ~RefusesSend(r) /\ StartsLoop
    <2> DEFINE results == [sendResult EXCEPT ![sends + 1] = "pending"]
    <2>1. SendLoop(sends + 1, r, results, writing)
      BY <1>7 DEF Send
    <2>2. writing \in SUBSET Sends
      BY DEF TypeOK, SendTypeOK
    <2> HIDE DEF results
    <2>3. /\ disconnected' \in BOOLEAN /\ sendLoopRunning' \in BOOLEAN
          /\ receiveFrameRequests' \in Int
          /\ receiptRequests' \subseteq Sends
          /\ receiptSeq' \in [Sends -> Nat]
          /\ nextReceiptSeq' \in Nat
          /\ sendResult' \in [Sends -> SendResult]
          /\ writing' \subseteq Sends
          /\ written' \in Seq(Sends)
      BY <1>1, <1>3, <2>1, <2>2, SendLoopType DEF results
    <2>4. RequestsTypeOK'
      BY <1>7, <2>3 DEF TypeOK, RequestsTypeOK, Send
    <2>5. FlagsTypeOK'
      BY <1>7, <2>3 DEF TypeOK, FlagsTypeOK, Send
    <2>6. SendTypeOK'
      BY <1>1, <1>2, <2>3 DEF SendTypeOK
    <2> QED
      BY <1>4, <2>4, <2>5, <2>6 DEF TypeOK
  <1> QED
    BY <1>5, <1>6, <1>7

\* receive(): the request is added, or served from the parked message.
LEMMA ReceiveType ==
  ASSUME TypeOK, NEW sub \in Subscriptions, Receive(sub)
  PROVE  TypeOK'
  <1> USE DEF sendVars, receiptVars, serverVars
  <1>1. receives + 1 \in Receives /\ receives' \in 0..MaxReceives
    BY SessionAssumption DEF TypeOK, LoopTypeOK, Receive, Receives
  <1>2. FlagsTypeOK' /\ SendTypeOK' /\ ServerTypeOK'
    BY DEF TypeOK, FlagsTypeOK, SendTypeOK, ServerTypeOK, Receive
  <1>3. CASE unhandledMessage.subscription = sub
    <2>1. receiveResult' \in [Receives -> ReceiveResult]
      BY <1>1, <1>3 DEF TypeOK, RequestsTypeOK, Receive, ReceiveResult
    <2>2. delivered' \in [Subscriptions -> Seq(Nat)]
      <3>1. delivered' = [delivered EXCEPT
                            ![sub] = Append(@, unhandledMessage.id)]
        BY <1>3 DEF Receive
      <3>2. unhandledMessage.id \in Nat
        BY DEF TypeOK, LoopTypeOK, Frame
      <3> QED
        BY <3>1, <3>2 DEF TypeOK, LoopTypeOK
    <2>3. NoFrame \in Frame
      BY DEF NoFrame, Frame
    <2>4. RequestsTypeOK'
      BY <1>3, <2>1 DEF TypeOK, RequestsTypeOK, Receive
    <2>5. LoopTypeOK'
      BY <1>1, <1>3, <2>2, <2>3 DEF TypeOK, LoopTypeOK, Receive, ParkedTaken
    <2> QED
      BY <1>2, <2>4, <2>5 DEF TypeOK
  <1>4. CASE unhandledMessage.subscription # sub
    <2> DEFINE results ==
          Settle(receiveResult, {messageRequests[sub]}, "cancelled")
    <2>1. "cancelled" \in ReceiveResult /\ "pending" \in ReceiveResult
      BY DEF ReceiveResult
    <2>2. results \in [Receives -> ReceiveResult]
      BY <2>1, SettleType DEF TypeOK, RequestsTypeOK
    <2>3. receiveResult' = [results EXCEPT ![receives + 1] = "pending"]
      BY <1>4 DEF Receive
    <2> HIDE DEF results
    <2>4. receiveResult' \in [Receives -> ReceiveResult]
      BY <2>1, <2>2, <2>3
    <2>5. messageRequests' \in [Subscriptions -> Receives \cup {NoReceive}]
      BY <1>1, <1>4 DEF TypeOK, RequestsTypeOK, Receive
    <2>6. receiveFrameRequests' \in Int /\ receiveLoop' \in LoopStates
      BY <1>4 DEF TypeOK, RequestsTypeOK, LoopTypeOK, Receive,
                  AddReceiveRequest, RequestsWithout, LoopState, LoopStates
    <2>7. RequestsTypeOK'
      BY <1>4, <2>4, <2>5, <2>6 DEF TypeOK, RequestsTypeOK, Receive
    <2>8. LoopTypeOK'
      BY <1>1, <1>4, <2>6 DEF TypeOK, LoopTypeOK, Receive
    <2> QED
      BY <1>2, <2>7, <2>8 DEF TypeOK
  <1> QED
    BY <1>3, <1>4

\* cancelReceive(): the request is settled and forgotten.
LEMMA CancelReceiveType ==
  ASSUME TypeOK, NEW sub \in Subscriptions, CancelReceive(sub)
  PROVE  TypeOK'
  <1> USE DEF sendVars, receiptVars, callVars, frameVars, serverVars, historyVars
  <1>1. receiveResult' \in [Receives -> ReceiveResult]
    <2>1. "cancelled" \in ReceiveResult
      BY DEF ReceiveResult
    <2> QED
      BY <2>1, SettleType DEF TypeOK, RequestsTypeOK, CancelReceive
  <1>2. RequestsTypeOK'
    BY <1>1 DEF TypeOK, RequestsTypeOK, CancelReceive
  <1>3. FlagsTypeOK' /\ SendTypeOK' /\ LoopTypeOK' /\ ServerTypeOK'
    BY DEF TypeOK, FlagsTypeOK, SendTypeOK, LoopTypeOK, ServerTypeOK,
           CancelReceive
  <1> QED
    BY <1>2, <1>3 DEF TypeOK

\* shutdown() settles what is outstanding and closes the session.
LEMMA ShutdownType ==
  ASSUME TypeOK, Shutdown
  PROVE  TypeOK'
  <1> USE DEF callVars, frameVars, serverVars, historyVars
  <1>1. RequestsTypeOK'
    BY CloseType DEF TypeOK, RequestsTypeOK, Shutdown
  <1>2. FlagsTypeOK'
    BY DEF TypeOK, FlagsTypeOK, Shutdown
  <1>3. SendTypeOK' /\ LoopTypeOK' /\ ServerTypeOK'
    BY DEF TypeOK, SendTypeOK, LoopTypeOK, ServerTypeOK, Shutdown
  <1> QED
    BY <1>1, <1>2, <1>3 DEF TypeOK

\* The application reads a body to its end, or past an error.
LEMMA BodyEndsType ==
  ASSUME TypeOK, ReadBody \/ BodyFails
  PROVE  TypeOK'
  <1> USE DEF sendVars, receiptVars, subscriptionVars, callVars, serverVars,
              historyVars, ReadBody, BodyFails, BodyEnds, BodyStates
  <1>1. RequestsTypeOK' /\ SendTypeOK' /\ ServerTypeOK'
    BY DEF TypeOK, RequestsTypeOK, SendTypeOK, ServerTypeOK
  <1>2. FlagsTypeOK'
    BY DEF TypeOK, FlagsTypeOK
  <1>3. LoopTypeOK'
    BY DEF TypeOK, LoopTypeOK, LoopStates
  <1> QED
    BY <1>1, <1>2, <1>3 DEF TypeOK

\* The continuation of a writeFrame that succeeded.
LEMMA WriteSucceedsType ==
  ASSUME TypeOK, NEW op \in Sends, WriteSucceeds(op)
  PROVE  TypeOK'
  <1> USE DEF sendVars, receiptVars, callVars, frameVars, serverVars, historyVars
  <1> DEFINE done == IF receiptSeq[op] = 0 THEN {op} ELSE {}
             results == Settle(sendResult, done, "ok")
  <1>1. results \in [Sends -> SendResult]
    <2>1. "ok" \in SendResult
      BY DEF SendResult
    <2> QED
      BY <2>1, SettleType DEF TypeOK, RequestsTypeOK
  <1>2. /\ subscriptions' \subseteq Subscriptions
        /\ messageRequests' \in [Subscriptions -> Receives \cup {NoReceive}]
        /\ receiveResult' \in [Receives -> ReceiveResult]
    <2>1. /\ subscriptions' = SubscriptionsAfter(done)
          /\ messageRequests' = MessageRequestsAfter(done)
          /\ receiveResult' = ReceiveResultAfter(done)
      BY DEF WriteSucceeds
    <2> HIDE DEF done
    <2> QED
      BY <2>1, ObserveType
  <1>3. writing \ {op} \in SUBSET Sends
    BY DEF TypeOK, SendTypeOK
  <1>4. UNCHANGED serverVars
    BY DEF WriteSucceeds
  <1>5. UNCHANGED <<terminateCalled, inbox, callVars, frameVars, serverVars,
                    historyVars>>
    BY DEF WriteSucceeds
  <1>6. CASE LoopStops
    <2>1. /\ UNCHANGED <<disconnected, sendQueue, written, receiptVars,
                         receiveFrameRequests, receiveLoop>>
          /\ sendLoopRunning' = FALSE
          /\ writing' = writing \ {op}
          /\ sendResult' = results
      BY <1>6 DEF WriteSucceeds
    <2> HIDE DEF results
    <2>2. RequestsTypeOK'
      BY <1>1, <1>2, <2>1 DEF TypeOK, RequestsTypeOK
    <2>3. FlagsTypeOK'
      BY <1>5, <2>1 DEF TypeOK, FlagsTypeOK
    <2>4. SendTypeOK'
      BY <1>3, <1>5, <2>1 DEF TypeOK, SendTypeOK
    <2>5. LoopTypeOK'
      BY <1>5, <2>1 DEF TypeOK, LoopTypeOK
    <2>6. ServerTypeOK'
      BY <1>4, <2>1 DEF TypeOK, ServerTypeOK
    <2> QED
      BY <2>2, <2>3, <2>4, <2>5, <2>6 DEF TypeOK
  <1>7. CASE ~LoopStops
    <2>1. /\ sendQueue' = Tail(sendQueue)
          /\ SendLoop(Head(sendQueue), request[Head(sendQueue)], results,
                      writing \ {op})
      BY <1>7 DEF WriteSucceeds
    <2>2. Head(sendQueue) \in Sends /\ sendQueue' \in Seq(Sends)
      BY <1>7, <2>1 DEF TypeOK, RequestsTypeOK, LoopStops
    <2> HIDE DEF results
    <2>3. /\ disconnected' \in BOOLEAN /\ sendLoopRunning' \in BOOLEAN
          /\ receiveFrameRequests' \in Int
          /\ receiveLoop' \in LoopStates
          /\ receiptRequests' \subseteq Sends
          /\ receiptSeq' \in [Sends -> Nat]
          /\ nextReceiptSeq' \in Nat
          /\ sendResult' \in [Sends -> SendResult]
          /\ writing' \subseteq Sends
          /\ written' \in Seq(Sends)
          /\ Len(written') >= Len(written)
      BY <1>1, <1>3, <2>1, <2>2, SendLoopType
    <2>4. RequestsTypeOK'
      BY <1>2, <2>2, <2>3 DEF RequestsTypeOK
    <2>5. FlagsTypeOK'
      BY <1>5, <2>3 DEF TypeOK, FlagsTypeOK
    <2>6. SendTypeOK'
      BY <1>5, <2>3 DEF TypeOK, SendTypeOK
    <2>7. LoopTypeOK'
      BY <1>5, <2>3 DEF TypeOK, LoopTypeOK
    <2>8. ServerTypeOK'
      BY <1>4, <2>3, ServerTypeGrows
    <2> QED
      BY <2>4, <2>5, <2>6, <2>7, <2>8 DEF TypeOK
  <1> QED
    BY <1>6, <1>7

\* The continuation of a writeFrame that failed.
LEMMA WriteFailsType ==
  ASSUME TypeOK, NEW op \in Sends, WriteFails(op)
  PROVE  TypeOK'
  <1> USE DEF callVars, frameVars, serverVars, historyVars
  <1>1. RequestsTypeOK'
    <2>1. "TransportFailure" \in SendResult
      BY DEF SendResult
    <2>2. Settle(sendResult, {op}, "TransportFailure") \in [Sends -> SendResult]
      BY <2>1, SettleType DEF TypeOK, RequestsTypeOK
    <2>3. receiptRequests \ {op} \in SUBSET Sends
      BY DEF TypeOK, RequestsTypeOK
    <2> QED
      BY <2>2, <2>3, TerminateType DEF TypeOK, RequestsTypeOK, WriteFails
  <1>2. FlagsTypeOK'
    BY DEF TypeOK, FlagsTypeOK, WriteFails, Terminate
  <1>3. SendTypeOK' /\ LoopTypeOK' /\ ServerTypeOK'
    BY DEF TypeOK, SendTypeOK, LoopTypeOK, ServerTypeOK, WriteFails
  <1> QED
    BY <1>1, <1>2, <1>3 DEF TypeOK

\* The callback of a receipt timer.
LEMMA ReceiptTimesOutType ==
  ASSUME TypeOK, NEW op \in Sends, ReceiptTimesOut(op)
  PROVE  TypeOK'
  <1> USE DEF sendVars, subscriptionVars, callVars, frameVars, serverVars,
              historyVars
  <1>1. sendResult' \in [Sends -> SendResult]
    <2>1. "OperationTimeout" \in SendResult
      BY DEF SendResult
    <2> QED
      BY <2>1, SettleType DEF TypeOK, RequestsTypeOK, ReceiptTimesOut
  <1>2. RequestsTypeOK'
    BY <1>1 DEF TypeOK, RequestsTypeOK, ReceiptTimesOut
  <1>3. FlagsTypeOK' /\ SendTypeOK' /\ LoopTypeOK' /\ ServerTypeOK'
    BY DEF TypeOK, FlagsTypeOK, SendTypeOK, LoopTypeOK, ServerTypeOK,
           ReceiptTimesOut
  <1> QED
    BY <1>2, <1>3 DEF TypeOK

\* What TakeFrame alone says of the types.
LEMMA TakeFrameTypes ==
  ASSUME TypeOK, TakeFrame
  PROVE  /\ ServerTypeOK'
         /\ frame' \in Frame /\ inbox' \in Seq(Frame)
         /\ receives' \in 0..MaxReceives
         /\ (disconnected' \in BOOLEAN /\ terminateCalled' \in BOOLEAN)
              => FlagsTypeOK'
         /\ SendTypeOK'
  <1> USE DEF callVars, serverVars
  <1>1. ServerTypeOK' /\ SendTypeOK'
    BY DEF TypeOK, ServerTypeOK, SendTypeOK, TakeFrame
  <1>2. receives' \in 0..MaxReceives
    BY DEF TypeOK, LoopTypeOK, TakeFrame
  <1>3. (disconnected' \in BOOLEAN /\ terminateCalled' \in BOOLEAN)
           => FlagsTypeOK'
    BY DEF TypeOK, FlagsTypeOK, BodyStates, TakeFrame
  <1> QED
    BY <1>1, <1>2, <1>3, TakeFrameType

\* A MESSAGE for a waiting request.
LEMMA DeliverMessageType ==
  ASSUME TypeOK, DeliverMessage
  PROVE  TypeOK'
  <1> DEFINE sub == frame'.subscription
  <1>1. TakeFrame
    BY DEF DeliverMessage
  <1>2. frame' \in Frame /\ sub \in Subscriptions
    BY <1>1, TakeFrameType DEF DeliverMessage, Requested, Frame
  <1>3. receiveResult' \in [Receives -> ReceiveResult]
    <2>1. "message" \in ReceiveResult
      BY DEF ReceiveResult
    <2> QED
      BY <2>1, SettleType DEF TypeOK, RequestsTypeOK, DeliverMessage
  <1>4. RequestsTypeOK'
    BY <1>2, <1>3 DEF TypeOK, RequestsTypeOK, DeliverMessage
  <1>5. disconnected' \in BOOLEAN /\ terminateCalled' \in BOOLEAN
    BY DEF TypeOK, FlagsTypeOK, DeliverMessage
  <1>6. delivered' \in [Subscriptions -> Seq(Nat)]
    <2>1. delivered' = [delivered EXCEPT ![sub] = Append(@, frame'.id)]
      BY DEF DeliverMessage
    <2>2. frame'.id \in Nat
      BY <1>2 DEF Frame
    <2> QED
      BY <1>2, <2>1, <2>2 DEF TypeOK, LoopTypeOK
  <1>7. LoopTypeOK'
    BY <1>1, <1>6, TakeFrameTypes
    DEF TypeOK, LoopTypeOK, LoopStates, DeliverMessage, AfterMessage
  <1> QED
    BY <1>1, <1>4, <1>5, <1>7, TakeFrameTypes DEF TypeOK

\* A MESSAGE nobody waits for yet.
LEMMA ParkMessageType ==
  ASSUME TypeOK, ParkMessage
  PROVE  TypeOK'
  <1>1. TakeFrame
    BY DEF ParkMessage
  <1>2. RequestsTypeOK'
    BY DEF TypeOK, RequestsTypeOK, ParkMessage, subscriptionVars
  <1>3. disconnected' \in BOOLEAN /\ terminateCalled' \in BOOLEAN
    BY DEF TypeOK, FlagsTypeOK, ParkMessage
  <1>4. LoopTypeOK'
    BY <1>1, TakeFrameTypes
    DEF TypeOK, LoopTypeOK, LoopStates, ParkMessage, AfterMessage
  <1> QED
    BY <1>1, <1>2, <1>3, <1>4, TakeFrameTypes DEF TypeOK

\* A MESSAGE for no open subscription ends the session.
LEMMA RejectMessageType ==
  ASSUME TypeOK, RejectMessage
  PROVE  TypeOK'
  <1>1. TakeFrame
    BY DEF RejectMessage
  <1>2. RequestsTypeOK' /\ disconnected' \in BOOLEAN /\ terminateCalled' \in BOOLEAN
    BY TerminateNowType DEF RejectMessage
  <1>3. LoopTypeOK'
    BY <1>1, TakeFrameTypes
    DEF TypeOK, LoopTypeOK, LoopStates, RejectMessage, historyVars
  <1> QED
    BY <1>1, <1>2, <1>3, TakeFrameTypes DEF TypeOK

\* The continuation of readFrame, by command.
LEMMA ReadHeaderType ==
  ASSUME TypeOK, ReadHeader
  PROVE  TypeOK'
  <1>1. TakeFrame
    BY DEF ReadHeader
  <1>2. RequestsTypeOK'
    BY DEF TypeOK, RequestsTypeOK, ReadHeader, subscriptionVars
  <1>3. disconnected' \in BOOLEAN /\ terminateCalled' \in BOOLEAN
    BY DEF TypeOK, FlagsTypeOK, ReadHeader
  <1>4. receiveLoop' \in LoopStates
    BY DEF ReadHeader, LoopStates
  <1>5. LoopTypeOK'
    BY <1>1, <1>4, TakeFrameTypes
    DEF TypeOK, LoopTypeOK, ReadHeader, historyVars
  <1> QED
    BY <1>1, <1>2, <1>3, <1>5, TakeFrameTypes DEF TypeOK

\* What LoopUnchanged alone says of the types.
LEMMA LoopUnchangedTypes ==
  ASSUME TypeOK, LoopUnchanged, receiveLoop' = "check"
  PROVE  SendTypeOK' /\ LoopTypeOK' /\ ServerTypeOK'
  <1> USE DEF LoopUnchanged, callVars, serverVars, historyVars
  <1>1. SendTypeOK' /\ ServerTypeOK'
    BY DEF TypeOK, SendTypeOK, ServerTypeOK
  <1>2. LoopTypeOK'
    BY DEF TypeOK, LoopTypeOK, LoopStates
  <1> QED
    BY <1>1, <1>2

\* The flags after a step of the loop that may terminate the session.
LEMMA LoopFlagsType ==
  ASSUME TypeOK, LoopUnchanged, body' \in BodyStates,
         disconnected' \in BOOLEAN, terminateCalled' \in BOOLEAN
  PROVE  FlagsTypeOK'
  BY DEF TypeOK, FlagsTypeOK, LoopUnchanged, serverVars

\* The continuation of a readFrame that failed.
LEMMA ReadFailsType ==
  ASSUME TypeOK, ReadFails \/ ReceiptBodyFails
  PROVE  TypeOK'
  <1>1. TerminateNow /\ LoopUnchanged /\ receiveLoop' = "check"
    BY DEF ReadFails, ReceiptBodyFails
  <1>2. body' \in BodyStates
    BY DEF TypeOK, FlagsTypeOK, BodyStates, ReadFails, ReceiptBodyFails
  <1> QED
    BY <1>1, <1>2, TerminateNowType, LoopUnchangedTypes, LoopFlagsType
    DEF TypeOK

\* The receive loop goes on after a message body.
LEMMA EndMessageType ==
  ASSUME TypeOK, EndMessage
  PROVE  TypeOK'
  <1>1. LoopUnchanged /\ receiveLoop' = "check"
    BY DEF EndMessage
  <1>2. RequestsTypeOK'
    BY DEF TypeOK, RequestsTypeOK, EndMessage, subscriptionVars
  <1>3. FlagsTypeOK'
    BY <1>1, LoopFlagsType DEF TypeOK, FlagsTypeOK, EndMessage
  <1> QED
    BY <1>1, <1>2, <1>3, LoopUnchangedTypes DEF TypeOK

\* The receive loop decides whether to read another frame.
LEMMA CheckLoopType ==
  ASSUME TypeOK, CheckLoop
  PROVE  TypeOK'
  <1> USE DEF CheckLoop, LoopUnchanged, callVars, serverVars, historyVars,
              subscriptionVars
  <1>1. RequestsTypeOK' /\ SendTypeOK' /\ ServerTypeOK'
    BY DEF TypeOK, RequestsTypeOK, SendTypeOK, ServerTypeOK
  <1>2. FlagsTypeOK'
    BY DEF TypeOK, FlagsTypeOK
  <1>3. receiveLoop' \in LoopStates
    BY DEF LoopState, LoopStates
  <1>4. LoopTypeOK'
    BY <1>3 DEF TypeOK, LoopTypeOK
  <1> QED
    BY <1>1, <1>2, <1>4 DEF TypeOK

\* The completion of a DISCONNECT keeps the types.
LEMMA CompleteDisconnectType ==
  ASSUME TypeOK, NEW ops, NEW result \in SendResult,
         CompleteDisconnect(ops, result)
  PROVE  RequestsTypeOK' /\ terminateCalled' /\ disconnected'
  <1>1. Settle(sendResult, ops, result) \in [Sends -> SendResult]
    BY SettleType DEF TypeOK, RequestsTypeOK
  <1>2. Settle(Settle(sendResult, ops, result), receiptRequests, "ok")
          \in [Sends -> SendResult]
    <2>1. "ok" \in SendResult
      BY DEF SendResult
    <2> QED
      BY <1>1, <2>1, SettleType
  <1>3. RequestsTypeOK'
    BY <1>2, ObserveType, CloseType DEF CompleteDisconnect
  <1> QED
    BY <1>3 DEF CompleteDisconnect

\* A RECEIPT settles the requests up to its own.
LEMMA EndReceiptType ==
  ASSUME TypeOK, EndReceipt
  PROVE  TypeOK'
  <1> DEFINE ops == Answered(frame.id)
  <1>1. LoopUnchanged /\ receiveLoop' = "check" /\ body' \in BodyStates
    BY DEF EndReceipt, BodyStates
  <1>2. CASE TerminateNow
    BY <1>1, <1>2, TerminateNowType, LoopUnchangedTypes, LoopFlagsType
    DEF TypeOK
  <1>3. CASE CompleteDisconnect(ops, "ok")
    <2>1. "ok" \in SendResult
      BY DEF SendResult
    <2> HIDE DEF ops
    <2> QED
      BY <1>1, <1>3, <2>1, CompleteDisconnectType, LoopUnchangedTypes,
         LoopFlagsType DEF TypeOK
  <1>4. CASE ~TerminateNow /\ ~CompleteDisconnect(ops, "ok")
    <2>1. /\ receiveFrameRequests' = receiveFrameRequests - 1
          /\ sendResult' = Settle(sendResult, ops, "ok")
          /\ receiptRequests' = receiptRequests \ ops
          /\ subscriptions' = SubscriptionsAfter(ops)
          /\ messageRequests' = MessageRequestsAfter(ops)
          /\ receiveResult' = ReceiveResultAfter(ops)
          /\ UNCHANGED <<disconnected, terminateCalled, sendQueue>>
      BY <1>4 DEF EndReceipt
    <2>2. "ok" \in SendResult
      BY DEF SendResult
    <2> HIDE DEF ops
    <2>3. sendResult' \in [Sends -> SendResult]
      BY <2>1, <2>2, SettleType DEF TypeOK, RequestsTypeOK
    <2>4. RequestsTypeOK'
      BY <2>1, <2>3, ObserveType DEF TypeOK, RequestsTypeOK
    <2>5. FlagsTypeOK'
      BY <1>1, <2>1, LoopFlagsType DEF TypeOK, FlagsTypeOK
    <2> QED
      BY <1>1, <2>4, <2>5, LoopUnchangedTypes DEF TypeOK
  <1> QED
    BY <1>2, <1>3, <1>4

\* An ERROR fails the receipt it is blamed on and ends the session.
LEMMA EndErrorType ==
  ASSUME TypeOK, EndError
  PROVE  TypeOK'
  <1>1. LoopUnchanged /\ receiveLoop' = "check" /\ body' \in BodyStates
    BY DEF EndError, BodyStates
  <1>2. "ServerError" \in SendResult
    BY DEF SendResult
  <1>3. CASE CompleteDisconnect(Blamed, "ServerError")
    BY <1>1, <1>2, <1>3, CompleteDisconnectType, LoopUnchangedTypes,
       LoopFlagsType DEF TypeOK
  <1>4. CASE ~CompleteDisconnect(Blamed, "ServerError")
    <2>1. Terminate(Settle(sendResult, Blamed, "ServerError"),
                    ReceiveResultAfter(Blamed), receiptRequests \ Blamed,
                    SubscriptionsAfter(Blamed), MessageRequestsAfter(Blamed))
      BY <1>4 DEF EndError
    <2>2. Settle(sendResult, Blamed, "ServerError") \in [Sends -> SendResult]
      BY <1>2, SettleType DEF TypeOK, RequestsTypeOK
    <2>3. receiptRequests \ Blamed \in SUBSET Sends
      BY DEF TypeOK, RequestsTypeOK
    <2>4. RequestsTypeOK'
      BY <2>1, <2>2, <2>3, ObserveType, TerminateType
    <2>5. terminateCalled' /\ disconnected'
      BY <2>1 DEF Terminate
    <2> QED
      BY <1>1, <2>4, <2>5, LoopUnchangedTypes, LoopFlagsType DEF TypeOK
  <1> QED
    BY <1>3, <1>4

\* What ServerUnchanged alone says of the types.
LEMMA ServerUnchangedTypes ==
  ASSUME TypeOK, ServerUnchanged, inbox' \in Seq(Frame)
  PROVE  /\ RequestsTypeOK' /\ SendTypeOK' /\ LoopTypeOK'
         /\ serverClosed' \in BOOLEAN => FlagsTypeOK'
  <1> USE DEF ServerUnchanged, sendVars, receiptVars, subscriptionVars,
              callVars, frameVars, historyVars
  <1>1. RequestsTypeOK' /\ SendTypeOK'
    BY DEF TypeOK, RequestsTypeOK, SendTypeOK
  <1>2. LoopTypeOK'
    BY DEF TypeOK, LoopTypeOK
  <1>3. serverClosed' \in BOOLEAN => FlagsTypeOK'
    BY DEF TypeOK, FlagsTypeOK
  <1> QED
    BY <1>1, <1>2, <1>3

\* The server adds one frame to what is on its way.
LEMMA AppendInboxType ==
  ASSUME TypeOK, NEW f \in Frame
  PROVE  Append(inbox, f) \in Seq(Frame)
  BY DEF TypeOK, LoopTypeOK

\* The server processes the next frame written.
LEMMA ServerProcessesType ==
  ASSUME TypeOK, ServerProcesses
  PROVE  TypeOK'
  <1> DEFINE op == written[processed + 1]
             r == request[op]
  <1>1. op \in Sends /\ r \in Request
    BY DEF TypeOK, SendTypeOK, ServerTypeOK, ServerProcesses
  <1>2. inbox' \in Seq(Frame)
    <2>1. Reply("RECEIPT", op) \in Frame
      BY <1>1, SessionAssumption DEF Reply, Frame, Sends
    <2>2. inbox' = Append(inbox, Reply("RECEIPT", op)) \/ inbox' = inbox
      BY DEF ServerProcesses
    <2>3. inbox \in Seq(Frame)
      BY DEF TypeOK, LoopTypeOK
    <2> QED
      BY <2>1, <2>2, <2>3, AppendInboxType
  <1>3. serverSubscriptions' \subseteq Subscriptions
    <2>1. r.command \in {"SUBSCRIBE", "UNSUBSCRIBE"} =>
            r.subscription \in Subscriptions
      BY <1>1 DEF Request
    <2> QED
      BY <2>1 DEF TypeOK, ServerTypeOK, ServerProcesses
  <1>4. ServerTypeOK'
    <2>1. Len(written) \in Nat /\ written' = written
      BY DEF TypeOK, SendTypeOK, ServerProcesses, ServerUnchanged, sendVars
    <2>2. processed' \in 0..Len(written')
      BY <2>1 DEF TypeOK, ServerTypeOK, ServerProcesses
    <2>3. published' = published
      BY DEF ServerProcesses
    <2> QED
      BY <1>3, <2>2, <2>3 DEF TypeOK, ServerTypeOK
  <1>5. serverClosed' \in BOOLEAN
    BY DEF TypeOK, FlagsTypeOK, ServerProcesses
  <1> QED
    BY <1>2, <1>4, <1>5, ServerUnchangedTypes DEF TypeOK, ServerProcesses

\* The server publishes a message.
LEMMA ServerPublishesType ==
  ASSUME TypeOK, NEW sub \in Subscriptions, ServerPublishes(sub)
  PROVE  TypeOK'
  <1>1. published[sub] \in Nat
    BY SessionAssumption DEF TypeOK, ServerTypeOK
  <1>2. Message(sub, published[sub] + 1) \in Frame
    BY <1>1 DEF Message, Frame
  <1>3. inbox' \in Seq(Frame)
    BY <1>2, AppendInboxType DEF ServerPublishes
  <1>4. ServerTypeOK'
    <2>1. written' = written
      BY DEF ServerPublishes, ServerUnchanged, sendVars
    <2>2. published' \in [Subscriptions -> 0..MaxMessages]
      BY SessionAssumption DEF TypeOK, ServerTypeOK, ServerPublishes
    <2> QED
      BY <2>1, <2>2 DEF TypeOK, ServerTypeOK, ServerPublishes
  <1>5. serverClosed' \in BOOLEAN
    BY DEF TypeOK, FlagsTypeOK, ServerPublishes
  <1> QED
    BY <1>3, <1>4, <1>5, ServerUnchangedTypes DEF TypeOK, ServerPublishes

\* The server sends a faulty frame, and nothing after it.
LEMMA ServerFailsType ==
  ASSUME TypeOK, ServerFails
  PROVE  TypeOK'
  <1>1. PICK f \in FaultyFrames : inbox' = Append(inbox, f)
    BY DEF ServerFails
  <1>2. f \in Frame
    <2>1. \A i \in 1..processed : written[i] \in Nat
      BY SessionAssumption DEF TypeOK, SendTypeOK, ServerTypeOK, Sends
    <2> QED
      BY <1>1, <2>1 DEF FaultyFrames, Frame, Reply, Message, NoFrame
  <1>3. inbox' \in Seq(Frame)
    BY <1>1, <1>2, AppendInboxType
  <1>4. ServerTypeOK'
    BY DEF TypeOK, ServerTypeOK, ServerFails, ServerUnchanged, sendVars
  <1> QED
    BY <1>3, <1>4, ServerUnchangedTypes DEF TypeOK, ServerFails

\* Every step keeps the types: one case per action.
LEMMA NextType == TypeOK /\ [Next]_vars => TypeOK'
  <1> SUFFICES ASSUME TypeOK, [Next]_vars PROVE TypeOK'
    OBVIOUS
  <1>1. CASE Next
    BY <1>1, SendType, ReceiveType, CancelReceiveType, ShutdownType,
       BodyEndsType, WriteSucceedsType, WriteFailsType, ReceiptTimesOutType,
       DeliverMessageType, ParkMessageType, RejectMessageType, ReadHeaderType,
       ReadFailsType, EndMessageType, EndReceiptType, EndErrorType,
       CheckLoopType, ServerProcessesType, ServerPublishesType, ServerFailsType
    DEF Next
  <1>2. CASE UNCHANGED vars
    BY <1>2
    DEF TypeOK, RequestsTypeOK, FlagsTypeOK, SendTypeOK, LoopTypeOK,
        ServerTypeOK, vars, sendVars, receiptVars, subscriptionVars, callVars,
        frameVars, serverVars, historyVars
  <1> QED
    BY <1>1, <1>2

\* Every variable of the session keeps its type.
THEOREM TypeCorrect == Spec => []TypeOK
  <1>1. Init => TypeOK
    BY InitType
  <1>2. TypeOK /\ [Next]_vars => TypeOK'
    BY NextType
  <1> QED
    BY <1>1, <1>2, PTL DEF Spec

-----------------------------------------------------------------------------
(* The order of writes.  The queue and the frames already written together  *)
(* are the accepted sends in call order, which needs to know that the loop   *)
(* runs whenever the queue of a connected session is not empty: send() would *)
(* otherwise overtake the queue.                                             *)

Called == \A i \in 1..Len(sendQueue) : sendQueue[i] \in 1..sends
WrittenCalled == \A i \in 1..Len(written) : written[i] \in 1..sends
QueueInOrder ==
  \A i, j \in 1..Len(sendQueue) : i < j => sendQueue[i] < sendQueue[j]
WrittenBeforeQueued ==
  \A i \in 1..Len(written), j \in 1..Len(sendQueue) : written[i] < sendQueue[j]
DisconnectClosesWrites ==
  \A i \in 1..Len(written) :
    request[written[i]].command = "DISCONNECT" => disconnected

OrderInv ==
  /\ TypeOK
  /\ OneWriter
  /\ Called
  /\ WrittenCalled
  /\ QueueInOrder
  /\ WrittenBeforeQueued
  /\ SendsInOrder
  /\ DisconnectClosesWrites
  /\ NothingAfterDisconnect
  /\ NoStrandedSend

\* The steps that send nothing: they may empty the queue and disconnect.
QuietSend ==
  /\ UNCHANGED <<sendLoopRunning, writing, written, sends, request>>
  /\ sendQueue' = sendQueue \/ sendQueue' = <<>>
  /\ disconnected => disconnected'

\* terminate() leaves the order of the sends alone and stops new writes.
LEMMA TerminateQuiet ==
  ASSUME NEW results, NEW received, NEW receipts, NEW subs, NEW msgs,
         Terminate(results, received, receipts, subs, msgs)
  PROVE  /\ sendQueue' = sendQueue \/ sendQueue' = <<>>
         /\ disconnected'
  BY DEF Terminate, CloseRequests

\* The steps of the receive side and of the server, as the send side sees them.
LEMMA QuietSteps ==
  ASSUME TypeOK, Next,
         ~ \E r \in Requests : Send(r),
         ~ \E op \in Sends : WriteSucceeds(op) \/ WriteFails(op)
  PROVE  QuietSend
  <1> USE DEF QuietSend, sendVars, callVars, LoopUnchanged, ServerUnchanged,
              TakeFrame
  <1>1. ASSUME NEW sub \in Subscriptions, Receive(sub) PROVE QuietSend
    BY <1>1 DEF Receive
  <1>2. ASSUME NEW sub \in Subscriptions, CancelReceive(sub) PROVE QuietSend
    BY <1>2 DEF CancelReceive
  <1>3. CASE Shutdown
    BY <1>3 DEF Shutdown, CloseRequests
  <1>4. CASE ReadBody \/ BodyFails
    BY <1>4 DEF ReadBody, BodyFails, BodyEnds
  <1>5. ASSUME NEW op \in Sends, ReceiptTimesOut(op) PROVE QuietSend
    BY <1>5 DEF ReceiptTimesOut
  <1>6. CASE DeliverMessage \/ ParkMessage \/ ReadHeader
    BY <1>6 DEF DeliverMessage, ParkMessage, ReadHeader
  <1>7. CASE RejectMessage
    BY <1>7, TerminateQuiet DEF RejectMessage, TerminateNow
  <1>8. CASE ReadFails \/ ReceiptBodyFails
    BY <1>8, TerminateQuiet DEF ReadFails, ReceiptBodyFails, TerminateNow
  <1>9. CASE EndMessage \/ CheckLoop
    BY <1>9 DEF EndMessage, CheckLoop
  <1>10. CASE EndReceipt
    BY <1>10, TerminateQuiet
    DEF EndReceipt, TerminateNow, CompleteDisconnect, CloseRequests
  <1>11. CASE EndError
    BY <1>11, TerminateQuiet DEF EndError, CompleteDisconnect, CloseRequests
  <1>12. CASE ServerProcesses \/ ServerFails
    BY <1>12 DEF ServerProcesses, ServerFails
  <1>13. ASSUME NEW sub \in Subscriptions, ServerPublishes(sub) PROVE QuietSend
    BY <1>13 DEF ServerPublishes
  <1> QED
    BY <1>1, <1>2, <1>3, <1>4, <1>5, <1>6, <1>7, <1>8, <1>9, <1>10, <1>11,
       <1>12, <1>13 DEF Next

\* What the loop's next write does to the order of writes: it is later than
\* all the others, and no DISCONNECT was written before it.
LEMMA WriteKeepsOrder ==
  ASSUME OrderInv, ~disconnected,
         NEW op \in Sends,
         written' = Append(written, op),
         sends' \in Nat, sends <= sends', op \in 1..sends',
         \A i \in 1..Len(written) : written[i] < op,
         \A i \in 1..sends : request'[i] = request[i],
         request'[op].command = "DISCONNECT" => disconnected'
  PROVE  /\ WrittenCalled' /\ SendsInOrder'
         /\ DisconnectClosesWrites' /\ NothingAfterDisconnect'
  <1>1. written \in Seq(Sends) /\ Len(written) \in Nat /\ sends \in Nat
    BY DEF OrderInv, TypeOK, SendTypeOK
  <1>2. /\ Len(written') = Len(written) + 1
        /\ \A i \in 1..Len(written) : written'[i] = written[i]
        /\ written'[Len(written) + 1] = op
    BY <1>1
  <1>3. \A i \in 1..Len(written) : written[i] \in 1..sends
    BY DEF OrderInv, WrittenCalled
  <1>4. \A i \in 1..Len(written) : request'[written'[i]].command # "DISCONNECT"
    BY <1>2, <1>3 DEF OrderInv, DisconnectClosesWrites
  <1>5. \A i \in 1..Len(written') : i # Len(written') => i \in 1..Len(written)
    BY <1>1, <1>2
  <1>6. WrittenCalled'
    <2> SUFFICES ASSUME NEW i \in 1..Len(written') PROVE written'[i] \in 1..sends'
      BY DEF WrittenCalled
    <2>1. CASE i = Len(written')
      BY <1>2, <2>1
    <2>2. CASE i # Len(written')
      <3>1. written'[i] \in 1..sends
        BY <1>2, <1>3, <1>5, <2>2
      <3> QED
        BY <1>1, <3>1
    <2> QED
      BY <2>1, <2>2
  <1>7. SendsInOrder'
    <2> SUFFICES ASSUME NEW i \in 1..Len(written'), NEW j \in 1..Len(written'),
                        i < j
                 PROVE  written'[i] < written'[j]
      BY DEF SendsInOrder
    <2>1. i \in 1..Len(written)
      BY <1>1, <1>2
    <2>2. CASE j = Len(written')
      BY <1>2, <2>1, <2>2
    <2>3. CASE j # Len(written')
      <3>1. j \in 1..Len(written)
        BY <1>5, <2>3
      <3> QED
        BY <1>2, <2>1, <3>1 DEF OrderInv, SendsInOrder
    <2> QED
      BY <2>2, <2>3
  <1>8. DisconnectClosesWrites'
    BY <1>2, <1>4, <1>5 DEF DisconnectClosesWrites
  <1>9. NothingAfterDisconnect'
    BY <1>4, <1>5 DEF NothingAfterDisconnect
  <1> QED
    BY <1>6, <1>7, <1>8, <1>9

\* The writes stay in order when none is added and no argument of an earlier
\* send changes.
LEMMA NoWriteKeepsOrder ==
  ASSUME OrderInv, UNCHANGED written,
         sends' \in Nat, sends <= sends',
         \A i \in 1..sends : request'[i] = request[i],
         disconnected => disconnected'
  PROVE  /\ WrittenCalled' /\ SendsInOrder'
         /\ DisconnectClosesWrites' /\ NothingAfterDisconnect'
  <1>1. sends \in Nat
    BY DEF OrderInv, TypeOK, SendTypeOK
  <1>2. WrittenCalled'
    <2>1. \A i \in 1..Len(written) : written[i] \in 1..sends
      BY DEF OrderInv, WrittenCalled
    <2>2. \A n \in 1..sends : n \in 1..sends'
      BY <1>1
    <2> QED
      BY <2>1, <2>2 DEF WrittenCalled
  <1>3. SendsInOrder'
    BY DEF OrderInv, SendsInOrder
  <1>4. \A i \in 1..Len(written) : request'[written[i]] = request[written[i]]
    BY DEF OrderInv, WrittenCalled
  <1>5. DisconnectClosesWrites' /\ NothingAfterDisconnect'
    BY <1>4 DEF OrderInv, DisconnectClosesWrites, NothingAfterDisconnect
  <1> QED
    BY <1>2, <1>3, <1>5

\* An empty queue is in order.
LEMMA EmptyQueueInOrder ==
  ASSUME sendQueue' = <<>>
  PROVE  Called' /\ QueueInOrder' /\ WrittenBeforeQueued'
  BY DEF Called, QueueInOrder, WrittenBeforeQueued

\* A step that sends nothing preserves the invariant.
LEMMA QuietOrder ==
  ASSUME OrderInv, TypeOK', QuietSend
  PROVE  OrderInv'
  <1>1. sends \in Nat
    BY DEF OrderInv, TypeOK, SendTypeOK
  <1>2. /\ WrittenCalled' /\ SendsInOrder'
        /\ DisconnectClosesWrites' /\ NothingAfterDisconnect'
    BY <1>1, NoWriteKeepsOrder DEF QuietSend
  <1>3. Called' /\ QueueInOrder' /\ WrittenBeforeQueued'
    <2>1. CASE sendQueue' = <<>>
      BY <2>1, EmptyQueueInOrder
    <2>2. CASE sendQueue' = sendQueue
      BY <2>2 DEF OrderInv, QuietSend, Called, QueueInOrder, WrittenBeforeQueued
    <2> QED
      BY <2>1, <2>2 DEF QuietSend
  <1>4. OneWriter'
    BY DEF OrderInv, QuietSend, OneWriter
  <1>5. NoStrandedSend'
    BY DEF OrderInv, QuietSend, NoStrandedSend
  <1> QED
    BY <1>2, <1>3, <1>4, <1>5 DEF OrderInv

\* send() preserves the invariant: it starts the loop only over an empty queue.
LEMMA SendOrder ==
  ASSUME OrderInv, TypeOK', NEW r \in Requests, Send(r)
  PROVE  OrderInv'
  <1>1. /\ sends \in Nat /\ sends' = sends + 1 /\ sends + 1 \in Sends
        /\ written \in Seq(Sends) /\ sendQueue \in Seq(Sends)
        /\ request \in [Sends -> Request]
    BY SessionAssumption
    DEF OrderInv, TypeOK, SendTypeOK, RequestsTypeOK, Send, Sends
  <1>2. request'[sends + 1] = r /\ \A i \in 1..sends : request'[i] = request[i]
    <2>1. request' = [request EXCEPT ![sends + 1] = r]
      BY DEF Send
    <2>2. \A i \in 1..sends : i \in Sends /\ i # sends + 1
      BY <1>1, SessionAssumption DEF Sends
    <2> QED
      BY <1>1, <2>1, <2>2
  <1>3. \A i \in 1..Len(written) : written[i] \in 1..sends
    BY DEF OrderInv, WrittenCalled
  <1>4. \A i \in 1..Len(sendQueue) : sendQueue[i] \in 1..sends
    BY DEF OrderInv, Called
  <1>5. CASE UNCHANGED <<sendQueue, sendLoopRunning, writing, written>>
             /\ (disconnected => disconnected')
    <2>1. /\ WrittenCalled' /\ SendsInOrder'
          /\ DisconnectClosesWrites' /\ NothingAfterDisconnect'
      BY <1>1, <1>2, <1>5, NoWriteKeepsOrder
    <2>2. Called'
      <3>1. \A n \in 1..sends : n \in 1..sends'
        BY <1>1
      <3> QED
        BY <1>4, <1>5, <3>1 DEF Called
    <2>3. QueueInOrder' /\ WrittenBeforeQueued'
      BY <1>5 DEF OrderInv, QueueInOrder, WrittenBeforeQueued
    <2>4. OneWriter' /\ NoStrandedSend'
      BY <1>5 DEF OrderInv, OneWriter, NoStrandedSend
    <2> QED
      BY <2>1, <2>2, <2>3, <2>4 DEF OrderInv
  <1>6. CASE /\ ~StartsLoop
             /\ sendQueue' = Append(sendQueue, sends + 1)
             /\ UNCHANGED <<disconnected, sendLoopRunning, writing, written>>
    <2>1. /\ WrittenCalled' /\ SendsInOrder'
          /\ DisconnectClosesWrites' /\ NothingAfterDisconnect'
      BY <1>1, <1>2, <1>6, NoWriteKeepsOrder
    <2>2. /\ Len(sendQueue') = Len(sendQueue) + 1
          /\ Len(sendQueue) \in Nat
          /\ \A i \in 1..Len(sendQueue) : sendQueue'[i] = sendQueue[i]
          /\ sendQueue'[Len(sendQueue) + 1] = sends + 1
      BY <1>1, <1>6
    <2>3. \A i \in 1..Len(sendQueue') :
            \/ i \in 1..Len(sendQueue) /\ sendQueue'[i] \in 1..sends
            \/ i = Len(sendQueue) + 1 /\ sendQueue'[i] = sends + 1
      BY <1>4, <2>2
    <2>4. Called'
      BY <1>1, <2>3 DEF Called
    <2>5. QueueInOrder'
      <3> SUFFICES ASSUME NEW i \in 1..Len(sendQueue'),
                          NEW j \in 1..Len(sendQueue'), i < j
                   PROVE  sendQueue'[i] < sendQueue'[j]
        BY DEF QueueInOrder
      <3>1. i \in 1..Len(sendQueue)
        BY <2>2
      <3>2. CASE j = Len(sendQueue) + 1
        BY <1>1, <1>4, <2>2, <3>1, <3>2
      <3>3. CASE j # Len(sendQueue) + 1
        <4>1. j \in 1..Len(sendQueue)
          BY <2>2, <3>3
        <4> QED
          BY <2>2, <3>1, <4>1 DEF OrderInv, QueueInOrder
      <3> QED
        BY <3>2, <3>3
    <2>6. WrittenBeforeQueued'
      <3> SUFFICES ASSUME NEW i \in 1..Len(written),
                          NEW j \in 1..Len(sendQueue')
                   PROVE  written[i] < sendQueue'[j]
        BY <1>6 DEF WrittenBeforeQueued
      <3>1. CASE j = Len(sendQueue) + 1
        BY <1>1, <1>3, <2>2, <3>1
      <3>2. CASE j # Len(sendQueue) + 1
        <4>1. j \in 1..Len(sendQueue)
          BY <2>2, <3>2
        <4> QED
          BY <2>2, <4>1 DEF OrderInv, WrittenBeforeQueued
      <3> QED
        BY <3>1, <3>2
    <2>7. OneWriter'
      BY <1>6 DEF OrderInv, OneWriter
    <2>8. NoStrandedSend'
      BY <1>6 DEF NoStrandedSend, StartsLoop
    <2> QED
      BY <2>1, <2>4, <2>5, <2>6, <2>7, <2>8 DEF OrderInv
  <1>7. ASSUME NEW results,
               StartsLoop, SendLoop(sends + 1, r, results, writing),
               UNCHANGED sendQueue
        PROVE  OrderInv'
    <2>1. writing = {}
      BY <1>7 DEF OrderInv, OneWriter, StartsLoop
    <2>2. CASE disconnected
      <3>1. UNCHANGED <<sendQueue, sendLoopRunning, writing, written>>
        BY <1>7, <2>2 DEF SendLoop, OrderInv, TypeOK, FlagsTypeOK, StartsLoop
      <3>2. disconnected'
        BY <1>7, <2>2 DEF SendLoop
      <3> QED
        BY <1>5, <3>1, <3>2
    <2>3. CASE ~disconnected
      <3>1. sendQueue' = <<>>
        BY <1>7, <2>3 DEF OrderInv, NoStrandedSend, StartsLoop
      <3>2. /\ written' = Append(written, sends + 1)
            /\ writing' = {sends + 1}
            /\ sendLoopRunning'
        BY <1>7, <2>1, <2>3 DEF SendLoop
      <3>3. request'[sends + 1].command = "DISCONNECT" => disconnected'
        BY <1>2, <1>7, <2>3 DEF SendLoop, EntersDisconnected
      <3>4. \A i \in 1..Len(written) : written[i] < sends + 1
        BY <1>1, <1>3
      <3>5. /\ WrittenCalled' /\ SendsInOrder'
            /\ DisconnectClosesWrites' /\ NothingAfterDisconnect'
        <4>1. /\ sends + 1 \in Sends /\ sends + 1 \in 1..sends'
              /\ sends' \in Nat /\ sends <= sends'
          BY <1>1
        <4> QED
          BY <4>1, <1>2, <2>3, <3>2, <3>3, <3>4, WriteKeepsOrder
      <3>6. OneWriter' /\ NoStrandedSend'
        BY <3>1, <3>2 DEF OneWriter, NoStrandedSend
      <3> QED
        BY <3>1, <3>5, <3>6, EmptyQueueInOrder DEF OrderInv
    <2> QED
      BY <2>2, <2>3
  <1> QED
    BY <1>5, <1>6, <1>7 DEF Send, sendVars, Queued

\* The continuation of a write preserves it: the loop takes the head of the
\* queue, which is later than every frame written.
LEMMA WriteSucceedsOrder ==
  ASSUME OrderInv, TypeOK', NEW op \in Sends, WriteSucceeds(op)
  PROVE  OrderInv'
  <1>1. /\ sends \in Nat /\ UNCHANGED <<sends, request>>
        /\ written \in Seq(Sends) /\ sendQueue \in Seq(Sends)
        /\ sends \in 0..MaxSends
    BY DEF OrderInv, TypeOK, SendTypeOK, RequestsTypeOK, WriteSucceeds, callVars
  <1>2. writing = {op}
    BY DEF OrderInv, OneWriter, WriteSucceeds
  <1>3. CASE LoopStops
    <2>1. /\ ~sendLoopRunning' /\ writing' = {} /\ sendQueue' = <<>>
          /\ UNCHANGED <<disconnected, written>>
      BY <1>2, <1>3 DEF WriteSucceeds, LoopStops
    <2>2. /\ WrittenCalled' /\ SendsInOrder'
          /\ DisconnectClosesWrites' /\ NothingAfterDisconnect'
      BY <1>1, <2>1, NoWriteKeepsOrder
    <2>3. OneWriter' /\ NoStrandedSend'
      BY <2>1 DEF OneWriter, NoStrandedSend
    <2> QED
      BY <2>1, <2>2, <2>3, EmptyQueueInOrder DEF OrderInv
  <1>4. ASSUME NEW results, ~LoopStops, sendQueue' = Tail(sendQueue),
               SendLoop(Head(sendQueue), request[Head(sendQueue)], results,
                        writing \ {op})
        PROVE  OrderInv'
    <2> DEFINE h == Head(sendQueue)
    <2>1. /\ Len(sendQueue) \in Nat /\ Len(sendQueue) >= 1
          /\ h = sendQueue[1] /\ h \in Sends
          /\ Len(sendQueue') = Len(sendQueue) - 1
          /\ \A i \in 1..Len(sendQueue') :
               i + 1 \in 1..Len(sendQueue) /\ sendQueue'[i] = sendQueue[i + 1]
      BY <1>1, <1>4 DEF LoopStops
    <2> HIDE DEF h
    <2>2. h \in 1..sends /\ \A i \in 1..Len(sendQueue') : h < sendQueue'[i]
      <3>1. h \in 1..sends
        BY <2>1 DEF OrderInv, Called
      <3>2. \A i \in 1..Len(sendQueue') : sendQueue[1] < sendQueue[i + 1]
        <4> SUFFICES ASSUME NEW i \in 1..Len(sendQueue')
                     PROVE  sendQueue[1] < sendQueue[i + 1]
          OBVIOUS
        <4>1. 1 \in 1..Len(sendQueue) /\ i + 1 \in 1..Len(sendQueue) /\ 1 < i + 1
          BY <2>1
        <4> QED
          BY <4>1 DEF OrderInv, QueueInOrder
      <3> QED
        BY <2>1, <3>1, <3>2
    <2>3. Called'
      BY <1>1, <2>1 DEF OrderInv, Called
    <2>4. QueueInOrder'
      <3> SUFFICES ASSUME NEW i \in 1..Len(sendQueue'),
                          NEW j \in 1..Len(sendQueue'), i < j
                   PROVE  sendQueue'[i] < sendQueue'[j]
        BY DEF QueueInOrder
      <3>1. i + 1 < j + 1 /\ i + 1 \in 1..Len(sendQueue)
              /\ j + 1 \in 1..Len(sendQueue)
        BY <2>1
      <3>2. sendQueue[i + 1] < sendQueue[j + 1]
        BY <3>1 DEF OrderInv, QueueInOrder
      <3> QED
        BY <2>1, <3>2
    <2>5. CASE disconnected
      <3>1. /\ ~sendLoopRunning' /\ writing' = {} /\ disconnected'
            /\ UNCHANGED written
        BY <1>2, <1>4, <2>5 DEF SendLoop
      <3>2. /\ WrittenCalled' /\ SendsInOrder'
            /\ DisconnectClosesWrites' /\ NothingAfterDisconnect'
        BY <1>1, <3>1, NoWriteKeepsOrder
      <3>3. WrittenBeforeQueued'
        BY <2>1, <3>1 DEF OrderInv, WrittenBeforeQueued
      <3>4. OneWriter' /\ NoStrandedSend'
        BY <3>1 DEF OneWriter, NoStrandedSend
      <3> QED
        BY <2>3, <2>4, <3>2, <3>3, <3>4 DEF OrderInv
    <2>6. CASE ~disconnected
      <3>1. written' = Append(written, h) /\ writing' = {h} /\ sendLoopRunning'
        BY <1>2, <1>4, <2>6 DEF SendLoop, h
      <3>2. request[h].command = "DISCONNECT" => disconnected'
        BY <1>4, <2>6 DEF SendLoop, EntersDisconnected, h
      <3>3. \A i \in 1..Len(written) : written[i] < h
        BY <2>1 DEF OrderInv, WrittenBeforeQueued
      <3>4. /\ WrittenCalled' /\ SendsInOrder'
            /\ DisconnectClosesWrites' /\ NothingAfterDisconnect'
        BY <1>1, <2>1, <2>2, <2>6, <3>1, <3>2, <3>3, WriteKeepsOrder
      <3>5. WrittenBeforeQueued'
        <4> SUFFICES ASSUME NEW i \in 1..Len(written'),
                            NEW j \in 1..Len(sendQueue')
                     PROVE  written'[i] < sendQueue'[j]
          BY DEF WrittenBeforeQueued
        <4>1. h < sendQueue'[j]
          BY <2>2
        <4>2. CASE i \in 1..Len(written)
          <5>1. written'[i] = written[i] /\ j + 1 \in 1..Len(sendQueue)
                  /\ sendQueue'[j] = sendQueue[j + 1]
            BY <1>1, <2>1, <3>1, <4>2
          <5> QED
            BY <4>2, <5>1 DEF OrderInv, WrittenBeforeQueued
        <4>3. CASE i \notin 1..Len(written)
          <5>1. written'[i] = h
            BY <1>1, <3>1, <4>3
          <5> QED
            BY <4>1, <5>1
        <4> QED
          BY <4>2, <4>3
      <3>6. OneWriter' /\ NoStrandedSend'
        BY <3>1 DEF OneWriter, NoStrandedSend
      <3> QED
        BY <2>3, <2>4, <3>4, <3>5, <3>6 DEF OrderInv
    <2> QED
      BY <2>5, <2>6
  <1> QED
    BY <1>3, <1>4 DEF WriteSucceeds

\* A failed write closes the session, and leaves no write in flight.
LEMMA WriteFailsOrder ==
  ASSUME OrderInv, TypeOK', NEW op \in Sends, WriteFails(op)
  PROVE  OrderInv'
  <1>1. sends \in Nat /\ UNCHANGED <<sends, request, written>>
    BY DEF OrderInv, TypeOK, SendTypeOK, WriteFails, callVars
  <1>2. disconnected' /\ (sendQueue' = sendQueue \/ sendQueue' = <<>>)
    BY TerminateQuiet DEF WriteFails
  <1>3. ~sendLoopRunning' /\ writing' = {}
    BY DEF OrderInv, OneWriter, WriteFails
  <1>4. /\ WrittenCalled' /\ SendsInOrder'
        /\ DisconnectClosesWrites' /\ NothingAfterDisconnect'
    BY <1>1, <1>2, NoWriteKeepsOrder
  <1>5. Called' /\ QueueInOrder' /\ WrittenBeforeQueued'
    <2>1. CASE sendQueue' = <<>>
      BY <2>1, EmptyQueueInOrder
    <2>2. CASE sendQueue' = sendQueue
      BY <1>1, <2>2 DEF OrderInv, Called, QueueInOrder, WrittenBeforeQueued
    <2> QED
      BY <1>2, <2>1, <2>2
  <1>6. OneWriter' /\ NoStrandedSend'
    BY <1>2, <1>3 DEF OneWriter, NoStrandedSend
  <1> QED
    BY <1>4, <1>5, <1>6 DEF OrderInv

\* Nothing has been sent.
LEMMA InitOrder == Init => OrderInv
  <1> SUFFICES ASSUME Init PROVE OrderInv
    OBVIOUS
  <1>1. /\ sendQueue = <<>> /\ written = <<>> /\ writing = {}
        /\ sendLoopRunning = FALSE /\ Len(sendQueue) = 0 /\ Len(written) = 0
    BY DEF Init
  <1>2. OneWriter /\ NoStrandedSend
    BY <1>1 DEF OneWriter, NoStrandedSend
  <1>3. Called /\ WrittenCalled /\ QueueInOrder /\ WrittenBeforeQueued
    BY <1>1 DEF Called, WrittenCalled, QueueInOrder, WrittenBeforeQueued
  <1>4. SendsInOrder /\ DisconnectClosesWrites /\ NothingAfterDisconnect
    BY <1>1 DEF SendsInOrder, DisconnectClosesWrites, NothingAfterDisconnect
  <1> QED
    BY <1>2, <1>3, <1>4, InitType DEF OrderInv

\* Every step keeps OrderInv.
LEMMA NextOrder == OrderInv /\ [Next]_vars => OrderInv'
  <1> SUFFICES ASSUME OrderInv, [Next]_vars PROVE OrderInv'
    OBVIOUS
  <1>1. TypeOK'
    BY NextType DEF OrderInv
  <1>2. ASSUME NEW r \in Requests, Send(r) PROVE OrderInv'
    BY <1>1, <1>2, SendOrder
  <1>3. ASSUME NEW op \in Sends, WriteSucceeds(op) PROVE OrderInv'
    BY <1>1, <1>3, WriteSucceedsOrder
  <1>4. ASSUME NEW op \in Sends, WriteFails(op) PROVE OrderInv'
    BY <1>1, <1>4, WriteFailsOrder
  <1>5. CASE /\ Next
             /\ ~ \E r \in Requests : Send(r)
             /\ ~ \E op \in Sends : WriteSucceeds(op) \/ WriteFails(op)
    <2>1. QuietSend
      BY <1>5, QuietSteps DEF OrderInv
    <2> QED
      BY <1>1, <2>1, QuietOrder
  <1>6. CASE UNCHANGED vars
    <2>1. QuietSend
      BY <1>6 DEF QuietSend, vars, sendVars, callVars
    <2> QED
      BY <1>1, <2>1, QuietOrder
  <1> QED
    BY <1>2, <1>3, <1>4, <1>5, <1>6

\* The inductive invariant of the send side.
THEOREM OrderCorrect == Spec => []OrderInv
  BY InitOrder, NextOrder, PTL DEF Spec

\* At most one frame is being written, and sendLoopRunning knows it.
THEOREM OneWriterCorrect == Spec => []OneWriter
  <1>1. OrderInv => OneWriter
    BY DEF OrderInv
  <1> QED
    BY <1>1, OrderCorrect, PTL

\* Frames are written in the order of the send() calls, each at most once.
THEOREM SendsInOrderCorrect == Spec => []SendsInOrder
  <1>1. OrderInv => SendsInOrder
    BY DEF OrderInv
  <1> QED
    BY <1>1, OrderCorrect, PTL

\* No frame is written after a DISCONNECT.
THEOREM NothingAfterDisconnectCorrect == Spec => []NothingAfterDisconnect
  <1>1. OrderInv => NothingAfterDisconnect
    BY DEF OrderInv
  <1> QED
    BY <1>1, OrderCorrect, PTL

\* A queued request of a connected session always has a running send loop.
THEOREM NoStrandedSendCorrect == Spec => []NoStrandedSend
  <1>1. OrderInv => NoStrandedSend
    BY DEF OrderInv
  <1> QED
    BY <1>1, OrderCorrect, PTL

-----------------------------------------------------------------------------
(* Receipts: what a send() that is awaited, or that succeeds, knows of the  *)
(* server.                                                                  *)

Written == {written[i] : i \in 1..Len(written)}
Processed == {written[i] : i \in 1..processed}

\* Receipts are numbered in the order of the writes.
ReceiptSeqs ==
  /\ nextReceiptSeq # 0
  /\ \A op \in Sends : receiptSeq[op] # 0 =>
       op \in Written /\ receiptSeq[op] < nextReceiptSeq
  /\ \A a, b \in Sends : a < b /\ receiptSeq[a] # 0 /\ receiptSeq[b] # 0 =>
       receiptSeq[a] < receiptSeq[b]
  /\ \A op \in receiptRequests : receiptSeq[op] # 0

\* A send whose frame carries a receipt is settled by nothing but the receipt.
Settleable ==
  \A op \in Sends : sendResult[op] = "pending" =>
    \/ op \in Range(sendQueue)
    \/ op \in writing /\ receiptSeq[op] = 0
    \/ op \in receiptRequests

OnlyWritten ==
  /\ writing \subseteq Written
  /\ \A op \in Sends : sendResult[op] = "ok" => op \in Written

\* The server names only frames it has processed.
Genuine(f) == f.command \in {"RECEIPT", "ERROR"} /\ f.id # 0 => f.id \in Processed

Replies ==
  /\ \A i \in 1..Len(inbox) : Genuine(inbox[i])
  /\ Genuine(frame)
  /\ receiveLoop = "receipt" => frame.command = "RECEIPT"
  /\ receiveLoop = "error" => frame.command = "ERROR"

ReceiptInv ==
  /\ OrderInv
  /\ ReceiptSeqs /\ Settleable /\ OnlyWritten /\ Replies
  /\ ReceiptMeansProcessed /\ ReceiptsCumulative

-----------------------------------------------------------------------------
(* What the operators that settle sends do.                                 *)

\* Settle changes the promises that are called back and pending, and no other.
LEMMA SettleResult ==
  ASSUME NEW D, NEW R, NEW results \in [D -> R], NEW calls, NEW r, NEW c \in D
  PROVE  /\ c \in calls /\ results[c] = "pending" =>
              Settle(results, calls, r)[c] = r
         /\ ~(c \in calls /\ results[c] = "pending") =>
              Settle(results, calls, r)[c] = results[c]
  BY DEF Settle

\* Closing the requests leaves nothing pending that it knows of.
LEMMA CloseSends ==
  ASSUME NEW results \in [Sends -> SendResult], NEW received, NEW receipts,
         NEW error \in {"OperationCancelled", "SessionClosed"},
         CloseRequests(results, received, receipts, error)
  PROVE  /\ sendQueue' = <<>> /\ receiptRequests' = {}
         /\ \A op \in Sends :
              /\ sendResult'[op] = "ok" => results[op] = "ok"
              /\ sendResult'[op] = "pending" =>
                   /\ results[op] = "pending"
                   /\ op \notin Range(sendQueue) /\ op \notin receipts
  <1>1. sendResult' = Settle(results, Range(sendQueue) \cup receipts, error)
    BY DEF CloseRequests, OpenSends
  <1>2. sendQueue' = <<>> /\ receiptRequests' = {}
    BY DEF CloseRequests
  <1>3. ASSUME NEW op \in Sends
        PROVE  /\ sendResult'[op] = "ok" => results[op] = "ok"
               /\ sendResult'[op] = "pending" =>
                    /\ results[op] = "pending"
                    /\ op \notin Range(sendQueue) /\ op \notin receipts
    <2>1. /\ op \in Range(sendQueue) \cup receipts /\ results[op] = "pending" =>
               sendResult'[op] = error
          /\ ~(op \in Range(sendQueue) \cup receipts
               /\ results[op] = "pending") => sendResult'[op] = results[op]
      BY <1>1, SettleResult
    <2> QED
      BY <2>1
  <1> QED
    BY <1>2, <1>3

\* terminate() either leaves the sends to others or closes them.
LEMMA TerminateSends ==
  ASSUME NEW results \in [Sends -> SendResult], NEW received, NEW receipts,
         NEW subs, NEW msgs,
         Terminate(results, received, receipts, subs, msgs)
  PROVE  /\ receiptRequests' \subseteq receipts
         /\ \A op \in Sends :
              /\ sendResult'[op] = "ok" => results[op] = "ok"
              /\ sendResult'[op] = "pending" =>
                   /\ results[op] = "pending"
                   /\ op \in Range(sendQueue) => op \in Range(sendQueue')
                   /\ op \in receipts => op \in receiptRequests'
  <1>1. CASE ~terminateCalled /\ RequestsOpen
    <2>1. CloseRequests(results, received, receipts, "SessionClosed")
      BY <1>1 DEF Terminate
    <2> QED
      BY <2>1, CloseSends
  <1>2. CASE ~(~terminateCalled /\ RequestsOpen)
    BY <1>2 DEF Terminate
  <1> QED
    BY <1>1, <1>2

-----------------------------------------------------------------------------
(* Facts about the order of the writes and of the receipts.                 *)

\* What was written before a processed frame has been processed.
LEMMA ProcessedFirst ==
  ASSUME OrderInv, NEW a \in Written, NEW b \in Processed, a <= b
  PROVE  a \in Processed
  <1>1. /\ written \in Seq(Sends) /\ Len(written) \in Nat
        /\ processed \in 0..Len(written)
    BY DEF OrderInv, TypeOK, SendTypeOK, ServerTypeOK
  <1>2. PICK i \in 1..Len(written) : a = written[i]
    BY DEF Written
  <1>3. PICK j \in 1..processed : b = written[j]
    BY DEF Processed
  <1>4. ~(j < i)
    <2> SUFFICES ASSUME j < i PROVE FALSE
      OBVIOUS
    <2>1. j \in 1..Len(written)
      BY <1>1
    <2>2. b < a
      BY <1>2, <1>3, <2>1 DEF OrderInv, SendsInOrder
    <2>3. a \in Nat /\ b \in Nat
      BY <1>1, <1>2, <1>3, <2>1, SessionAssumption DEF Sends
    <2> QED
      BY <2>2, <2>3
  <1>5. i \in 1..processed
    BY <1>1, <1>4
  <1> QED
    BY <1>2, <1>5 DEF Processed

\* A DISCONNECT that was processed was the last frame.
LEMMA DisconnectLast ==
  ASSUME OrderInv, NEW d \in Processed, request[d].command = "DISCONNECT"
  PROVE  Written \subseteq Processed
  <1>1. Len(written) \in Nat /\ processed \in 0..Len(written)
    BY DEF OrderInv, TypeOK, SendTypeOK, ServerTypeOK
  <1>2. PICK i \in 1..processed : d = written[i]
    BY DEF Processed
  <1>3. i = Len(written)
    BY <1>1, <1>2 DEF OrderInv, NothingAfterDisconnect
  <1>4. processed = Len(written)
    BY <1>1, <1>3
  <1> QED
    BY <1>4 DEF Written, Processed

\* A send that has been written is not in the queue.
LEMMA WrittenNotQueued ==
  ASSUME OrderInv, NEW op \in Written
  PROVE  op \notin Range(sendQueue)
  <1>1. /\ written \in Seq(Sends) /\ sendQueue \in Seq(Sends)
    BY DEF OrderInv, TypeOK, SendTypeOK, RequestsTypeOK
  <1>2. PICK i \in 1..Len(written) : op = written[i]
    BY DEF Written
  <1>3. \A j \in 1..Len(sendQueue) : op < sendQueue[j]
    BY <1>2 DEF OrderInv, WrittenBeforeQueued
  <1>4. op \in Nat
    BY <1>1, <1>2, SessionAssumption DEF Sends
  <1>5. \A j \in 1..Len(sendQueue) : op # sendQueue[j]
    BY <1>3, <1>4
  <1> QED
    BY <1>1, <1>5 DEF Range

\* A pending send with a receipt awaits it.
LEMMA AwaitsReceipt ==
  ASSUME ReceiptInv, NEW op \in Sends, sendResult[op] = "pending",
         receiptSeq[op] # 0
  PROVE  op \in receiptRequests
  BY WrittenNotQueued DEF ReceiptInv, ReceiptSeqs, Settleable

-----------------------------------------------------------------------------
(* Steps.                                                                   *)

Located(op) ==
  \/ op \in Range(sendQueue)
  \/ op \in writing /\ receiptSeq[op] = 0
  \/ op \in receiptRequests

\* A step that writes nothing: it must find the pending sends a place, and may
\* let a send succeed only for a reason.
LEMMA NoWriteReceipts ==
  ASSUME ReceiptInv, OrderInv', Replies',
         UNCHANGED <<written, receiptSeq, nextReceiptSeq>>,
         writing' \subseteq writing,
         processed <= processed',
         receiptRequests' \subseteq receiptRequests,
         \A op \in 1..sends : sendResult'[op] = "pending" =>
           sendResult[op] = "pending" /\ Located(op)',
         \A op \in Sends : op \notin 1..sends /\ sendResult'[op] = "pending" =>
           Located(op)',
         \A op \in Sends : sendResult'[op] = "ok" =>
           \/ sendResult[op] = "ok"
           \/ /\ op \in Written
              /\ receiptSeq[op] # 0 =>
                   /\ op \in Processed
                   /\ \A a \in Sends : a < op /\ receiptSeq[a] # 0 =>
                        sendResult'[a] # "pending"
  PROVE  ReceiptInv'
  <1>1. /\ written \in Seq(Sends) /\ Len(written) \in Nat
        /\ processed \in Nat /\ processed' \in Nat /\ sends \in Nat
    BY DEF ReceiptInv, OrderInv, TypeOK, SendTypeOK, ServerTypeOK
  <1>2. Written' = Written
    BY DEF Written
  <1>3. Processed \subseteq Processed'
    <2>1. \A i \in 1..processed : i \in 1..processed'
      BY <1>1
    <2> QED
      BY <2>1 DEF Processed
  <1>4. \A op \in Written : op \in 1..sends
    BY DEF ReceiptInv, OrderInv, WrittenCalled, Written
  <1>5. ReceiptSeqs'
    BY <1>2 DEF ReceiptInv, ReceiptSeqs
  <1>6. Settleable'
    BY DEF Settleable, Located
  <1>7. OnlyWritten'
    BY <1>2 DEF ReceiptInv, OnlyWritten
  <1>8. ReceiptMeansProcessed'
    <2> SUFFICES ASSUME NEW op \in Sends, sendResult'[op] = "ok",
                        receiptSeq[op] # 0
                 PROVE  op \in Processed'
      BY DEF ReceiptMeansProcessed, Processed
    <2>1. CASE sendResult[op] = "ok"
      BY <1>3, <2>1 DEF ReceiptInv, ReceiptMeansProcessed, Processed
    <2>2. CASE sendResult[op] # "ok"
      BY <1>3, <2>2
    <2> QED
      BY <2>1, <2>2
  <1>9. ReceiptsCumulative'
    <2> SUFFICES ASSUME NEW a \in Sends, NEW b \in Sends, a < b,
                        receiptSeq[a] # 0, receiptSeq[b] # 0,
                        sendResult'[b] = "ok"
                 PROVE  sendResult'[a] # "pending"
      BY DEF ReceiptsCumulative
    <2>1. CASE sendResult[b] = "ok"
      <3>1. sendResult[a] # "pending"
        BY <2>1 DEF ReceiptInv, ReceiptsCumulative
      <3>2. a \in 1..sends
        BY <1>4 DEF ReceiptInv, ReceiptSeqs
      <3> QED
        BY <3>1, <3>2
    <2>2. CASE sendResult[b] # "ok"
      BY <2>2
    <2> QED
      BY <2>1, <2>2
  <1> QED
    BY <1>5, <1>6, <1>7, <1>8, <1>9 DEF ReceiptInv

\* A step that writes the frame of `op`, which the loop has just taken up, and
\* may complete earlier sends that have no receipt.
LEMMA WriteReceipts ==
  ASSUME ReceiptInv, OrderInv', Replies',
         NEW op \in Sends,
         written' = Append(written, op), op \notin Written,
         \A w \in Written : w < op,
         \/ UNCHANGED receiptVars
         \/ /\ receiptRequests' = receiptRequests \cup {op}
            /\ receiptSeq' = [receiptSeq EXCEPT ![op] = nextReceiptSeq]
            /\ nextReceiptSeq' = nextReceiptSeq + 1,
         writing' \subseteq writing \cup {op}, op \in writing',
         UNCHANGED processed,
         sendResult'[op] # "ok",
         \A o \in Sends \ {op} : sendResult'[o] = "pending" =>
           sendResult[o] = "pending" /\ Located(o)',
         \A o \in Sends \ {op} : sendResult'[o] = "ok" =>
           sendResult[o] = "ok" \/ (o \in Written /\ receiptSeq[o] = 0)
  PROVE  ReceiptInv'
  <1>1. /\ written \in Seq(Sends) /\ Len(written) \in Nat
        /\ processed \in 0..Len(written) /\ op \in Nat
        /\ receiptSeq \in [Sends -> Nat] /\ nextReceiptSeq \in Nat
    BY DEF ReceiptInv, OrderInv, TypeOK, SendTypeOK, ServerTypeOK, Sends
  <1>2. /\ Len(written') = Len(written) + 1
        /\ \A i \in 1..Len(written) : written'[i] = written[i]
        /\ written'[Len(written) + 1] = op
    BY <1>1
  <1>3. Written \subseteq Written' /\ op \in Written'
    <2>1. \A i \in 1..Len(written) : i \in 1..Len(written')
      BY <1>1, <1>2
    <2>2. Len(written) + 1 \in 1..Len(written')
      BY <1>1, <1>2
    <2> QED
      BY <1>2, <2>1, <2>2 DEF Written
  <1>4. Processed \subseteq Processed'
    <2>1. \A i \in 1..processed : i \in 1..Len(written)
      BY <1>1
    <2> QED
      BY <1>2, <2>1 DEF Processed
  <1>5. receiptSeq[op] = 0
    BY DEF ReceiptInv, ReceiptSeqs
  <1>6. /\ \A o \in Sends \ {op} : receiptSeq'[o] = receiptSeq[o]
        /\ receiptSeq'[op] # 0 => /\ receiptSeq'[op] = nextReceiptSeq
                                  /\ op \in receiptRequests'
                                  /\ nextReceiptSeq' = nextReceiptSeq + 1
        /\ nextReceiptSeq' >= nextReceiptSeq
        /\ receiptRequests \subseteq receiptRequests'
        /\ receiptSeq'[op] = 0 \/ op \in receiptRequests'
    BY <1>1, <1>5 DEF receiptVars
  <1>7. ReceiptSeqs'
    <2>1. ASSUME NEW o \in Sends, receiptSeq'[o] # 0
          PROVE  o \in Written' /\ receiptSeq'[o] < nextReceiptSeq'
      <3>1. CASE o = op
        BY <1>1, <1>3, <1>6, <2>1, <3>1
      <3>2. CASE o # op
        <4>1. o \in Written /\ receiptSeq'[o] = receiptSeq[o]
                /\ receiptSeq[o] < nextReceiptSeq
          BY <1>6, <2>1, <3>2 DEF ReceiptInv, ReceiptSeqs
        <4>2. nextReceiptSeq' \in Nat /\ receiptSeq[o] \in Nat
          BY <1>1 DEF receiptVars
        <4> QED
          BY <1>1, <1>3, <1>6, <4>1, <4>2
      <3> QED
        BY <3>1, <3>2
    <2>2. ASSUME NEW a \in Sends, NEW b \in Sends, a < b,
                 receiptSeq'[a] # 0, receiptSeq'[b] # 0
          PROVE  receiptSeq'[a] < receiptSeq'[b]
      <3>1. CASE b = op
        <4>1. a # op
          BY <1>1, <2>2, <3>1
        <4>2. receiptSeq'[a] = receiptSeq[a] /\ receiptSeq[a] < nextReceiptSeq
          BY <1>6, <2>2, <4>1 DEF ReceiptInv, ReceiptSeqs
        <4> QED
          BY <1>6, <2>2, <3>1, <4>2
      <3>2. CASE b # op /\ a # op
        BY <1>6, <2>2, <3>2 DEF ReceiptInv, ReceiptSeqs
      <3>3. CASE b # op /\ a = op
        <4>1. b \in Written
          BY <1>6, <2>2, <3>3 DEF ReceiptInv, ReceiptSeqs
        <4>2. b < op
          BY <4>1
        <4>3. a \in Nat /\ b \in Nat
          BY DEF Sends
        <4> QED
          BY <2>2, <3>3, <4>2, <4>3
      <3> QED
        BY <3>1, <3>2, <3>3
    <2>3. ASSUME NEW o \in receiptRequests' PROVE receiptSeq'[o] # 0
      <3>1. receiptRequests \subseteq Sends
        BY DEF ReceiptInv, OrderInv, TypeOK, RequestsTypeOK
      <3>2. CASE UNCHANGED receiptVars
        BY <2>3, <3>2 DEF ReceiptInv, ReceiptSeqs, receiptVars
      <3>3. CASE /\ receiptRequests' = receiptRequests \cup {op}
                 /\ receiptSeq' = [receiptSeq EXCEPT ![op] = nextReceiptSeq]
        <4>1. nextReceiptSeq # 0
          BY DEF ReceiptInv, ReceiptSeqs
        <4> QED
          BY <1>1, <2>3, <3>1, <3>3, <4>1 DEF ReceiptInv, ReceiptSeqs
      <3> QED
        BY <3>2, <3>3
    <2>4. nextReceiptSeq' # 0
      BY <1>1 DEF ReceiptInv, ReceiptSeqs, receiptVars
    <2> QED
      BY <2>1, <2>2, <2>3, <2>4 DEF ReceiptSeqs
  <1>8. Settleable'
    BY <1>6 DEF Settleable, Located
  <1>9. OnlyWritten'
    BY <1>3 DEF ReceiptInv, OnlyWritten
  <1>10. ReceiptMeansProcessed'
    <2> SUFFICES ASSUME NEW o \in Sends, sendResult'[o] = "ok",
                        receiptSeq'[o] # 0
                 PROVE  o \in Processed'
      BY DEF ReceiptMeansProcessed, Processed
    <2>1. o # op /\ receiptSeq[o] # 0 /\ sendResult[o] = "ok"
      BY <1>6
    <2>2. ReceiptMeansProcessed
      BY DEF ReceiptInv
    <2>3. o \in Processed
      BY <2>1, <2>2 DEF ReceiptMeansProcessed, Processed
    <2> QED
      BY <1>4, <2>3
  <1>11. ReceiptsCumulative'
    <2> SUFFICES ASSUME NEW a \in Sends, NEW b \in Sends, a < b,
                        receiptSeq'[a] # 0, receiptSeq'[b] # 0,
                        sendResult'[b] = "ok"
                 PROVE  sendResult'[a] # "pending"
      BY DEF ReceiptsCumulative
    <2>1. b # op /\ receiptSeq[b] # 0 /\ sendResult[b] = "ok"
      BY <1>6
    <2>2. a # op
      <3>1. b < op
        BY <2>1 DEF ReceiptInv, ReceiptSeqs
      <3>2. a \in Nat /\ b \in Nat
        BY DEF Sends
      <3> QED
        BY <1>1, <3>1, <3>2
    <2>3. sendResult[a] # "pending"
      BY <1>6, <2>1, <2>2 DEF ReceiptInv, ReceiptsCumulative
    <2> QED
      BY <2>2, <2>3
  <1> QED
    BY <1>7, <1>8, <1>9, <1>10, <1>11 DEF ReceiptInv

-----------------------------------------------------------------------------
(* What the server answers.                                                 *)

\* A step that takes no frame and does not move the server.
LEMMA NoFrameReplies ==
  ASSUME ReceiptInv, TypeOK', UNCHANGED <<inbox, frame, processed>>,
         written' = written \/ \E op \in Sends : written' = Append(written, op),
         receiveLoop' \in {"receipt", "error"} => receiveLoop' = receiveLoop
  PROVE  Replies'
  <1>1. written \in Seq(Sends) /\ processed \in 0..Len(written)
          /\ Len(written) \in Nat
    BY DEF ReceiptInv, OrderInv, TypeOK, SendTypeOK, ServerTypeOK
  <1>2. \A i \in 1..processed : written'[i] = written[i]
    BY <1>1
  <1>3. Processed' = Processed
    BY <1>2 DEF Processed
  <1> QED
    BY <1>3 DEF ReceiptInv, Replies, Genuine

\* The frame taken is the head of the inbox.
LEMMA TakeFrameReplies ==
  ASSUME ReceiptInv, TakeFrame,
         receiveLoop' = "receipt" => frame'.command = "RECEIPT",
         receiveLoop' = "error" => frame'.command = "ERROR"
  PROVE  Replies'
  <1>1. /\ inbox \in Seq(Frame) /\ inbox # <<>>
        /\ frame' = Head(inbox) /\ inbox' = Tail(inbox)
        /\ UNCHANGED <<written, processed>>
    BY DEF ReceiptInv, OrderInv, TypeOK, LoopTypeOK, TakeFrame, serverVars
  <1>2. /\ Len(inbox) \in Nat /\ Len(inbox) >= 1 /\ frame' = inbox[1]
        /\ Len(inbox') = Len(inbox) - 1
        /\ \A i \in 1..Len(inbox') : inbox'[i] = inbox[i + 1]
    BY <1>1
  <1>3. \A i \in 1..Len(inbox') : i + 1 \in 1..Len(inbox)
    BY <1>2
  <1>4. Processed' = Processed /\ 1 \in 1..Len(inbox)
    BY <1>1, <1>2 DEF Processed
  <1> QED
    BY <1>2, <1>3, <1>4 DEF ReceiptInv, Replies, Genuine

\* A frame the server adds to the inbox.
LEMMA ServerReplies ==
  ASSUME ReceiptInv, TypeOK', UNCHANGED <<written, frame, receiveLoop>>,
         processed <= processed',
         \/ UNCHANGED inbox
         \/ \E f : inbox' = Append(inbox, f) /\ f \in Frame /\ Genuine(f)'
  PROVE  Replies'
  <1>1. /\ inbox \in Seq(Frame) /\ processed \in Nat /\ processed' \in Nat
        /\ Len(written) \in Nat
    BY DEF ReceiptInv, OrderInv, TypeOK, LoopTypeOK, SendTypeOK, ServerTypeOK
  <1>2. Processed \subseteq Processed'
    <2>1. \A i \in 1..processed : i \in 1..processed'
      BY <1>1
    <2> QED
      BY <2>1 DEF Processed
  <1>3. CASE UNCHANGED inbox
    BY <1>2, <1>3 DEF ReceiptInv, Replies, Genuine
  <1>4. ASSUME NEW f \in Frame, inbox' = Append(inbox, f), Genuine(f)'
        PROVE  Replies'
    <2>1. \A i \in 1..Len(inbox') : inbox'[i] = f \/
            (i \in 1..Len(inbox) /\ inbox'[i] = inbox[i])
      BY <1>1, <1>4
    <2> QED
      BY <1>2, <1>4, <2>1 DEF ReceiptInv, Replies, Genuine
  <1> QED
    BY <1>3, <1>4

-----------------------------------------------------------------------------
(* The actions.                                                             *)

\* sendLoop takes up `op` when the other sends are at `results`.
LEMMA SendLoopReceipts ==
  ASSUME ReceiptInv, OrderInv', Replies',
         NEW op \in Sends, NEW r, NEW results \in [Sends -> SendResult],
         NEW flight,
         SendLoop(op, r, results, flight),
         op \notin Written, \A w \in Written : w < op,
         flight \subseteq writing, UNCHANGED processed,
         results[op] # "ok",
         \A o \in Sends \ {op} : results[o] = "pending" =>
           /\ sendResult[o] = "pending"
           /\ \/ o \in Range(sendQueue')
              \/ o \in flight /\ receiptSeq[o] = 0
              \/ o \in receiptRequests,
         \A o \in Sends \ {op} : results[o] = "ok" =>
           sendResult[o] = "ok" \/ (o \in Written /\ receiptSeq[o] = 0)
  PROVE  ReceiptInv'
  <1>1. CASE disconnected
    <2>1. /\ sendResult' = Settle(results, {op}, "SessionClosed")
          /\ writing' = flight
          /\ UNCHANGED <<receiptRequests, receiptSeq, nextReceiptSeq, written>>
      BY <1>1 DEF SendLoop, receiptVars
    <2>2. sendResult'[op] \notin {"pending", "ok"}
      <3>1. /\ results[op] = "pending" => sendResult'[op] = "SessionClosed"
            /\ results[op] # "pending" => sendResult'[op] = results[op]
        BY <2>1, SettleResult
      <3> QED
        BY <3>1
    <2>3. \A o \in Sends \ {op} : sendResult'[o] = results[o]
      <3>1. ASSUME NEW o \in Sends \ {op} PROVE sendResult'[o] = results[o]
        <4>1. o \in Sends /\ ~(o \in {op} /\ results[o] = "pending")
          OBVIOUS
        <4>2. Settle(results, {op}, "SessionClosed")[o] = results[o]
          BY <4>1 DEF Settle
        <4> QED
          BY <2>1, <4>2
      <3> QED
        BY <3>1
    <2>4. processed <= processed'
      BY DEF ReceiptInv, OrderInv, TypeOK, ServerTypeOK, SendTypeOK
    <2>5. \A o \in Sends : sendResult'[o] = "pending" =>
            sendResult[o] = "pending" /\ Located(o)'
      BY <2>1, <2>2, <2>3 DEF Located
    <2>6. \A o \in 1..sends : o \in Sends
      BY SessionAssumption
      DEF Sends, ReceiptInv, OrderInv, TypeOK, SendTypeOK
    <2>7. \A o \in Sends : sendResult'[o] = "ok" =>
            sendResult[o] = "ok" \/ (o \in Written /\ receiptSeq[o] = 0)
      BY <2>2, <2>3
    <2> QED
      BY <2>1, <2>4, <2>5, <2>6, <2>7, NoWriteReceipts
  <1>2. CASE ~disconnected
    <2>1. /\ sendResult' = results
          /\ writing' = flight \cup {op} /\ written' = Append(written, op)
      BY <1>2 DEF SendLoop
    <2>2. \/ UNCHANGED receiptVars
          \/ /\ receiptRequests' = receiptRequests \cup {op}
             /\ receiptSeq' = [receiptSeq EXCEPT ![op] = nextReceiptSeq]
             /\ nextReceiptSeq' = nextReceiptSeq + 1
      BY <1>2 DEF SendLoop
    <2>3. /\ receiptRequests \subseteq receiptRequests'
          /\ \A o \in Sends \ {op} : receiptSeq'[o] = receiptSeq[o]
      BY <2>2 DEF receiptVars, ReceiptInv, OrderInv, TypeOK, SendTypeOK
    <2>4. \A o \in Sends \ {op} : sendResult'[o] = "pending" =>
            sendResult[o] = "pending" /\ Located(o)'
      BY <2>1, <2>3 DEF Located
    <2>5. sendResult'[op] # "ok"
      BY <2>1
    <2> QED
      BY <2>1, <2>2, <2>4, <2>5, WriteReceipts
  <1> QED
    BY <1>1, <1>2

\* send(): the request is queued, and written at once if no loop runs.
LEMMA SendReceipts ==
  ASSUME ReceiptInv, OrderInv', NEW r \in Requests, Send(r)
  PROVE  ReceiptInv'
  <1> DEFINE op == sends + 1
  <1>1. /\ sends \in Nat /\ op \in Sends /\ sends \in 0..MaxSends
        /\ sendQueue \in Seq(Sends) /\ sendResult \in [Sends -> SendResult]
        /\ TypeOK'
        /\ UNCHANGED <<processed, inbox, frame>>
    <2>1. /\ sends \in 0..MaxSends /\ MaxSends \in Nat /\ TypeOK'
          /\ sendQueue \in Seq(Sends) /\ sendResult \in [Sends -> SendResult]
      BY SessionAssumption
      DEF ReceiptInv, OrderInv, TypeOK, SendTypeOK, RequestsTypeOK
    <2>2. sends < MaxSends /\ UNCHANGED <<processed, inbox, frame>>
      BY DEF Send, serverVars, frameVars
    <2> QED
      BY <2>1, <2>2 DEF Sends
  <1>2. \A w \in Written : w \in 1..sends
    BY DEF ReceiptInv, OrderInv, WrittenCalled, Written
  <1>3. op \notin Written /\ (\A w \in Written : w < op) /\ op \notin 1..sends
    BY <1>1, <1>2
  <1>4. processed <= processed'
    BY <1>1 DEF ReceiptInv, OrderInv, TypeOK, ServerTypeOK, SendTypeOK
  <1>5. \A o \in 1..sends : o \in Sends /\ o # op
    BY <1>1, SessionAssumption DEF Sends
  <1>6. Replies'
    <2>1. written' = written \/ written' = Append(written, op)
      BY DEF Send, SendLoop, sendVars
    <2>2. receiveLoop' \in {"receipt", "error"} => receiveLoop' = receiveLoop
      BY DEF Send, SendLoop, AddReceiveRequest, LoopState
    <2> QED
      BY <1>1, <2>1, <2>2, NoFrameReplies
  <1> HIDE DEF op
  <1>7. CASE /\ sendResult' = [sendResult EXCEPT ![op] = "rejected"]
             /\ UNCHANGED <<sendVars, receiptVars>>
    <2>1. \A o \in Sends : sendResult'[o] =
            IF o = op THEN "rejected" ELSE sendResult[o]
      BY <1>1, <1>7
    <2>2. \A o \in Sends : Located(o)' <=> Located(o)
      BY <1>7 DEF Located, sendVars, receiptVars
    <2>3. \A o \in Sends : sendResult[o] = "pending" => Located(o)
      BY DEF ReceiptInv, Settleable, Located
    <2> QED
      BY <1>1, <1>4, <1>5, <1>6, <1>7, <2>1, <2>2, <2>3, NoWriteReceipts
      DEF sendVars, receiptVars
  <1>8. CASE /\ sendResult' = [sendResult EXCEPT ![op] = "pending"]
             /\ sendQueue' = Append(sendQueue, op)
             /\ UNCHANGED <<writing, written, receiptVars>>
    <2>1. \A o \in Sends : sendResult'[o] =
            IF o = op THEN "pending" ELSE sendResult[o]
      BY <1>1, <1>8
    <2>2. /\ Len(sendQueue') = Len(sendQueue) + 1 /\ Len(sendQueue) \in Nat
          /\ \A i \in 1..Len(sendQueue) : sendQueue'[i] = sendQueue[i]
          /\ sendQueue'[Len(sendQueue) + 1] = op
          /\ DOMAIN sendQueue' = 1..Len(sendQueue')
          /\ DOMAIN sendQueue = 1..Len(sendQueue)
      BY <1>1, <1>8
    <2>3. op \in Range(sendQueue') /\ Range(sendQueue) \subseteq Range(sendQueue')
      BY <2>2 DEF Range
    <2>4. \A o \in Sends : Located(o) => Located(o)'
      BY <1>8, <2>3 DEF Located, receiptVars
    <2>5. \A o \in Sends : sendResult[o] = "pending" => Located(o)
      BY DEF ReceiptInv, Settleable, Located
    <2>6. \A o \in Sends : sendResult'[o] = "pending" => Located(o)'
      BY <2>1, <2>3, <2>4, <2>5 DEF Located
    <2> QED
      BY <1>1, <1>4, <1>5, <1>6, <1>8, <2>1, <2>6, NoWriteReceipts
      DEF receiptVars
  <1>9. CASE /\ SendLoop(op, r, [sendResult EXCEPT ![op] = "pending"], writing)
             /\ UNCHANGED sendQueue
    <2> DEFINE results == [sendResult EXCEPT ![op] = "pending"]
    <2>1. /\ results \in [Sends -> SendResult] /\ results[op] = "pending"
          /\ \A o \in Sends \ {op} : results[o] = sendResult[o]
      BY <1>1 DEF SendResult
    <2> HIDE DEF results
    <2>2. SendLoop(op, r, results, writing)
      BY <1>9 DEF results
    <2>3. \A o \in Sends : sendResult[o] = "pending" =>
            \/ o \in Range(sendQueue')
            \/ o \in writing /\ receiptSeq[o] = 0
            \/ o \in receiptRequests
      BY <1>9 DEF ReceiptInv, Settleable
    <2>4. results[op] # "ok"
      BY <2>1
    <2> QED
      BY <1>1, <1>3, <1>6, <2>1, <2>2, <2>3, <2>4, SendLoopReceipts
  <1> QED
    BY <1>7, <1>8, <1>9 DEF Send, Queued, op

\* The continuation of a write completes a send without a receipt only.
LEMMA WriteSucceedsReceipts ==
  ASSUME ReceiptInv, OrderInv', NEW op \in Sends, WriteSucceeds(op)
  PROVE  ReceiptInv'
  <1> DEFINE done == IF receiptSeq[op] = 0 THEN {op} ELSE {}
             results == Settle(sendResult, done, "ok")
  <1>0. processed <= processed' /\ UNCHANGED processed
    BY DEF ReceiptInv, OrderInv, TypeOK, ServerTypeOK, SendTypeOK,
           WriteSucceeds, serverVars
  <1>1. /\ sendQueue \in Seq(Sends) /\ sendResult \in [Sends -> SendResult]
        /\ TypeOK' /\ op \in writing
        /\ UNCHANGED <<inbox, frame>>
    BY DEF ReceiptInv, OrderInv, TypeOK, RequestsTypeOK, WriteSucceeds, frameVars
  <1>2. results \in [Sends -> SendResult]
    BY <1>1, SettleType DEF SendResult
  <1> HIDE DEF done
  <1>settled. \A o \in Sends :
          /\ o \in done /\ sendResult[o] = "pending" => results[o] = "ok"
          /\ ~(o \in done /\ sendResult[o] = "pending") =>
               results[o] = sendResult[o]
    BY <1>1 DEF Settle
  <1>3. ASSUME NEW o \in Sends, results[o] = "pending"
        PROVE  /\ sendResult[o] = "pending" /\ o \notin done
               /\ o \in Range(sendQueue) \/ o \in receiptRequests
    <2>1. sendResult[o] = "pending" /\ o \notin done
      BY <1>3, <1>settled
    <2>2. ~(o \in writing /\ receiptSeq[o] = 0)
      BY <1>1, <2>1 DEF ReceiptInv, OrderInv, OneWriter, done
    <2> QED
      BY <2>1, <2>2 DEF ReceiptInv, Settleable
  <1>4. ASSUME NEW o \in Sends, results[o] = "ok"
        PROVE  sendResult[o] = "ok" \/ (o \in Written /\ receiptSeq[o] = 0)
    <2>1. sendResult[o] = "ok" \/ o \in done
      BY <1>4, <1>settled
    <2> QED
      BY <1>1, <2>1 DEF ReceiptInv, OnlyWritten, done
  <1>5. Replies'
    <2>1. \/ written' = written
          \/ sendQueue # <<>> /\ written' = Append(written, Head(sendQueue))
      BY DEF WriteSucceeds, LoopStops, SendLoop
    <2>2. sendQueue # <<>> => Head(sendQueue) \in Sends
      BY <1>1
    <2>3. receiveLoop' \in {"receipt", "error"} => receiveLoop' = receiveLoop
      BY DEF WriteSucceeds, SendLoop, AddReceiveRequest, LoopState
    <2> QED
      BY <1>0, <1>1, <2>1, <2>2, <2>3, NoFrameReplies
  <1> HIDE DEF results
  <1>6. CASE /\ LoopStops
             /\ writing' = writing \ {op} /\ sendResult' = results
             /\ UNCHANGED <<sendQueue, written, receiptVars>>
    <2>1. \A o \in Sends : sendResult'[o] = "pending" =>
            sendResult[o] = "pending" /\ Located(o)'
      BY <1>3, <1>6 DEF Located, receiptVars
    <2>2. \A o \in 1..sends : o \in Sends
      BY SessionAssumption
      DEF Sends, ReceiptInv, OrderInv, TypeOK, SendTypeOK
    <2> QED
      BY <1>0, <1>1, <1>4, <1>5, <1>6, <2>1, <2>2, NoWriteReceipts DEF receiptVars
  <1>7. CASE /\ ~LoopStops /\ sendQueue' = Tail(sendQueue)
             /\ SendLoop(Head(sendQueue), request[Head(sendQueue)], results,
                         writing \ {op})
    <2> DEFINE h == Head(sendQueue)
    <2>1. /\ sendQueue # <<>> /\ h \in Sends /\ h = sendQueue[1]
          /\ Len(sendQueue) \in Nat /\ Len(sendQueue) >= 1
          /\ sendQueue' \in Seq(Sends) /\ Len(sendQueue') = Len(sendQueue) - 1
          /\ \A i \in 1..Len(sendQueue') : sendQueue'[i] = sendQueue[i + 1]
          /\ DOMAIN sendQueue' = 1..Len(sendQueue')
          /\ DOMAIN sendQueue = 1..Len(sendQueue)
      BY <1>1, <1>7 DEF LoopStops
    <2>2. SendLoop(h, request[h], results, writing \ {op})
      BY <1>7
    <2> HIDE DEF h
    <2>3. \A o \in Range(sendQueue) : o = h \/ o \in Range(sendQueue')
      <3> SUFFICES ASSUME NEW i \in 1..Len(sendQueue)
                   PROVE  sendQueue[i] = h \/ sendQueue[i] \in Range(sendQueue')
        BY <2>1 DEF Range
      <3>1. CASE i = 1
        BY <2>1, <3>1
      <3>2. CASE i # 1
        <4>1. i - 1 \in 1..Len(sendQueue') /\ (i - 1) + 1 = i
          BY <2>1, <3>2
        <4>2. sendQueue'[i - 1] = sendQueue[i]
          BY <2>1, <4>1
        <4> QED
          BY <2>1, <4>1, <4>2 DEF Range
      <3> QED
        BY <3>1, <3>2
    <2>4. \A w \in Written : w < h
      BY <2>1 DEF ReceiptInv, OrderInv, WrittenBeforeQueued, Written
    <2>5. h \notin Written
      <3>1. h \in Nat
        BY <2>1 DEF Sends
      <3> QED
        BY <2>4, <3>1
    <2>6. \A o \in Sends \ {h} : results[o] = "pending" =>
            /\ sendResult[o] = "pending"
            /\ o \in Range(sendQueue') \/ o \in receiptRequests
      BY <1>3, <2>3
    <2>7. results[h] # "ok"
      BY <1>4, <2>1, <2>5 DEF ReceiptInv, OnlyWritten
    <2> QED
      BY <1>0, <1>1, <1>2, <1>4, <1>5, <2>1, <2>2, <2>4, <2>5, <2>6, <2>7,
         SendLoopReceipts
  <1> QED
    BY <1>6, <1>7 DEF WriteSucceeds, results, done

\* A step that takes up no send.
LEMMA NoSendReceipts ==
  ASSUME ReceiptInv, OrderInv', Replies',
         UNCHANGED <<written, receiptSeq, nextReceiptSeq>>,
         writing' \subseteq writing,
         UNCHANGED processed \/ processed' = processed + 1,
         receiptRequests' \subseteq receiptRequests,
         \A op \in Sends : sendResult'[op] = "pending" =>
           sendResult[op] = "pending" /\ Located(op)',
         \A op \in Sends : sendResult'[op] = "ok" =>
           \/ sendResult[op] = "ok"
           \/ /\ op \in Written
              /\ receiptSeq[op] # 0 =>
                   /\ op \in Processed
                   /\ \A a \in Sends : a < op /\ receiptSeq[a] # 0 =>
                        sendResult'[a] # "pending"
  PROVE  ReceiptInv'
  <1>1. processed <= processed'
    BY DEF ReceiptInv, OrderInv, TypeOK, ServerTypeOK, SendTypeOK
  <1>2. \A o \in 1..sends : o \in Sends
    BY SessionAssumption DEF Sends, ReceiptInv, OrderInv, TypeOK, SendTypeOK
  <1> QED
    BY <1>1, <1>2, NoWriteReceipts

\* terminate(), when its caller has settled and forgotten the sends `ops`.
LEMMA TerminateReceipts ==
  ASSUME ReceiptInv, OrderInv', Replies',
         NEW ops, NEW results \in [Sends -> SendResult],
         \A op \in Sends : results[op] \in {"ok", "pending"} =>
           results[op] = sendResult[op],
         \A op \in ops : results[op] # "pending",
         NEW received, NEW subs, NEW msgs,
         Terminate(results, received, receiptRequests \ ops, subs, msgs),
         UNCHANGED <<written, receiptSeq, nextReceiptSeq, processed>>,
         writing' \subseteq writing,
         \A op \in writing \ writing' : results[op] # "pending"
  PROVE  ReceiptInv'
  <1>1. /\ receiptRequests' \subseteq receiptRequests \ ops
        /\ \A op \in Sends :
             /\ sendResult'[op] = "ok" => results[op] = "ok"
             /\ sendResult'[op] = "pending" =>
                  /\ results[op] = "pending"
                  /\ op \in Range(sendQueue) => op \in Range(sendQueue')
                  /\ op \in receiptRequests \ ops => op \in receiptRequests'
    BY TerminateSends
  <1>2. ASSUME NEW op \in Sends, sendResult'[op] = "pending"
        PROVE  sendResult[op] = "pending" /\ Located(op)'
    <2>1. results[op] = "pending" /\ sendResult[op] = "pending" /\ op \notin ops
      BY <1>1, <1>2
    <2>2. Located(op)
      BY <2>1 DEF ReceiptInv, Settleable, Located
    <2> QED
      BY <1>1, <1>2, <2>1, <2>2 DEF Located
  <1> QED
    BY <1>1, <1>2, NoSendReceipts

\* A write fails.
LEMMA WriteFailsReceipts ==
  ASSUME ReceiptInv, OrderInv', NEW op \in Sends, WriteFails(op)
  PROVE  ReceiptInv'
  <1> DEFINE results == Settle(sendResult, {op}, "TransportFailure")
  <1>1. /\ sendResult \in [Sends -> SendResult] /\ TypeOK' /\ op \in writing
        /\ writing' = writing \ {op}
        /\ UNCHANGED <<written, receiptSeq, nextReceiptSeq, processed, inbox,
                       frame, receiveLoop>>
    BY DEF ReceiptInv, OrderInv, TypeOK, RequestsTypeOK, WriteFails, frameVars,
           serverVars
  <1>2. results \in [Sends -> SendResult]
    BY <1>1, SettleType DEF SendResult
  <1>3. /\ \A o \in Sends : results[o] \in {"ok", "pending"} =>
             results[o] = sendResult[o]
        /\ results[op] # "pending"
    BY <1>1 DEF Settle
  <1>4. Terminate(results, receiveResult, receiptRequests \ {op}, subscriptions,
                  messageRequests)
    BY DEF WriteFails
  <1> HIDE DEF results
  <1>5. Replies'
    BY <1>1, NoFrameReplies
  <1> QED
    BY <1>1, <1>2, <1>3, <1>4, <1>5, TerminateReceipts

\* terminate() is called, and nothing else happens.
LEMMA TerminateNowReceipts ==
  ASSUME ReceiptInv, OrderInv', Replies', TerminateNow,
         UNCHANGED <<writing, written, receiptSeq, nextReceiptSeq, processed>>
  PROVE  ReceiptInv'
  <1>1. sendResult \in [Sends -> SendResult]
    BY DEF ReceiptInv, OrderInv, TypeOK, RequestsTypeOK
  <1>2. Terminate(sendResult, receiveResult, receiptRequests \ {}, subscriptions,
                  messageRequests)
    BY DEF TerminateNow
  <1> QED
    BY <1>1, <1>2, TerminateReceipts

\* A step that leaves the sends as they are.
LEMMA IdleReceipts ==
  ASSUME ReceiptInv, OrderInv', Replies',
         UNCHANGED <<sendResult, receiptRequests, sendQueue, writing, written,
                     receiptSeq, nextReceiptSeq>>,
         UNCHANGED processed \/ processed' = processed + 1
  PROVE  ReceiptInv'
  <1>1. \A op \in Sends : sendResult'[op] = "pending" =>
          sendResult[op] = "pending" /\ Located(op)'
    BY DEF ReceiptInv, Settleable, Located
  <1> QED
    BY <1>1, NoSendReceipts

\* The timer settles its own send.
LEMMA TimesOutReceipts ==
  ASSUME ReceiptInv, OrderInv', NEW op \in Sends, ReceiptTimesOut(op)
  PROVE  ReceiptInv'
  <1>1. /\ sendResult \in [Sends -> SendResult] /\ TypeOK'
        /\ sendResult' = Settle(sendResult, {op}, "OperationTimeout")
        /\ receiptRequests' = receiptRequests \ {op}
        /\ UNCHANGED <<sendQueue, writing, written, receiptSeq, nextReceiptSeq,
                       processed, inbox, frame, receiveLoop>>
    BY DEF ReceiptInv, OrderInv, TypeOK, RequestsTypeOK, ReceiptTimesOut,
           sendVars, frameVars, serverVars
  <1>2. \A o \in Sends :
          /\ sendResult'[o] \in {"ok", "pending"} => sendResult'[o] = sendResult[o]
          /\ sendResult'[op] # "pending"
    BY <1>1 DEF Settle
  <1>3. \A o \in Sends : sendResult'[o] = "pending" =>
          sendResult[o] = "pending" /\ Located(o)'
    BY <1>1, <1>2 DEF ReceiptInv, Settleable, Located
  <1>4. Replies'
    BY <1>1, NoFrameReplies
  <1> QED
    BY <1>1, <1>2, <1>3, <1>4, NoSendReceipts

\* shutdown() is called.
LEMMA ShutdownReceipts ==
  ASSUME ReceiptInv, OrderInv', Shutdown
  PROVE  ReceiptInv'
  <1>1. /\ sendResult \in [Sends -> SendResult] /\ TypeOK'
        /\ UNCHANGED <<writing, written, receiptSeq, nextReceiptSeq, processed,
                       inbox, frame, receiveLoop>>
    BY DEF ReceiptInv, OrderInv, TypeOK, RequestsTypeOK, Shutdown, frameVars,
           serverVars
  <1>2. CloseRequests(sendResult, receiveResult, receiptRequests,
                      "OperationCancelled")
    BY DEF Shutdown
  <1>3. /\ sendQueue' = <<>> /\ receiptRequests' = {}
        /\ \A op \in Sends :
             /\ sendResult'[op] = "ok" => sendResult[op] = "ok"
             /\ sendResult'[op] = "pending" =>
                  /\ sendResult[op] = "pending"
                  /\ op \notin Range(sendQueue) /\ op \notin receiptRequests
    BY <1>1, <1>2, CloseSends
  <1>4. \A o \in Sends : sendResult'[o] = "pending" =>
          sendResult[o] = "pending" /\ Located(o)'
    BY <1>1, <1>3 DEF ReceiptInv, Settleable, Located
  <1>5. Replies'
    BY <1>1, NoFrameReplies
  <1> QED
    BY <1>1, <1>3, <1>4, <1>5, NoSendReceipts

\* What a receipt answers has been processed.
LEMMA AnsweredProcessed ==
  ASSUME ReceiptInv, frame.command \in {"RECEIPT", "ERROR"},
         frame.id # 0, NEW op \in Answered(frame.id)
  PROVE  /\ op \in receiptRequests /\ op \in Processed
         /\ frame.id \in receiptRequests
         /\ receiptSeq[op] <= receiptSeq[frame.id]
  <1> DEFINE id == frame.id
  <1>1. /\ id \in receiptRequests /\ op \in receiptRequests
        /\ receiptSeq[op] <= receiptSeq[id]
    BY DEF Answered
  <1>2. /\ op \in Sends /\ id \in Sends /\ op \in Nat /\ id \in Nat
        /\ receiptSeq[op] \in Nat /\ receiptSeq[id] \in Nat
        /\ receiptSeq[op] # 0 /\ receiptSeq[id] # 0
    <2>1. receiptRequests \subseteq Sends /\ receiptSeq \in [Sends -> Nat]
      BY DEF ReceiptInv, OrderInv, TypeOK, RequestsTypeOK, SendTypeOK
    <2>2. \A o \in receiptRequests : receiptSeq[o] # 0
      BY DEF ReceiptInv, ReceiptSeqs
    <2>3. \A o \in Sends : o \in Nat
      BY SessionAssumption DEF Sends
    <2> QED
      BY <1>1, <2>1, <2>2, <2>3
  <1>3. id \in Processed
    BY DEF ReceiptInv, Replies, Genuine
  <1>4. op <= id
    <2> SUFFICES ASSUME id < op PROVE FALSE
      BY <1>2
    <2>1. receiptSeq[id] < receiptSeq[op]
      BY <1>2 DEF ReceiptInv, ReceiptSeqs
    <2> QED
      BY <1>1, <1>2, <2>1
  <1>5. op \in Written
    BY <1>2 DEF ReceiptInv, ReceiptSeqs
  <1>6. op \in Processed
    BY <1>3, <1>4, <1>5, ProcessedFirst DEF ReceiptInv
  <1> QED
    BY <1>1, <1>6

\* When a receipt, or an error, completes the DISCONNECT, all that was written
\* before it has been processed.
LEMMA CompleteReceipts ==
  ASSUME ReceiptInv, OrderInv', Replies',
         NEW ops \in SUBSET receiptRequests, NEW result \in {"ok", "ServerError"},
         CompleteDisconnect(ops, result),
         Written \subseteq Processed \/ (ops = receiptRequests /\ result # "ok"),
         UNCHANGED <<writing, written, receiptSeq, nextReceiptSeq, processed>>
  PROVE  ReceiptInv'
  <1> DEFINE first == Settle(sendResult, ops, result)
             second == Settle(first, receiptRequests, "ok")
  <1>1. /\ sendResult \in [Sends -> SendResult] /\ receiptRequests \subseteq Sends
        /\ receiptRequests \subseteq Written
    BY DEF ReceiptInv, ReceiptSeqs, OrderInv, TypeOK, RequestsTypeOK
  <1>2. first \in [Sends -> SendResult]
    BY <1>1, SettleType DEF SendResult
  <1>3. second \in [Sends -> SendResult]
    BY <1>2, SettleType DEF SendResult
  <1>4. \A op \in Sends :
          /\ first[op] = "pending" => sendResult[op] = "pending" /\ op \notin ops
          /\ first[op] = "ok" =>
               \/ sendResult[op] = "ok"
               \/ op \in ops /\ result = "ok"
    BY <1>1 DEF Settle
  <1>5. CloseRequests(second, ReceiveResultAfter(ops), {}, "OperationCancelled")
    BY DEF CompleteDisconnect
  <1> HIDE DEF first
  <1>6. \A op \in Sends :
          /\ second[op] = "pending" =>
               first[op] = "pending" /\ op \notin receiptRequests
          /\ second[op] = "ok" =>
               \/ first[op] = "ok"
               \/ op \in receiptRequests /\ first[op] = "pending"
    BY <1>2 DEF Settle
  <1> HIDE DEF second
  <1>7. /\ sendQueue' = <<>> /\ receiptRequests' = {}
        /\ \A op \in Sends :
             /\ sendResult'[op] = "ok" => second[op] = "ok"
             /\ sendResult'[op] = "pending" =>
                  /\ second[op] = "pending"
                  /\ op \notin Range(sendQueue)
    BY <1>3, <1>5, CloseSends
  <1>8. ASSUME NEW op \in Sends, sendResult'[op] = "pending"
        PROVE  sendResult[op] = "pending" /\ Located(op)'
    BY <1>4, <1>6, <1>7, <1>8 DEF ReceiptInv, Settleable, Located
  <1>9. ASSUME NEW op \in Sends, sendResult'[op] = "ok", sendResult[op] # "ok"
        PROVE  /\ op \in Written /\ op \in Processed
               /\ \A a \in Sends : receiptSeq[a] # 0 => sendResult'[a] # "pending"
    <2>1. op \in receiptRequests /\ (result = "ok" \/ op \notin ops)
      BY <1>4, <1>6, <1>7, <1>9
    <2>2. op \in Written /\ op \in Processed
      BY <1>1, <2>1
    <2>3. \A a \in Sends : receiptSeq[a] # 0 => sendResult'[a] # "pending"
      BY <1>4, <1>6, <1>7, AwaitsReceipt
    <2> QED
      BY <2>2, <2>3
  <1> QED
    BY <1>7, <1>8, <1>9, NoSendReceipts

\* A RECEIPT completes the requests up to its own, which the server has processed.
LEMMA EndReceiptReceipts ==
  ASSUME ReceiptInv, OrderInv', EndReceipt
  PROVE  ReceiptInv'
  <1> DEFINE ops == Answered(frame.id)
  <1>1. /\ sendResult \in [Sends -> SendResult] /\ receiptRequests \subseteq Sends
        /\ TypeOK' /\ frame.command = "RECEIPT" /\ receiveLoop' = "check"
        /\ UNCHANGED <<writing, written, receiptSeq, nextReceiptSeq, processed,
                       inbox, frame>>
    BY DEF ReceiptInv, Replies, OrderInv, TypeOK, RequestsTypeOK, EndReceipt,
           LoopUnchanged, serverVars
  <1>2. Replies'
    BY <1>1, NoFrameReplies
  <1>3. CASE TerminateNow
    BY <1>1, <1>2, <1>3, TerminateNowReceipts
  <1>4. frame.id # 0 => \A op \in ops :
          /\ op \in receiptRequests /\ op \in Processed
          /\ frame.id \in receiptRequests
          /\ receiptSeq[op] <= receiptSeq[frame.id]
    BY <1>1, AnsweredProcessed
  <1>5. CASE /\ frame.id # 0
             /\ sendResult' = Settle(sendResult, ops, "ok")
             /\ receiptRequests' = receiptRequests \ ops
             /\ UNCHANGED sendQueue
    <2>1. ops = {} \/ ops = {op \in receiptRequests :
                               receiptSeq[op] <= receiptSeq[frame.id]}
      BY DEF Answered
    <2> HIDE DEF ops
    <2>2. \A op \in Sends :
            /\ sendResult'[op] = "pending" =>
                 sendResult[op] = "pending" /\ op \notin ops
            /\ sendResult'[op] = "ok" => sendResult[op] = "ok" \/ op \in ops
      BY <1>1, <1>5 DEF Settle
    <2>3. \A op \in Sends : sendResult'[op] = "pending" =>
            sendResult[op] = "pending" /\ Located(op)'
      BY <1>1, <1>5, <2>2 DEF ReceiptInv, Settleable, Located
    <2>4. ASSUME NEW op \in ops, NEW a \in Sends, a < op, receiptSeq[a] # 0,
                 sendResult'[a] = "pending"
          PROVE  FALSE
      <3>1. a \in receiptRequests /\ a \notin ops
        BY <2>2, <2>4, AwaitsReceipt
      <3>2. op \in Sends /\ frame.id \in Sends /\ receiptSeq[op] # 0
        BY <1>1, <1>4, <1>5, <2>4 DEF ReceiptInv, ReceiptSeqs
      <3>3. receiptSeq[a] < receiptSeq[op]
        BY <2>4, <3>2 DEF ReceiptInv, ReceiptSeqs
      <3>4. receiptSeq[op] <= receiptSeq[frame.id]
        BY <1>4, <1>5, <2>4
      <3>5. /\ receiptSeq[a] \in Nat /\ receiptSeq[op] \in Nat
            /\ receiptSeq[frame.id] \in Nat
        BY <2>4, <3>2 DEF ReceiptInv, OrderInv, TypeOK, SendTypeOK
      <3>6. receiptSeq[a] <= receiptSeq[frame.id]
        BY <3>3, <3>4, <3>5
      <3> QED
        BY <2>1, <2>4, <3>1, <3>6
    <2>5. \A op \in ops : op \in Written /\ op \in Processed
      BY <1>1, <1>4, <1>5 DEF ReceiptInv, ReceiptSeqs
    <2> QED
      BY <1>1, <1>2, <1>5, <2>2, <2>3, <2>4, <2>5, NoSendReceipts
  <1>6. CASE frame.id # 0 /\ Disconnects(ops) /\ CompleteDisconnect(ops, "ok")
    <2>1. PICK d \in ops : request[d].command = "DISCONNECT"
      BY <1>6 DEF Disconnects
    <2>2. d \in Processed /\ ops \subseteq receiptRequests
      BY <1>4, <1>6
    <2>3. Written \subseteq Processed
      BY <2>1, <2>2, DisconnectLast DEF ReceiptInv
    <2> QED
      BY <1>1, <1>2, <1>6, <2>2, <2>3, CompleteReceipts
  <1> QED
    BY <1>3, <1>5, <1>6 DEF EndReceipt

\* An ERROR has been read.
LEMMA EndErrorReceipts ==
  ASSUME ReceiptInv, OrderInv', EndError
  PROVE  ReceiptInv'
  <1>1. /\ sendResult \in [Sends -> SendResult] /\ receiptRequests \subseteq Sends
        /\ TypeOK' /\ frame.command = "ERROR" /\ receiveLoop' = "check"
        /\ UNCHANGED <<writing, written, receiptSeq, nextReceiptSeq, processed,
                       inbox, frame>>
    BY DEF ReceiptInv, Replies, OrderInv, TypeOK, RequestsTypeOK, EndError,
           LoopUnchanged, serverVars
  <1>2. Replies'
    BY <1>1, NoFrameReplies
  <1>3. Blamed \subseteq receiptRequests
    BY DEF Blamed, Answered
  <1>4. CASE Disconnects(Blamed) /\ CompleteDisconnect(Blamed, "ServerError")
    <2>1. PICK d \in Blamed : request[d].command = "DISCONNECT"
      BY <1>4 DEF Disconnects
    <2>2. CASE Blamed = receiptRequests
      BY <1>1, <1>2, <1>3, <1>4, <2>2, CompleteReceipts
    <2>3. CASE Blamed # receiptRequests
      <3>1. d \in Answered(frame.id) /\ frame.id \in receiptRequests
        BY <2>1, <2>3 DEF Blamed, Answered
      <3>2. frame.id # 0
        BY <1>1, <3>1, SessionAssumption DEF Sends
      <3>3. d \in Processed
        BY <1>1, <3>1, <3>2, AnsweredProcessed
      <3>4. Written \subseteq Processed
        BY <2>1, <3>3, DisconnectLast DEF ReceiptInv
      <3> QED
        BY <1>1, <1>2, <1>3, <1>4, <3>4, CompleteReceipts
    <2> QED
      BY <2>2, <2>3
  <1>5. CASE Terminate(Settle(sendResult, Blamed, "ServerError"),
                       ReceiveResultAfter(Blamed), receiptRequests \ Blamed,
                       SubscriptionsAfter(Blamed), MessageRequestsAfter(Blamed))
    <2> DEFINE results == Settle(sendResult, Blamed, "ServerError")
    <2>1. results \in [Sends -> SendResult]
      BY <1>1, SettleType DEF SendResult
    <2>2. /\ \A o \in Sends : results[o] \in {"ok", "pending"} =>
               results[o] = sendResult[o]
          /\ \A o \in Blamed : results[o] # "pending"
      BY <1>1, <1>3 DEF Settle
    <2> HIDE DEF results
    <2>3. Terminate(results, ReceiveResultAfter(Blamed), receiptRequests \ Blamed,
                    SubscriptionsAfter(Blamed), MessageRequestsAfter(Blamed))
      BY <1>5 DEF results
    <2> QED
      BY <1>1, <1>2, <2>1, <2>2, <2>3, TerminateReceipts
  <1> QED
    BY <1>4, <1>5 DEF EndError

\* The steps of the receive side that concern no send.
LEMMA ReceiveSideReceipts ==
  ASSUME ReceiptInv, OrderInv',
         \/ \E sub \in Subscriptions : Receive(sub) \/ CancelReceive(sub)
         \/ ReadBody \/ BodyFails \/ EndMessage \/ CheckLoop
  PROVE  ReceiptInv'
  <1>1. /\ TypeOK'
        /\ UNCHANGED <<sendResult, receiptRequests, sendQueue, writing, written,
                       receiptSeq, nextReceiptSeq, processed, inbox, frame>>
        /\ receiveLoop' \in {"receipt", "error"} => receiveLoop' = receiveLoop
    BY DEF OrderInv, Receive, CancelReceive, ReadBody, BodyFails, BodyEnds,
           EndMessage, CheckLoop, LoopUnchanged, AddReceiveRequest, LoopState, sendVars, receiptVars,
           frameVars, serverVars
  <1>2. Replies'
    BY <1>1, NoFrameReplies
  <1> QED
    BY <1>1, <1>2, IdleReceipts

\* The frames read: none settles a send by its header alone.
LEMMA ReadFrameReceipts ==
  ASSUME ReceiptInv, OrderInv',
         DeliverMessage \/ ParkMessage \/ RejectMessage \/ ReadHeader
  PROVE  ReceiptInv'
  <1>1. /\ TakeFrame
        /\ receiveLoop' = "receipt" => frame'.command = "RECEIPT"
        /\ receiveLoop' = "error" => frame'.command = "ERROR"
    BY DEF DeliverMessage, ParkMessage, RejectMessage, ReadHeader, AfterMessage
  <1>2. Replies'
    BY <1>1, TakeFrameReplies
  <1>3. UNCHANGED <<writing, written, receiptSeq, nextReceiptSeq, processed>>
    BY <1>1 DEF TakeFrame, serverVars
  <1>4. CASE RejectMessage
    BY <1>2, <1>3, <1>4, TerminateNowReceipts DEF RejectMessage
  <1>5. CASE DeliverMessage \/ ParkMessage \/ ReadHeader
    BY <1>2, <1>3, <1>5, IdleReceipts DEF DeliverMessage, ParkMessage, ReadHeader
  <1> QED
    BY <1>4, <1>5

\* A read fails.
LEMMA ReadErrorReceipts ==
  ASSUME ReceiptInv, OrderInv', ReadFails \/ ReceiptBodyFails
  PROVE  ReceiptInv'
  <1>1. /\ TypeOK' /\ TerminateNow /\ receiveLoop' = "check"
        /\ UNCHANGED <<writing, written, receiptSeq, nextReceiptSeq, processed,
                       inbox, frame>>
    BY DEF OrderInv, ReadFails, ReceiptBodyFails, LoopUnchanged, serverVars
  <1>2. Replies'
    BY <1>1, NoFrameReplies
  <1> QED
    BY <1>1, <1>2, TerminateNowReceipts

\* The server answers what it has just processed, and errs about no other frame.
LEMMA ServerReceipts ==
  ASSUME ReceiptInv, OrderInv',
         \/ ServerProcesses \/ ServerFails
         \/ \E sub \in Subscriptions : ServerPublishes(sub)
  PROVE  ReceiptInv'
  <1>1. /\ TypeOK' /\ written \in Seq(Sends) /\ processed \in 0..Len(written)
        /\ Len(written) \in Nat /\ None \notin Subscriptions
    BY SessionAssumption
    DEF ReceiptInv, OrderInv, TypeOK, SendTypeOK, ServerTypeOK
  <1>2. UNCHANGED <<sendResult, receiptRequests, sendQueue, writing, written,
                    receiptSeq, nextReceiptSeq, frame, receiveLoop>>
    BY DEF ServerProcesses, ServerFails, ServerPublishes, ServerUnchanged,
           sendVars, receiptVars, frameVars
  <1>3. CASE ServerProcesses
    <2>0. PICK op : op = written[processed + 1]
      OBVIOUS
    <2>1. /\ processed' = processed + 1 /\ processed + 1 \in 1..Len(written)
          /\ \/ inbox' = Append(inbox, Reply("RECEIPT", op))
             \/ UNCHANGED inbox
      BY <1>1, <1>3, <2>0 DEF ServerProcesses
    <2>2. op \in Sends /\ op \in Nat
      BY <1>1, <2>0, <2>1, SessionAssumption DEF Sends
    <2>3. processed + 1 \in 1..processed'
      BY <1>1, <2>1
    <2>4. op \in Processed'
      BY <1>2, <2>0, <2>3 DEF Processed
    <2>5. Reply("RECEIPT", op) \in Frame /\ Genuine(Reply("RECEIPT", op))'
      BY <2>2, <2>4 DEF Reply, Frame, Genuine
    <2>6. processed <= processed'
      BY <1>1, <2>1
    <2>7. Replies'
      BY <1>1, <1>2, <2>1, <2>5, <2>6, ServerReplies
    <2> QED
      BY <1>2, <2>1, <2>7, IdleReceipts
  <1>4. CASE ServerFails
    <2>1. PICK f \in FaultyFrames : inbox' = Append(inbox, f) /\ UNCHANGED processed
      BY <1>4 DEF ServerFails
    <2>2. f \in Frame /\ Genuine(f)'
      <3>1. CASE \E i \in 1..processed : f = Reply("ERROR", written[i])
        <4>1. PICK i \in 1..processed : f = Reply("ERROR", written[i])
          BY <3>1
        <4>2. written[i] \in Nat /\ i \in 1..processed'
          BY <1>1, <2>1, SessionAssumption DEF Sends
        <4>3. written[i] \in Processed'
          BY <1>2, <4>2 DEF Processed
        <4> QED
          BY <4>1, <4>2, <4>3 DEF Reply, Frame, Genuine
      <3>2. CASE f \in {Reply("ERROR", 0), Message(None, 0), Reply("RECEIPT", 0),
                        NoFrame}
        BY <3>2 DEF Reply, Message, NoFrame, Frame, Genuine
      <3> QED
        BY <3>1, <3>2 DEF FaultyFrames
    <2>3. processed <= processed'
      BY <1>1, <2>1
    <2>4. Replies'
      BY <1>1, <1>2, <2>1, <2>2, <2>3, ServerReplies
    <2> QED
      BY <1>2, <2>1, <2>4, IdleReceipts
  <1>5. ASSUME NEW sub \in Subscriptions, ServerPublishes(sub) PROVE ReceiptInv'
    <2>0. PICK f : f = Message(sub, published[sub] + 1)
      OBVIOUS
    <2>1. inbox' = Append(inbox, f) /\ UNCHANGED processed
      BY <1>5, <2>0 DEF ServerPublishes
    <2>2. published[sub] \in Nat
      BY SessionAssumption DEF ReceiptInv, OrderInv, TypeOK, ServerTypeOK
    <2>3. f \in Frame /\ Genuine(f)'
      BY <2>0, <2>2 DEF Message, Frame, Genuine
    <2>4. processed <= processed'
      BY <1>1, <2>1
    <2>5. Replies'
      BY <1>1, <1>2, <2>1, <2>3, <2>4, ServerReplies
    <2> QED
      BY <1>2, <2>1, <2>5, IdleReceipts
  <1> QED
    BY <1>3, <1>4, <1>5

-----------------------------------------------------------------------------
\* ReceiptInv holds initially.
LEMMA InitReceipts == Init => ReceiptInv
  <1> SUFFICES ASSUME Init PROVE ReceiptInv
    OBVIOUS
  <1>1. /\ \A op \in Sends : receiptSeq[op] = 0 /\ sendResult[op] = "uncalled"
        /\ nextReceiptSeq = 1 /\ receiptRequests = {} /\ writing = {}
        /\ Len(inbox) = 0 /\ frame = NoFrame /\ receiveLoop = "idle"
    BY DEF Init
  <1>2. ReceiptSeqs /\ Settleable /\ OnlyWritten
    BY <1>1 DEF ReceiptSeqs, Settleable, OnlyWritten
  <1>3. Replies
    BY <1>1 DEF Replies, Genuine, NoFrame
  <1>4. ReceiptMeansProcessed /\ ReceiptsCumulative
    BY <1>1 DEF ReceiptMeansProcessed, ReceiptsCumulative
  <1> QED
    BY <1>2, <1>3, <1>4, InitOrder DEF ReceiptInv

\* Every step keeps ReceiptInv.
LEMMA NextReceipts == ReceiptInv /\ [Next]_vars => ReceiptInv'
  <1> SUFFICES ASSUME ReceiptInv, [Next]_vars PROVE ReceiptInv'
    OBVIOUS
  <1>1. OrderInv'
    BY NextOrder DEF ReceiptInv
  <1>2. CASE UNCHANGED vars
    <2>1. /\ UNCHANGED <<sendResult, receiptRequests, sendQueue, writing, written,
                         receiptSeq, nextReceiptSeq, processed, inbox, frame,
                         receiveLoop>>
      BY <1>2 DEF vars, sendVars, receiptVars, frameVars, serverVars
    <2>2. Replies'
      BY <1>1, <2>1, NoFrameReplies DEF OrderInv
    <2> QED
      BY <1>1, <2>1, <2>2, IdleReceipts
  <1>3. CASE Next
    BY <1>1, <1>3, SendReceipts, WriteSucceedsReceipts, WriteFailsReceipts,
       TimesOutReceipts, ShutdownReceipts, EndReceiptReceipts, EndErrorReceipts,
       ReceiveSideReceipts, ReadFrameReceipts, ReadErrorReceipts, ServerReceipts
    DEF Next
  <1> QED
    BY <1>2, <1>3

\* The inductive invariant of the receipts.
THEOREM ReceiptInvCorrect == Spec => []ReceiptInv
  BY InitReceipts, NextReceipts, PTL DEF Spec

\* A pending send is queued, in flight or awaits its receipt.
THEOREM NoForgottenSendCorrect == Spec => []NoForgottenSend
  <1>1. ReceiptInv => NoForgottenSend
    BY DEF ReceiptInv, Settleable, NoForgottenSend
  <1> QED
    BY <1>1, ReceiptInvCorrect, PTL

\* A send that succeeds by its receipt has been processed by the server, whatever
\* receipts it left out, errors and timers that fired.
THEOREM ReceiptMeansProcessedCorrect == Spec => []ReceiptMeansProcessed
  <1>1. ReceiptInv => ReceiptMeansProcessed
    BY DEF ReceiptInv
  <1> QED
    BY <1>1, ReceiptInvCorrect, PTL

\* When a send succeeds by its receipt no earlier one awaits its own.
THEOREM ReceiptsCumulativeCorrect == Spec => []ReceiptsCumulative
  <1>1. ReceiptInv => ReceiptsCumulative
    BY DEF ReceiptInv
  <1> QED
    BY <1>1, ReceiptInvCorrect, PTL
=============================================================================
