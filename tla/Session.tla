------------------------------ MODULE Session ------------------------------
(***************************************************************************)
(* The STOMP client session of src/client/session.ts (class ClientSession) *)
(* with the application that calls it, the transport below it and the      *)
(* server at the other end of the connection.                              *)
(*                                                                         *)
(* JavaScript runs a handler to its end before the next one starts, so an  *)
(* action below is one run-to-completion step: a call of a public method,  *)
(* the continuation of an awaited transport call, or a timer callback,     *)
(* with every method it calls.  A method that other methods call is an     *)
(* operator of its own, which fixes the primed values of the fields the    *)
(* method assigns and takes as parameters the values its caller has        *)
(* already changed.                                                        *)
(*                                                                         *)
(* A few definitions are preceded by a faulty variant of the same shape,   *)
(* which the specification does not use: with the variant in place of the  *)
(* definition a property below fails, which shows that it can.             *)
(*                                                                         *)
(* A send is named by the position of its call, 1 for the first send(), so *)
(* the receipt id of a frame is the number of its send.  Calls of          *)
(* receive() are numbered the same way.                                    *)
(***************************************************************************)
EXTENDS Integers, Sequences, FiniteSets, Functions

CONSTANTS
  Subscriptions,     \* subscription ids
  PreSubscribed,     \* those a pre-existing session left open at the server
  Requests,          \* the requests the application may pass to send()
  OperationTimeout,  \* limits.operationTimeout of the transport
  MaxSends,          \* bound: calls of send()
  MaxReceives,       \* bound: calls of receive()
  MaxMessages,       \* bound: messages the server publishes per subscription
  Faults,            \* the failures the environment may show
  None               \* absent header

RECEIPT_NO_TIMEOUT == 0
RECEIPT_NOT_REQUESTED == -1
RECEIPT_DEFAULT_TIMEOUT == -2

\* SEND stands for every command whose completion has no effect on the
\* session: SEND, ACK, NACK, BEGIN, COMMIT and ABORT.
Commands == {"SEND", "SUBSCRIBE", "UNSUBSCRIBE", "DISCONNECT"}

\* A request has passed the check of required headers: SUBSCRIBE and
\* UNSUBSCRIBE name their subscription.
Request ==
  {r \in [command : Commands,
          subscription : Subscriptions \cup {None},
          receiptTimeout : {n \in Int : n >= RECEIPT_DEFAULT_TIMEOUT}] :
     r.command \in {"SUBSCRIBE", "UNSUBSCRIBE"}
       => r.subscription \in Subscriptions}

FaultKinds == {"read", "write", "body", "malformed", "error", "other"}

ASSUME SessionAssumption ==
  /\ None \notin Subscriptions
  /\ PreSubscribed \subseteq Subscriptions
  /\ \A r \in Requests : r \in Request
  /\ OperationTimeout \in Nat
  /\ MaxSends \in Nat
  /\ MaxReceives \in Nat
  /\ MaxMessages \in Nat
  /\ Faults \subseteq FaultKinds

Sends == 1..MaxSends
Receives == 1..MaxReceives
NoReceive == 0

NoRequest == [command |-> "SEND", subscription |-> None,
              receiptTimeout |-> RECEIPT_NOT_REQUESTED]

\* What the promise of a send() or of a receive() has come to.
SendResult == {"uncalled", "pending", "rejected", "ok", "OperationTimeout",
               "OperationCancelled", "SessionClosed", "TransportFailure",
               "ServerError"}
ReceiveResult == {"uncalled", "pending", "message", "cancelled", "SessionClosed"}

\* A frame from the server.  `id` is the message id of a MESSAGE (its number
\* on its subscription) or the receipt-id of a RECEIPT or ERROR, 0 if absent.
Frame == [command : {"MESSAGE", "RECEIPT", "ERROR", "OTHER"},
          subscription : Subscriptions \cup {None},
          id : Nat]
NoFrame == [command |-> "OTHER", subscription |-> None, id |-> 0]

Message(sub, n) == [command |-> "MESSAGE", subscription |-> sub, id |-> n]
Reply(command, id) == [command |-> command, subscription |-> None, id |-> id]

\* Where the receive loop is suspended.  "idle": not running; "read": in
\* transport.readFrame; "closedRead": in a readFrame called after
\* transport.close(), which can only fail; "message": awaiting the end of a
\* message body, "messageEnd" once that end is signalled; "receipt", "error":
\* reading the body of such a frame; "check": about to test the loop condition.
LoopStates == {"idle", "check", "read", "closedRead", "message", "messageEnd",
               "receipt", "error"}

\* What has become of the body of the frame that was read last: "unread" until
\* its reader has come to the end of it, "failed" if that was an error.
BodyStates == {"unread", "read", "failed"}

VARIABLES
  disconnected, terminateCalled, sendQueue, sendLoopRunning,
  receiveFrameRequests, receiveLoop, subscriptions, messageRequests,
  unhandledMessage, receiptRequests, receiptSeq, nextReceiptSeq,
  frame,          \* the frame the receive loop is processing
  body,           \* what has become of the body of that frame
  sends,          \* number of calls of send() so far
  request,        \* their arguments
  sendResult,     \* the promises they returned
  receives,       \* number of calls of receive() so far
  receiveResult,  \* the promises they returned
  writing,        \* sends whose transport.writeFrame has not resolved
  written,        \* sends passed to transport.writeFrame, in order
  inbox,          \* frames sent by the server that the transport has not read
  processed,      \* how many frames of `written` the server has processed
  serverSubscriptions, published, serverClosed,
  delivered,      \* history: message ids handed to receive(), per subscription
  parkings        \* history: how many messages went to unhandledMessage

sendVars == <<sendQueue, sendLoopRunning, writing, written>>
receiptVars == <<receiptRequests, receiptSeq, nextReceiptSeq>>
subscriptionVars == <<subscriptions, messageRequests, receiveResult>>
callVars == <<sends, request, receives>>
frameVars == <<frame, body, unhandledMessage>>
serverVars == <<processed, serverSubscriptions, published, serverClosed>>
historyVars == <<delivered, parkings>>
vars == <<disconnected, terminateCalled, receiveFrameRequests, receiveLoop,
          sendResult, inbox, sendVars, receiptVars, subscriptionVars, callVars,
          frameVars, serverVars, historyVars>>

\* The fields that closing the session assigns.
RequestsTypeOK ==
  /\ sendQueue \in Seq(Sends)
  /\ sendResult \in [Sends -> SendResult]
  /\ subscriptions \subseteq Subscriptions
  /\ receiveFrameRequests \in Int
  /\ messageRequests \in [Subscriptions -> Receives \cup {NoReceive}]
  /\ receiptRequests \subseteq Sends
  /\ receiveResult \in [Receives -> ReceiveResult]

FlagsTypeOK ==
  /\ disconnected \in BOOLEAN
  /\ terminateCalled \in BOOLEAN
  /\ sendLoopRunning \in BOOLEAN
  /\ body \in BodyStates
  /\ serverClosed \in BOOLEAN

SendTypeOK ==
  /\ receiptSeq \in [Sends -> Nat]
  /\ nextReceiptSeq \in Nat
  /\ sends \in 0..MaxSends
  /\ request \in [Sends -> Request]
  /\ writing \subseteq Sends
  /\ written \in Seq(Sends)

LoopTypeOK ==
  /\ receiveLoop \in LoopStates
  /\ frame \in Frame
  /\ unhandledMessage \in Frame
  /\ receives \in 0..MaxReceives
  /\ inbox \in Seq(Frame)
  /\ delivered \in [Subscriptions -> Seq(Nat)]
  /\ parkings \in Nat

ServerTypeOK ==
  /\ processed \in 0..Len(written)
  /\ serverSubscriptions \subseteq Subscriptions
  /\ published \in [Subscriptions -> 0..MaxMessages]

TypeOK ==
  RequestsTypeOK /\ FlagsTypeOK /\ SendTypeOK /\ LoopTypeOK /\ ServerTypeOK

Init ==
  /\ disconnected = FALSE
  /\ terminateCalled = FALSE
  /\ sendQueue = <<>>
  /\ sendLoopRunning = FALSE
  /\ receiveFrameRequests = 0
  /\ receiveLoop = "idle"
  /\ subscriptions = {}
  /\ messageRequests = [sub \in Subscriptions |-> NoReceive]
  /\ unhandledMessage = NoFrame
  /\ receiptRequests = {}
  /\ receiptSeq = [op \in Sends |-> 0]
  /\ nextReceiptSeq = 1
  /\ frame = NoFrame
  /\ body = "read"
  /\ sends = 0
  /\ request = [op \in Sends |-> NoRequest]
  /\ sendResult = [op \in Sends |-> "uncalled"]
  /\ receives = 0
  /\ receiveResult = [op \in Receives |-> "uncalled"]
  /\ writing = {}
  /\ written = <<>>
  /\ inbox = <<>>
  /\ processed = 0
  /\ serverSubscriptions = PreSubscribed
  /\ published = [sub \in Subscriptions |-> 0]
  /\ serverClosed = FALSE
  /\ delivered = [sub \in Subscriptions |-> <<>>]
  /\ parkings = 0

-----------------------------------------------------------------------------
(* Methods that other methods call.                                         *)

\* Calling the callbacks of `calls`: a promise keeps its first result.
Settle(results, calls, r) ==
  [c \in DOMAIN results |->
     IF c \in calls /\ results[c] = "pending" THEN r ELSE results[c]]

\* StandardTransport.getReceiptTimeout, and the timeout sendLoop works with.
TransportTimeout(r) ==
  IF r.command \in {"DISCONNECT", "UNSUBSCRIBE"}
    THEN OperationTimeout ELSE RECEIPT_NOT_REQUESTED

ReceiptTimeout(r) ==
  IF r.receiptTimeout = RECEIPT_DEFAULT_TIMEOUT
    THEN TransportTimeout(r) ELSE r.receiptTimeout

\* The loop condition, and the readFrame call that follows when it holds.
LoopStateOffByOne(requests) ==
  IF requests <= 1 THEN "idle"
  ELSE IF terminateCalled THEN "closedRead" ELSE "read"

LoopState(requests) ==
  IF requests <= 0 THEN "idle"
  ELSE IF terminateCalled THEN "closedRead" ELSE "read"

\* addReceiveRequest, from a count of `requests`: a loop that is not running
\* starts, and makes its first readFrame call, before the method returns.
AddReceiveRequest(requests) ==
  /\ receiveFrameRequests' = requests + 1
  /\ receiveLoop' = IF receiveLoop = "idle" THEN LoopState(requests + 1)
                                            ELSE receiveLoop

\* The frame after which sendLoop lets no other pass.
DisconnectIgnored(r) == FALSE

EntersDisconnected(r) == r.command = "DISCONNECT"

\* sendLoop for send `op` of request r, when the results and the writes in
\* flight are `results` and `flight` on entry.
SendLoop(op, r, results, flight) ==
  \/ /\ disconnected
     /\ sendResult' = Settle(results, {op}, "SessionClosed")
     /\ sendLoopRunning' = FALSE
     /\ writing' = flight
     /\ UNCHANGED <<disconnected, receiptVars, receiveFrameRequests,
                    receiveLoop, written>>
  \/ /\ ~disconnected
     /\ sendResult' = results
     /\ sendLoopRunning' = TRUE
     /\ IF ReceiptTimeout(r) # RECEIPT_NOT_REQUESTED
          THEN /\ receiptRequests' = receiptRequests \cup {op}
               /\ receiptSeq' = [receiptSeq EXCEPT ![op] = nextReceiptSeq]
               /\ nextReceiptSeq' = nextReceiptSeq + 1
               /\ AddReceiveRequest(receiveFrameRequests)
          ELSE UNCHANGED <<receiptVars, receiveFrameRequests, receiveLoop>>
     /\ disconnected' = EntersDisconnected(r)
     /\ writing' = flight \cup {op}
     /\ written' = Append(written, op)

\* The sends that closeSendRequests and closeReceiveRequests call back, and
\* what closeReceiveRequests tells the callers of receive().
QueuedSends(receipts) == Range(sendQueue)

OpenSends(receipts) == Range(sendQueue) \cup receipts

ErrorAsIs(error) == error

CancelOrFail(error) ==
  IF error = "OperationCancelled" THEN "cancelled" ELSE error

\* closeSendRequests and closeReceiveRequests, when the results are already
\* `results` and `received` and the receipts still awaited are `receipts`.
CloseRequests(results, received, receipts, error) ==
  /\ sendQueue' = <<>>
  /\ sendResult' = Settle(results, OpenSends(receipts), error)
  /\ subscriptions' = {}
  /\ receiveFrameRequests' = 0
  /\ messageRequests' = [sub \in Subscriptions |-> NoReceive]
  /\ receiptRequests' = {}
  /\ receiveResult' =
       Settle(received, Range(messageRequests), CancelOrFail(error))

\* terminate closes the requests only when it finds one.
SendsOpen == sendQueue # <<>>

RequestsOpen == sendQueue # <<>> \/ receiveFrameRequests > 0

\* terminate.  `subs` and `msgs` are the subscriptions and message requests
\* the caller leaves.
Terminate(results, received, receipts, subs, msgs) ==
  /\ terminateCalled' = TRUE
  /\ disconnected' = TRUE
  /\ IF ~terminateCalled /\ RequestsOpen
       THEN CloseRequests(results, received, receipts, "SessionClosed")
       ELSE /\ sendResult' = results
            /\ receiveResult' = received
            /\ receiptRequests' = receipts
            /\ subscriptions' = subs
            /\ messageRequests' = msgs
            /\ UNCHANGED <<sendQueue, receiveFrameRequests>>

\* terminate, called by a handler that has changed nothing else.
TerminateNow ==
  Terminate(sendResult, receiveResult, receiptRequests, subscriptions,
            messageRequests)

\* observeSendCompletion of the sends `ops`, in the order of their receipts:
\* the last SUBSCRIBE or UNSUBSCRIBE of a subscription decides.
Completes(ops, command, sub) ==
  {op \in ops : request[op].command = command /\ request[op].subscription = sub}

SubscriptionsAfter(ops) ==
  {sub \in Subscriptions :
     \/ /\ sub \in subscriptions
        /\ Completes(ops, "UNSUBSCRIBE", sub) = {}
     \/ \E op \in Completes(ops, "SUBSCRIBE", sub) :
          \A un \in Completes(ops, "UNSUBSCRIBE", sub) :
            receiptSeq[un] < receiptSeq[op]}

Unsubscribed(ops) ==
  {sub \in Subscriptions : Completes(ops, "UNSUBSCRIBE", sub) # {}}

MessageRequestsAfter(ops) ==
  [sub \in Subscriptions |->
     IF sub \in Unsubscribed(ops) THEN NoReceive ELSE messageRequests[sub]]

ReceiveResultAfter(ops) ==
  Settle(receiveResult, {messageRequests[sub] : sub \in Unsubscribed(ops)},
         "cancelled")

Disconnects(ops) == \E op \in ops : request[op].command = "DISCONNECT"

\* processReceipt: a receipt answers its own send and every earlier one.
AnsweredAlone(id) == receiptRequests \cap {id}

AnsweredAll(id) == IF id \in receiptRequests THEN receiptRequests ELSE {}

Answered(id) ==
  IF id \in receiptRequests
    THEN {op \in receiptRequests : receiptSeq[op] <= receiptSeq[id]}
    ELSE {}

\* The DISCONNECT in `ops` completes: receipts still awaited count as
\* received, everything else is cancelled, and shutdown() terminates.
CompleteDisconnect(ops, result) ==
  /\ CloseRequests(
       Settle(Settle(sendResult, ops, result), receiptRequests, "ok"),
       ReceiveResultAfter(ops), {}, "OperationCancelled")
  /\ terminateCalled' = TRUE
  /\ disconnected' = TRUE

-----------------------------------------------------------------------------
(* The application.                                                         *)

\* send(), and subscribe, unsubscribe, ack, nack, begin, commit, abort and
\* disconnect, which only build its argument.  A subscription id is fresh
\* (generateResourceId) each time subscribe() is called.
Fresh(r) ==
  r.command = "SUBSCRIBE" =>
    /\ r.subscription \notin PreSubscribed
    /\ \A op \in 1..sends : request[op].command = "SUBSCRIBE"
                              => request[op].subscription # r.subscription

RefusesSend(r) ==
  r.command = "DISCONNECT" /\ r.receiptTimeout = RECEIPT_NOT_REQUESTED

\* Whether send() calls sendLoop itself, and where it puts the request if not.
QueueEmpty == sendQueue = <<>>

StartsLoop == ~sendLoopRunning

QueuedFirst(op) == <<op>> \o sendQueue

Queued(op) == Append(sendQueue, op)

Send(r) ==
  /\ sends < MaxSends
  /\ Fresh(r)
  /\ sends' = sends + 1
  /\ request' = [request EXCEPT ![sends + 1] = r]
  /\ \/ /\ RefusesSend(r)
        /\ sendResult' = [sendResult EXCEPT ![sends + 1] = "rejected"]
        /\ UNCHANGED <<disconnected, receiveFrameRequests, receiveLoop,
                       sendVars, receiptVars>>
     \/ /\ ~RefusesSend(r)
        /\ ~StartsLoop
        /\ sendResult' = [sendResult EXCEPT ![sends + 1] = "pending"]
        /\ sendQueue' = Queued(sends + 1)
        /\ UNCHANGED <<disconnected, receiveFrameRequests, receiveLoop,
                       sendLoopRunning, writing, written, receiptVars>>
     \/ /\ ~RefusesSend(r)
        /\ StartsLoop
        /\ SendLoop(sends + 1, r,
                    [sendResult EXCEPT ![sends + 1] = "pending"], writing)
        /\ UNCHANGED sendQueue
  /\ UNCHANGED <<terminateCalled, inbox, subscriptionVars, receives, frameVars,
                 serverVars, historyVars>>

\* receive(): the parked message if it is for `sub`, else a new request, which
\* cancels the pending one.
ParkedStays == unhandledMessage

ParkedTaken == NoFrame

AlwaysReplaces(sub) == receiveFrameRequests - 1

RequestsWithout(sub) ==
  IF messageRequests[sub] = NoReceive THEN receiveFrameRequests
                                      ELSE receiveFrameRequests - 1

Receive(sub) ==
  /\ receives < MaxReceives
  /\ receives' = receives + 1
  /\ \/ /\ unhandledMessage.subscription = sub
        /\ receiveResult' = [receiveResult EXCEPT ![receives + 1] = "message"]
        /\ delivered' = [delivered EXCEPT
                           ![sub] = Append(@, unhandledMessage.id)]
        /\ unhandledMessage' = ParkedTaken
        /\ UNCHANGED <<messageRequests, receiveFrameRequests, receiveLoop>>
     \/ /\ unhandledMessage.subscription # sub
        /\ receiveResult' =
             [Settle(receiveResult, {messageRequests[sub]}, "cancelled")
                EXCEPT ![receives + 1] = "pending"]
        /\ messageRequests' = [messageRequests EXCEPT ![sub] = receives + 1]
        /\ AddReceiveRequest(RequestsWithout(sub))
        /\ UNCHANGED <<delivered, unhandledMessage>>
  /\ UNCHANGED <<disconnected, terminateCalled, sendResult, inbox, sendVars,
                 receiptVars, subscriptions, sends, request, frame, body,
                 serverVars, parkings>>

\* cancelReceive(), which leaves receiveFrameRequests as it is.
CancelReceive(sub) ==
  /\ messageRequests[sub] # NoReceive
  /\ messageRequests' = [messageRequests EXCEPT ![sub] = NoReceive]
  /\ receiveResult' = Settle(receiveResult, {messageRequests[sub]}, "cancelled")
  /\ UNCHANGED <<disconnected, terminateCalled, receiveFrameRequests,
                 receiveLoop, sendResult, inbox, sendVars, receiptVars,
                 subscriptions, callVars, frameVars, serverVars, historyVars>>

\* shutdown().
Shutdown ==
  /\ CloseRequests(sendResult, receiveResult, receiptRequests,
                   "OperationCancelled")
  /\ terminateCalled' = TRUE
  /\ disconnected' = TRUE
  /\ UNCHANGED <<receiveLoop, inbox, sendLoopRunning, writing, written,
                 receiptSeq, nextReceiptSeq, callVars, frameVars, serverVars,
                 historyVars>>

\* The holder of a delivered message has read its body, to the end or past an
\* error.  createEmitEndDecorator emits either to the receive loop, which does
\* not look at the difference.
BodyEnds(how) ==
  /\ receiveLoop = "message"
  /\ unhandledMessage = NoFrame
  /\ receiveLoop' = "messageEnd"
  /\ body' = how
  /\ UNCHANGED <<disconnected, terminateCalled, receiveFrameRequests,
                 sendResult, inbox, sendVars, receiptVars, subscriptionVars,
                 callVars, frame, unhandledMessage, serverVars, historyVars>>

ReadBody == BodyEnds("read")

BodyFails ==
  /\ "body" \in Faults \/ terminateCalled
  /\ BodyEnds("failed")

-----------------------------------------------------------------------------
(* The send loop and the receipt timer.                                     *)

\* Whether the loop stops after a write.
LoopAlwaysStops == TRUE

LoopStops == sendQueue = <<>>

\* writeFrame of `op` resolved without an error.  Without a receipt the send
\* is complete.  (A DISCONNECT always has one: send() refuses it otherwise and
\* OperationTimeout is not negative.)
WriteSucceeds(op) ==
  LET done == IF receiptSeq[op] = 0 THEN {op} ELSE {}
      results == Settle(sendResult, done, "ok")
  IN /\ op \in writing
     /\ subscriptions' = SubscriptionsAfter(done)
     /\ messageRequests' = MessageRequestsAfter(done)
     /\ receiveResult' = ReceiveResultAfter(done)
     /\ \/ /\ LoopStops
           /\ sendLoopRunning' = FALSE
           /\ writing' = writing \ {op}
           /\ sendResult' = results
           /\ UNCHANGED <<disconnected, sendQueue, written, receiptVars,
                          receiveFrameRequests, receiveLoop>>
        \/ /\ ~LoopStops
           /\ sendQueue' = Tail(sendQueue)
           /\ SendLoop(Head(sendQueue), request[Head(sendQueue)], results,
                       writing \ {op})
     /\ UNCHANGED <<terminateCalled, inbox, callVars, frameVars, serverVars,
                    historyVars>>

\* writeFrame of `op` resolved with an error: the loop stops without looking
\* at the queue.
WriteFails(op) ==
  /\ op \in writing
  /\ "write" \in Faults \/ terminateCalled
  /\ Terminate(Settle(sendResult, {op}, "TransportFailure"), receiveResult,
               receiptRequests \ {op}, subscriptions, messageRequests)
  /\ sendLoopRunning' = FALSE
  /\ writing' = writing \ {op}
  /\ UNCHANGED <<receiveLoop, inbox, written, receiptSeq, nextReceiptSeq,
                 callVars, frameVars, serverVars, historyVars>>

\* The timer of a receipt.  Time is abstracted: it may fire at any moment the
\* receipt is awaited.
ReceiptTimesOut(op) ==
  /\ op \in receiptRequests
  /\ receiptRequests' = receiptRequests \ {op}
  /\ sendResult' = Settle(sendResult, {op}, "OperationTimeout")
  /\ UNCHANGED <<disconnected, terminateCalled, receiveFrameRequests,
                 receiveLoop, inbox, sendVars, receiptSeq, nextReceiptSeq,
                 subscriptionVars, callVars, frameVars, serverVars,
                 historyVars>>

-----------------------------------------------------------------------------
(* The receive loop.                                                        *)

\* The awaited readFrame resolves with the next frame, its body still unread.
TakeFrame ==
  /\ receiveLoop = "read"
  /\ inbox # <<>>
  /\ frame' = Head(inbox)
  /\ inbox' = Tail(inbox)
  /\ body' = "unread"
  /\ UNCHANGED <<sendLoopRunning, writing, written, receiptSeq, nextReceiptSeq,
                 callVars, serverVars>>

Requested(m) ==
  m.subscription # None /\ messageRequests[m.subscription] # NoReceive

\* After a MESSAGE the loop awaits readEndObserved.
AfterMessageNoWait == "messageEnd"

AfterMessage == "message"

\* A MESSAGE for a pending receive().
DeliverMessage ==
  /\ TakeFrame
  /\ frame'.command = "MESSAGE"
  /\ Requested(frame')
  /\ LET sub == frame'.subscription
     IN /\ messageRequests' = [messageRequests EXCEPT ![sub] = NoReceive]
        /\ receiveResult' =
             Settle(receiveResult, {messageRequests[sub]}, "message")
        /\ delivered' = [delivered EXCEPT ![sub] = Append(@, frame'.id)]
  /\ receiveLoop' = AfterMessage
  /\ UNCHANGED <<disconnected, terminateCalled, receiveFrameRequests,
                 sendResult, sendQueue, receiptRequests, subscriptions,
                 unhandledMessage, parkings>>

\* A MESSAGE nobody asked for yet, on an open subscription, is kept; the loop
\* awaits the end of its body all the same.
ParkMessage ==
  /\ TakeFrame
  /\ frame'.command = "MESSAGE"
  /\ ~Requested(frame')
  /\ frame'.subscription \in subscriptions
  /\ unhandledMessage' = frame'
  /\ parkings' = parkings + 1
  /\ receiveLoop' = AfterMessage
  /\ UNCHANGED <<disconnected, terminateCalled, receiveFrameRequests,
                 sendResult, sendQueue, receiptRequests, subscriptionVars,
                 delivered>>

\* A MESSAGE without a subscription header or for no open subscription.
RejectMessage ==
  /\ TakeFrame
  /\ frame'.command = "MESSAGE"
  /\ ~Requested(frame')
  /\ frame'.subscription \notin subscriptions
  /\ TerminateNow
  /\ receiveLoop' = "check"
  /\ UNCHANGED <<unhandledMessage, historyVars>>

\* The header of a RECEIPT or an ERROR, or of a frame the switch ignores.
ReadHeader ==
  /\ TakeFrame
  /\ \/ frame'.command = "RECEIPT" /\ receiveLoop' = "receipt"
     \/ frame'.command = "ERROR"   /\ receiveLoop' = "error"
     \/ frame'.command = "OTHER"   /\ receiveLoop' = "check"
  /\ UNCHANGED <<disconnected, terminateCalled, receiveFrameRequests,
                 sendResult, sendQueue, receiptRequests, subscriptionVars,
                 unhandledMessage, historyVars>>

LoopUnchanged ==
  UNCHANGED <<inbox, sendLoopRunning, writing, written, receiptSeq,
              nextReceiptSeq, callVars, frame, unhandledMessage, serverVars,
              historyVars>>

\* readFrame resolves with an error.  So it may when it begins in what is left
\* of a body, where TakeFrame has it find the frame behind.  Bound: what is left
\* of a body is not a frame of its own.
ReadFails ==
  /\ receiveLoop \in {"read", "closedRead"}
  /\ "read" \in Faults \/ terminateCalled \/ body # "read"
  /\ TerminateNow
  /\ receiveLoop' = "check"
  /\ LoopUnchanged
  /\ UNCHANGED body

\* The end of a message body reaches the loop.
EndMessage ==
  /\ receiveLoop = "messageEnd"
  /\ receiveFrameRequests' = receiveFrameRequests - 1
  /\ receiveLoop' = "check"
  /\ LoopUnchanged
  /\ UNCHANGED <<disconnected, terminateCalled, sendResult, sendQueue,
                 receiptRequests, subscriptionVars, body>>

\* A RECEIPT has been read to the end.
EndReceipt ==
  LET ops == Answered(frame.id)
  IN /\ receiveLoop = "receipt"
     /\ receiveLoop' = "check"
     /\ body' = "read"
     /\ \/ frame.id = 0 /\ TerminateNow
        \/ /\ frame.id # 0
           /\ ~Disconnects(ops)
           /\ receiveFrameRequests' = receiveFrameRequests - 1
           /\ sendResult' = Settle(sendResult, ops, "ok")
           /\ receiptRequests' = receiptRequests \ ops
           /\ subscriptions' = SubscriptionsAfter(ops)
           /\ messageRequests' = MessageRequestsAfter(ops)
           /\ receiveResult' = ReceiveResultAfter(ops)
           /\ UNCHANGED <<disconnected, terminateCalled, sendQueue>>
        \/ frame.id # 0 /\ Disconnects(ops) /\ CompleteDisconnect(ops, "ok")
     /\ LoopUnchanged

\* The body of a RECEIPT is not empty, or cannot be read.
ReceiptBodyFails ==
  /\ receiveLoop = "receipt"
  /\ "body" \in Faults \/ terminateCalled
  /\ TerminateNow
  /\ receiveLoop' = "check"
  /\ body' = "failed"
  /\ LoopUnchanged

\* An ERROR has been read, or as much of its body as could be: it fails the only
\* receipt awaited, whatever its receipt-id, or else the one it names.
Blamed == IF \E op \in receiptRequests : receiptRequests = {op}
            THEN receiptRequests ELSE Answered(frame.id)

EndError ==
  /\ receiveLoop = "error"
  /\ receiveLoop' = "check"
  /\ \/ body' = "read"
     \/ ("body" \in Faults \/ terminateCalled) /\ body' = "failed"
  /\ \/ Disconnects(Blamed) /\ CompleteDisconnect(Blamed, "ServerError")
     \/ /\ ~Disconnects(Blamed)
        /\ Terminate(Settle(sendResult, Blamed, "ServerError"),
                     ReceiveResultAfter(Blamed), receiptRequests \ Blamed,
                     SubscriptionsAfter(Blamed), MessageRequestsAfter(Blamed))
  /\ LoopUnchanged

\* The loop condition, evaluated when the awaited iteration has returned.
CheckLoop ==
  /\ receiveLoop = "check"
  /\ receiveLoop' = LoopState(receiveFrameRequests)
  /\ LoopUnchanged
  /\ UNCHANGED <<disconnected, terminateCalled, receiveFrameRequests,
                 sendResult, sendQueue, receiptRequests, subscriptionVars,
                 body>>

-----------------------------------------------------------------------------
(* The server and the connection.  Frames reach the server in the order they *)
(* were written, and its frames reach the transport in order.  A server that *)
(* cannot reach the client any more is not modelled further: it stops at     *)
(* terminate(), where the client closes the connection.                      *)

ServerUnchanged ==
  UNCHANGED <<disconnected, terminateCalled, receiveFrameRequests, receiveLoop,
              sendResult, sendVars, receiptVars, subscriptionVars, callVars,
              frameVars, historyVars>>

\* The server processes the next frame, as early as while it is being
\* written.  It answers a receipt header with a RECEIPT, or leaves that to a
\* later, cumulative one.
ServerProcesses ==
  /\ ~terminateCalled
  /\ ~serverClosed
  /\ processed < Len(written)
  /\ processed' = processed + 1
  /\ LET op == written[processed + 1]
         r == request[op]
     IN /\ serverSubscriptions' =
             CASE r.command = "SUBSCRIBE" ->
                    serverSubscriptions \cup {r.subscription}
               [] r.command = "UNSUBSCRIBE" ->
                    serverSubscriptions \ {r.subscription}
               [] OTHER -> serverSubscriptions
        /\ \/ receiptSeq[op] # 0 /\ inbox' = Append(inbox, Reply("RECEIPT", op))
           \/ UNCHANGED inbox
  /\ UNCHANGED <<published, serverClosed>>
  /\ ServerUnchanged

ServerPublishes(sub) ==
  /\ ~terminateCalled
  /\ ~serverClosed
  /\ sub \in serverSubscriptions
  /\ published[sub] < MaxMessages
  /\ published' = [published EXCEPT ![sub] = @ + 1]
  /\ inbox' = Append(inbox, Message(sub, published[sub] + 1))
  /\ UNCHANGED <<processed, serverSubscriptions, serverClosed>>
  /\ ServerUnchanged

\* The frames of a server that fails: an ERROR that may name a frame it has
\* processed, a MESSAGE or RECEIPT without its header, or a command that is
\* not a server's.  Bound: it sends nothing after one of them.
FaultyFrames ==
  {f \in {Reply("ERROR", 0)} \cup
         {Reply("ERROR", written[i]) : i \in 1..processed} : "error" \in Faults}
    \cup {f \in {Message(None, 0), Reply("RECEIPT", 0)} : "malformed" \in Faults}
    \cup {f \in {NoFrame} : "other" \in Faults}

ServerFails ==
  /\ ~terminateCalled
  /\ ~serverClosed
  /\ serverClosed' = TRUE
  /\ \E f \in FaultyFrames : inbox' = Append(inbox, f)
  /\ UNCHANGED <<processed, serverSubscriptions, published>>
  /\ ServerUnchanged

-----------------------------------------------------------------------------
Next ==
  \/ \E r \in Requests : Send(r)
  \/ \E sub \in Subscriptions : Receive(sub)
  \/ \E sub \in Subscriptions : CancelReceive(sub)
  \/ Shutdown
  \/ ReadBody
  \/ BodyFails
  \/ \E op \in Sends : WriteSucceeds(op)
  \/ \E op \in Sends : WriteFails(op)
  \/ \E op \in Sends : ReceiptTimesOut(op)
  \/ DeliverMessage
  \/ ParkMessage
  \/ RejectMessage
  \/ ReadHeader
  \/ ReadFails
  \/ EndMessage
  \/ EndReceipt
  \/ ReceiptBodyFails
  \/ EndError
  \/ CheckLoop
  \/ ServerProcesses
  \/ \E sub \in Subscriptions : ServerPublishes(sub)
  \/ ServerFails

Spec == Init /\ [][Next]_vars

\* The event loop runs every callback that is due: a write settles, a timer
\* fires, a frame that has arrived is read, and an awaited body ends.  The
\* application owes only the reading of the bodies it was given, on past an error.
Fairness ==
  /\ \A op \in Sends : WF_vars(WriteSucceeds(op) \/ WriteFails(op))
  /\ \A op \in Sends : WF_vars(ReceiptTimesOut(op))
  /\ WF_vars(DeliverMessage \/ ParkMessage \/ RejectMessage \/ ReadHeader
               \/ ReadFails)
  /\ WF_vars(EndMessage)
  /\ WF_vars(EndReceipt \/ ReceiptBodyFails)
  /\ WF_vars(EndError)
  /\ WF_vars(CheckLoop)
  /\ WF_vars(ReadBody \/ BodyFails)

FairSpec == Spec /\ Fairness

-----------------------------------------------------------------------------
(* Safety of the send side.                                                 *)

\* At most one writeFrame call is in flight, and sendLoopRunning says whether
\* one is: send() and the continuation of the previous write never both start
\* the loop (sendLoopRunning, session.ts:491-497, 580-590).
OneWriter ==
  /\ \A a, b \in writing : a = b
  /\ sendLoopRunning <=> writing # {}

\* Frames reach the transport in the order of the send() calls, each at most
\* once, whatever mix of direct starts and queued requests they took.
SendsInOrder ==
  \A i, j \in 1..Len(written) : i < j => written[i] < written[j]

\* No frame follows a DISCONNECT, not even one already queued behind it.
NothingAfterDisconnect ==
  \A i \in 1..Len(written) :
    request[written[i]].command = "DISCONNECT" => i = Len(written)

\* While the session is connected a queued request has a running loop to take
\* it: the loop never stops between its look at the queue and a send().
NoStrandedSend ==
  ~disconnected => (sendQueue # <<>> => sendLoopRunning)

\* A pending send is somewhere it can still be completed from: in the queue,
\* in flight, or awaiting its receipt.
NoForgottenSend ==
  \A op \in Sends : sendResult[op] = "pending" =>
    op \in Range(sendQueue) \cup writing \cup receiptRequests

\* A send with a receipt that resolves to success was processed by the server.
ReceiptMeansProcessed ==
  \A op \in Sends : sendResult[op] = "ok" /\ receiptSeq[op] # 0 =>
    \E i \in 1..processed : written[i] = op

\* Receipts are cumulative: when one send succeeds by its receipt, no earlier
\* send with a receipt is still awaiting one.
ReceiptsCumulative ==
  \A a, b \in Sends :
    a < b /\ receiptSeq[a] # 0 /\ receiptSeq[b] # 0 /\ sendResult[b] = "ok"
      => sendResult[a] # "pending"

-----------------------------------------------------------------------------
(* Safety of the receive side.                                              *)

AwaitedReceives == {sub \in Subscriptions : messageRequests[sub] # NoReceive}

\* Until a message is parked, an operation that needs a frame has a receive
\* loop reading for it: the loop never goes idle under a pending receive() or
\* an awaited receipt.
PendingIsRead ==
  (parkings = 0 /\ ~terminateCalled)
    => (AwaitedReceives # {} \/ receiptRequests # {} => receiveLoop # "idle")

\* The number of awaited operations never exceeds the frames still to be read
\* for them, apart from one per message ever parked: a parked message takes a
\* read nobody asked for.
ReadsCoverRequests ==
  ~terminateCalled =>
    Cardinality(AwaitedReceives) + Cardinality(receiptRequests)
      + (IF receiveLoop \in {"message", "messageEnd"} THEN 1 ELSE 0)
      <= receiveFrameRequests + parkings

\* readFrame is not called while somebody still reads the last body: the loop
\* waits for its end (transport.ts:37, session.ts:657).  What it does not wait
\* for is a good end, and a frame that its switch ignores (620) is not read at
\* all.
BodyBeforeNextFrame ==
  receiveLoop = "read" => body # "unread" \/ frame.command = "OTHER"

\* A parked message is never overwritten or dropped: the loop waits at it until
\* receive() takes it.
ParkedHeld ==
  unhandledMessage # NoFrame =>
    receiveLoop = "message" /\ frame = unhandledMessage

\* The step that terminates the session settles every promise it has handed
\* out, except that of the frame in flight, which the write itself will settle.
\* Once a message was parked the count may be 0 while operations are awaited,
\* and terminate() (session.ts:453) then overlooks them: a receive() stays
\* pending, a send whose frame was written is left to its receipt's timer.
TerminateSettles ==
  [][(terminateCalled' /\ ~terminateCalled) =>
       /\ \A op \in Sends : sendResult'[op] = "pending" =>
            op \in writing' \/ (parkings > 0 /\ op \in receiptRequests')
       /\ parkings = 0 =>
            \A call \in Receives : receiveResult'[call] # "pending"]_vars

-----------------------------------------------------------------------------
(* Refinement: what an application sees of its subscriptions.               *)

Delivery == INSTANCE Delivery

\* Each subscription is a FIFO channel without loss, duplication or reordering
\* up to the last message delivered, through parking, cancelled receives and
\* interleaved receipts.
DeliverySpec == Delivery!Spec

-----------------------------------------------------------------------------
(* Liveness.                                                                *)

\* Every send() settles, or the session is disconnected.
SendsSettle ==
  \A op \in Sends :
    (sendResult[op] = "pending") ~> (sendResult[op] # "pending" \/ disconnected)

\* A receive() on a subscription with an undelivered message settles, or the
\* session is closed, or a parked message is in its way: one that waits for its
\* own receive(), before which the loop reads nothing (session.ts:657), or one
\* that was taken, with a read that another operation had asked for (324-327,
\* 659), so that the loop has gone idle too early.
ParkedInTheWay ==
  \/ unhandledMessage # NoFrame
  \/ parkings > 0 /\ receiveLoop = "idle"

ReceivesServed ==
  \A call \in Receives : \A sub \in Subscriptions :
    (/\ messageRequests[sub] = call
     /\ Len(delivered[sub]) < published[sub])
      ~> (receiveResult[call] # "pending" \/ terminateCalled \/ ParkedInTheWay)

-----------------------------------------------------------------------------
(* What the documentation, a comment or a test says and the code does not do. *)

\* A send() made after shutdown() is refused (session.test.ts:129-145): once
\* no write is in flight nothing stays queued in a closed session.
ClosedQueueEmpty ==
  terminateCalled /\ writing = {} => sendQueue = <<>>

\* "If any error occurs then the error value is returned from the affected
\* operations" (README.md:113-114): a receive() on a closed session settles.
ClosedReceiveSettles ==
  \A call \in Receives :
    (terminateCalled /\ receiveResult[call] = "pending")
      ~> (receiveResult[call] # "pending")
=============================================================================
