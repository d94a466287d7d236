-------------------------- MODULE TransportProofs --------------------------
(***************************************************************************)
(* Theorems about Transport, for all rates, tolerances and answers of the   *)
(* peer.                                                                   *)
(***************************************************************************)
EXTENDS Transport, TLAPS

-----------------------------------------------------------------------------
(* Type correctness.                                                        *)

\* The rate agreed from two rates is a rate.
LEMMA AgreedRateType ==
  ASSUME NEW a \in Nat, NEW b \in Nat
  PROVE  AgreedRate(a, b) \in Nat
  BY DEF AgreedRate, Larger

\* The error that is kept is an error.
LEMMA FirstErrorType ==
  ASSUME TypeOK, NEW error \in Errors
  PROVE  FirstError(error) \in Errors
  BY DEF FirstError, TypeOK, StatesTypeOK

\* Closing clears the timers or leaves them alone.
LEMMA CloseType ==
  ASSUME TypeOK, NEW error \in Errors \cup {None}, CloseWith(error),
         agreed' = agreed
  PROVE  /\ sessionClosed'
         /\ TimersTypeOK'
         /\ readSeen' \in BOOLEAN /\ writeSeen' \in BOOLEAN
         /\ streamError' \in Errors \cup {None}
         /\ stream' \in {"open", "ending", "closed"}
  <1>1. sessionClosed' /\ streamError' \in Errors \cup {None}
    BY DEF CloseWith
  <1>2. stream' \in {"open", "ending", "closed"}
    BY DEF CloseWith, TypeOK, StatesTypeOK
  <1>3. TimersTypeOK'
    BY DEF CloseWith, TimersCleared, readVars, writeVars, TypeOK, TimersTypeOK
  <1>4. readSeen' \in BOOLEAN /\ writeSeen' \in BOOLEAN
    <2>1. CASE sessionClosed
      BY <2>1 DEF CloseWith, readVars, writeVars, TypeOK, FlagsTypeOK
    <2>2. CASE ~sessionClosed
      BY <2>2 DEF CloseWith, TimersCleared
    <2> QED
      BY <2>1, <2>2
  <1> QED
    BY <1>1, <1>2, <1>3, <1>4

\* startHeartBeat arms each timer with its whole period.
LEMMA HeartBeatType ==
  ASSUME NEW h \in HeartBeat, Monitor(h), agreed' \in HeartBeat
  PROVE  TimersTypeOK' /\ readSeen' \in BOOLEAN /\ writeSeen' \in BOOLEAN
  <1>1. h.write \in Nat /\ h.read \in Nat
    BY DEF HeartBeat
  <1>2. /\ AgreedRate(DesiredReadRate, h.write) \in Nat
        /\ AgreedRate(DesiredWriteRate, h.read) \in Nat
    BY <1>1, TransportAssumption, AgreedRateType
  <1>3. ReadInterval(h) \in Nat /\ WriteInterval(h) \in Nat
    BY <1>2, TransportAssumption DEF ReadInterval, WriteInterval
  <1>4. TimersTypeOK'
    BY <1>3 DEF Monitor, TimersTypeOK
  <1>5. readSeen' \in BOOLEAN /\ writeSeen' \in BOOLEAN
    BY DEF Monitor
  <1> QED
    BY <1>4, <1>5

\* The answer to a heart-beat header is one.
LEMMA AnswerType ==
  ASSUME NEW h \in HeartBeat
  PROVE  Answer(h) \in HeartBeat
  BY TransportAssumption, AgreedRateType DEF Answer, HeartBeat

\* An action that closes the stream or fails it.
Closes(error) ==
  /\ error \in Errors \cup {None}
  /\ CloseWith(error)
  /\ agreed' = agreed

\* What the actions that end in close() do: they close with some error, or
\* leave the stream and the timers as they are.
LEMMA ClosingSteps ==
  ASSUME TypeOK,
         \/ FrameNotWritten
         \/ ReadFails
         \/ Close
         \/ HandshakeAgain
         \/ Refused
         \/ \E ok \in BOOLEAN : ConnectBodyRead(ok)
  PROVE  \/ \E error \in Errors \cup {None} : Closes(error)
         \/ UNCHANGED <<closeVars, readVars, writeVars, agreed>>
  <1>1. streamError \in Errors \cup {None}
    BY DEF TypeOK, StatesTypeOK
  <1>2. FirstError("read") \in Errors /\ FirstError("repeated") \in Errors
    BY FirstErrorType DEF Errors
  <1>3. CASE FrameNotWritten
    BY <1>1, <1>3 DEF FrameNotWritten, Closes, peerVars
  <1>4. CASE ReadFails
    BY <1>2, <1>4 DEF ReadFails, FailStream, Closes, peerVars
  <1>5. CASE Close
    BY <1>1, <1>5 DEF Close, Closes, peerVars
  <1>6. CASE Refused
    BY <1>1, <1>6 DEF Refused, CloseFailed, Closes, peerVars
  <1>8. CASE HandshakeAgain
    BY <1>2, <1>8 DEF HandshakeAgain, FailStream, Closes, peerVars
  <1>7. CASE \E ok \in BOOLEAN : ConnectBodyRead(ok)
    BY <1>1, <1>7 DEF ConnectBodyRead, CloseFailed, Closes, peerVars
  <1> QED
    BY <1>3, <1>4, <1>5, <1>6, <1>7, <1>8

\* The same of a CONNECTED frame, which may start the heart-beat instead.
LEMMA ConnectedSteps ==
  ASSUME TypeOK, NEW h \in PeerHeartBeats, NEW good \in BOOLEAN,
         Connected(h, good)
  PROVE  /\ h \in HeartBeat
         /\ \/ \E error \in Errors \cup {None} : Closes(error)
            \/ StartHeartBeat(h) /\ UNCHANGED closeVars
  <1>1. h \in HeartBeat
    BY TransportAssumption
  <1>2. streamError \in Errors \cup {None}
    BY DEF TypeOK, StatesTypeOK
  <1>3. FirstError("malformed") \in Errors
    BY FirstErrorType DEF Errors
  <1>4. \/ FailStream("malformed") /\ agreed' = agreed
        \/ CloseFailed /\ agreed' = agreed
        \/ StartHeartBeat(h) /\ UNCHANGED closeVars
    BY DEF Connected
  <1> QED
    BY <1>1, <1>2, <1>3, <1>4 DEF FailStream, CloseFailed, Closes

\* And of the read timer.
LEMMA ReadTimerSteps ==
  ASSUME TypeOK, ReadTimerFires
  PROVE  \/ \E error \in Errors \cup {None} : Closes(error)
         \/ /\ readPeriod > 0
            /\ readDue' = readPeriod
            /\ readSeen' = FALSE \/ readSeen' = readSeen
            /\ streamError' \in Errors \cup {None}
            /\ UNCHANGED <<readPeriod, silence, writeVars, sessionClosed,
                           stream, agreed>>
  <1>1. FirstError("timeout") \in Errors
    BY FirstErrorType DEF Errors
  <1>2. streamError \in Errors \cup {None}
    BY DEF TypeOK, StatesTypeOK
  <1>3. CASE FailStream("timeout")
    BY <1>1, <1>3 DEF ReadTimerFires, FailStream, Closes, peerVars
  <1>4. CASE ~FailStream("timeout")
    BY <1>1, <1>2, <1>4 DEF ReadTimerFires, Looked, closeVars, peerVars
  <1> QED
    BY <1>3, <1>4

\* And of the server's handshake.
ServerHandshake ==
  \/ AwaitConnect
  \/ \E h \in PeerHeartBeats : ConnectRead(h)
  \/ AnswerConnect
  \/ ConnectedWritten
  \/ ConnectedNotWritten

\* What a server does with CONNECT: it closes, goes on, or starts its timers.
LEMMA ServerSteps ==
  ASSUME TypeOK, ServerHandshake
  PROVE  \/ \E error \in Errors \cup {None} : Closes(error)
         \/ UNCHANGED <<closeVars, readVars, writeVars>> /\ agreed' \in HeartBeat
         \/ Monitor(Answer(agreed)) /\ UNCHANGED <<closeVars, agreed>>
  <1>1. streamError \in Errors \cup {None} /\ agreed \in HeartBeat
    BY DEF TypeOK, StatesTypeOK, TimersTypeOK
  <1>2. FirstError("malformed") \in Errors
    BY FirstErrorType DEF Errors
  <1>3. CASE AwaitConnect
    BY <1>1, <1>3 DEF AwaitConnect, peerVars
  <1>4. CASE \E h \in PeerHeartBeats : ConnectRead(h)
    BY <1>4, TransportAssumption DEF ConnectRead
  <1>5. CASE AnswerConnect
    BY <1>1, <1>2, <1>5 DEF AnswerConnect, FailStream, Closes, peerVars
  <1>6. CASE ConnectedWritten
    BY <1>6 DEF ConnectedWritten, peerVars
  <1>7. CASE ConnectedNotWritten
    BY <1>1, <1>7 DEF ConnectedNotWritten, Closes, peerVars
  <1> QED
    BY <1>3, <1>4, <1>5, <1>6, <1>7 DEF ServerHandshake

\* What closing fixes, where the error may be none.
LEMMA ClosesType ==
  ASSUME TypeOK, NEW error, Closes(error)
  PROVE  /\ sessionClosed'
         /\ TimersTypeOK'
         /\ readSeen' \in BOOLEAN /\ writeSeen' \in BOOLEAN
         /\ streamError' \in Errors \cup {None}
         /\ stream' \in {"open", "ending", "closed"}
  BY CloseType DEF Closes

\* The part of the types that close() and the heart-beat change.
ClosedTypeOK ==
  /\ TimersTypeOK
  /\ sessionClosed \in BOOLEAN
  /\ readSeen \in BOOLEAN /\ writeSeen \in BOOLEAN
  /\ streamError \in Errors \cup {None}
  /\ stream \in {"open", "ending", "closed"}

\* A step that closes the transport keeps its types.
LEMMA ClosedTypeStep ==
  ASSUME TypeOK, [Next]_vars
  PROVE  ClosedTypeOK'
  <1> DEFINE Rest == UNCHANGED <<closeVars, readVars, writeVars, agreed>>
  <1>1. ASSUME Rest PROVE ClosedTypeOK'
    BY <1>1 DEF TypeOK, FlagsTypeOK, TimersTypeOK, StatesTypeOK, ClosedTypeOK,
                closeVars, readVars, writeVars
  <1>2. ASSUME NEW error, Closes(error) PROVE ClosedTypeOK'
    <2>1. sessionClosed' \in BOOLEAN
      BY <1>2 DEF Closes, CloseWith
    <2> QED
      BY <1>2, <2>1, ClosesType DEF ClosedTypeOK
  <1>3. CASE \/ FrameNotWritten \/ ReadFails \/ Close \/ HandshakeAgain \/ Refused
             \/ \E ok \in BOOLEAN : ConnectBodyRead(ok)
    BY <1>1, <1>2, <1>3, ClosingSteps
  <1>4. ASSUME NEW h \in PeerHeartBeats, NEW good \in BOOLEAN,
               Connected(h, good)
        PROVE  ClosedTypeOK'
    <2>1. CASE StartHeartBeat(h) /\ UNCHANGED closeVars
      <3>1. h \in HeartBeat
        BY <1>4, ConnectedSteps
      <3>2. TimersTypeOK' /\ readSeen' \in BOOLEAN /\ writeSeen' \in BOOLEAN
        BY <2>1, <3>1, HeartBeatType DEF StartHeartBeat
      <3> QED
        BY <2>1, <3>2 DEF ClosedTypeOK, closeVars, TypeOK, FlagsTypeOK,
                          StatesTypeOK
    <2> QED
      BY <1>2, <1>4, <2>1, ConnectedSteps
  <1>5. CASE ReadTimerFires
    <2>1. CASE \E error \in Errors \cup {None} : Closes(error)
      BY <1>2, <2>1
    <2>2. CASE ~ \E error \in Errors \cup {None} : Closes(error)
      <3>1. /\ readPeriod > 0
            /\ readDue' = readPeriod
            /\ readSeen' = FALSE \/ readSeen' = readSeen
            /\ streamError' \in Errors \cup {None}
            /\ UNCHANGED <<readPeriod, silence, writeVars, sessionClosed,
                           stream, agreed>>
        BY <1>5, <2>2, ReadTimerSteps
      <3>2. TimersTypeOK'
        BY <3>1 DEF TypeOK, TimersTypeOK, writeVars
      <3>3. readSeen' \in BOOLEAN
        BY <3>1 DEF TypeOK, FlagsTypeOK
      <3> QED
        BY <3>1, <3>2, <3>3 DEF TypeOK, FlagsTypeOK, StatesTypeOK,
                                ClosedTypeOK, writeVars
    <2> QED
      BY <2>1, <2>2
  <1>6. CASE \/ Connect \/ WriteFrame \/ FrameRead \/ PeerDies
             \/ UNCHANGED vars
    <2>1. Rest
      BY <1>6 DEF Connect, WriteFrame, FrameRead, PeerDies, vars, peerVars
    <2> QED
      BY <1>1, <2>1
  <1>7. CASE StreamEnded
    BY <1>7 DEF StreamEnded, Errors, TypeOK, FlagsTypeOK, TimersTypeOK, StatesTypeOK,
                ClosedTypeOK, readVars, writeVars, peerVars
  <1>8. CASE WriteChunk \/ FrameWritten \/ WriteTimerFires
    <2>1. /\ UNCHANGED <<closeVars, readVars, writePeriod, agreed>>
          /\ idle' = 0 \/ idle' = idle
          /\ writeDue' = writePeriod \/ writeDue' = writeDue
      BY <1>8 DEF WriteChunk, BytesWritten, FrameWritten, WriteTimerFires,
                  peerVars
    <2>2. TimersTypeOK'
      BY <2>1 DEF TypeOK, TimersTypeOK, readVars
    <2>3. CASE WriteChunk
      <3>1. writeSeen' = (writePeriod > 0)
        BY <2>3 DEF WriteChunk, BytesWritten
      <3>2. writeSeen' \in BOOLEAN
        BY <3>1
      <3> QED
        BY <2>1, <2>2, <3>2 DEF TypeOK, FlagsTypeOK, StatesTypeOK, ClosedTypeOK,
                                closeVars, readVars
    <2>4. CASE FrameWritten \/ WriteTimerFires
      <3>1. writeSeen' = writeSeen \/ writeSeen' = FALSE
        BY <2>4 DEF FrameWritten, WriteTimerFires, Looked
      <3>2. writeSeen' \in BOOLEAN
        BY <3>1 DEF TypeOK, FlagsTypeOK
      <3> QED
        BY <2>1, <2>2, <3>2 DEF TypeOK, FlagsTypeOK, StatesTypeOK, ClosedTypeOK,
                                closeVars, readVars
    <2> QED
      BY <1>8, <2>3, <2>4
  <1>9. CASE ReadFrame \/ Arrive
    <2>1. /\ UNCHANGED <<closeVars, writeVars, readPeriod, readDue, agreed>>
          /\ silence' = 0 \/ silence' = silence
      BY <1>9 DEF ReadFrame, Arrive, peerVars
    <2>2. TimersTypeOK'
      BY <2>1 DEF TypeOK, TimersTypeOK, writeVars
    <2>3. readSeen' \in BOOLEAN
      BY <1>9 DEF ReadFrame, Arrive
    <2> QED
      BY <2>1, <2>2, <2>3 DEF TypeOK, FlagsTypeOK, StatesTypeOK, ClosedTypeOK,
                              closeVars, writeVars
  <1>10. CASE Tick
    <2>1. TimersTypeOK'
      BY <1>10 DEF Tick, TypeOK, TimersTypeOK, peerVars
    <2> QED
      BY <1>10, <2>1 DEF Tick, TypeOK, FlagsTypeOK, StatesTypeOK, ClosedTypeOK,
                         closeVars
  <1>11. CASE ServerHandshake
    <2>1. CASE UNCHANGED <<closeVars, readVars, writeVars>> /\ agreed' \in HeartBeat
      BY <2>1 DEF TypeOK, FlagsTypeOK, TimersTypeOK, StatesTypeOK, ClosedTypeOK,
                  closeVars, readVars, writeVars
    <2>2. CASE Monitor(Answer(agreed)) /\ UNCHANGED <<closeVars, agreed>>
      <3>1. agreed' \in HeartBeat /\ Answer(agreed) \in HeartBeat
        BY <2>2, AnswerType DEF TypeOK, TimersTypeOK
      <3>2. TimersTypeOK' /\ readSeen' \in BOOLEAN /\ writeSeen' \in BOOLEAN
        BY <2>2, <3>1, HeartBeatType
      <3> QED
        BY <2>2, <3>2 DEF ClosedTypeOK, closeVars, TypeOK, FlagsTypeOK, StatesTypeOK
    <2> QED
      BY <1>2, <1>11, <2>1, <2>2, ServerSteps
  <1> HIDE DEF Rest
  <1> QED
    BY <1>3, <1>4, <1>5, <1>6, <1>7, <1>8, <1>9, <1>10, <1>11
       DEF Next, ServerHandshake

\* The part that they leave alone.
LEMMA OtherTypeStep ==
  ASSUME TypeOK, [Next]_vars
  PROVE  /\ sessionStarted' \in BOOLEAN /\ writing' \in BOOLEAN
         /\ reading' \in BOOLEAN /\ uncounted' \in BOOLEAN
         /\ peerAlive' \in BOOLEAN
         /\ connecting' \in ConnectStates
         /\ outgoing' \in {"none", "open", "sent"}
         /\ wire' \in {"whole", "part", "corrupt"}
  <1> USE DEF TypeOK, FlagsTypeOK, StatesTypeOK, ConnectStates, ServerStates,
              peerVars, frameVars, inputVars
  <1>1. CASE Connect
    BY <1>1 DEF Connect, StartFrame
  <1>2. CASE WriteFrame
    BY <1>2 DEF WriteFrame, StartFrame
  <1>3. CASE WriteChunk
    BY <1>3 DEF WriteChunk
  <1>4. CASE FrameWritten
    BY <1>4 DEF FrameWritten
  <1>5. CASE FrameNotWritten
    BY <1>5 DEF FrameNotWritten
  <1>6. CASE ReadFrame \/ FrameRead \/ ReadFails
    <2>1. CASE ReadFrame
      BY <2>1 DEF ReadFrame
    <2>2. CASE FrameRead
      BY <2>2 DEF FrameRead
    <2>3. CASE ReadFails
      BY <2>3 DEF ReadFails
    <2> QED
      BY <1>6, <2>1, <2>2, <2>3
  <1>7. CASE Close \/ HandshakeAgain \/ StreamEnded \/ PeerDies
    <2>1. CASE Close
      BY <2>1 DEF Close
    <2>2. CASE StreamEnded \/ HandshakeAgain
      BY <2>2 DEF StreamEnded, HandshakeAgain
    <2>3. CASE PeerDies
      BY <2>3 DEF PeerDies
    <2> QED
      BY <1>7, <2>1, <2>2, <2>3
  <1>8. ASSUME NEW h \in PeerHeartBeats, NEW good \in BOOLEAN,
               Connected(h, good)
        PROVE  /\ sessionStarted' \in BOOLEAN /\ writing' \in BOOLEAN
               /\ reading' \in BOOLEAN /\ uncounted' \in BOOLEAN
               /\ peerAlive' \in BOOLEAN
               /\ connecting' \in ConnectStates
               /\ outgoing' \in {"none", "open", "sent"}
               /\ wire' \in {"whole", "part", "corrupt"}
    BY <1>8 DEF Connected
  <1>9. CASE Refused
    BY <1>9 DEF Refused
  <1>10. CASE \E ok \in BOOLEAN : ConnectBodyRead(ok)
    BY <1>10 DEF ConnectBodyRead
  <1>11. CASE WriteTimerFires
    BY <1>11 DEF WriteTimerFires
  <1>12. CASE ReadTimerFires
    BY <1>12 DEF ReadTimerFires
  <1>13. CASE Arrive
    BY <1>13 DEF Arrive
  <1>14. CASE Tick \/ UNCHANGED vars
    BY <1>14 DEF Tick, vars
  <1>15. CASE ServerHandshake
    BY <1>15 DEF ServerHandshake, AwaitConnect, ConnectRead, AnswerConnect, StartFrame,
                 ConnectedWritten, ConnectedNotWritten
  <1> QED
    BY <1>1, <1>2, <1>3, <1>4, <1>5, <1>6, <1>7, <1>8, <1>9, <1>10, <1>11,
       <1>12, <1>13, <1>14, <1>15 DEF Next, ServerHandshake

\* A new transport is well typed.
LEMMA InitType ==
  Init => TypeOK
  <1> SUFFICES ASSUME Init PROVE TypeOK
    OBVIOUS
  <1>1. FlagsTypeOK
    BY DEF Init, FlagsTypeOK
  <1>2. TimersTypeOK
    BY DEF Init, TimersTypeOK, NoHeartBeat, HeartBeat
  <1>3. StatesTypeOK
    BY DEF Init, StatesTypeOK, ConnectStates, ServerStates
  <1> QED
    BY <1>1, <1>2, <1>3 DEF TypeOK

\* Every step keeps the types: one case per action.
LEMMA NextType ==
  TypeOK /\ [Next]_vars => TypeOK'
  BY ClosedTypeStep, OtherTypeStep
     DEF TypeOK, FlagsTypeOK, StatesTypeOK, ClosedTypeOK

\* The transport's variables keep their types (TypeOK).
THEOREM TypeCorrect == Spec => []TypeOK
  BY InitType, NextType, PTL DEF Spec

-----------------------------------------------------------------------------
(* Errors.                                                                  *)

\* Errors are set and the stream is ended by close() only, or after it.
ErrorsClose == streamError # None \/ stream # "open" => sessionClosed

\* The error a transport failed with is the first one (FirstErrorStays):
\* failStream, transport.ts:300-305, from any handler but the one of writeEnd().
LEMMA ErrorStep ==
  ASSUME [Next]_vars, streamError # None, streamError' # streamError
  PROVE  stream = "ending" /\ stream' = "closed" /\ streamError' = "writeEnd"
  <1> USE DEF FailStream, FirstError, CloseFailed, CloseWith, closeVars
  <1>1. CASE \/ Connect \/ WriteFrame \/ WriteChunk \/ FrameWritten
             \/ FrameNotWritten \/ ReadFrame \/ FrameRead \/ UNCHANGED vars
    BY <1>1 DEF Connect, WriteFrame, WriteChunk, FrameWritten, FrameNotWritten,
                ReadFrame, FrameRead, vars
  <1>2. CASE ReadFails \/ Close \/ HandshakeAgain \/ StreamEnded \/ Refused
    BY <1>2 DEF ReadFails, Close, HandshakeAgain, StreamEnded, Refused
  <1>3. CASE \E h \in PeerHeartBeats, good \in BOOLEAN : Connected(h, good)
    BY <1>3 DEF Connected
  <1>4. CASE \E ok \in BOOLEAN : ConnectBodyRead(ok)
    BY <1>4 DEF ConnectBodyRead
  <1>5. CASE WriteTimerFires \/ ReadTimerFires \/ Arrive \/ PeerDies \/ Tick
    BY <1>5 DEF WriteTimerFires, ReadTimerFires, Arrive, PeerDies, Tick
  <1>6. CASE ServerHandshake
    BY <1>6 DEF ServerHandshake, AwaitConnect, ConnectRead, AnswerConnect, StartFrame,
                ConnectedWritten, ConnectedNotWritten
  <1> QED
    BY <1>1, <1>2, <1>3, <1>4, <1>5, <1>6 DEF Next, ServerHandshake

\* The first error stays, unless writeEnd() was awaited as it came and fails
\* (transport.ts:300-305, 334-338): FirstErrorStays.
THEOREM FirstErrorCorrect == Spec => FirstErrorStays
  <1>1. [Next]_vars =>
          [streamError # None /\ streamError' # streamError
             => stream = "ending" /\ stream' = "closed" /\ streamError' = "writeEnd"]_vars
    BY ErrorStep
  <1> QED
    BY <1>1, PTL DEF Spec, FirstErrorStays

\* A closed transport stays closed, and an error closes it.
LEMMA ClosedStep ==
  ASSUME TypeOK, ErrorsClose, [Next]_vars
  PROVE  ErrorsClose' /\ (sessionClosed => sessionClosed')
  <1> USE DEF ErrorsClose, CloseFailed, closeVars, FailStream, CloseWith
  <1>1. CASE \/ Connect \/ WriteFrame \/ WriteChunk \/ FrameWritten
             \/ FrameNotWritten \/ ReadFrame \/ FrameRead \/ UNCHANGED vars
    BY <1>1 DEF Connect, WriteFrame, WriteChunk, FrameWritten, FrameNotWritten,
                ReadFrame, FrameRead, vars
  <1>2. CASE ReadFails \/ Close \/ HandshakeAgain \/ StreamEnded \/ Refused
    BY <1>2 DEF ReadFails, Close, HandshakeAgain, StreamEnded, Refused
  <1>3. CASE \E h \in PeerHeartBeats, good \in BOOLEAN : Connected(h, good)
    BY <1>3 DEF Connected
  <1>4. CASE \E ok \in BOOLEAN : ConnectBodyRead(ok)
    BY <1>4 DEF ConnectBodyRead
  <1>5. CASE WriteTimerFires \/ ReadTimerFires \/ Arrive \/ PeerDies \/ Tick
    BY <1>5 DEF WriteTimerFires, ReadTimerFires, Arrive, PeerDies, Tick
  <1>6. CASE ServerHandshake
    BY <1>6 DEF ServerHandshake, AwaitConnect, ConnectRead, AnswerConnect, StartFrame,
                ConnectedWritten, ConnectedNotWritten
  <1> QED
    BY <1>1, <1>2, <1>3, <1>4, <1>5, <1>6 DEF Next, ServerHandshake

\* A connect() that fails leaves a closed transport.
LEMMA FailedStep ==
  ASSUME TypeOK, ErrorsClose, FailedConnectCloses, [Next]_vars
  PROVE  FailedConnectCloses'
  <1> USE DEF FailedConnectCloses, CloseFailed, FailStream, CloseWith,
              ConnectStates, ServerStates, Established
  <1>1. sessionClosed => sessionClosed'
    BY ClosedStep
  <1>2. CASE \/ Connect \/ WriteFrame \/ WriteChunk \/ FrameWritten
             \/ FrameNotWritten \/ ReadFrame \/ FrameRead \/ UNCHANGED vars
    BY <1>1, <1>2 DEF Connect, WriteFrame, WriteChunk, FrameWritten,
                FrameNotWritten, ReadFrame, FrameRead, vars, closeVars
  <1>3. CASE ReadFails \/ Close \/ HandshakeAgain \/ StreamEnded \/ Refused
    BY <1>1, <1>3 DEF ReadFails, Close, HandshakeAgain, StreamEnded, Refused
  <1>4. CASE \E h \in PeerHeartBeats, good \in BOOLEAN : Connected(h, good)
    BY <1>1, <1>4 DEF Connected
  <1>5. CASE \E ok \in BOOLEAN : ConnectBodyRead(ok)
    BY <1>1, <1>5 DEF ConnectBodyRead
  <1>6. CASE WriteTimerFires \/ ReadTimerFires \/ Arrive \/ PeerDies \/ Tick
    BY <1>1, <1>6 DEF WriteTimerFires, ReadTimerFires, Arrive, PeerDies, Tick
  <1>7. CASE ServerHandshake
    BY <1>1, <1>7 DEF ServerHandshake, AwaitConnect, ConnectRead, AnswerConnect, StartFrame,
                ConnectedWritten, ConnectedNotWritten
  <1> QED
    BY <1>2, <1>3, <1>4, <1>5, <1>6, <1>7 DEF Next, ServerHandshake

-----------------------------------------------------------------------------
(* Frames on the wire.                                                      *)

\* No heart-beat is armed before the answer to CONNECT.
TimersWait ==
  connecting \in {"idle", "write", "read", "readError", "writeFailed",
                  "listening", "accept", "answer", "answering"}
    => readPeriod = 0 /\ writePeriod = 0

\* Only the answer to CONNECT starts the timers.
LEMMA TimersWaitStep ==
  ASSUME TypeOK, TimersWait, [Next]_vars
  PROVE  TimersWait'
  <1> USE DEF TimersWait, CloseFailed, FailStream, CloseWith, TimersCleared,
              Established, readVars, writeVars
  <1>1. CASE \/ Connect \/ WriteFrame \/ WriteChunk \/ FrameWritten
             \/ FrameNotWritten \/ ReadFrame \/ FrameRead \/ UNCHANGED vars
    BY <1>1 DEF Connect, WriteFrame, WriteChunk, BytesWritten, FrameWritten,
                FrameNotWritten, ReadFrame, FrameRead, vars
  <1>2. CASE ReadFails \/ Close \/ HandshakeAgain \/ StreamEnded \/ Refused
    BY <1>2 DEF ReadFails, Close, HandshakeAgain, StreamEnded, Refused
  <1>3. CASE \E h \in PeerHeartBeats, good \in BOOLEAN : Connected(h, good)
    BY <1>3 DEF Connected
  <1>4. CASE \E ok \in BOOLEAN : ConnectBodyRead(ok)
    BY <1>4 DEF ConnectBodyRead
  <1>5. CASE WriteTimerFires \/ ReadTimerFires \/ Arrive \/ PeerDies \/ Tick
    BY <1>5 DEF WriteTimerFires, ReadTimerFires, Arrive, PeerDies, Tick
  <1>6. CASE ServerHandshake
    BY <1>6 DEF ServerHandshake, AwaitConnect, ConnectRead, AnswerConnect, StartFrame,
                ConnectedWritten, ConnectedNotWritten
  <1> QED
    BY <1>1, <1>2, <1>3, <1>4, <1>5, <1>6 DEF Next, ServerHandshake

\* `writing` covers a frame from its start to its last write, and only a
\* connection that is over is left with part of one.
FrameInv ==
  /\ writing <=> outgoing # "none"
  /\ writing => connecting \in {"write", "answering"} \cup Established
  /\ outgoing = "sent" => wire # "part"
  /\ wire = "part" => writing \/ sessionClosed \/ connecting = "writeFailed"
  /\ WireIntact

\* Only writeFrame and its continuations write within a frame.
LEMMA FrameStep ==
  ASSUME TypeOK, ErrorsClose, TimersWait, FrameInv, [Next]_vars
  PROVE  FrameInv'
  <1> USE DEF FrameInv, WireIntact, CloseFailed, FailStream, CloseWith, Established,
              closeVars, frameVars
  <1>1. sessionClosed => sessionClosed'
    BY ClosedStep
  <1>2. CASE Connect \/ WriteFrame
    BY <1>1, <1>2 DEF Connect, WriteFrame, StartFrame
  <1>3. CASE WriteChunk
    BY <1>1, <1>3 DEF WriteChunk
  <1>4. CASE FrameWritten
    BY <1>1, <1>4 DEF FrameWritten
  <1>5. CASE FrameNotWritten
    BY <1>1, <1>5 DEF FrameNotWritten
  <1>6. CASE ReadFrame \/ FrameRead \/ StreamEnded \/ UNCHANGED vars
    BY <1>1, <1>6 DEF ReadFrame, FrameRead, StreamEnded, vars
  <1>7. CASE ReadFails \/ Close \/ HandshakeAgain \/ Refused
    BY <1>1, <1>7 DEF ReadFails, Close, HandshakeAgain, Refused
  <1>8. CASE \E h \in PeerHeartBeats, good \in BOOLEAN : Connected(h, good)
    BY <1>1, <1>8 DEF Connected
  <1>9. CASE \E ok \in BOOLEAN : ConnectBodyRead(ok)
    BY <1>1, <1>9 DEF ConnectBodyRead
  <1>10. CASE WriteTimerFires
    <2>1. connecting # "writeFailed"
      BY <1>10 DEF WriteTimerFires, TimersWait
    <2>2. wire = "part" /\ ~sessionClosed => ~Beats
      BY <2>1 DEF Beats
    <2> QED
      BY <1>10, <2>1, <2>2 DEF WriteTimerFires
  <1>11. CASE ReadTimerFires
    BY <1>1, <1>11 DEF ReadTimerFires
  <1>12. CASE Arrive \/ PeerDies \/ Tick
    BY <1>1, <1>12 DEF Arrive, PeerDies, Tick
  <1>13. CASE ServerHandshake
    BY <1>1, <1>13 DEF ServerHandshake, AwaitConnect, ConnectRead, AnswerConnect, StartFrame,
                 ConnectedWritten, ConnectedNotWritten
  <1> QED
    BY <1>2, <1>3, <1>4, <1>5, <1>6, <1>7, <1>8, <1>9, <1>10, <1>11, <1>12, <1>13
       DEF Next, ServerHandshake

-----------------------------------------------------------------------------
(* The heart-beat.                                                          *)

\* Which end it is does not change.
LEMMA RoleStep ==
  ASSUME [Next]_vars
  PROVE  Server' <=> Server
  <1> USE DEF Server, ServerStates, Established
  <1>1. CASE \/ Connect \/ WriteFrame \/ WriteChunk \/ FrameWritten
             \/ FrameNotWritten \/ ReadFrame \/ FrameRead \/ UNCHANGED vars
    BY <1>1 DEF Connect, WriteFrame, WriteChunk, FrameWritten, FrameNotWritten,
                ReadFrame, FrameRead, vars
  <1>2. CASE ReadFails \/ Close \/ HandshakeAgain \/ StreamEnded \/ Refused
    BY <1>2 DEF ReadFails, Close, HandshakeAgain, StreamEnded, Refused
  <1>3. CASE \E h \in PeerHeartBeats, good \in BOOLEAN : Connected(h, good)
    BY <1>3 DEF Connected
  <1>4. CASE \E ok \in BOOLEAN : ConnectBodyRead(ok)
    BY <1>4 DEF ConnectBodyRead
  <1>5. CASE WriteTimerFires \/ ReadTimerFires \/ Arrive \/ PeerDies \/ Tick
    BY <1>5 DEF WriteTimerFires, ReadTimerFires, Arrive, PeerDies, Tick
  <1>6. CASE ServerHandshake
    BY <1>6 DEF ServerHandshake, AwaitConnect, ConnectRead, AnswerConnect, StartFrame,
                ConnectedWritten, ConnectedNotWritten
  <1> QED
    BY <1>1, <1>2, <1>3, <1>4, <1>5, <1>6 DEF Next, ServerHandshake

\* Only a server takes the steps of its handshake.
LEMMA ServerOnly ==
  ServerHandshake => Server
  BY DEF ServerHandshake, AwaitConnect, ConnectRead, AnswerConnect, ConnectedWritten,
         ConnectedNotWritten, Server, ServerStates

\* A timer that runs in a client has the period that was agreed.
Periods ==
  ~Server =>
    /\ readPeriod > 0 => readPeriod = PeerGap /\ PeerSends
    /\ writePeriod > 0 => writePeriod = OurGap

\* close() leaves no timer that was not there, and touches no clock but to
\* clear it.
LEMMA CloseTimers ==
  ASSUME TypeOK, NEW error, CloseWith(error)
  PROVE  \/ sessionClosed /\ sessionClosed' /\ UNCHANGED <<readVars, writeVars>>
         \/ sessionClosed' /\ readPeriod' = 0 /\ writePeriod' = 0
  BY DEF CloseWith, TimersCleared

\* The actions that move neither a timer nor a clock, or close.
LEMMA QuietTimers ==
  ASSUME TypeOK,
         \/ Connect \/ WriteFrame \/ FrameNotWritten \/ FrameRead
         \/ ReadFails \/ Close \/ HandshakeAgain \/ StreamEnded \/ Refused
         \/ \E ok \in BOOLEAN : ConnectBodyRead(ok)
         \/ UNCHANGED vars
  PROVE  /\ agreed' = agreed
         /\ \/ /\ sessionClosed' = sessionClosed
               /\ UNCHANGED <<readVars, writeVars>>
            \/ sessionClosed' /\ readPeriod' = 0 /\ writePeriod' = 0
  <1>1. CASE \/ FrameNotWritten \/ ReadFails \/ Close \/ HandshakeAgain \/ Refused
             \/ \E ok \in BOOLEAN : ConnectBodyRead(ok)
    <2>1. \/ \E error \in Errors \cup {None} : Closes(error)
          \/ UNCHANGED <<closeVars, readVars, writeVars, agreed>>
      BY <1>1, ClosingSteps
    <2>2. CASE UNCHANGED <<closeVars, readVars, writeVars, agreed>>
      BY <2>2 DEF closeVars
    <2>3. ASSUME NEW error, Closes(error)
          PROVE  /\ agreed' = agreed
                 /\ \/ /\ sessionClosed' = sessionClosed
                       /\ UNCHANGED <<readVars, writeVars>>
                    \/ sessionClosed' /\ readPeriod' = 0 /\ writePeriod' = 0
      <3>1. agreed' = agreed /\ CloseWith(error)
        BY <2>3 DEF Closes
      <3>2. sessionClosed \in BOOLEAN
        BY DEF TypeOK, FlagsTypeOK
      <3> QED
        BY <3>1, <3>2, CloseTimers DEF CloseWith
    <2> QED
      BY <2>1, <2>2, <2>3
  <1>2. CASE Connect \/ WriteFrame \/ FrameRead \/ StreamEnded \/ UNCHANGED vars
    BY <1>2 DEF Connect, WriteFrame, FrameRead, StreamEnded, vars, closeVars,
                peerVars
  <1> QED
    BY <1>1, <1>2

\* What a CONNECTED frame does to the timers.
LEMMA ConnectedTimers ==
  ASSUME TypeOK, NEW h \in PeerHeartBeats, NEW good \in BOOLEAN,
         Connected(h, good)
  PROVE  \/ sessionClosed' /\ readPeriod' = 0 /\ writePeriod' = 0
                           /\ agreed' = agreed
         \/ sessionClosed' /\ UNCHANGED <<readVars, writeVars, agreed>>
         \/ StartHeartBeat(h)
  <1>1. CASE \E error \in Errors \cup {None} : Closes(error)
    BY <1>1, CloseTimers DEF Closes
  <1> QED
    BY <1>1, ConnectedSteps

\* And the read timer, when it does not close.
LEMMA ReadTimerTimers ==
  ASSUME TypeOK, ReadTimerFires
  PROVE  \/ /\ sessionClosed' /\ readPeriod' = 0 /\ writePeriod' = 0
            /\ agreed' = agreed
         \/ /\ readDue = 0 /\ readDue' = readPeriod
            /\ UNCHANGED <<readPeriod, silence, writeVars, sessionClosed, agreed>>
            /\ \/ readSeen /\ readSeen' = FALSE
               \/ sessionClosed
  <1>1. agreed' = agreed /\ readDue = 0
    BY DEF ReadTimerFires, peerVars
  <1>2. CASE ~readSeen /\ ~sessionClosed
    <2>1. CloseWith(FirstError("timeout"))
      BY <1>2 DEF ReadTimerFires, FailStream
    <2> QED
      BY <1>1, <1>2, <2>1, CloseTimers
  <1>3. CASE readSeen
    BY <1>1, <1>3 DEF ReadTimerFires, Looked, closeVars
  <1>4. CASE sessionClosed
    BY <1>1, <1>4 DEF ReadTimerFires, closeVars
  <1> QED
    BY <1>2, <1>3, <1>4

\* The timers keep the periods that were agreed.
LEMMA PeriodsStep ==
  ASSUME TypeOK, Periods, [Next]_vars
  PROVE  Periods'
  <1> USE DEF Periods, PeerGap, PeerSends, OurGap, readVars, writeVars
  <1> SUFFICES ASSUME ~Server, ~Server' PROVE Periods'
    BY RoleStep
  <1>1. CASE \/ Connect \/ WriteFrame \/ FrameNotWritten \/ FrameRead
             \/ ReadFails \/ Close \/ HandshakeAgain \/ StreamEnded \/ Refused
             \/ \E ok \in BOOLEAN : ConnectBodyRead(ok)
             \/ UNCHANGED vars
    BY <1>1, QuietTimers
  <1>2. ASSUME NEW h \in PeerHeartBeats, NEW good \in BOOLEAN,
               Connected(h, good)
        PROVE  Periods'
    <2>1. CASE StartHeartBeat(h)
      <3>1. /\ readPeriod' = ReadInterval(h) /\ writePeriod' = WriteInterval(h)
            /\ agreed' = h
        BY <2>1 DEF StartHeartBeat, Monitor
      <3> QED
        BY <3>1 DEF ReadInterval, WriteInterval
    <2> QED
      BY <1>2, <2>1, ConnectedTimers
  <1>3. CASE ReadTimerFires
    <2>1. \/ readPeriod' = 0 /\ writePeriod' = 0
          \/ UNCHANGED <<readPeriod, writePeriod, agreed>>
      BY <1>3, ReadTimerTimers
    <2> QED
      BY <2>1
  <1>4. CASE WriteChunk \/ FrameWritten \/ WriteTimerFires
    BY <1>4 DEF WriteChunk, BytesWritten, FrameWritten, WriteTimerFires, peerVars
  <1>5. CASE ReadFrame \/ Arrive \/ PeerDies \/ Tick
    BY <1>5 DEF ReadFrame, Arrive, PeerDies, Tick, peerVars
  <1> QED
    BY <1>1, <1>2, <1>3, <1>4, <1>5, ServerOnly DEF Next, ServerHandshake

\* How long the connection has been idle, by what the write timer knows.
WriteClock ==
  (writePeriod > 0 /\ ~sessionClosed /\ ~writing) =>
    /\ writeSeen => idle <= writePeriod - writeDue
    /\ ~writeSeen => idle <= 2 * writePeriod - writeDue

\* The write timer bounds the idle time, phase by phase.
LEMMA WriteClockStep ==
  ASSUME TypeOK, TimersWait, FrameInv, WriteClock, [Next]_vars
  PROVE  WriteClock'
  <1> USE DEF WriteClock, writeVars
  <1>0. /\ writePeriod \in Nat /\ writeDue \in 0..writePeriod
        /\ idle \in Nat
    BY DEF TypeOK, TimersTypeOK
  <1>1. CASE \/ FrameRead \/ ReadFails \/ Close \/ HandshakeAgain \/ StreamEnded \/ Refused
             \/ \E ok \in BOOLEAN : ConnectBodyRead(ok)
             \/ UNCHANGED vars
    <2>1. writing' = writing
      BY <1>1 DEF FrameRead, ReadFails, Close, HandshakeAgain, StreamEnded, Refused,
                  ConnectBodyRead, vars, frameVars
    <2> QED
      BY <1>1, <2>1, QuietTimers
  <1>2. CASE Connect \/ WriteFrame
    BY <1>2, QuietTimers DEF Connect, WriteFrame, StartFrame, frameVars
  <1>3. CASE FrameNotWritten
    <2>1. CASE connecting = "write"
      <3>1. writePeriod = 0
        BY <2>1 DEF TimersWait
      <3> QED
        BY <1>3, <3>1, QuietTimers
    <2>2. CASE connecting # "write"
      BY <1>3, <2>2 DEF FrameNotWritten, CloseWith
    <2> QED
      BY <2>1, <2>2
  <1>4. ASSUME NEW h \in PeerHeartBeats, NEW good \in BOOLEAN,
               Connected(h, good)
        PROVE  WriteClock'
    <2>1. CASE StartHeartBeat(h)
      <3>1. h \in HeartBeat
        BY <1>4, ConnectedSteps
      <3>2. writePeriod' \in Nat
        BY <2>1, <3>1, HeartBeatType DEF StartHeartBeat, TimersTypeOK
      <3> QED
        BY <2>1, <3>2 DEF StartHeartBeat, Monitor
    <2> QED
      BY <1>4, <2>1, ConnectedTimers
  <1>5. CASE WriteChunk
    <2>1. writing /\ writing' = writing
      BY <1>5 DEF WriteChunk, FrameInv
    <2> QED
      BY <2>1
  <1>6. CASE FrameWritten
    <2>1. idle' = 0 /\ UNCHANGED <<writePeriod, writeDue, writeSeen>>
      BY <1>6 DEF FrameWritten
    <2> QED
      BY <1>0, <2>1
  <1>7. CASE WriteTimerFires
    <2>1. /\ writePeriod' = writePeriod /\ writeDue = 0
          /\ writeDue' = writePeriod /\ writeSeen' = FALSE
          /\ UNCHANGED <<sessionClosed, writing>>
          /\ IF Beats THEN idle' = 0 ELSE idle' = idle
      BY <1>7 DEF WriteTimerFires, Looked, closeVars
    <2>2. CASE Beats
      BY <1>0, <2>1, <2>2
    <2>3. CASE ~Beats
      BY <1>0, <2>1, <2>3 DEF Beats
    <2> QED
      BY <2>2, <2>3
  <1>8. CASE ReadTimerFires
    <2>1. writing' = writing
      BY <1>8 DEF ReadTimerFires, frameVars
    <2>2. \/ sessionClosed'
          \/ UNCHANGED <<writeVars, sessionClosed>>
      BY <1>8, ReadTimerTimers
    <2> QED
      BY <2>1, <2>2
  <1>9. CASE ReadFrame \/ Arrive \/ PeerDies
    BY <1>9 DEF ReadFrame, Arrive, PeerDies, closeVars, frameVars
  <1>10. CASE Tick
    <2>1. /\ UNCHANGED <<writePeriod, writeSeen, sessionClosed, writing>>
          /\ writePeriod > 0 => writeDue > 0 /\ writeDue' = writeDue - 1
          /\ (writePeriod > 0 /\ ~sessionClosed /\ ~writing) => idle' = idle + 1
      BY <1>10 DEF Tick, closeVars, frameVars
    <2> QED
      BY <1>0, <2>1
  <1>11. CASE ServerHandshake
    <2>1. CASE \E error \in Errors \cup {None} : Closes(error)
      BY <2>1 DEF Closes, CloseWith
    <2>2. CASE UNCHANGED <<closeVars, readVars, writeVars>>
      <3>1. writing' = writing \/ writing' \/ connecting = "answering"
        BY <1>11 DEF ServerHandshake, AwaitConnect, ConnectRead, AnswerConnect,
                     ConnectedWritten, ConnectedNotWritten, StartFrame, frameVars
      <3>2. connecting = "answering" => writePeriod = 0
        BY DEF TimersWait
      <3> QED
        BY <2>2, <3>1, <3>2 DEF closeVars
    <2>3. CASE Monitor(Answer(agreed)) /\ UNCHANGED <<closeVars, agreed>>
      <3>1. agreed' \in HeartBeat /\ Answer(agreed) \in HeartBeat
        BY <2>3, AnswerType DEF TypeOK, TimersTypeOK
      <3>2. writePeriod' \in Nat
        BY <2>3, <3>1, HeartBeatType DEF TimersTypeOK
      <3> QED
        BY <2>3, <3>2 DEF Monitor
    <2> QED
      BY <1>11, <2>1, <2>2, <2>3, ServerSteps
  <1> QED
    BY <1>1, <1>2, <1>3, <1>4, <1>5, <1>6, <1>7, <1>8, <1>9, <1>10, <1>11
       DEF Next, ServerHandshake

\* A stream that counts arrivals has none uncounted.
Counted == CountsArrivals => ~uncounted

\* Over a stream that counts arrivals nothing waits uncounted.
LEMMA CountedStep ==
  ASSUME TypeOK, Counted, [Next]_vars
  PROVE  Counted'
  <1> USE DEF Counted, inputVars
  <1>1. CASE \/ Connect \/ WriteFrame \/ WriteChunk \/ FrameWritten
             \/ FrameNotWritten \/ ReadFrame \/ FrameRead \/ UNCHANGED vars
    BY <1>1 DEF Connect, WriteFrame, WriteChunk, FrameWritten, FrameNotWritten,
                ReadFrame, FrameRead, vars
  <1>2. CASE ReadFails \/ Close \/ HandshakeAgain \/ StreamEnded \/ Refused
    BY <1>2 DEF ReadFails, Close, HandshakeAgain, StreamEnded, Refused
  <1>3. CASE \E h \in PeerHeartBeats, good \in BOOLEAN : Connected(h, good)
    BY <1>3 DEF Connected
  <1>4. CASE \E ok \in BOOLEAN : ConnectBodyRead(ok)
    BY <1>4 DEF ConnectBodyRead
  <1>5. CASE WriteTimerFires \/ ReadTimerFires \/ Arrive \/ PeerDies \/ Tick
    BY <1>5 DEF WriteTimerFires, ReadTimerFires, Arrive, PeerDies, Tick
  <1>6. CASE ServerHandshake
    BY <1>6 DEF ServerHandshake, AwaitConnect, ConnectRead, AnswerConnect, StartFrame,
                ConnectedWritten, ConnectedNotWritten
  <1> QED
    BY <1>1, <1>2, <1>3, <1>4, <1>5, <1>6 DEF Next, ServerHandshake

\* How long the peer has been silent, by what the read timer knows, over a
\* stream that counts bytes as they arrive.
ReadClock ==
  (~Server /\ CountsArrivals /\ readPeriod > 0 /\ ~sessionClosed) =>
    /\ peerAlive => silence < readPeriod
    /\ readSeen => silence <= readPeriod - readDue
    /\ ~readSeen => /\ readPeriod - readDue <= silence
                    /\ silence <= 2 * readPeriod - readDue

\* The read timer bounds the silence, phase by phase.
LEMMA ReadClockStep ==
  ASSUME TypeOK, Periods, Counted, ReadClock, [Next]_vars
  PROVE  ReadClock'
  <1> USE DEF ReadClock, readVars
  <1> SUFFICES ASSUME ~Server, ~Server' PROVE ReadClock'
    BY RoleStep
  <1>0. /\ readPeriod \in Nat /\ readDue \in 0..readPeriod
        /\ silence \in Nat
    BY DEF TypeOK, TimersTypeOK
  <1>1. CASE \/ Connect \/ WriteFrame \/ FrameNotWritten \/ FrameRead
             \/ ReadFails \/ Close \/ HandshakeAgain \/ StreamEnded \/ Refused
             \/ \E ok \in BOOLEAN : ConnectBodyRead(ok)
             \/ UNCHANGED vars
    <2>1. peerAlive' = peerAlive
      BY <1>1 DEF Connect, WriteFrame, FrameNotWritten, FrameRead, ReadFails,
                  Close, HandshakeAgain, StreamEnded, Refused, ConnectBodyRead, vars, peerVars
    <2> QED
      BY <1>1, <2>1, QuietTimers
  <1>2. ASSUME NEW h \in PeerHeartBeats, NEW good \in BOOLEAN,
               Connected(h, good)
        PROVE  ReadClock'
    <2>1. CASE StartHeartBeat(h)
      <3>1. h \in HeartBeat
        BY <1>2, ConnectedSteps
      <3>2. readPeriod' \in Nat
        BY <2>1, <3>1, HeartBeatType DEF StartHeartBeat, TimersTypeOK
      <3>3. readDue' = readPeriod' /\ silence' = 0
        BY <2>1 DEF StartHeartBeat, Monitor
      <3>4. ~readSeen'
        BY <2>1 DEF StartHeartBeat, Monitor
      <3> HIDE DEF readVars
      <3> SUFFICES ASSUME readPeriod' > 0
                   PROVE  /\ peerAlive' => silence' < readPeriod'
                          /\ readSeen' => silence' <= readPeriod' - readDue'
                          /\ ~readSeen' =>
                               /\ readPeriod' - readDue' <= silence'
                               /\ silence' <= 2 * readPeriod' - readDue'
        OBVIOUS
      <3>5. silence' < readPeriod'
        BY <3>2, <3>3
      <3>6. /\ readPeriod' - readDue' <= silence'
            /\ silence' <= 2 * readPeriod' - readDue'
        <4>1. \A p \in Nat : p - p <= 0 /\ 0 <= 2 * p - p
          OBVIOUS
        <4> QED
          BY <3>2, <3>3, <4>1, Zenon
      <3> QED
        BY <3>4, <3>5, <3>6, Zenon
    <2>2. CASE \/ sessionClosed' /\ readPeriod' = 0 /\ writePeriod' = 0
                                 /\ agreed' = agreed
               \/ sessionClosed' /\ UNCHANGED <<readVars, writeVars, agreed>>
      BY <2>2
    <2> QED
      BY <1>2, <2>1, <2>2, ConnectedTimers
  <1>3. CASE ReadTimerFires
    <2>1. peerAlive' = peerAlive
      BY <1>3 DEF ReadTimerFires, peerVars
    <2>2. CASE sessionClosed'
      BY <2>2
    <2>3. CASE ~sessionClosed'
      <3>1. /\ readDue = 0 /\ readDue' = readPeriod
            /\ UNCHANGED <<readPeriod, silence, sessionClosed>>
        BY <1>3, <2>3, ReadTimerTimers
      <3>2. readSeen /\ ~readSeen'
        BY <1>3, <2>3, <3>1, ReadTimerTimers
      <3> QED
        BY <1>0, <2>1, <3>1, <3>2
    <2> QED
      BY <2>2, <2>3
  <1>4. CASE WriteChunk \/ FrameWritten \/ WriteTimerFires
    BY <1>4 DEF WriteChunk, FrameWritten, WriteTimerFires, closeVars, peerVars
  <1>5. CASE ReadFrame
    <2>1. CASE CountsArrivals
      <3>1. readSeen' = readSeen
        BY <1>5, <2>1 DEF ReadFrame, Counted, TypeOK, FlagsTypeOK
      <3> QED
        BY <1>5, <3>1 DEF ReadFrame, closeVars, peerVars
    <2>2. CASE ~CountsArrivals
      BY <2>2
    <2> QED
      BY <2>1, <2>2
  <1>6. CASE Arrive
    <2>1. /\ silence' = 0
          /\ UNCHANGED <<readPeriod, readDue, sessionClosed, peerAlive>>
      BY <1>6 DEF Arrive, closeVars, peerVars
    <2>2. CountsArrivals /\ readPeriod > 0 => readSeen'
      BY <1>6 DEF Arrive
    <2> QED
      BY <1>0, <2>1, <2>2
  <1>7. CASE PeerDies
    BY <1>7 DEF PeerDies, closeVars
  <1>8. CASE Tick
    <2>1. /\ UNCHANGED <<readPeriod, readSeen, sessionClosed, peerAlive>>
          /\ readPeriod > 0 => readDue > 0 /\ readDue' = readDue - 1
          /\ readPeriod > 0 /\ ~sessionClosed => silence' = silence + 1
          /\ (peerAlive /\ PeerSends /\ readPeriod > 0 /\ ~sessionClosed)
               => silence + 1 < PeerGap
      BY <1>8 DEF Tick, closeVars, peerVars
    <2>2. readPeriod > 0 => readPeriod = PeerGap /\ PeerSends
      BY DEF Periods
    <2> HIDE DEF readVars
    <2> QED
      BY <1>0, <2>1, <2>2
  <1> QED
    BY <1>1, <1>2, <1>3, <1>4, <1>5, <1>6, <1>7, <1>8, ServerOnly
       DEF Next, ServerHandshake

-----------------------------------------------------------------------------
(* The theorems.                                                            *)

\* The inductive invariant.
TransportInv ==
  /\ TypeOK
  /\ ErrorsClose
  /\ FailedConnectCloses
  /\ TimersWait
  /\ FrameInv
  /\ Periods
  /\ WriteClock
  /\ Counted
  /\ ReadClock

\* Nothing is wrong to begin with.
LEMMA InitInv ==
  Init => TransportInv
  <1> SUFFICES ASSUME Init PROVE TransportInv
    OBVIOUS
  <1>1. TypeOK
    BY InitType
  <1>2. ErrorsClose /\ FailedConnectCloses /\ TimersWait
    BY DEF Init, ErrorsClose, FailedConnectCloses, TimersWait
  <1>3. FrameInv
    BY DEF Init, FrameInv, WireIntact, Established
  <1>4. Periods /\ WriteClock /\ ReadClock
    BY DEF Init, Periods, WriteClock, ReadClock
  <1>5. Counted
    BY DEF Init, Counted
  <1> QED
    BY <1>1, <1>2, <1>3, <1>4, <1>5 DEF TransportInv

\* Every step keeps TransportInv.
LEMMA NextInv ==
  TransportInv /\ [Next]_vars => TransportInv'
  BY NextType, ClosedStep, FailedStep, TimersWaitStep, FrameStep, PeriodsStep,
     WriteClockStep, CountedStep, ReadClockStep DEF TransportInv

\* Everything the properties below rest on holds in every reachable state.
THEOREM InvCorrect == Spec => []TransportInv
  BY InitInv, NextInv, PTL DEF Spec

\* A heart-beat never lands inside a frame (WireIntact): monitorWriteRate looks
\* at `writing`, which writeFrame keeps set from the first write to the last.
THEOREM WireIntactCorrect == Spec => []WireIntact
  <1>1. TransportInv => WireIntact
    BY DEF TransportInv, FrameInv
  <1> QED
    BY <1>1, InvCorrect, PTL

\* A connect() that fails after its write leaves a closed transport
\* (FailedConnectCloses).
THEOREM FailedConnectCorrect == Spec => []FailedConnectCloses
  <1>1. TransportInv => FailedConnectCloses
    BY DEF TransportInv
  <1> QED
    BY <1>1, InvCorrect, PTL

\* Between frames a client's connection is idle for two write intervals at most
\* (HeartBeatsSent), whatever rates were agreed.
THEOREM HeartBeatsCorrect == Spec => []HeartBeatsSent
  <1>1. TransportInv => HeartBeatsSent
    <2> SUFFICES ASSUME TransportInv, ~Server, writePeriod > 0, ~sessionClosed,
                        ~writing
                 PROVE  idle <= 2 * OurGap
      BY DEF HeartBeatsSent
    <2>1. /\ writePeriod \in Nat /\ writeDue \in 0..writePeriod
          /\ idle \in Nat
      BY DEF TransportInv, TypeOK, TimersTypeOK
    <2>2. writePeriod = OurGap
      BY DEF TransportInv, Periods
    <2>3. idle <= 2 * writePeriod
      BY <2>1 DEF TransportInv, WriteClock
    <2> QED
      BY <2>2, <2>3
  <1> QED
    BY <1>1, InvCorrect, PTL

\* Over a stream that counts bytes as they arrive, a dead peer is noticed
\* by a client within two read intervals (DeadPeerNoticed).
THEOREM DeadPeerCorrect ==
  ASSUME CountsArrivals
  PROVE  Spec => []DeadPeerNoticed
  <1>1. TransportInv => DeadPeerNoticed
    <2> SUFFICES ASSUME TransportInv, ~Server, readPeriod > 0, ~sessionClosed
                 PROVE  silence <= 2 * PeerGap
      BY DEF DeadPeerNoticed
    <2>1. /\ readPeriod \in Nat /\ readDue \in 0..readPeriod
          /\ silence \in Nat
      BY DEF TransportInv, TypeOK, TimersTypeOK
    <2>2. readPeriod = PeerGap
      BY DEF TransportInv, Periods
    <2>3. silence <= 2 * readPeriod
      BY <2>1 DEF TransportInv, ReadClock
    <2> QED
      BY <2>2, <2>3
  <1> QED
    BY <1>1, InvCorrect, PTL

\* Over such a stream a client never times out a peer that keeps its rate
\* (LivePeerKept): the read timer fires unseen only after a whole interval of
\* silence.
THEOREM LivePeerCorrect ==
  ASSUME CountsArrivals
  PROVE  Spec => LivePeerKept
  <1>1. TransportInv /\ [Next]_vars =>
          [TimedOut /\ ~Server => ~peerAlive]_vars
    <2> SUFFICES ASSUME TransportInv, [Next]_vars, ~Server, ~sessionClosed,
                        sessionClosed', streamError' = "timeout"
                 PROVE  ~peerAlive
      BY DEF TimedOut
    <2>1. streamError = None
      BY DEF TransportInv, ErrorsClose
    <2>2. None # "timeout"
      BY TransportAssumption DEF Errors
    <2>3. ReadTimerFires
      <3> USE <2>1, <2>2 DEF CloseFailed, FailStream, FirstError, CloseWith,
                             closeVars
      <3>1. CASE \/ Connect \/ WriteFrame \/ WriteChunk \/ FrameWritten
                 \/ FrameNotWritten \/ ReadFrame \/ FrameRead \/ UNCHANGED vars
        BY <3>1 DEF Connect, WriteFrame, WriteChunk, FrameWritten,
                    FrameNotWritten, ReadFrame, FrameRead, vars
      <3>2. CASE ReadFails \/ Close \/ HandshakeAgain \/ StreamEnded \/ Refused
        BY <3>2 DEF ReadFails, Close, HandshakeAgain, StreamEnded, Refused
      <3>3. CASE \E h \in PeerHeartBeats, good \in BOOLEAN : Connected(h, good)
        BY <3>3 DEF Connected
      <3>4. CASE \E ok \in BOOLEAN : ConnectBodyRead(ok)
        BY <3>4 DEF ConnectBodyRead
      <3>5. CASE WriteTimerFires \/ Arrive \/ PeerDies \/ Tick
        BY <3>5 DEF WriteTimerFires, Arrive, PeerDies, Tick
      <3> QED
        BY <3>1, <3>2, <3>3, <3>4, <3>5, ServerOnly DEF Next, ServerHandshake
    <2>4. readPeriod > 0 /\ readDue = 0 /\ ~readSeen
      BY <2>3 DEF ReadTimerFires, closeVars
    <2>5. readPeriod \in Nat /\ silence \in Nat
      BY DEF TransportInv, TypeOK, TimersTypeOK
    <2> QED
      BY <2>4, <2>5 DEF TransportInv, ReadClock
  <1> QED
    BY <1>1, InvCorrect, PTL DEF Spec, LivePeerKept
=============================================================================
