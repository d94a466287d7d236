----------------------------- MODULE Transport -----------------------------
(***************************************************************************)
(* The transport of src/transport.ts (class StandardTransport) in a client, *)
(* with the handshake of src/client/connect.ts that starts it, or in a      *)
(* server, which is not in src/; the session that then reads and writes     *)
(* through it, and the peer.                                                *)
(*                                                                         *)
(* The subject is the heart-beat, so time is explicit: Tick is one unit of  *)
(* it, and an interval timer is the time left until it is due.  A timer is  *)
(* served on time, before or after whatever else happens at that instant.   *)
(* bytesRead and bytesWritten only matter by whether they have changed      *)
(* since the timer last looked at them, which readSeen and writeSeen say.   *)
(*                                                                         *)
(* An action is one run-to-completion step, as in Session.  A variant that  *)
(* precedes a definition is faulty and unused, as there.                    *)
(***************************************************************************)
EXTENDS Integers

CONSTANTS
  DesiredReadRate, DesiredWriteRate, DelayTolerance,  \* limits
  PeerHeartBeats,   \* heart-beat headers the peer may answer with
  CountsArrivals,   \* bytesRead counts bytes as they arrive
  None              \* no error

\* The heart-beat header of a CONNECT or a CONNECTED frame: the rates the peer
\* offers to write and wishes to read at.  An absent one has the rates 0,0.
HeartBeat == [valid : BOOLEAN, write : Nat, read : Nat]
NoHeartBeat == [valid |-> TRUE, write |-> 0, read |-> 0]

Errors == {"read", "timeout", "malformed", "repeated", "writeEnd"}

ASSUME TransportAssumption ==
  /\ DesiredReadRate \in Nat /\ DesiredWriteRate \in Nat
  /\ DelayTolerance \in Nat
  /\ None \notin Errors
  /\ PeerHeartBeats \subseteq HeartBeat
  /\ CountsArrivals \in BOOLEAN

Larger(a, b) == IF a >= b THEN a ELSE b

VARIABLES
  sessionStarted, sessionClosed, streamError, writing,
  readPeriod,   \* interval of readRateTimer, 0 when there is none
  readDue,      \* time until it fires
  readSeen,     \* bytesRead differs from lastBytesRead
  writePeriod, writeDue, writeSeen,  \* the same of writeRateTimer
  connecting,   \* how far connect(), or the server's handshake, has come
  reading,      \* somebody awaits the reader: a readFrame call or a body
  outgoing,     \* the frame being written: "none", "open", or "sent" to its end
  stream,       \* "open", "ending" in writeEnd(), or "closed"
  wire,         \* what the peer has received: "whole" frames, "part" of one
                \* after them, or a "corrupt" one
  uncounted,    \* bytes have arrived that bytesRead does not count yet
  peerAlive,
  agreed,       \* the peer's heart-beat header
  silence,      \* time since the peer's last bytes, while that is monitored
  idle          \* time since our last bytes, while that is monitored

peerVars == <<peerAlive, agreed>>
readVars == <<readPeriod, readDue, readSeen, silence>>
writeVars == <<writePeriod, writeDue, writeSeen, idle>>
closeVars == <<sessionClosed, streamError, stream>>
frameVars == <<writing, outgoing, wire>>
inputVars == <<reading, uncounted>>
vars == <<sessionStarted, connecting, peerVars, readVars, writeVars,
          closeVars, frameVars, inputVars>>

ServerStates == {"listening", "accept", "answer", "answering", "serving",
                 "rejected"}

ConnectStates == ServerStates \cup
                 {"idle", "write", "read", "readError", "readBody",
                  "connected", "writeFailed", "failed"}

Server == connecting \in ServerStates

\* The handshake is over and the session reads and writes frames.
Established == {"connected", "serving"}

FlagsTypeOK ==
  /\ sessionStarted \in BOOLEAN
  /\ sessionClosed \in BOOLEAN
  /\ writing \in BOOLEAN
  /\ reading \in BOOLEAN
  /\ uncounted \in BOOLEAN
  /\ peerAlive \in BOOLEAN
  /\ readSeen \in BOOLEAN
  /\ writeSeen \in BOOLEAN

TimersTypeOK ==
  /\ readPeriod \in Nat /\ readDue \in 0..readPeriod
  /\ writePeriod \in Nat /\ writeDue \in 0..writePeriod
  /\ silence \in Nat
  /\ idle \in Nat
  /\ agreed \in HeartBeat

StatesTypeOK ==
  /\ streamError \in Errors \cup {None}
  /\ connecting \in ConnectStates
  /\ outgoing \in {"none", "open", "sent"}
  /\ stream \in {"open", "ending", "closed"}
  /\ wire \in {"whole", "part", "corrupt"}

TypeOK == FlagsTypeOK /\ TimersTypeOK /\ StatesTypeOK

Init ==
  /\ sessionStarted = FALSE /\ sessionClosed = FALSE /\ streamError = None
  /\ readPeriod = 0 /\ readDue = 0 /\ readSeen = FALSE /\ silence = 0
  /\ writePeriod = 0 /\ writeDue = 0 /\ writeSeen = FALSE /\ idle = 0
  /\ writing = FALSE /\ outgoing = "none" /\ wire = "whole"
  /\ connecting \in {"idle", "listening"} /\ reading = FALSE /\ uncounted = FALSE
  /\ stream = "open" /\ peerAlive = TRUE /\ agreed = NoHeartBeat

-----------------------------------------------------------------------------
(* Methods that other methods call.                                         *)

\* close(), once streamError is `error`: it waits for writeEnd() unless the
\* stream has failed.
TimersHalfCleared ==
  /\ readPeriod' = 0 /\ readSeen' = FALSE /\ silence' = 0
  /\ writePeriod' = 0 /\ writeSeen' = FALSE /\ idle' = 0
  /\ UNCHANGED <<readDue, writeDue>>

TimersCleared ==
  /\ readPeriod' = 0 /\ readDue' = 0 /\ readSeen' = FALSE /\ silence' = 0
  /\ writePeriod' = 0 /\ writeDue' = 0 /\ writeSeen' = FALSE /\ idle' = 0

CloseWith(error) ==
  /\ streamError' = error
  /\ sessionClosed' = TRUE
  /\ IF sessionClosed
       THEN UNCHANGED <<stream, readVars, writeVars>>
       ELSE /\ stream' = IF error = None THEN "ending" ELSE "closed"
            /\ TimersCleared

\* failStream: the first error stays.
LatestError(error) == error

FirstError(error) == IF streamError = None THEN error ELSE streamError

FailStream(error) == CloseWith(FirstError(error))

\* startHeartBeat: the rates agreed from the peer's header, and the intervals
\* of the timers that watch them.
AgreedRate(desired, offered) ==
  IF desired = 0 \/ offered = 0 THEN 0 ELSE Larger(desired, offered)

ReadIntervalAsDesired(h) == DesiredReadRate

ReadInterval(h) ==
  LET rate == AgreedRate(DesiredReadRate, h.write)
  IN IF rate = 0 THEN 0 ELSE rate + DelayTolerance

WriteInterval(h) == AgreedRate(DesiredWriteRate, h.read)

Monitor(h) ==
  /\ readPeriod' = ReadInterval(h) /\ readDue' = readPeriod'
  /\ writePeriod' = WriteInterval(h) /\ writeDue' = writePeriod'
  /\ readSeen' = FALSE /\ writeSeen' = FALSE
  /\ silence' = 0 /\ idle' = 0

StartHeartBeat(h) == Monitor(h) /\ agreed' = h

-----------------------------------------------------------------------------
(* Reading and writing frames.                                              *)

\* writeFrame(), of connect() and of the session: it starts a frame.
StartFrame ==
  /\ ~sessionClosed
  /\ writing' = TRUE
  /\ outgoing' = "open"
  /\ UNCHANGED wire

Connect ==
  /\ connecting = "idle"
  /\ \/ StartFrame /\ connecting' = "write"
     \/ sessionClosed /\ connecting' = "writeFailed" /\ UNCHANGED frameVars
  /\ UNCHANGED <<sessionStarted, peerVars, readVars, writeVars, closeVars,
                 inputVars>>

\* The session never has two frames in flight (OneWriter of Session).
WriteFrame ==
  /\ connecting \in Established
  /\ outgoing = "none"
  /\ StartFrame
  /\ UNCHANGED <<sessionStarted, connecting, peerVars, readVars, writeVars,
                 closeVars, inputVars>>

BytesWritten ==
  /\ idle' = 0
  /\ writeSeen' = (writePeriod > 0)
  /\ UNCHANGED <<writePeriod, writeDue>>

\* stream.write of a part of the frame, or of all the rest of it.
WriteChunk ==
  /\ outgoing = "open"
  /\ ~sessionClosed
  /\ \/ /\ outgoing' = "open"
        /\ wire' = IF wire = "corrupt" THEN wire ELSE "part"
     \/ /\ outgoing' = "sent"
        /\ wire' = IF wire = "corrupt" THEN wire ELSE "whole"
  /\ BytesWritten
  /\ UNCHANGED <<sessionStarted, connecting, peerVars, writing, readVars,
                 closeVars, inputVars>>

\* The last write of the frame has been flushed.  connect() goes on to read
\* the answer, which a closed transport refuses.
FrameWritten ==
  /\ outgoing = "sent"
  /\ outgoing' = "none"
  /\ writing' = FALSE
  /\ idle' = 0
  /\ \/ /\ connecting = "write" /\ ~sessionClosed
        /\ connecting' = "read" /\ reading' = TRUE
     \/ /\ connecting = "write" /\ sessionClosed
        /\ connecting' = "failed" /\ UNCHANGED reading
     \/ /\ connecting \in Established
        /\ UNCHANGED <<connecting, reading>>
  /\ UNCHANGED <<sessionStarted, peerVars, wire, uncounted, readVars,
                 writePeriod, writeDue, writeSeen, closeVars>>

\* writeFrame returns an error.  The session closes the transport at once;
\* connect() leaves it open.
FrameNotWritten ==
  /\ outgoing # "none"
  /\ outgoing' = "none"
  /\ writing' = FALSE
  /\ \/ /\ connecting = "write"
        /\ connecting' = "writeFailed"
        /\ UNCHANGED <<closeVars, readVars, writeVars>>
     \/ /\ connecting \in Established
        /\ CloseWith(streamError)
        /\ UNCHANGED connecting
  /\ UNCHANGED <<sessionStarted, peerVars, wire, inputVars>>

\* The session calls readFrame, or reads a body: what has arrived is pulled
\* from the stream, and counted if it was not.
ReadFrame ==
  /\ connecting \in Established
  /\ ~reading
  /\ ~sessionClosed
  /\ reading' = TRUE
  /\ uncounted' = FALSE
  /\ readSeen' = (readSeen \/ (uncounted /\ readPeriod > 0))
  /\ UNCHANGED <<sessionStarted, connecting, peerVars, readPeriod, readDue,
                 silence, writeVars, closeVars, frameVars>>

\* The read has what it needs.
FrameRead ==
  /\ connecting \in Established
  /\ reading
  /\ reading' = FALSE
  /\ UNCHANGED <<sessionStarted, connecting, peerVars, uncounted, readVars,
                 writeVars, closeVars, frameVars>>

\* readFrame fails: the stream has ended or failed, or the frame is malformed.
\* (A body that cannot be read is its reader's concern: ConnectBodyRead,
\* FrameRead.)
ReadFails ==
  /\ connecting \in {"read", "accept"} \cup Established
  /\ reading
  /\ reading' = FALSE
  /\ FailStream("read")
  /\ connecting' = CASE connecting = "read" -> "failed"
                     [] connecting = "accept" -> "rejected"
                     [] OTHER -> connecting
  /\ UNCHANGED <<sessionStarted, peerVars, uncounted, frameVars>>

\* close(), which the application may call at any time.
Close ==
  /\ CloseWith(streamError)
  /\ UNCHANGED <<sessionStarted, connecting, peerVars, frameVars, inputVars>>

\* writeFrame() of a second CONNECT or CONNECTED frame, as when connect() is
\* called again.
HandshakeAgain ==
  /\ sessionStarted
  /\ ~sessionClosed
  /\ FailStream("repeated")
  /\ UNCHANGED <<sessionStarted, connecting, peerVars, frameVars, inputVars>>

\* writeEnd() has resolved.  Its error becomes the stream's, even over one that
\* failStream has set since.
StreamEnded ==
  /\ stream = "ending"
  /\ stream' = "closed"
  /\ streamError' \in {streamError, "writeEnd"}
  /\ UNCHANGED <<sessionStarted, connecting, peerVars, sessionClosed,
                 readVars, writeVars, frameVars, inputVars>>

-----------------------------------------------------------------------------
(* connect(): the answer to the CONNECT frame.                              *)

\* What connect() does before it returns an error.
LeftOpen == UNCHANGED <<closeVars, readVars, writeVars>>

CloseFailed == CloseWith(streamError)

\* A CONNECTED frame starts the heart-beat even when connect() will reject it.
\* `good` says that its version is one of acceptedVersions().
Connected(h, good) ==
  /\ connecting = "read"
  /\ peerAlive
  /\ stream # "closed"
  /\ sessionStarted' = TRUE
  /\ \/ /\ ~h.valid
        /\ FailStream("malformed")
        /\ connecting' = "failed" /\ reading' = FALSE
        /\ UNCHANGED agreed
     \/ /\ h.valid /\ good
        /\ StartHeartBeat(h)
        /\ connecting' = "readBody"
        /\ UNCHANGED <<closeVars, reading>>
     \/ /\ h.valid /\ ~good /\ ~sessionClosed
        /\ CloseFailed
        /\ connecting' = "failed" /\ reading' = FALSE
        /\ UNCHANGED agreed
     \/ /\ h.valid /\ ~good /\ sessionClosed
        /\ StartHeartBeat(h)
        /\ connecting' = "failed" /\ reading' = FALSE
        /\ UNCHANGED closeVars
  /\ UNCHANGED <<peerAlive, uncounted, frameVars>>

\* An ERROR frame, whose body is read first, or any other frame.
Refused ==
  /\ connecting = "read"
  /\ peerAlive
  /\ stream # "closed"
  /\ \/ /\ connecting' = "readError"
        /\ UNCHANGED <<closeVars, readVars, writeVars, reading>>
     \/ /\ connecting' = "failed"
        /\ CloseFailed
        /\ reading' = FALSE
  /\ UNCHANGED <<sessionStarted, peerVars, uncounted, frameVars>>

\* The body of the answer has been read to its end, or not: the body of an
\* ERROR only makes the message, that of a CONNECTED frame must be empty.
BodyAccepted(ok) == ok /\ connecting = "readBody"

ConnectBodyRead(ok) ==
  /\ connecting \in {"readError", "readBody"}
  /\ reading' = FALSE
  /\ \/ /\ BodyAccepted(ok)
        /\ connecting' = "connected"
        /\ UNCHANGED <<closeVars, readVars, writeVars>>
     \/ /\ ~BodyAccepted(ok)
        /\ connecting' = "failed"
        /\ CloseFailed
  /\ UNCHANGED <<sessionStarted, peerVars, uncounted, frameVars>>

-----------------------------------------------------------------------------
(* The server's handshake: it reads CONNECT, and writes CONNECTED with the   *)
(* client's heart-beat header, from which writeFrame makes the answer.       *)

AwaitConnect ==
  /\ connecting = "listening"
  /\ ~sessionClosed
  /\ connecting' = "accept"
  /\ reading' = TRUE
  /\ UNCHANGED <<sessionStarted, peerVars, uncounted, readVars, writeVars, closeVars,
                 frameVars>>

ConnectRead(h) ==
  /\ connecting = "accept"
  /\ peerAlive
  /\ stream # "closed"
  /\ connecting' = "answer"
  /\ reading' = FALSE
  /\ agreed' = h
  /\ UNCHANGED <<sessionStarted, peerAlive, uncounted, readVars, writeVars, closeVars,
                 frameVars>>

AnswerConnect ==
  /\ connecting = "answer"
  /\ ~sessionClosed
  /\ sessionStarted' = TRUE
  /\ \/ /\ ~agreed.valid
        /\ FailStream("malformed")
        /\ connecting' = "rejected"
        /\ UNCHANGED frameVars
     \/ /\ agreed.valid
        /\ StartFrame
        /\ connecting' = "answering"
        /\ UNCHANGED <<readVars, writeVars, closeVars>>
  /\ UNCHANGED <<peerVars, inputVars>>

\* The heart-beat header of the answer: the rates at which the server will
\* write and expects to read.
Answer(h) ==
  [valid |-> TRUE, write |-> AgreedRate(DesiredWriteRate, h.read),
   read |-> AgreedRate(DesiredReadRate, h.write)]

\* The timers are started from the answer's own header, not from the client's.
ConnectedWritten ==
  /\ connecting = "answering"
  /\ outgoing = "sent"
  /\ outgoing' = "none"
  /\ writing' = FALSE
  /\ connecting' = "serving"
  /\ Monitor(Answer(agreed))
  /\ UNCHANGED <<sessionStarted, peerVars, wire, closeVars, inputVars>>

\* The timers are started all the same; a server that then closes clears them,
\* unless it had closed before.
ConnectedNotWritten ==
  /\ connecting = "answering"
  /\ outgoing # "none"
  /\ outgoing' = "none"
  /\ writing' = FALSE
  /\ connecting' = "rejected"
  /\ \/ ~sessionClosed /\ CloseWith(streamError)
     \/ sessionClosed /\ Monitor(Answer(agreed)) /\ UNCHANGED closeVars
  /\ UNCHANGED <<sessionStarted, peerVars, wire, inputVars>>

-----------------------------------------------------------------------------
(* The timers.                                                              *)

\* What a timer remembers of the bytes counted before it fired.
StillSeen(seen) == seen

Looked(seen) == FALSE

\* The write timer sends an LF when nothing was sent since it last fired and
\* no frame is being written.
BeatsAnyTime == ~writeSeen

Beats == ~writeSeen /\ ~writing

WriteTimerFires ==
  /\ writePeriod > 0
  /\ writeDue = 0
  /\ writeDue' = writePeriod
  /\ writeSeen' = Looked(writeSeen)
  /\ IF Beats
       THEN /\ idle' = 0
            /\ wire' = IF wire = "part" /\ ~sessionClosed THEN "corrupt" ELSE wire
       ELSE UNCHANGED <<idle, wire>>
  /\ UNCHANGED <<sessionStarted, connecting, peerVars, writePeriod, writing,
                 outgoing, readVars, closeVars, inputVars>>

\* The read timer closes the stream when nothing was read since it last fired.
ReadTimerFires ==
  /\ readPeriod > 0
  /\ readDue = 0
  /\ \/ /\ readSeen
        /\ readDue' = readPeriod
        /\ readSeen' = Looked(readSeen)
        /\ UNCHANGED <<readPeriod, silence, writeVars, closeVars>>
     \/ /\ ~readSeen /\ ~sessionClosed
        /\ FailStream("timeout")
     \/ /\ ~readSeen /\ sessionClosed
        /\ readDue' = readPeriod
        /\ streamError' = FirstError("timeout")
        /\ UNCHANGED <<readPeriod, readSeen, silence, writeVars, sessionClosed,
                       stream>>
  /\ UNCHANGED <<sessionStarted, connecting, peerVars, frameVars, inputVars>>

-----------------------------------------------------------------------------
(* The peer and time.                                                       *)

\* Bytes arrive, a heart-beat or a part of a frame.
Arrive ==
  /\ peerAlive
  /\ stream # "closed"
  /\ sessionStarted
  /\ silence' = 0
  /\ LET counted == CountsArrivals \/ reading
     IN /\ readSeen' = (readSeen \/ (counted /\ readPeriod > 0))
        /\ uncounted' = (uncounted \/ ~counted)
  /\ UNCHANGED <<sessionStarted, connecting, peerVars, readPeriod, readDue,
                 writeVars, closeVars, frameVars, reading>>

\* The peer or the network fails without a word.
PeerDies ==
  /\ peerAlive
  /\ peerAlive' = FALSE
  /\ UNCHANGED <<agreed, sessionStarted, connecting, readVars, writeVars, closeVars,
                 frameVars, inputVars>>

\* What the two sides agreed: the peer's bytes come closer together than this,
\* and ours are due this often.
PeerGap == AgreedRate(DesiredReadRate, agreed.write) + DelayTolerance
OurGap == AgreedRate(DesiredWriteRate, agreed.read)
PeerSends == AgreedRate(DesiredReadRate, agreed.write) # 0

\* A living peer that agreed to send does so within the agreed rate, delayed
\* by less than the tolerance.  silence and idle are measured while they matter.
Tick ==
  /\ readPeriod > 0 \/ writePeriod > 0
  /\ readPeriod > 0 => readDue > 0
  /\ writePeriod > 0 => writeDue > 0
  /\ (peerAlive /\ PeerSends /\ readPeriod > 0 /\ ~sessionClosed)
       => silence + 1 < PeerGap
  /\ readDue' = IF readPeriod > 0 THEN readDue - 1 ELSE readDue
  /\ writeDue' = IF writePeriod > 0 THEN writeDue - 1 ELSE writeDue
  /\ silence' = IF readPeriod > 0 /\ ~sessionClosed THEN silence + 1 ELSE silence
  /\ idle' = IF writePeriod > 0 /\ ~sessionClosed /\ ~writing THEN idle + 1
                                                              ELSE idle
  /\ UNCHANGED <<sessionStarted, connecting, peerVars, readPeriod, readSeen,
                 writePeriod, writeSeen, closeVars, frameVars, inputVars>>

-----------------------------------------------------------------------------
Next ==
  \/ Connect
  \/ WriteFrame
  \/ WriteChunk
  \/ FrameWritten
  \/ FrameNotWritten
  \/ ReadFrame
  \/ FrameRead
  \/ ReadFails
  \/ Close
  \/ HandshakeAgain
  \/ StreamEnded
  \/ \E h \in PeerHeartBeats, good \in BOOLEAN : Connected(h, good)
  \/ Refused
  \/ \E ok \in BOOLEAN : ConnectBodyRead(ok)
  \/ AwaitConnect
  \/ \E h \in PeerHeartBeats : ConnectRead(h)
  \/ AnswerConnect
  \/ ConnectedWritten
  \/ ConnectedNotWritten
  \/ WriteTimerFires
  \/ ReadTimerFires
  \/ Arrive
  \/ PeerDies
  \/ Tick

Spec == Init /\ [][Next]_vars

-----------------------------------------------------------------------------
(* Properties.                                                              *)

\* A heart-beat never lands inside a frame that is being written.
WireIntact == wire # "corrupt"

\* A client never times out a peer that keeps its rate, however its bytes fall
\* relative to the timer.
TimedOut == ~sessionClosed /\ sessionClosed' /\ streamError' = "timeout"

LivePeerKept == [][TimedOut /\ ~Server => ~peerAlive]_vars

\* A client notices a dead peer within two intervals.
DeadPeerNoticed ==
  (~Server /\ readPeriod > 0 /\ ~sessionClosed) => silence <= 2 * PeerGap

\* Between frames a client's connection is never idle for more than two
\* intervals.
HeartBeatsSent ==
  (~Server /\ writePeriod > 0 /\ ~sessionClosed /\ ~writing) => idle <= 2 * OurGap

\* A handshake that fails has closed the transport, unless the client's write
\* failed.
FailedConnectCloses == connecting \in {"failed", "rejected"} => sessionClosed

\* transport.ts:62-64: "The actual expected rate is negotiated with the
\* connection peer as the session is establishing.  If no data is received
\* during the interval then the connection is dead."  A server that agreed
\* with its client on no data, or that receives it in time, keeps it.
ServerKeepsLivePeer == [][TimedOut /\ Server => ~peerAlive]_vars

\* The error a transport failed with is the first one, whatever timers and
\* pending reads report while it closes.  Only writeEnd() overrules it, when
\* close() was awaiting it as the error came (transport.ts:334-338): a transport
\* that its error has closed keeps that error.
FirstErrorStays ==
  [][streamError # None /\ streamError' # streamError
       => stream = "ending" /\ stream' = "closed" /\ streamError' = "writeEnd"]_vars
=============================================================================
