----------------------------- MODULE FramePipe -----------------------------
(***************************************************************************)
(* Frames on their way: a peer that writes them with writeFrame, or sends   *)
(* bytes of its own; the stream; readFrame; and who reads the bodies.       *)
(*                                                                         *)
(* The reading end is a client (connect(), then the session's receive loop  *)
(* with an application that awaits every message) or a server, which is not *)
(* in src/: it reads every frame to its end, as the tests' broker does.     *)
(* Session models the rest of the receive loop; here it is reduced to when  *)
(* it reads a frame and who is given its body.                              *)
(*                                                                         *)
(* What a run does is fixed by its scenario, a record:                      *)
(*   role      the reading end: "connect" and "accept" read a first frame,   *)
(*             "client" and "server" are past it                           *)
(*   version   the protocol version the peers agree on                     *)
(*   script    what the peer sends: frames, and bytes of its own           *)
(*   beats     the writing transport wants a heart-beat                    *)
(*   program   how the application reads a message                         *)
(*   limit     the length it accepts, when it reads a string               *)
(*   acks      discardMessages acknowledges                                *)
(*   lossy     the connection may be lost                                  *)
(***************************************************************************)
EXTENDS FrameInput, FrameOutput

CONSTANTS
  Scenarios,      \* a sequence of them
  MaxErrorLength, \* ERROR_RESPONSE_MAX_CONTENT_LENGTH
  Alphabet        \* what bytes are: characters, and symbols for what is opaque

ASSUME FramePipeAssumption ==
  /\ MaxErrorLength \in Nat
  /\ {CR, LF, NUL, ":", Backslash, "r", "n", "c", "x", "CONNECT", "heart-beat", "rates",
      "accept-version"} \cup Versions \subseteq Alphabet

\* Header tables, frames and bytes that a peer can send.
Headed(headers) ==
  LET names == DOMAIN headers.map
  IN /\ headers \in [lines : Seq(Seq(Alphabet) \X Seq(Alphabet)), map : [names -> Seq(Alphabet)]]
     /\ names \subseteq Seq(Alphabet)
     /\ \A i \in DOMAIN headers.lines : headers.lines[i][1] \in names

Sendable(item) ==
  \/ item.kind = "bytes" /\ item.bytes \in Seq(Alphabet)
  \/ item.kind = "connect" /\ Headed(item.headers)
  \/ /\ item.kind = "frame" /\ Headed(item.frame.headers)
     /\ item.frame.command \in Seq(Alphabet) /\ item.frame.body \in Seq(Seq(Alphabet))

ASSUME ScenariosAssumption ==
  \A i \in DOMAIN Scenarios :
    /\ Scenarios[i].role \in {"connect", "accept", "client", "server"}
    /\ Scenarios[i].version \in Versions
    /\ Scenarios[i].program \in {"readEmptyBody", "readString", "discardMessages"}
    /\ Scenarios[i].script \in Seq(ToSet(Scenarios[i].script))
    /\ \A item \in ToSet(Scenarios[i].script) : Sendable(item)

VARIABLES
  number,    \* of the scenario
  next,      \* the item of the script the peer sends
  writes,    \* the writes of that item that are still to be made
  lost,      \* the connection was lost
  session,   \* the reader's sessionStarted and protocol version, its role
  loop,      \* what the reading end does
  consumer,  \* who reads the body, and what it has of it
  left,      \* how the last body was left
  acks,      \* the ids discardMessages has acknowledged
  bytes,     \* history: what has been put on the wire
  sent,      \* history: the frames written without an error
  received,  \* history: the frames read to their end
  from       \* history: where the frame being read began

peerVars == <<number, next, writes, lost, bytes, sent>>
readerVars == <<session, loop, consumer, left, acks, received, from>>
vars == <<inputVars, peerVars, readerVars>>

Consumed == Len(bytes) - Len(wire) - Len(buffer)

scenario == Scenarios[number]
Script == scenario.script
Item == Script[next]

\* A frame that a program hands to writeFrame.
Frame(command, lines, chunks) ==
  [command |-> <<command>>, headers |-> NewHeaders(lines), body |-> chunks,
   fails |-> FALSE]

----
\* CONNECT: connect() and the transport complete the caller's headers.

HeartBeat == <<"heart-beat">>
AcceptVersion == <<"accept-version">>
AcceptedVersions == <<"1.0", "1.1", "1.2">>
Rates == <<"rates">>

KeepsHeartBeat(line) == line[1] = HeartBeat

NotHeartBeat(line) == line[1] # HeartBeat

ConnectHeaders(headers) ==
  LET merged == MergeHeaders(headers, NewHeaders(<< <<AcceptVersion, AcceptedVersions>> >>))
      kept == {line \in ToSet(merged.lines) : NotHeartBeat(line)}
  IN IF Has(headers, HeartBeat) THEN FilterHeaders(merged, kept) ELSE merged

\* The transport's filter keeps what it should drop; connect() leaves it
\* nothing to filter.
TransportHeaders(headers) ==
  LET kept == {line \in ToSet(headers.lines) : KeepsHeartBeat(line)}
      filtered == IF Has(headers, HeartBeat) THEN FilterHeaders(headers, kept) ELSE headers
  IN IF scenario.beats
       THEN MergeHeaders(filtered, NewHeaders(<< <<HeartBeat, Rates>> >>))
       ELSE filtered

ConnectFrame(headers) ==
  [command |-> <<"CONNECT">>, body |-> <<>>, fails |-> FALSE,
   headers |-> TransportHeaders(ConnectHeaders(headers))]

\* jsonMessage, for a content of less than 100 bytes.
Decimal(n) ==
  IF n < 10 THEN <<ToString(n)>> ELSE <<ToString(n \div 10), ToString(n % 10)>>

JsonMessage(destination, source) ==
  Frame("SEND", << <<<<"destination">>, destination>>,
                   <<<<"content-type">>, <<"application/json">>>>,
                   <<ContentLength, Decimal(Len(source))>> >>, <<source>>)

----
\* The peer.

Outgoing(item) ==
  IF item.kind = "connect" THEN ConnectFrame(item.headers) ELSE item.frame

\* Both ends of a CONNECT use 1.0; so does a client that reads CONNECTED.
VersionOf(frame) ==
  IF frame.command \in {<<"CONNECT">>, <<"CONNECTED">>} THEN "1.0" ELSE scenario.version

Written == WriteFrame(Outgoing(Item), VersionOf(Outgoing(Item)))

Idle == [ongoing |-> FALSE, rest |-> <<>>]

Put(data) == bytes' = bytes \o data /\ wire' = wire \o data

SendBytes ==
  /\ ~ended /\ next <= Len(Script) /\ Item.kind = "bytes"
  /\ Put(Item.bytes)
  /\ next' = next + 1
  /\ UNCHANGED <<writes, sent, ended>>

BeginFrame ==
  /\ ~ended /\ next <= Len(Script) /\ Item.kind # "bytes"
  /\ ~writes.ongoing
  /\ writes' = [ongoing |-> TRUE, rest |-> Written.writes]
  /\ UNCHANGED <<bytes, wire, next, sent, ended>>

Write ==
  /\ ~ended /\ writes.ongoing /\ writes.rest # <<>>
  /\ Put(Head(writes.rest))
  /\ writes' = [writes EXCEPT !.rest = Tail(@)]
  /\ UNCHANGED <<next, sent, ended>>

\* writeFrame resolves.  After an error the session closes the connection.
EndFrame ==
  /\ ~ended /\ writes.ongoing /\ writes.rest = <<>>
  /\ IF Written.ok THEN /\ sent' = Append(sent, Outgoing(Item))
                        /\ next' = next + 1
                        /\ writes' = Idle
                        /\ UNCHANGED ended
                   ELSE /\ ended' = TRUE
                        /\ UNCHANGED <<sent, next, writes>>
  /\ UNCHANGED <<bytes, wire>>

\* The peer ends the stream after its last item.
EndStream ==
  /\ ~ended /\ next > Len(Script)
  /\ ended' = TRUE
  /\ UNCHANGED <<bytes, wire, next, writes, sent>>

PeerUnchanged ==
  UNCHANGED <<number, lost, buffer, reading, input, body, chunk, readerVars>>

Sends == (SendBytes \/ BeginFrame \/ Write \/ EndFrame) /\ PeerUnchanged

PeerStep == Sends \/ (EndStream /\ PeerUnchanged)

\* The connection is lost, with some of what is on the wire.
ConnectionLost ==
  /\ scenario.lossy /\ ~ended
  /\ \E n \in 0..Len(wire) :
       /\ wire' = SubSeq(wire, 1, n)
       /\ bytes' = SubSeq(bytes, 1, Len(bytes) - Len(wire) + n)
  /\ ended' = TRUE
  /\ lost' = TRUE
  /\ UNCHANGED <<number, next, writes, sent, buffer, reading, input, body, chunk, readerVars>>

----
\* The reading end: frames.

Command == input.command
Headers == NewHeaders(input.lines)
FrameReady == loop = "frame" /\ input.status = "ready"

InputProgress ==
  /\ loop \in {"frame", "body"}
  /\ InputStep(session.started, session.version)
  /\ UNCHANGED <<peerVars, readerVars>>

Close ==
  /\ loop' = "closed"
  /\ UNCHANGED <<inputVars, session, consumer, acks, received, from>>

ReadNextFrame ==
  /\ loop = "idle"
  /\ ReadFrame
  /\ loop' = "frame"
  /\ from' = Consumed + 1
  /\ UNCHANGED <<peerVars, session, consumer, left, acks, received>>

FrameFails ==
  /\ loop = "frame" /\ input.status = "failed"
  /\ Close
  /\ UNCHANGED <<peerVars, left>>

\* The body is given to `reader`, who asks for its first chunk.
GiveBody(reader) ==
  /\ PullBody
  /\ loop' = "body"
  /\ consumer' = [reader |-> reader, text |-> <<>>]
  /\ UNCHANGED <<peerVars, wire, ended, buffer, input, left, received, from>>

Subscribed == {<<"s">>}

HasKnownSubscription ==
  IsSet(Headers, <<"subscription">>) /\ Get(Headers, <<"subscription">>) \in Subscribed

TakeMessage ==
  /\ FrameReady /\ session.role = "client" /\ Command = <<"MESSAGE">>
  /\ HasKnownSubscription
  /\ GiveBody(scenario.program)
  /\ UNCHANGED <<acks, session>>

TakeReceipt ==
  /\ FrameReady /\ session.role = "client" /\ Command = <<"RECEIPT">>
  /\ GiveBody("receipt")
  /\ UNCHANGED <<acks, session>>

TakeError ==
  /\ FrameReady /\ session.role \in {"client", "connect"} /\ Command = <<"ERROR">>
  /\ GiveBody("error")
  /\ UNCHANGED <<acks, session>>

SessionCommands == {<<"MESSAGE">>, <<"RECEIPT">>, <<"ERROR">>}

\* The switch of receiveLoop has no default: the body stays in the stream.
SkipFrame ==
  /\ FrameReady /\ session.role = "client" /\ Command \notin SessionCommands
  /\ loop' = "idle"
  /\ left' = "skipped"
  /\ UNCHANGED <<inputVars, peerVars, session, consumer, acks, received, from>>

\* The version the server chose.
VersionHeader == IF IsSet(Headers, <<"version">>) THEN Get(Headers, <<"version">>) ELSE <<>>

TakeConnected ==
  /\ FrameReady /\ session.role = "connect" /\ Command = <<"CONNECTED">>
  /\ \E version \in Versions : VersionHeader = <<version>>
  /\ GiveBody("connected")
  /\ session' = [session EXCEPT !.started = TRUE]
  /\ UNCHANGED acks

RefuseFrame ==
  /\ FrameReady
  /\ \/ session.role = "client" /\ Command = <<"MESSAGE">> /\ ~HasKnownSubscription
     \/ /\ session.role = "connect"
        /\ \/ Command \notin {<<"ERROR">>, <<"CONNECTED">>}
           \/ Command = <<"CONNECTED">> /\ \A version \in Versions : VersionHeader # <<version>>
  /\ Close
  /\ left' = "refused"
  /\ UNCHANGED peerVars

\* The server reads any frame's body as a string.
ServeFrame ==
  /\ FrameReady /\ session.role \in {"server", "accept"}
  /\ GiveBody("server")
  /\ UNCHANGED <<acks, session>>

----
\* The reading end: bodies.

\* The reader is readEmptyBody, or readString with a limit.
WantsEmpty == consumer.reader \in {"receipt", "connected", "readEmptyBody"}
Discards == consumer.reader = "discardMessages"
ApplicationReads == consumer.reader \in {"readEmptyBody", "readString", "discardMessages"}

Exceeds(text) ==
  \/ consumer.reader = "readString" /\ Len(text) > scenario.limit
  \/ consumer.reader = "error" /\ Len(text) > MaxErrorLength

\* What makes a reader return before the end of the body.
StopsReading ==
  \/ chunk.status = "failed" /\ ~Discards
  \/ /\ chunk.status = "ok"
     /\ \/ WantsEmpty /\ chunk.bytes # <<>>
        \/ Exceeds(consumer.text \o chunk.bytes)

\* discardMessages acknowledges after its loop over the chunks.
AckInLoop ==
  IF Discards /\ scenario.acks /\ IsSet(Headers, <<"message-id">>)
    THEN Append(acks, Get(Headers, <<"message-id">>)) ELSE acks

AcksNow ==
  IF /\ Discards /\ scenario.acks /\ IsSet(Headers, <<"message-id">>)
     /\ chunk.status # "ok"
    THEN Append(acks, Get(Headers, <<"message-id">>)) ELSE acks

TakeChunk ==
  /\ loop = "body" /\ chunk.status = "ok" /\ ~StopsReading
  /\ consumer' = [consumer EXCEPT !.text = @ \o chunk.bytes]
  /\ acks' = AcksNow
  /\ PullBody
  /\ UNCHANGED <<peerVars, wire, ended, buffer, input, session, loop, left, received,
                 from>>

\* createEmitEndDecorator is returned from at its yield: it does not emit, and
\* the receive loop waits for ever.
LoopAfterEmit == "idle"

LoopAfterReturn == "abandoned"

StopReading ==
  /\ loop = "body" /\ StopsReading
  /\ loop' = IF ApplicationReads THEN LoopAfterReturn ELSE "closed"
  /\ left' = "unread"
  /\ body' = Over
  /\ UNCHANGED <<peerVars, wire, ended, buffer, reading, input, chunk, session,
                 consumer, acks, received, from>>

\* discardMessages goes on after a failed chunk: the decorator emits the end,
\* the receive loop ignores its error, and the message is acknowledged.
EndFailedBody ==
  /\ loop = "body" /\ chunk.status = "failed" /\ Discards
  /\ loop' = "idle"
  /\ left' = "failed"
  /\ acks' = AcksNow
  /\ UNCHANGED <<inputVars, peerVars, session, consumer, received, from>>

Entry ==
  [command |-> Command, lines |-> Headers.lines, text |-> consumer.text,
   from |-> from, to |-> Consumed, after |-> left, version |-> session.version]

LoopAfterBody ==
  IF \/ consumer.reader = "error"
     \/ consumer.reader = "receipt" /\ ~Has(Headers, <<"receipt-id">>)
    THEN "closed" ELSE "idle"

\* What the end of the body changes: connect() hands over to the session, the
\* server answers the first frame.
SessionAfterBody ==
  CASE consumer.reader = "connected" ->
         [session EXCEPT !.role = "client", !.version = Head(VersionHeader)]
    [] consumer.reader = "server" ->
         [started |-> TRUE, version |-> scenario.version, role |-> "server"]
    [] OTHER -> session

EndBody ==
  /\ loop = "body" /\ chunk.status = "done"
  /\ loop' = LoopAfterBody
  /\ left' = "whole"
  /\ acks' = AcksNow
  /\ session' = SessionAfterBody
  /\ received' = Append(received, Entry)
  /\ UNCHANGED <<inputVars, peerVars, consumer, from>>

----
Init ==
  /\ number \in DOMAIN Scenarios
  /\ next = 1 /\ writes = Idle /\ lost = FALSE
  /\ bytes = <<>> /\ sent = <<>>
  /\ wire = <<>> /\ ended = FALSE /\ buffer = <<>>
  /\ reading = "none" /\ input = NoInput /\ body = Over /\ chunk = NoChunk
  /\ LET past == scenario.role \in {"client", "server"}
     IN session = [role |-> scenario.role, started |-> past,
                   version |-> IF past THEN scenario.version ELSE "1.0"]
  /\ loop = "idle" /\ consumer = [reader |-> "none", text |-> <<>>]
  /\ left = "whole" /\ acks = <<>> /\ received = <<>> /\ from = 1

ReaderStep ==
  \/ InputProgress \/ ReadNextFrame \/ FrameFails
  \/ TakeMessage \/ TakeReceipt \/ TakeError \/ SkipFrame
  \/ TakeConnected \/ RefuseFrame \/ ServeFrame
  \/ TakeChunk \/ StopReading \/ EndFailedBody \/ EndBody

\* The end of a run: the reading end has stopped, or waits for a peer that has
\* sent all it had.  In any other state there is a step to make.
PeerSilent == ~ended /\ next > Len(Script)

Rest ==
  /\ loop \in {"closed", "abandoned"} \/ (PeerSilent /\ Continues /\ wire = <<>>)
  /\ UNCHANGED vars

Next == PeerStep \/ ConnectionLost \/ ReaderStep \/ Rest

Spec == Init /\ [][Next]_vars

----
\* What the properties speak of.

\* The items of the script the peer has begun.
Begun == {Script[i] : i \in 1..(IF writes.ongoing THEN next ELSE next - 1)}

EndsInCR(value) == value # <<>> /\ Last(value) = CR

\* What a version of the protocol can carry in a header, given that a line
\* may end in CR LF.
CarriesLine(version, line) ==
  /\ version = "1.0" => LF \notin ToSet(line[1] \o line[2]) /\ ":" \notin ToSet(line[1])
  /\ version # "1.2" => ~EndsInCR(line[2])
  /\ Len(EncodeValue(line[1], version) \o EncodeValue(line[2], version)) + 2
       <= MaxLineLength

\* A frame that is within the reader's limits, and whose content-length lines,
\* if it has any, tell the truth.
Representable(frame) ==
  LET length == Len(FlattenSeq(frame.body))
      lines == frame.headers.lines
  IN /\ \A i \in DOMAIN lines : CarriesLine(VersionOf(frame), lines[i])
     /\ Len(lines) <= MaxHeaderLines
     /\ length <= MaxBodyLength
     /\ \A value \in ToSet(ContentLengths(frame)) : ParseInt(value) = {length}
     /\ ContentLengths(frame) = <<>> => NUL \notin ToSet(FlattenSeq(frame.body))

\* Everything so far was a frame the protocol can carry, one that fails to be
\* written, one whose wrong length writeFrame is able to see, or a heart-beat.
WellSent ==
  \A item \in Begun :
    IF item.kind = "bytes" THEN ToSet(item.bytes) \subseteq {LF}
    ELSE LET frame == Outgoing(item)
         IN \/ Representable(frame)
            \/ frame.fails
            \/ FitsBuffer(frame, VersionOf(frame)) /\ ~LengthMatches(frame)

\* The bytes from the first one of the frame being read, and their lines: the
\* positions of their ends, and a line without its end.
Text == SubSeq(bytes, from, Len(bytes))

Ends(text) == {i \in DOMAIN text : text[i] = LF}

LineTo(text, end) ==
  LET before == {i \in Ends(text) : i < end}
      line == SubSeq(text, IF before = {} THEN 1 ELSE Max(before) + 1, end - 1)
  IN IF EndsInCR(line) THEN Front(line) ELSE line

CommandEnds(text) == {i \in Ends(text) : LineTo(text, i) # <<>>}

HeaderEnds(text) ==
  {i \in Ends(text) : LineTo(text, i) = <<>> /\ \E j \in CommandEnds(text) : j < i}

\* The ends of the lines of the header, that of the command the first of them.
LineEnds(text) == {i \in CommandEnds(text) : \A j \in HeaderEnds(text) : i < j}

HeaderLines(text) ==
  LET ends == LineEnds(text)
      place(i) == Cardinality({j \in ends : j < i})
  IN [k \in 1..(Cardinality(ends) - 1) |-> LineTo(text, Min({i \in ends : place(i) = k}))]

\* The bytes of each line of the header, its end included, the last one as far
\* as it has come.
LineLengths(text) ==
  LET last == IF HeaderEnds(text) = {} THEN Len(text) ELSE Min(HeaderEnds(text))
      start(i) == {0} \cup {j \in Ends(text) : j < i}
  IN {i - Max(start(i)) : i \in 1..last}

BodyText(text) == SubSeq(text, Min(HeaderEnds(text)) + 1, Len(text))

----
\* Properties.

\* The state is well formed; the reader is never ahead of the peer.
TypeOK ==
  /\ number \in DOMAIN Scenarios
  /\ next \in 1..(Len(Script) + 1) /\ writes.ongoing \in BOOLEAN
  /\ {lost, ended} \subseteq BOOLEAN
  /\ Consumed \in 0..Len(bytes) /\ bytes = SubSeq(bytes, 1, Consumed) \o buffer \o wire
  /\ reading \in {"none", "command", "header", "fixed", "end", "dynamic"}
  /\ input.status \in {"none", "reading", "ready", "failed"}
  /\ body.kind \in {"over", "fixed", "dynamic"} /\ body.remaining \in Nat
  /\ chunk.status \in {"none", "awaited", "ok", "failed", "done"}
  /\ chunk.status = "awaited" <=> reading \in {"fixed", "end", "dynamic"}
  /\ session.version \in Versions /\ session.started \in BOOLEAN
  /\ loop \in {"idle", "frame", "body", "closed", "abandoned"}
  /\ left \in {"whole", "failed", "skipped", "unread", "refused"}

\* The header lines of a text, decoded, and a body as these headers want it: as
\* long as its content-length, or without a null byte.
DecodedLines(text, version) ==
  [i \in DOMAIN HeaderLines(text) |-> HeaderLine(HeaderLines(text)[i], version)]

\* The length that a content-length gives to a body: none if it is negative or no number.
BodyLength(headers) ==
  Max({n \in ParseInt(Get(headers, ContentLength)) : n >= 0} \cup {0})

BodyComplete(headers, content) ==
  IF IsSet(headers, ContentLength) THEN Len(content) = BodyLength(headers)
                                   ELSE NUL \notin ToSet(content)

Parses(text, frame) ==
  LET headers == NewHeaders(DecodedLines(text, frame.version))
  IN /\ HeaderEnds(text) # {}
     /\ frame.command = LineTo(text, Min(CommandEnds(text)))
     /\ frame.lines = headers.lines
     /\ BodyText(text) = frame.text \o <<NUL>>
     /\ BodyComplete(headers, frame.text)

\* However the stream cuts its bytes and whatever the peer sends: a frame that
\* was read is what stands on the wire from its first byte to its null byte,
\* lines split at LF or CR LF, names and values decoded, the body as long as
\* its content-length or up to the first null byte.
FramesParsed ==
  \A k \in DOMAIN received :
    Parses(SubSeq(bytes, received[k].from, received[k].to), received[k])

\* Frames written by writeFrame are read as they were written, each once and
\* in order, under each version, through any cut of the bytes; nothing is made
\* of a frame whose writing failed or of one the connection lost half of.
RoundTrip ==
  WellSent =>
    LET whole == \* with the one that is being written
          IF writes.ongoing /\ Written.ok THEN Append(sent, Outgoing(Item)) ELSE sent
    IN /\ Len(received) <= Len(whole)
       /\ \A k \in DOMAIN received :
            /\ received[k].command = whole[k].command
            /\ received[k].lines = whole[k].headers.lines
            /\ received[k].text = FlattenSeq(whole[k].body)

\* Where the frame before the k-th ended.
EndBefore(k) == IF k = 1 THEN 0 ELSE received[k - 1].to

\* The loop reads the next frame only where the last one ended.  Two steps of
\* the code leave the last one elsewhere: a frame of another command is
\* skipped without its body, and a failed body ends where it failed.
FramesAligned ==
  /\ loop = "frame" => left \in {"whole", "failed", "skipped"}
  /\ loop = "frame" /\ left = "whole" => from = EndBefore(Len(received) + 1) + 1
  /\ \A k \in DOMAIN received :
       IF received[k].after = "whole" THEN received[k].from = EndBefore(k) + 1
                                      ELSE received[k].from > EndBefore(k)

\* No reader is given more than the limits allow: at a time, or in all.
BodyBounded ==
  loop = "body" /\ chunk.status = "ok" =>
    /\ Len(chunk.bytes) <= MaxBodyChunkLength
    /\ Len(consumer.text \o chunk.bytes) <= MaxBodyLength

\* A header is refused only if it breaks a limit or the grammar or will never
\* be complete, and one that is accepted does none of it; a body fails only if
\* it is too large, lacks its null byte, or will never be complete.
HeaderFaulty(text) ==
  \/ \E length \in LineLengths(text) : length > MaxLineLength
  \/ ~session.started /\ Ends(text) # {} /\ LineTo(text, Min(Ends(text))) = <<>>
  \/ \E i \in DOMAIN HeaderLines(text) : Separators(HeaderLines(text)[i]) = {}
  \/ Len(HeaderLines(text)) > MaxHeaderLines

BodyFaulty(text) ==
  LET nuls == {i \in DOMAIN text : text[i] = NUL}
      length == BodyLength(Headers)
  IN IF IsSet(Headers, ContentLength)
       THEN \/ length > MaxBodyLength
            \/ length < Len(text) /\ text[length + 1] # NUL
            \/ length >= Len(text) /\ ended
       ELSE /\ \A i \in nuls : i > MaxBodyLength + 1
            /\ Len(text) > MaxBodyLength \/ ended

LimitsExact ==
  /\ loop = "frame" /\ input.status = "failed" =>
       HeaderFaulty(Text) \/ (ended /\ HeaderEnds(Text) = {})
  /\ loop = "frame" /\ input.status = "ready" =>
       HeaderEnds(Text) # {} /\ ~HeaderFaulty(Text)
  /\ loop = "body" /\ chunk.status = "failed" => BodyFaulty(BodyText(Text))
  /\ BodyBounded

\* The server reads the headers the caller gave to connect(), the first value
\* of each name, with the versions the client accepts; the heart-beat header
\* is the transport's if it wants one, and of the caller's only an empty one
\* passes, which has() takes for none (header.ts:83, connect.ts:38).
ConnectHeaderIntact ==
  \A k \in DOMAIN received :
    WellSent /\ received[k].command = <<"CONNECT">> =>
      LET asked == Script[1].headers.map
          read == NewHeaders(received[k].lines).map
      IN /\ \A name \in DOMAIN asked \ {HeartBeat, AcceptVersion} :
              name \in DOMAIN read /\ read[name] = asked[name]
         /\ read[AcceptVersion] = AcceptedVersions
         /\ IF scenario.beats THEN read[HeartBeat] = Rates
            ELSE HeartBeat \in DOMAIN read => read[HeartBeat] = <<>>
         /\ Len(received[k].lines) = Cardinality(DOMAIN read)

MessageIds ==
  LET messages == SelectSeq(received, LAMBDA f : f.command = <<"MESSAGE">>)
      ids == SelectSeq(messages, LAMBDA f : IsSet(NewHeaders(f.lines), <<"message-id">>))
  IN [k \in DOMAIN ids |-> Get(NewHeaders(ids[k].lines), <<"message-id">>)]

\* discardMessages acknowledges the messages it read, each once, in order and
\* none before the end of its body; and after them one more at most, which it
\* lost the rest of: the last body failed, because the connection was lost or
\* the peer failed to write it (message.ts:47-60).
AckedIsRead ==
  WellSent /\ scenario.program = "discardMessages" /\ scenario.acks =>
    /\ IsPrefix(MessageIds, acks)
    /\ Len(acks) <= Len(MessageIds) + (IF left = "failed" THEN 1 ELSE 0)

Understood(frame) == scenario.role = "client" => frame.command \in SessionCommands

\* A reader that waits for bytes has read every frame that was written: none
\* lies in the reader's buffer or waits for the bytes of the next.
NothingUnread ==
  /\ Continues /\ wire = <<>>
  /\ WellSent /\ ~lost /\ \A k \in DOMAIN sent : Understood(sent[k])
  => Len(received) >= Len(sent)

\* transport.ts:37: "The STOMP session implementation must not call this
\* function before the previous frame's body has been fully read."
BodyFullyRead == loop = "frame" => from = 1 \/ bytes[from - 1] = NUL
=============================================================================
