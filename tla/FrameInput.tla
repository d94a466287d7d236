----------------------------- MODULE FrameInput -----------------------------
(***************************************************************************)
(* readFrame of src/frame/input.ts over the Reader of src/stream/reader.ts: *)
(* the awaits of the two, with the stream delivering its bytes in chunks of *)
(* any size.                                                               *)
(*                                                                         *)
(* `reading` is the outstanding read of the reader, "none" when nothing is  *)
(* awaited.  The body's generator is kept as what it still has to do; a     *)
(* consumer resumes it with PullBody, and `chunk` is what it yielded last.  *)
(* The caller starts ReadFrame, and takes the frame when input.status says  *)
(* so.  A variant that precedes a definition is faulty and unused.          *)
(***************************************************************************)
EXTENDS Reader, FrameHeaders

CONSTANTS
  MaxHeaderLines,    \* ReadLimits
  MaxLineLength,
  MaxBodyLength,
  MaxBodyChunkLength

ASSUME FrameInputAssumption ==
  /\ MaxHeaderLines \in Nat /\ MaxLineLength \in Nat \ {0}
  /\ MaxBodyLength \in Nat /\ MaxBodyChunkLength \in Nat \ {0}

VARIABLES
  wire,     \* what the peer has sent and the reader has not taken
  ended,    \* nothing follows what is on the wire
  buffer,   \* Reader.buffer
  reading,  \* the operation the reader runs
  input,    \* readFrame: its outcome, the command and the lines read so far
  body,     \* the body generator: its kind, what remains, what it has yielded
  chunk     \* the result of the body generator's last next()

inputVars == <<wire, ended, buffer, reading, input, body, chunk>>

----
\* decodeValue, from the i-th character on.  An escape the version does not
\* know stays as it is.

SameForAll(version) == {"r", "n", "c", Backslash}

EscapeLetters(version) ==
  CASE version = "1.0" -> {}
    [] version = "1.1" -> {"n", "c", Backslash}
    [] version = "1.2" -> {"r", "n", "c", Backslash}

Unescaped(letter) ==
  CASE letter = "r" -> CR
    [] letter = "n" -> LF
    [] letter = "c" -> ":"
    [] letter = Backslash -> Backslash

DecodeValue(encoded, version) ==
  LET escape(i) == /\ i < Len(encoded) /\ encoded[i] = Backslash
                   /\ encoded[i + 1] \in EscapeLetters(version)
      decoded[i \in 1..(Len(encoded) + 2)] ==
        CASE i > Len(encoded) -> <<>>
          [] i <= Len(encoded) /\ escape(i) ->
               <<Unescaped(encoded[i + 1])>> \o decoded[i + 2]
          [] OTHER -> <<encoded[i]>> \o decoded[i + 1]
  IN decoded[1]

\* A header line, split at its first colon.
Separators(line) == {i \in DOMAIN line : line[i] = ":"}

HeaderLine(line, version) ==
  LET separator == Min(Separators(line))
  IN <<DecodeValue(SubSeq(line, 1, separator - 1), version),
       DecodeValue(SubSeq(line, separator + 1, Len(line)), version)>>

----
\* The reader.

Operation ==
  CASE reading \in {"command", "header"} -> ReadLine(buffer, MaxLineLength)
    [] reading = "fixed" ->
         LET bytes == Smaller(body.remaining, MaxBodyChunkLength)
         IN ReadRange(buffer, bytes, bytes)
    [] reading = "end" -> ReadRange(buffer, 1, 1)
    [] reading = "dynamic" -> ReadUntil(buffer, NUL, MaxBodyChunkLength)

Continues == reading # "none" /\ Operation.status = "continued"

\* The read of `kind` completes: its bytes leave the buffer.
Completes(kind) ==
  /\ reading = kind
  /\ Operation.status = "completed"
  /\ buffer' = Left(buffer, Operation)
  /\ UNCHANGED <<wire, ended>>

Bytes == Taken(buffer, Operation)

\* runProper awaits the stream, which yields its next chunk.
ReceiveChunk ==
  /\ Continues
  /\ \E n \in DOMAIN wire :
       /\ buffer' = buffer \o SubSeq(wire, 1, n)
       /\ wire' = SubSeq(wire, n + 1, Len(wire))
  /\ UNCHANGED <<ended, reading, input, body, chunk>>

----
\* The body's generator.  A remaining length of 0 also stands for a negative
\* content-length and for NaN, which the code treats alike.

Over == [kind |-> "over", remaining |-> 0, total |-> 0]

NoChunk == [status |-> "none", bytes |-> <<>>]
Awaited == [status |-> "awaited", bytes |-> <<>>]
Failed == [status |-> "failed", bytes |-> <<>>]
Done == [status |-> "done", bytes |-> <<>>]
Yields(bytes) == [status |-> "ok", bytes |-> bytes]

AsWritten(headers) ==
  IF IsSet(headers, ContentLength)
    THEN [kind |-> "fixed", total |-> 0,
          remaining |-> SumSet(ParseInt(Get(headers, ContentLength)))]
    ELSE [kind |-> "dynamic", remaining |-> 0, total |-> 0]

BodyOf(headers) ==
  LET lengths == {n \in ParseInt(Get(headers, ContentLength)) : n > 0}
  IN IF IsSet(headers, ContentLength)
       THEN [kind |-> "fixed", total |-> 0,
             remaining |-> IF lengths = {} THEN 0 ELSE Min(lengths)]
       ELSE [kind |-> "dynamic", remaining |-> 0, total |-> 0]

TooLarge(length) == length > MaxBodyLength

\* next(): the generator runs to its next await, or yields at once.
PullBody ==
  LET fails == body.kind = "fixed" /\ TooLarge(body.remaining)
      over == body.kind = "over"
  IN /\ reading' = CASE fails \/ over -> "none"
                     [] body.kind = "dynamic" -> "dynamic"
                     [] OTHER -> IF body.remaining > 0 THEN "fixed" ELSE "end"
     /\ chunk' = CASE over -> Done [] fails -> Failed [] OTHER -> Awaited
     /\ body' = IF fails THEN Over ELSE body

\* readFixedSizeBody: a chunk, then the null byte.
ReadFixed ==
  /\ Completes("fixed")
  /\ reading' = "none"
  /\ body' = [body EXCEPT !.remaining = @ - Len(Bytes), !.total = @ + Len(Bytes)]
  /\ chunk' = Yields(Bytes)
  /\ UNCHANGED input

IsEnd(bytes) == bytes = <<NUL>>

ReadEnd ==
  /\ Completes("end")
  /\ reading' = "none"
  /\ body' = Over
  /\ chunk' = IF IsEnd(Bytes) THEN Yields(<<>>) ELSE Failed
  /\ UNCHANGED input

\* readDynamicSizeBody.
ReadDynamic ==
  LET last == Last(Bytes) = NUL
      bytes == IF last THEN Front(Bytes) ELSE Bytes
      total == body.total + Len(bytes)
  IN /\ Completes("dynamic")
     /\ reading' = "none"
     /\ chunk' = IF TooLarge(total) THEN Failed ELSE Yields(bytes)
     /\ body' = IF TooLarge(total) \/ last THEN Over
                ELSE [body EXCEPT !.total = total]
     /\ UNCHANGED input

----
\* readFrame.

NoInput == [status |-> "none", command |-> <<>>, lines |-> <<>>]

ReadFrame ==
  /\ reading' = "command"
  /\ input' = [NoInput EXCEPT !.status = "reading"]
  /\ body' = Over
  /\ chunk' = NoChunk
  /\ UNCHANGED <<wire, ended, buffer>>

ReadFrameFails == reading' = "none" /\ input' = [input EXCEPT !.status = "failed"]

\* An empty line before the command: the end of line that follows a frame, or
\* a heart-beat.
SkipEmptyLine(ignoreLeadingEmptyLines) ==
  /\ Completes("command")
  /\ Bytes = <<>>
  /\ IF ignoreLeadingEmptyLines THEN UNCHANGED <<reading, input>> ELSE ReadFrameFails
  /\ UNCHANGED <<body, chunk>>

ReadCommand ==
  /\ Completes("command")
  /\ Bytes # <<>>
  /\ reading' = "header"
  /\ input' = [input EXCEPT !.command = Bytes]
  /\ UNCHANGED <<body, chunk>>

OneMoreLine(lines) == Len(lines) <= MaxHeaderLines + 1

MayReadLine(lines) == Len(lines) <= MaxHeaderLines

ReadHeaderLine(version) ==
  LET lines == Append(input.lines, HeaderLine(Bytes, version))
  IN /\ Completes("header")
     /\ Bytes # <<>>
     /\ IF Separators(Bytes) # {} /\ MayReadLine(lines)
          THEN /\ input' = [input EXCEPT !.lines = lines]
               /\ UNCHANGED reading
          ELSE ReadFrameFails
     /\ UNCHANGED <<body, chunk>>

EndHeader ==
  /\ Completes("header")
  /\ Bytes = <<>>
  /\ reading' = "none"
  /\ input' = [input EXCEPT !.status = "ready"]
  /\ body' = BodyOf(NewHeaders(input.lines))
  /\ UNCHANGED chunk

\* The reader refuses the line, or the stream ends too soon.
ReadFails ==
  /\ reading # "none"
  /\ \/ Operation.status = "error"
     \/ Continues /\ wire = <<>> /\ ended
  /\ IF reading \in {"command", "header"}
       THEN ReadFrameFails /\ UNCHANGED <<body, chunk>>
       ELSE /\ reading' = "none"
            /\ body' = Over
            /\ chunk' = Failed
            /\ UNCHANGED input
  /\ UNCHANGED <<wire, ended, buffer>>

InputStep(ignoreLeadingEmptyLines, version) ==
  \/ ReceiveChunk
  \/ ReadFixed
  \/ ReadEnd
  \/ ReadDynamic
  \/ SkipEmptyLine(ignoreLeadingEmptyLines)
  \/ ReadCommand
  \/ ReadHeaderLine(version)
  \/ EndHeader
  \/ ReadFails
=============================================================================
