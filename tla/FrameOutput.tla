---------------------------- MODULE FrameOutput ----------------------------
(***************************************************************************)
(* writeFrame of src/frame/output.ts, as the sequence of its writes and the *)
(* result it returns when none of them fails.                              *)
(*                                                                         *)
(* A frame is a record: command, headers, body (the chunks its generator    *)
(* yields) and fails (after them it yields a failed result).  The buffer's  *)
(* contents are left out; its size decides between one write and several.   *)
(***************************************************************************)
EXTENDS Reader, FrameHeaders

CONSTANT BufferSize \* writeLimits.bufferSize

ASSUME FrameOutputAssumption == BufferSize \in Nat

Versions == {"1.0", "1.1", "1.2"}

\* What encodeValue escapes in a name or a value.
Escaped(version) ==
  CASE version = "1.0" -> {}
    [] version = "1.1" -> {LF, ":", Backslash}
    [] version = "1.2" -> {CR, LF, ":", Backslash}

EscapeLetter(c) ==
  CASE c = CR -> "r"
    [] c = LF -> "n"
    [] c = ":" -> "c"
    [] c = Backslash -> Backslash

EncodeValue(value, version) ==
  FlattenSeq([i \in DOMAIN value |->
    IF value[i] \in Escaped(version) THEN <<Backslash, EscapeLetter(value[i])>>
                                     ELSE <<value[i]>>])

EncodedLine(line, version) ==
  EncodeValue(line[1], version) \o <<":">> \o EncodeValue(line[2], version) \o <<LF>>

HeaderBytes(frame, version) ==
  LET lines == frame.headers.lines
  IN frame.command \o <<LF>>
       \o FlattenSeq([i \in DOMAIN lines |-> EncodedLine(lines[i], version)]) \o <<LF>>

EmptyBodyCommands ==
  {<<"RECEIPT">>, <<"CONNECT">>, <<"CONNECTED">>, <<"SUBSCRIBE">>,
   <<"UNSUBSCRIBE">>, <<"ACK">>, <<"NACK">>, <<"BEGIN">>, <<"COMMIT">>,
   <<"ABORT">>, <<"DISCONNECT">>}

\* The values of the content-length lines, in their order.
ContentLengths(frame) ==
  LET lines == SelectSeq(frame.headers.lines, LAMBDA l : l[1] = ContentLength)
  IN [i \in DOMAIN lines |-> lines[i][2]]

InvalidLength(frame) ==
  \E value \in Range(ContentLengths(frame)) : ~ \E n \in ParseInt(value) : n >= 0

\* expectedContentLength: a set of one, or empty when it is undefined.  The
\* last of several lines counts.
ExpectedLength(frame) ==
  LET values == ContentLengths(frame)
  IN IF values # <<>> THEN ParseInt(Last(values))
     ELSE {n \in {0} : frame.command \in EmptyBodyCommands}

\* The frame fits in the buffer, with its two bytes of trailer.
FitsBuffer(frame, version) ==
  \E n \in ExpectedLength(frame) :
    Len(HeaderBytes(frame, version)) + n + 2 < BufferSize

Trailer == <<NUL, LF>>

LengthMatches(frame) ==
  ~frame.fails /\ ExpectedLength(frame) = {Len(FlattenSeq(frame.body))}

TrailerOf(frame) == IF frame.fails THEN <<>> ELSE <<Trailer>>

WriteFrame(frame, version) ==
  LET header == HeaderBytes(frame, version)
  IN CASE InvalidLength(frame) -> [writes |-> <<>>, ok |-> FALSE]
       [] ~InvalidLength(frame) /\ FitsBuffer(frame, version) ->
            IF LengthMatches(frame)
              THEN [writes |-> <<header \o FlattenSeq(frame.body) \o Trailer>>,
                    ok |-> TRUE]
              ELSE [writes |-> <<>>, ok |-> FALSE]
       [] OTHER -> [writes |-> <<header>> \o frame.body \o TrailerOf(frame),
                    ok |-> ~frame.fails]
=============================================================================
