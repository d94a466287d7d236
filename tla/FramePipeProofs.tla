--------------------------- MODULE FramePipeProofs --------------------------
(***************************************************************************)
(* Theorems about FramePipe, for all scripts, alphabets and limits: a header*)
(* line survives the wire, and the inductive invariant of the whole pipe.  *)
(***************************************************************************)
EXTENDS FrameProofs, FramePipe

-----------------------------------------------------------------------------
(* A header line.                                                           *)

\* An encoded value does not end in CR, unless it does so itself under a version
\* that does not escape it.
LEMMA EncodeLast ==
  ASSUME NEW Byte, Symbols \subseteq Byte, NEW version \in Versions,
         NEW value \in Seq(Byte), version # "1.2" => ~EndsInCR(value)
  PROVE  LET e == EncodeValue(value, version)
         IN e # <<>> => e[Len(e)] # CR
<1>. DEFINE e == EncodeValue(value, version)
<1>0. SUFFICES ASSUME e # <<>> PROVE e[Len(e)] # CR
  OBVIOUS
<1>1. CASE version = "1.2"
  <2>1. e \in Seq(Byte \ {CR})
    BY <1>1, EncodeAvoids DEF Escaped
  <2>. QED BY <1>0, <2>1
<1>2. CASE version # "1.2"
  <2>. DEFINE ss == Encodings(value, version)
  <2>1. /\ ss \in Seq(Seq(Byte)) /\ Len(ss) = Len(value) /\ Len(value) \in Nat
        /\ \A i \in 1..Len(value) : ss[i] = Encoding(value[i], version)
        /\ e = FlattenSeq(ss)
    BY EncodingsType
  <2>. HIDE DEF ss, e
  <2>2. PICK f : Joins(f, ss, Byte, Len(ss))
    BY <2>1, JoinsExist
  <2>3. e = f[Len(ss)]
    BY <2>1, <2>2, FlattenIsJoin
  <2>4. value # <<>> /\ Len(value) > 0
    <3>1. f[0] = <<>>
      BY <2>2 DEF Joins
    <3>. QED BY <1>0, <2>1, <2>3, <3>1
  <2>5. PICK m \in Nat : m + 1 = Len(value)
    <3>1. PICK n \in Nat : n = Len(value) /\ n > 0
      BY <2>1, <2>4
    <3>2. n - 1 \in Nat /\ (n - 1) + 1 = Len(value)
      BY <3>1
    <3>. QED BY <3>2
  <2>6. PICK c \in Byte : c = value[m + 1] /\ ss[m + 1] = Encoding(c, version) /\ c # CR
    <3>1. value[m + 1] \in Byte /\ value[m + 1] = Last(value)
      BY <2>5 DEF Last
    <3>2. value[m + 1] # CR
      BY <1>2, <2>4, <3>1 DEF EndsInCR
    <3>. QED BY <2>1, <2>5, <3>1, <3>2
  <2>7. f[m] \in Seq(Byte) /\ e = f[m] \o Encoding(c, version)
    <3>1. m + 1 <= Len(ss) /\ m + 1 = Len(ss)
      BY <2>1, <2>5
    <3>2. f[m] \in Seq(Byte) /\ f[m + 1] = f[m] \o ss[m + 1]
      BY <2>1, <2>2, <3>1, JoinsStep
    <3>. QED BY <2>3, <2>6, <3>1, <3>2
  <2>8. CASE c \in Escaped(version)
    <3>1. PICK letter : letter = EscapeLetter(c) /\ letter \in Byte /\ letter # CR
      BY <2>8 DEF Symbols, Versions, Escaped, EscapeLetter, CR, LF, Backslash
    <3>2. Encoding(c, version) = <<Backslash, letter>> /\ Backslash \in Byte
      BY <2>8, <3>1 DEF Encoding, Symbols
    <3>. QED BY <2>7, <3>1, <3>2
  <2>9. CASE c \notin Escaped(version)
    <3>1. Encoding(c, version) = <<c>>
      BY <2>9 DEF Encoding
    <3>. QED BY <2>6, <2>7, <3>1
  <2>. QED BY <2>8, <2>9
<1>. QED BY <1>1, <1>2

\* A header line that the protocol can carry is written as one line, and split and
\* decoded to the name and the value that it was made of.
LEMMA LineWritten ==
  ASSUME NEW Byte, Symbols \subseteq Byte, NEW version \in Versions,
         NEW name \in Seq(Byte), NEW value \in Seq(Byte),
         CarriesLine(version, <<name, value>>)
  PROVE  \E line \in Seq(Byte \ {LF}) :
           /\ EncodedLine(<<name, value>>, version) = line \o <<LF>>
           /\ Len(line) >= 1 /\ line[Len(line)] # CR
           /\ HeaderLine(line, version) = <<name, value>>
           /\ MaxLineLength \in Nat /\ Len(line) + 1 <= MaxLineLength
<1>. DEFINE N == EncodeValue(name, version)
            V == EncodeValue(value, version)
            line == (N \o <<":">>) \o V
<1>1. EncodedLine(<<name, value>>, version) = line \o <<LF>>
  BY DEF EncodedLine
<1>2. N \in Seq(Byte) /\ V \in Seq(Byte) /\ LF \in Byte /\ ":" \in Byte
  BY EncodeType DEF Symbols
<1>3. /\ version = "1.0" => /\ \A i \in DOMAIN name : name[i] # LF /\ name[i] # ":"
                            /\ \A i \in DOMAIN value : value[i] # LF
      /\ version # "1.2" => ~EndsInCR(value)
      /\ Len(N \o V) + 2 <= MaxLineLength
  <2>1. /\ version = "1.0" => LF \notin ToSet(name \o value) /\ ":" \notin ToSet(name)
        /\ version # "1.2" => ~EndsInCR(value)
        /\ Len(N \o V) + 2 <= MaxLineLength
    BY DEF CarriesLine
  <2>2. \A i \in DOMAIN name : name[i] \in ToSet(name) /\ name[i] \in ToSet(name \o value)
    <3>1. ASSUME NEW i \in 1..Len(name)
          PROVE i \in 1..Len(name \o value) /\ (name \o value)[i] = name[i]
      OBVIOUS
    <3>. QED BY <3>1 DEF ToSet
  <2>3. \A i \in DOMAIN value : value[i] \in ToSet(name \o value)
    <3>1. ASSUME NEW i \in DOMAIN value
          PROVE  \E j \in DOMAIN (name \o value) : (name \o value)[j] = value[i]
      <4>1. /\ Len(name) + i \in DOMAIN (name \o value)
            /\ (name \o value)[Len(name) + i] = value[i]
        OBVIOUS
      <4>. QED BY <4>1
    <3>. QED BY <3>1, Zenon DEF ToSet
  <2>. QED BY <2>1, <2>2, <2>3
<1>4. version # "1.0" => LF \in Escaped(version) /\ ":" \in Escaped(version)
  BY DEF Versions, Escaped
<1>5. N \in Seq(Byte \ {LF}) /\ N \in Seq(Byte \ {":"}) /\ V \in Seq(Byte \ {LF})
  BY <1>3, <1>4, EncodeAvoids
<1>6. V # <<>> => V[Len(V)] # CR
  BY <1>3, EncodeLast
<1>7. DecodeValue(N, version) = name /\ DecodeValue(V, version) = value
  BY DecodeUndoesEncode
<1>. HIDE DEF N, V
<1>8. /\ line \in Seq(Byte \ {LF}) /\ Len(line) + 1 = Len(N \o V) + 2
      /\ Len(line) >= 1 /\ line[Len(line)] # CR
  <2>1. ":" \in Byte \ {LF} /\ ":" # CR
    BY <1>2 DEF LF, CR
  <2>2. PICK nn \in Seq(Byte \ {LF}), vv \in Seq(Byte \ {LF}) : nn = N /\ vv = V
    BY <1>5
  <2>3. /\ line \in Seq(Byte \ {LF}) /\ Len(line) = Len(nn) + 1 + Len(vv)
        /\ Len(nn) \in Nat /\ Len(vv) \in Nat /\ Len(nn \o vv) = Len(nn) + Len(vv)
        /\ Len(vv) = 0 => line[Len(line)] = ":"
        /\ Len(vv) > 0 => line[Len(line)] = vv[Len(vv)]
    BY <2>1, <2>2
  <2>. HIDE DEF line
  <2>4. Len(vv) > 0 => vv # <<>>
    BY <2>2
  <2>. QED BY <2>1, <2>2, <2>3, <2>4, <1>6
<1>9. HeaderLine(line, version) = <<name, value>>
  BY <1>2, <1>5, <1>7, SplitsLine DEF HeaderLine
<1>. HIDE DEF line
<1>10. MaxLineLength \in Nat /\ Len(line) + 1 <= MaxLineLength
  BY <1>3, <1>8, FrameInputAssumption DEF N, V
<1>. QED BY <1>1, <1>8, <1>9, <1>10

\* A header line that the protocol can carry is read as it was written: readLine
\* finds its end, leaves what follows, and the parser splits it into the name and the
\* value that writeFrame was given, under each version and for any characters.
\* (output.ts:68-80 writes it; reader.ts and input.ts:113-127 read it.)
THEOREM LineRoundTrip ==
  ASSUME NEW Byte, Symbols \subseteq Byte, NEW version \in Versions,
         NEW name \in Seq(Byte), NEW value \in Seq(Byte), NEW rest \in Seq(Byte),
         CarriesLine(version, <<name, value>>)
  PROVE  LET all == EncodedLine(<<name, value>>, version) \o rest
             result == ReadLine(all, MaxLineLength)
         IN /\ result.status = "completed" /\ Left(all, result) = rest
            /\ HeaderLine(Taken(all, result), version) = <<name, value>>
<1>1. PICK line \in Seq(Byte \ {LF}) :
        /\ EncodedLine(<<name, value>>, version) = line \o <<LF>>
        /\ Len(line) >= 1 /\ line[Len(line)] # CR
        /\ HeaderLine(line, version) = <<name, value>>
        /\ MaxLineLength \in Nat /\ Len(line) + 1 <= MaxLineLength
  BY LineWritten
<1>2. LF \in Byte
  BY DEF Symbols
<1>3. /\ ReadLine((line \o <<LF>>) \o rest, MaxLineLength).status = "completed"
      /\ Taken((line \o <<LF>>) \o rest,
               ReadLine((line \o <<LF>>) \o rest, MaxLineLength)) = line
      /\ Left((line \o <<LF>>) \o rest,
              ReadLine((line \o <<LF>>) \o rest, MaxLineLength)) = rest
  BY <1>1, <1>2, ReadsLine
<1>. QED BY <1>1, <1>3, Zenon

-----------------------------------------------------------------------------
(* The types of what is written and read.                                   *)

\* The alphabet has the symbols and the values of the model.
LEMMA AlphabetHas ==
  /\ Symbols \subseteq Alphabet /\ "x" \in Alphabet
  /\ {LF, NUL, ":"} \subseteq Alphabet
  /\ HeartBeat \in Seq(Alphabet) /\ AcceptVersion \in Seq(Alphabet)
  /\ AcceptedVersions \in Seq(Alphabet) /\ Rates \in Seq(Alphabet)
  /\ <<"CONNECT">> \in Seq(Alphabet)
BY FramePipeAssumption
   DEF Symbols, HeartBeat, AcceptVersion, AcceptedVersions, Rates, Versions

\* The tables of a script are well formed.
LEMMA HeadedType ==
  ASSUME NEW headers, Headed(headers)
  PROVE  headers \in HeaderTables(Alphabet)
<1>1. DOMAIN headers.map \in SUBSET Seq(Alphabet)
  BY DEF Headed
<1>2. [DOMAIN headers.map -> Seq(Alphabet)] \subseteq Tables(Alphabet)
  BY <1>1 DEF Tables
<1>3. headers \in [lines : Lines(Alphabet), map : Tables(Alphabet)]
  BY <1>2 DEF Headed, Lines
<1>. QED BY <1>3 DEF Headed, HeaderTables

\* A frame that can be written.
TypedFrame(frame) ==
  /\ frame.command \in Seq(Alphabet) /\ frame.headers \in HeaderTables(Alphabet)
  /\ frame.body \in Seq(Seq(Alphabet))

\* A table of one line.
LEMMA OneLineType ==
  ASSUME NEW name \in Seq(Alphabet), NEW value \in Seq(Alphabet)
  PROVE  NewHeaders(<< <<name, value>> >>) \in HeaderTables(Alphabet)
<1>1. << <<name, value>> >> \in Lines(Alphabet)
  BY DEF Lines
<1>. QED BY <1>1, AlphabetHas, NewHeadersType

\* connect() and the transport make a frame that can be written.
LEMMA ConnectType ==
  ASSUME NEW headers \in HeaderTables(Alphabet)
  PROVE  TypedFrame(ConnectFrame(headers))
<1>1. ASSUME NEW h \in HeaderTables(Alphabet), NEW kept
      PROVE  FilterHeaders(h, kept) \in HeaderTables(Alphabet)
  BY AlphabetHas, FilterHeadersType
<1>2. ConnectHeaders(headers) \in HeaderTables(Alphabet)
  <2>1. NewHeaders(<< <<AcceptVersion, AcceptedVersions>> >>) \in HeaderTables(Alphabet)
    BY AlphabetHas, OneLineType
  <2>2. MergeHeaders(headers, NewHeaders(<< <<AcceptVersion, AcceptedVersions>> >>))
          \in HeaderTables(Alphabet)
    BY <2>1, MergeHeadersType
  <2>. QED BY <1>1, <2>2 DEF ConnectHeaders
<1>3. ASSUME NEW h \in HeaderTables(Alphabet)
      PROVE  TransportHeaders(h) \in HeaderTables(Alphabet)
  <2>1. NewHeaders(<< <<HeartBeat, Rates>> >>) \in HeaderTables(Alphabet)
    BY AlphabetHas, OneLineType
  <2>2. \A f \in HeaderTables(Alphabet) :
          MergeHeaders(f, NewHeaders(<< <<HeartBeat, Rates>> >>)) \in HeaderTables(Alphabet)
    BY <2>1, MergeHeadersType
  <2>. QED BY <1>1, <2>2 DEF TransportHeaders
<1>4. <<>> \in Seq(Seq(Alphabet))
  OBVIOUS
<1>. QED BY <1>2, <1>3, <1>4, AlphabetHas DEF ConnectFrame, TypedFrame

\* Its header is made of bytes.
LEMMA HeaderBytesType ==
  ASSUME NEW frame, TypedFrame(frame), NEW version \in Versions
  PROVE  HeaderBytes(frame, version) \in Seq(Alphabet)
<1>. DEFINE lines == frame.headers.lines
            each == [i \in DOMAIN lines |-> EncodedLine(lines[i], version)]
<1>1. lines \in Seq(Seq(Alphabet) \X Seq(Alphabet))
  BY DEF TypedFrame, HeaderTables, Lines
<1>2. ASSUME NEW line \in Seq(Alphabet) \X Seq(Alphabet)
      PROVE  EncodedLine(line, version) \in Seq(Alphabet)
  <2>1. EncodeValue(line[1], version) \in Seq(Alphabet)
        /\ EncodeValue(line[2], version) \in Seq(Alphabet)
    BY AlphabetHas, EncodeType
  <2>2. <<":">> \in Seq(Alphabet) /\ <<LF>> \in Seq(Alphabet)
    BY AlphabetHas
  <2>. QED BY <2>1, <2>2 DEF EncodedLine
<1>3. each \in Seq(Seq(Alphabet))
  <2>1. PICK n \in Nat : DOMAIN lines = 1..n
    BY <1>1
  <2>2. \A i \in 1..n : lines[i] \in Seq(Alphabet) \X Seq(Alphabet)
    BY <1>1, <2>1
  <2>. HIDE DEF lines
  <2>3. each \in [1..n -> Seq(Alphabet)]
    BY <1>2, <2>1, <2>2
  <2>. HIDE DEF each
  <2>. QED BY <2>3
<1>4. HeaderBytes(frame, version) = frame.command \o <<LF>> \o FlattenSeq(each) \o <<LF>>
  BY DEF HeaderBytes
<1>. HIDE DEF each
<1>5. FlattenSeq(each) \in Seq(Alphabet)
  BY <1>3, FlattenType
<1>6. <<LF>> \in Seq(Alphabet) /\ frame.command \in Seq(Alphabet)
  BY AlphabetHas DEF TypedFrame
<1>. QED BY <1>4, <1>5, <1>6

\* So are all its writes.
LEMMA WritesType ==
  ASSUME NEW frame, TypedFrame(frame), NEW version \in Versions
  PROVE  WriteFrame(frame, version).writes \in Seq(Seq(Alphabet))
<1>1. HeaderBytes(frame, version) \in Seq(Alphabet)
  BY HeaderBytesType
<1>2. Trailer \in Seq(Alphabet)
  BY AlphabetHas DEF Trailer
<1>3. frame.body \in Seq(Seq(Alphabet)) /\ FlattenSeq(frame.body) \in Seq(Alphabet)
  BY FlattenType DEF TypedFrame
<1>4. TrailerOf(frame) \in Seq(Seq(Alphabet))
  BY <1>2 DEF TrailerOf
<1>5. <<>> \in Seq(Seq(Alphabet))
  OBVIOUS
<1>6. <<HeaderBytes(frame, version) \o FlattenSeq(frame.body) \o Trailer>> \in Seq(Seq(Alphabet))
  <2>1. PICK all \in Seq(Alphabet) :
          all = HeaderBytes(frame, version) \o FlattenSeq(frame.body) \o Trailer
    <3>1. PICK a \in Seq(Alphabet), b \in Seq(Alphabet), c \in Seq(Alphabet) :
            a = HeaderBytes(frame, version) /\ b = FlattenSeq(frame.body) /\ c = Trailer
      BY <1>1, <1>2, <1>3
    <3>2. (a \o b) \o c \in Seq(Alphabet)
      OBVIOUS
    <3>. QED BY <3>1, <3>2
  <2>. QED BY <2>1
<1>7. <<HeaderBytes(frame, version)>> \o frame.body \o TrailerOf(frame) \in Seq(Seq(Alphabet))
  BY <1>1, <1>3, <1>4
<1>. QED BY <1>5, <1>6, <1>7 DEF WriteFrame

\* The body generator starts with a length that is a number.
LEMMA BodyOfType ==
  ASSUME NEW headers \in HeaderTables(Alphabet)
  PROVE  /\ BodyOf(headers) \in [kind : {"fixed", "dynamic"}, remaining : Nat, total : {0}]
<1>. DEFINE lengths == {n \in ParseInt(Get(headers, ContentLength)) : n > 0}
<1>1. CASE IsSet(headers, ContentLength)
  <2>1. Get(headers, ContentLength) \in Seq(Alphabet)
    <3>1. headers.map \in Tables(Alphabet)
      BY DEF HeaderTables
    <3>. QED BY <1>1, <3>1 DEF Tables, IsSet, Get
  <2>2. PICK p \in SUBSET Int : p = ParseInt(Get(headers, ContentLength))
    BY <2>1, ParseIntType
  <2>3. lengths \in SUBSET Nat
    BY <2>2
  <2>4. (IF lengths = {} THEN 0 ELSE Min(lengths)) \in Nat
    <3>. HIDE DEF lengths
    <3>. QED BY <2>3, MinIsLeast
  <2>. HIDE DEF lengths
  <2>5. BodyOf(headers) = [kind |-> "fixed", total |-> 0,
                           remaining |-> IF lengths = {} THEN 0 ELSE Min(lengths)]
    BY <1>1 DEF BodyOf, lengths
  <2>. QED BY <2>4, <2>5
<1>2. CASE ~IsSet(headers, ContentLength)
  BY <1>2 DEF BodyOf
<1>. QED BY <1>1, <1>2

\* A line with a colon is decoded to a name and a value.
LEMMA HeaderLineType ==
  ASSUME NEW line \in Seq(Alphabet), Separators(line) # {}, NEW version \in Versions
  PROVE  HeaderLine(line, version) \in Seq(Alphabet) \X Seq(Alphabet)
<1>1. PICK n \in Nat : n = Min(Separators(line))
  <2>1. Separators(line) \in SUBSET Nat
    BY DEF Separators
  <2>. QED BY <2>1, MinIsLeast
<1>2. n \in 1..Len(line)
  <2>1. Separators(line) \in SUBSET Nat /\ Separators(line) \subseteq 1..Len(line)
    BY DEF Separators
  <2>. QED BY <1>1, <2>1, MinIsLeast
<1>3. SubSeq(line, 1, n - 1) \in Seq(Alphabet) /\ SubSeq(line, n + 1, Len(line)) \in Seq(Alphabet)
  BY <1>2
<1>. QED BY <1>1, <1>3, AlphabetHas, DecodeType DEF HeaderLine

-----------------------------------------------------------------------------
(* The peer and the stream.                                                 *)

\* The peer: its script, and the writes it is in the middle of.
PeerTyped ==
  /\ number \in DOMAIN Scenarios
  /\ next \in 1..(Len(Script) + 1)
  /\ writes \in [ongoing : BOOLEAN, rest : Seq(Seq(Alphabet))]
  /\ writes.ongoing => next <= Len(Script) /\ Item.kind # "bytes"
  /\ lost \in BOOLEAN /\ ended \in BOOLEAN

\* What has been put on the wire ends with what is buffered and what is still
\* on the wire.
StreamTyped ==
  /\ bytes \in Seq(Alphabet) /\ wire \in Seq(Alphabet) /\ buffer \in Seq(Alphabet)
  /\ Consumed \in Nat
  /\ Stands(buffer, bytes, Consumed)
  /\ Stands(wire, bytes, Consumed + Len(buffer))

\* What a script holds.
LEMMA ScriptType ==
  ASSUME number \in DOMAIN Scenarios
  PROVE  /\ Len(Script) \in Nat /\ scenario.version \in Versions
         /\ scenario.role \in {"connect", "accept", "client", "server"}
         /\ scenario.program \in {"readEmptyBody", "readString", "discardMessages"}
         /\ \A i \in 1..Len(Script) : Sendable(Script[i])
<1>1. Script \in Seq(ToSet(Script)) /\ \A item \in ToSet(Script) : Sendable(item)
  BY ScenariosAssumption DEF Script, scenario
<1>2. \A i \in 1..Len(Script) : Script[i] \in ToSet(Script)
  BY <1>1
<1>. QED BY <1>1, <1>2, ScenariosAssumption DEF scenario

\* The writes of the frame that is sent.
LEMMA WrittenType ==
  ASSUME number \in DOMAIN Scenarios, next \in 1..Len(Script), Item.kind # "bytes"
  PROVE  Written.writes \in Seq(Seq(Alphabet))
<1>1. Sendable(Item)
  BY ScriptType DEF Item
<1>2. TypedFrame(Outgoing(Item))
  <2>1. CASE Item.kind = "connect"
    BY <1>1, <2>1, HeadedType, ConnectType DEF Sendable, Outgoing
  <2>2. CASE Item.kind = "frame"
    BY <1>1, <2>2, HeadedType DEF Sendable, Outgoing, TypedFrame
  <2>. QED BY <1>1, <2>1, <2>2 DEF Sendable
<1>3. VersionOf(Outgoing(Item)) \in Versions
  BY ScriptType DEF VersionOf, Versions
<1>. QED BY <1>2, <1>3, WritesType DEF Written

\* The bytes that are sent as they are.
LEMMA BytesType ==
  ASSUME number \in DOMAIN Scenarios, next \in 1..Len(Script), Item.kind = "bytes"
  PROVE  Item.bytes \in Seq(Alphabet)
BY ScriptType DEF Item, Sendable

\* The stream in numbers: consumed, buffered, on the wire.
LEMMA StreamSizes ==
  ASSUME StreamTyped
  PROVE  \E k, b, w \in Nat :
           /\ k = Consumed /\ b = Len(buffer) /\ w = Len(wire)
           /\ Len(bytes) = (k + b) + w
           /\ Stands(buffer, bytes, k) /\ Stands(wire, bytes, k + b)
<1>1. PICK b \in Nat, w \in Nat, n \in Nat : b = Len(buffer) /\ w = Len(wire) /\ n = Len(bytes)
  BY DEF StreamTyped
<1>2. PICK k \in Nat : k = Consumed
  BY DEF StreamTyped
<1>3. k = n - w - b
  BY <1>1, <1>2 DEF Consumed
<1>4. n = (k + b) + w
  BY <1>3
<1>5. Stands(buffer, bytes, k) /\ Stands(wire, bytes, k + b)
  BY <1>1, <1>2 DEF StreamTyped
<1>. QED BY <1>1, <1>2, <1>4, <1>5

\* The types alone.
LEMMA StreamTypes ==
  ASSUME StreamTyped
  PROVE  bytes \in Seq(Alphabet) /\ wire \in Seq(Alphabet) /\ buffer \in Seq(Alphabet)
BY DEF StreamTyped

\* The peer puts bytes on the wire.
LEMMA PutKeeps ==
  ASSUME StreamTyped, NEW data \in Seq(Alphabet), Put(data), UNCHANGED buffer
  PROVE  StreamTyped' /\ Consumed' = Consumed
<1>1. /\ bytes' \in Seq(Alphabet) /\ wire' \in Seq(Alphabet) /\ buffer' \in Seq(Alphabet)
      /\ Len(bytes') = Len(bytes) + Len(data) /\ Len(wire') = Len(wire) + Len(data)
  BY DEF StreamTyped, Put
<1>2. Consumed' = Consumed /\ Consumed + Len(buffer) + Len(wire) = Len(bytes)
  BY <1>1 DEF StreamTyped, Consumed
<1>3. Stands(buffer, bytes \o data, Consumed)
  BY StandsInLonger DEF StreamTyped
<1>4. Stands(wire \o data, bytes \o data, Consumed + Len(buffer))
  BY <1>2, StandsInLonger DEF StreamTyped
<1>5. bytes' = bytes \o data /\ wire' = wire \o data /\ buffer' = buffer
  BY DEF Put
<1>. QED BY <1>1, <1>2, <1>3, <1>4, <1>5 DEF StreamTyped

\* The connection is lost.
LEMMA LossKeeps ==
  ASSUME StreamTyped, NEW n \in 0..Len(wire), wire' = SubSeq(wire, 1, n),
         bytes' = SubSeq(bytes, 1, Len(bytes) - Len(wire) + n), UNCHANGED buffer
  PROVE  StreamTyped' /\ Consumed' = Consumed
<1>0. PICK k \in Nat, b \in Nat, w \in Nat :
        /\ k = Consumed /\ b = Len(buffer) /\ w = Len(wire)
        /\ Len(bytes) = (k + b) + w
        /\ Stands(buffer, bytes, k) /\ Stands(wire, bytes, k + b)
  BY StreamSizes
<1>. DEFINE m == (k + b) + n
<1>1. m \in Nat /\ m <= Len(bytes) /\ bytes' = SubSeq(bytes, 1, m) /\ n \in Nat /\ n <= w
  <2>1. Len(bytes) - Len(wire) + n = m
    BY <1>0
  <2>. QED BY <1>0, <2>1
<1>2. SubSeq(bytes, 1, m) \in Seq(Alphabet) /\ Len(SubSeq(bytes, 1, m)) = m
  BY <1>1, CutInTwo DEF StreamTyped
<1>4. Stands(wire', bytes, k + b) /\ wire' \in Seq(Alphabet) /\ Len(wire') = n
  <2>1. SubSeq(wire, 1, n) \in Seq(Alphabet) /\ Len(SubSeq(wire, 1, n)) = n
        /\ Stands(SubSeq(wire, 1, n), bytes, k + b)
    <3>1. wire \in Seq(Alphabet) /\ bytes \in Seq(Alphabet)
      BY StreamTypes
    <3>2. n \in Nat /\ n <= Len(wire) /\ Stands(wire, bytes, k + b)
      BY <1>0, <1>1
    <3>. QED BY <3>1, <3>2, FirstStands, ZenonT(30)
  <2>. QED BY <2>1
<1>5. Stands(wire', SubSeq(bytes, 1, m), k + b)
  <2>1. (k + b) + Len(wire') <= m
    BY <1>4
  <2>. QED BY <1>1, <1>4, <2>1, StreamTypes, StandsInPart, Zenon
<1>6. Stands(buffer, SubSeq(bytes, 1, m), k)
  <2>1. k + Len(buffer) <= m
    BY <1>0, <1>1
  <2>. QED BY <1>0, <1>1, <2>1, StreamTypes, StandsInPart, Zenon
<1>7. Consumed' = k
  <2>1. Len(bytes') = m /\ Len(wire') = n /\ Len(buffer') = b
    BY <1>0, <1>1, <1>2, <1>4
  <2>2. m - n - b = k
    BY <1>1
  <2>. QED BY <2>1, <2>2 DEF Consumed
<1>. QED BY <1>0, <1>1, <1>2, <1>4, <1>5, <1>6, <1>7 DEF StreamTyped

\* The reader receives a chunk.
LEMMA ReceiveKeeps ==
  ASSUME StreamTyped, NEW n \in 1..Len(wire), buffer' = buffer \o SubSeq(wire, 1, n),
         wire' = SubSeq(wire, n + 1, Len(wire)), UNCHANGED bytes
  PROVE  StreamTyped' /\ Consumed' = Consumed
<1>0. PICK k \in Nat, b \in Nat, w \in Nat :
        /\ k = Consumed /\ b = Len(buffer) /\ w = Len(wire)
        /\ Len(bytes) = (k + b) + w
        /\ Stands(buffer, bytes, k) /\ Stands(wire, bytes, k + b)
  BY StreamSizes
<1>1. Stands(wire, bytes, k + b) /\ Stands(buffer, bytes, k) /\ n \in Nat /\ n <= w
  BY <1>0 DEF StreamTyped
<1>2. PICK first \in Seq(Alphabet) :
        first = SubSeq(wire, 1, n) /\ Len(first) = n /\ Stands(first, bytes, k + b)
  <2>1. /\ Stands(SubSeq(wire, 1, n), bytes, k + b)
        /\ SubSeq(wire, 1, n) \in Seq(Alphabet) /\ Len(SubSeq(wire, 1, n)) = n
    <3>1. wire \in Seq(Alphabet) /\ bytes \in Seq(Alphabet)
      BY StreamTypes
    <3>2. n \in Nat /\ n <= Len(wire) /\ Stands(wire, bytes, k + b)
      BY <1>0, <1>1
    <3>. QED BY <3>1, <3>2, FirstStands, ZenonT(30)
  <2>. QED BY <2>1
<1>3. wire' \in Seq(Alphabet) /\ Len(wire') = w - n /\ Stands(wire', bytes, (k + b) + n)
  <2>1. w \in Nat /\ n <= w /\ w <= Len(wire)
    BY <1>0, <1>1
  <2>. QED BY <1>0, <1>1, <2>1, PartStands DEF StreamTyped
<1>4. buffer' \in Seq(Alphabet) /\ Len(buffer') = b + n
  BY <1>0, <1>2 DEF StreamTyped
<1>5. Stands(buffer \o first, bytes, k)
  BY <1>0, <1>1, <1>2, JoinStands DEF StreamTyped
<1>6. Consumed' = k /\ k + Len(buffer') = (k + b) + n
  <2>1. ((k + b) + w) - (w - n) - (b + n) = k /\ k + (b + n) = (k + b) + n
    BY <1>1
  <2>2. Len(bytes') = (k + b) + w
    BY <1>0
  <2>. QED BY <1>3, <1>4, <2>1, <2>2 DEF Consumed
<1>. QED BY <1>0, <1>2, <1>3, <1>4, <1>5, <1>6 DEF StreamTyped

\* A completed read takes its bytes from the front of the buffer.
LEMMA ConsumeKeeps ==
  ASSUME StreamTyped, NEW k \in 0..Len(buffer),
         buffer' = SubSeq(buffer, k + 1, Len(buffer)), UNCHANGED <<wire, bytes>>
  PROVE  StreamTyped' /\ Consumed' = Consumed + k
<1>0. PICK c \in Nat, b \in Nat, w \in Nat :
        /\ c = Consumed /\ b = Len(buffer) /\ w = Len(wire)
        /\ Len(bytes) = (c + b) + w
        /\ Stands(buffer, bytes, c) /\ Stands(wire, bytes, c + b)
  BY StreamSizes
<1>1. Stands(wire, bytes, c + b) /\ Stands(buffer, bytes, c) /\ k \in Nat /\ k <= b
  BY <1>0 DEF StreamTyped
<1>2. buffer' \in Seq(Alphabet) /\ Len(buffer') = b - k /\ Stands(buffer', bytes, c + k)
  <2>1. b \in Nat /\ k <= b /\ b <= Len(buffer)
    BY <1>0, <1>1
  <2>. QED BY <1>0, <1>1, <2>1, PartStands DEF StreamTyped
<1>3. Consumed' = c + k /\ (c + k) + Len(buffer') = c + b
  <2>1. ((c + b) + w) - w - (b - k) = c + k /\ (c + k) + (b - k) = c + b
    BY <1>1
  <2>2. Len(bytes') = (c + b) + w /\ Len(wire') = w
    BY <1>0
  <2>. QED BY <1>2, <2>1, <2>2 DEF Consumed
<1>4. Stands(wire', bytes', Consumed' + Len(buffer')) /\ Stands(buffer', bytes', Consumed')
  <2>1. wire' = wire /\ bytes' = bytes
    OBVIOUS
  <2>. QED BY <1>1, <1>2, <1>3, <2>1
<1>5. c + k \in Nat
  BY <1>0, <1>1
<1>. QED BY <1>0, <1>2, <1>3, <1>4, <1>5 DEF StreamTyped

\* The bytes are those consumed, those buffered and those on the wire.
LEMMA ConsumedType ==
  ASSUME StreamTyped
  PROVE  /\ Consumed \in 0..Len(bytes)
         /\ bytes = SubSeq(bytes, 1, Consumed) \o buffer \o wire
<1>0. PICK k \in Nat, b \in Nat, w \in Nat :
        /\ k = Consumed /\ b = Len(buffer) /\ w = Len(wire)
        /\ Len(bytes) = (k + b) + w
        /\ Stands(buffer, bytes, k) /\ Stands(wire, bytes, k + b)
  BY StreamSizes
<1>1. Stands(wire, bytes, k + b) /\ Stands(buffer, bytes, k)
  BY <1>0 DEF StreamTyped
<1>2. bytes = SubSeq(bytes, 1, k + b) \o wire
  BY <1>0, <1>1, EndsWith DEF StreamTyped
<1>3. PICK front \in Seq(Alphabet) : front = SubSeq(bytes, 1, k + b) /\ Len(front) = k + b
  <2>1. k + b \in 0..Len(bytes)
    BY <1>0
  <2>2. SubSeq(bytes, 1, k + b) \in Seq(Alphabet) /\ Len(SubSeq(bytes, 1, k + b)) = k + b
    <3>1. bytes \in Seq(Alphabet)
      BY StreamTypes
    <3>. QED BY <2>1, <3>1, CutInTwo, ZenonT(30)
  <2>. QED BY <2>2
<1>4. Stands(buffer, front, k)
  <2>1. k + b \in Nat /\ k + Len(buffer) <= k + b /\ k + b <= Len(bytes)
    BY <1>0
  <2>. QED BY <1>1, <1>3, <2>1, StandsInPart DEF StreamTyped
<1>5. front = SubSeq(front, 1, k) \o buffer
  BY <1>0, <1>3, <1>4, EndsWith DEF StreamTyped
<1>6. SubSeq(front, 1, k) = SubSeq(bytes, 1, k)
  BY <1>0, <1>3 DEF StreamTyped
<1>7. bytes = (SubSeq(bytes, 1, k) \o buffer) \o wire
  BY <1>2, <1>3, <1>5, <1>6
<1>8. k \in 0..Len(bytes)
  BY <1>0
<1>. QED BY <1>0, <1>7, <1>8

-----------------------------------------------------------------------------
(* The reading end.                                                         *)

\* The frames that have been read.
Entries ==
  [command : Seq(Alphabet), lines : Lines(Alphabet), text : Seq(Alphabet),
   from : Nat, to : Nat, after : {"whole", "failed", "skipped", "unread", "refused"},
   version : Versions]

\* The types of the reading end.
ReaderTyped ==
  /\ reading \in {"none", "command", "header", "fixed", "end", "dynamic"}
  /\ input \in [status : {"none", "reading", "ready", "failed"},
                command : Seq(Alphabet), lines : Lines(Alphabet)]
  /\ body \in [kind : {"over", "fixed", "dynamic"}, remaining : Nat, total : Nat]
  /\ chunk \in [status : {"none", "awaited", "ok", "failed", "done"}, bytes : Seq(Alphabet)]
  /\ session \in [role : {"connect", "accept", "client", "server"},
                  started : BOOLEAN, version : Versions]
  /\ loop \in {"idle", "frame", "body", "closed", "abandoned"}
  /\ left \in {"whole", "failed", "skipped", "unread", "refused"}
  /\ consumer \in [reader : {"none", "receipt", "connected", "error", "server",
                             "readEmptyBody", "readString", "discardMessages"},
                   text : Seq(Alphabet)]
  /\ received \in Seq(Entries) /\ from \in Nat

\* What the receive loop, readFrame and the body's generator know of each other.
Stages ==
  /\ chunk.status = "awaited" <=> reading \in {"fixed", "end", "dynamic"}
  /\ loop \in {"idle", "closed", "abandoned"} => reading = "none"
  /\ loop = "frame" => /\ input.status = "reading" <=> reading \in {"command", "header"}
                       /\ reading \in {"none", "command", "header"}
  /\ loop = "body" => reading \in {"none", "fixed", "end", "dynamic"}
  /\ reading = "fixed" => body.kind = "fixed" /\ body.remaining > 0
  /\ reading = "end" => body.kind = "fixed"
  /\ reading = "dynamic" => body.kind = "dynamic"

\* Who reads the body of a CONNECTED frame has seen its version.
VersionKnown ==
  loop = "body" /\ consumer.reader = "connected" =>
    \E version \in Versions : VersionHeader = <<version>>

\* The inductive part of TypeOK.
PipeTyped == PeerTyped /\ StreamTyped /\ ReaderTyped /\ Stages /\ VersionKnown

\* It implies TypeOK.
LEMMA TypesSuffice ==
  ASSUME PipeTyped
  PROVE  TypeOK
<1>1. /\ Consumed \in 0..Len(bytes) /\ bytes = SubSeq(bytes, 1, Consumed) \o buffer \o wire
  BY ConsumedType DEF PipeTyped
<1>. QED BY <1>1 DEF PipeTyped, PeerTyped, ReaderTyped, Stages, TypeOK

\* A completed read: what it takes and skips lies in the buffer.
LEMMA OperationType ==
  ASSUME PipeTyped, reading # "none", Operation.status = "completed"
  PROVE  \E consume, skip \in Nat :
           /\ Operation = ReadCompleted(consume, skip)
           /\ consume + skip <= Len(buffer)
           /\ reading = "fixed" => /\ consume <= body.remaining
                                   /\ consume <= MaxBodyChunkLength
           /\ reading = "dynamic" => consume >= 1 /\ consume <= MaxBodyChunkLength
<1>1. buffer \in Seq(Alphabet) /\ Len(buffer) \in Nat
  BY DEF PipeTyped, StreamTyped
<1>2. /\ MaxLineLength \in Nat /\ MaxBodyChunkLength \in Nat /\ MaxBodyChunkLength >= 1
  BY FrameInputAssumption
<1>3. ASSUME NEW byte, NEW limit \in Nat, Found(byte, buffer, limit) # {}
      PROVE  /\ Min(Found(byte, buffer, limit)) \in 1..Len(buffer)
             /\ Min(Found(byte, buffer, limit)) <= limit
  <2>1. <<>> \in Seq(Alphabet)
    OBVIOUS
  <2>. QED BY <1>1, <1>3, <2>1, FoundEarly, Zenon
<1>4. reading \in {"command", "header", "fixed", "end", "dynamic"}
  BY DEF PipeTyped, ReaderTyped
<1>5. CASE reading \in {"command", "header"}
  <2>. DEFINE ends == Found(LF, buffer, MaxLineLength)
              end == Min(ends)
              length == IF CRBefore(buffer, end) THEN end - 2 ELSE end - 1
  <2>1. Operation = ReadLine(buffer, MaxLineLength)
    BY <1>5 DEF Operation
  <2>2. ends # {}
    BY <2>1 DEF ReadLine, ReadContinued, ReadError
  <2>3. end \in 1..Len(buffer)
    BY <1>2, <1>3, <2>2
  <2>4. Operation = ReadCompleted(length, end - length)
    BY <2>1, <2>2 DEF ReadLine
  <2>. HIDE DEF end
  <2>5. length \in Nat /\ end - length \in Nat /\ length + (end - length) <= Len(buffer)
    BY <1>1, <2>3 DEF CRBefore
  <2>. QED BY <1>5, <2>4, <2>5
<1>6. CASE reading = "fixed"
  <2>1. PICK n \in Nat : n = Smaller(body.remaining, MaxBodyChunkLength)
                         /\ n <= body.remaining /\ n <= MaxBodyChunkLength
    BY <1>2 DEF PipeTyped, ReaderTyped, Smaller
  <2>2. Operation = ReadRange(buffer, n, n)
    BY <1>6, <2>1 DEF Operation
  <2>3. Operation = ReadCompleted(n, 0) /\ n <= Len(buffer)
    BY <1>1, <2>2 DEF ReadRange, ReadContinued, Smaller
  <2>. QED BY <1>1, <1>6, <2>1, <2>3
<1>7. CASE reading = "end"
  <2>1. Operation = ReadRange(buffer, 1, 1)
    BY <1>7 DEF Operation
  <2>2. Operation = ReadCompleted(1, 0) /\ 1 <= Len(buffer)
    BY <1>1, <2>1 DEF ReadRange, ReadContinued, Smaller
  <2>. QED BY <1>1, <1>7, <2>2
<1>8. CASE reading = "dynamic"
  <2>. DEFINE ends == Found(NUL, buffer, MaxBodyChunkLength)
  <2>1. Operation = ReadUntil(buffer, NUL, MaxBodyChunkLength)
    BY <1>8 DEF Operation
  <2>2. CASE ends # {}
    <3>1. Operation = ReadCompleted(Min(ends), 0)
      BY <2>1, <2>2 DEF ReadUntil
    <3>2. Min(ends) \in 1..Len(buffer) /\ Min(ends) <= MaxBodyChunkLength
      BY <1>2, <1>3, <2>2
    <3>. HIDE DEF ends
    <3>. QED BY <1>1, <1>8, <3>1, <3>2
  <2>3. CASE ends = {}
    <3>1. Operation = ReadCompleted(MaxBodyChunkLength, 0) /\ Len(buffer) >= MaxBodyChunkLength
      BY <2>1, <2>3 DEF ReadUntil, ReadContinued
    <3>. QED BY <1>1, <1>2, <1>8, <3>1
  <2>. QED BY <2>2, <2>3
<1>. QED BY <1>4, <1>5, <1>6, <1>7, <1>8

\* The bytes it returns, and the stream after it.
LEMMA CompletesKeeps ==
  ASSUME PipeTyped, NEW kind, kind # "none", Completes(kind), UNCHANGED bytes
  PROVE  /\ StreamTyped' /\ Consumed' >= Consumed
         /\ Bytes \in Seq(Alphabet)
         /\ kind = "fixed" => /\ Len(Bytes) <= body.remaining
                              /\ Len(Bytes) <= MaxBodyChunkLength
         /\ kind = "dynamic" => Bytes # <<>> /\ Len(Bytes) <= MaxBodyChunkLength
<1>1. reading = kind /\ Operation.status = "completed" /\ buffer' = Left(buffer, Operation)
      /\ UNCHANGED <<wire, bytes>>
  BY DEF Completes
<1>2. PICK consume \in Nat, skip \in Nat :
        /\ Operation = ReadCompleted(consume, skip)
        /\ consume + skip <= Len(buffer)
        /\ reading = "fixed" => /\ consume <= body.remaining
                                /\ consume <= MaxBodyChunkLength
        /\ reading = "dynamic" => consume >= 1 /\ consume <= MaxBodyChunkLength
  BY <1>1, OperationType
<1>3. StreamTyped /\ buffer \in Seq(Alphabet) /\ Len(buffer) \in Nat /\ Consumed \in Nat
  BY DEF PipeTyped, StreamTyped
<1>4. PICK k \in 0..Len(buffer) : k = consume + skip
  BY <1>2, <1>3
<1>5. buffer' = SubSeq(buffer, k + 1, Len(buffer))
  BY <1>1, <1>2, <1>4 DEF Left, ReadCompleted
<1>6. StreamTyped' /\ Consumed' = Consumed + k
  BY <1>1, <1>3, <1>4, <1>5, ConsumeKeeps
<1>7. Bytes = SubSeq(buffer, 1, consume)
  BY <1>2 DEF Bytes, Taken, ReadCompleted
<1>8. SubSeq(buffer, 1, consume) \in Seq(Alphabet) /\ Len(SubSeq(buffer, 1, consume)) = consume
  <2>1. consume \in 0..Len(buffer)
    BY <1>2, <1>3
  <2>2. buffer \in Seq(Alphabet)
    BY <1>3
  <2>. QED BY <2>1, <2>2, CutInTwo, ZenonT(30)
<1>9. Consumed + k >= Consumed
  BY <1>3, <1>4
<1>10. kind = "dynamic" => Bytes # <<>>
  BY <1>1, <1>2, <1>7, <1>8
<1>. QED BY <1>1, <1>2, <1>6, <1>7, <1>8, <1>9, <1>10

\* The steps of the peer, and the loss of the connection.
LEMMA PeerKeeps ==
  ASSUME PipeTyped, PeerStep \/ ConnectionLost
  PROVE  /\ PipeTyped' /\ Consumed' = Consumed
         /\ UNCHANGED <<buffer, reading, input, body, chunk, readerVars>>
<1>1. UNCHANGED <<buffer, reading, input, body, chunk, readerVars, number>>
  BY DEF PeerStep, Sends, PeerUnchanged, ConnectionLost
<1>2. PeerTyped /\ StreamTyped /\ number \in DOMAIN Scenarios
  BY DEF PipeTyped, PeerTyped
<1>3. PICK n \in Nat : n = Len(Script) /\ UNCHANGED Script
  <2>1. Len(Script) \in Nat
    BY <1>2, ScriptType
  <2>2. UNCHANGED Script
    BY <1>1 DEF Script, scenario
  <2>. QED BY <2>1, <2>2
<1>4. /\ next \in 1..(n + 1) /\ writes.ongoing \in BOOLEAN
      /\ writes.rest \in Seq(Seq(Alphabet))
      /\ writes = [ongoing |-> writes.ongoing, rest |-> writes.rest]
      /\ writes.ongoing => next \in 1..n /\ Item.kind # "bytes"
      /\ lost \in BOOLEAN /\ ended \in BOOLEAN
  BY <1>2, <1>3 DEF PeerTyped
<1>5. next' = next => UNCHANGED Item
  BY <1>3 DEF Item
<1>6. ASSUME SendBytes, PeerUnchanged
      PROVE  PeerTyped' /\ StreamTyped' /\ Consumed' = Consumed
  <2>1. /\ next \in 1..n /\ Item.kind = "bytes" /\ Put(Item.bytes)
        /\ next' = next + 1 /\ UNCHANGED <<writes, ended, lost>>
    BY <1>3, <1>4, <1>6 DEF SendBytes, PeerUnchanged
  <2>2. StreamTyped' /\ Consumed' = Consumed
    <3>1. Item.bytes \in Seq(Alphabet)
      BY <1>2, <1>3, <2>1, BytesType
    <3>. QED BY <1>1, <1>2, <2>1, <3>1, PutKeeps
  <2>3. ~writes.ongoing
    BY <1>4, <2>1
  <2>4. PeerTyped'
    BY <1>1, <1>2, <1>3, <1>4, <2>1, <2>3 DEF PeerTyped
  <2>. QED BY <2>2, <2>4
<1>7. ASSUME UNCHANGED <<bytes, wire>>
      PROVE  StreamTyped' /\ Consumed' = Consumed
  BY <1>1, <1>2, <1>7 DEF StreamTyped, Consumed, Stands
<1>8. ASSUME BeginFrame, PeerUnchanged
      PROVE  PeerTyped' /\ StreamTyped' /\ Consumed' = Consumed
  <2>1. /\ next \in 1..n /\ Item.kind # "bytes"
        /\ writes' = [ongoing |-> TRUE, rest |-> Written.writes]
        /\ UNCHANGED <<bytes, wire, next, ended, lost>>
    BY <1>3, <1>4, <1>8 DEF BeginFrame, PeerUnchanged
  <2>2. Written.writes \in Seq(Seq(Alphabet))
    BY <1>2, <1>3, <2>1, WrittenType
  <2>3. PeerTyped'
    BY <1>1, <1>2, <1>3, <1>4, <1>5, <2>1, <2>2 DEF PeerTyped
  <2>. QED BY <1>7, <2>1, <2>3
<1>9. ASSUME Write, PeerUnchanged
      PROVE  PeerTyped' /\ StreamTyped' /\ Consumed' = Consumed
  <2>1. /\ writes.ongoing /\ writes.rest # <<>> /\ Put(Head(writes.rest))
        /\ writes' = [ongoing |-> writes.ongoing, rest |-> Tail(writes.rest)]
        /\ UNCHANGED <<next, ended, lost>>
    BY <1>4, <1>9 DEF Write, PeerUnchanged
  <2>2. Head(writes.rest) \in Seq(Alphabet) /\ Tail(writes.rest) \in Seq(Seq(Alphabet))
    BY <1>4, <2>1, HeadTailProperties
  <2>3. StreamTyped' /\ Consumed' = Consumed
    BY <1>1, <1>2, <2>1, <2>2, PutKeeps
  <2>4. PeerTyped'
    BY <1>1, <1>2, <1>3, <1>4, <1>5, <2>1, <2>2 DEF PeerTyped
  <2>. QED BY <2>3, <2>4
<1>10. ASSUME EndFrame, PeerUnchanged
       PROVE  PeerTyped' /\ StreamTyped' /\ Consumed' = Consumed
  <2>1. UNCHANGED <<bytes, wire, lost>> /\ writes.ongoing
    BY <1>10 DEF EndFrame, PeerUnchanged
  <2>2. \/ next' = next + 1 /\ writes' = Idle /\ UNCHANGED ended
        \/ ended' = TRUE /\ UNCHANGED <<next, writes>>
    BY <1>10 DEF EndFrame
  <2>3. Idle \in [ongoing : BOOLEAN, rest : Seq(Seq(Alphabet))] /\ ~Idle.ongoing
    BY DEF Idle
  <2>4. CASE next' = next + 1 /\ writes' = Idle /\ UNCHANGED ended
    <3>1. next' \in 1..(n + 1) /\ next \in 1..n
      BY <1>4, <2>1, <2>4
    <3>. HIDE DEF Idle
    <3>2. PeerTyped'
      BY <1>1, <1>2, <1>3, <1>4, <2>1, <2>3, <2>4, <3>1 DEF PeerTyped
    <3>. QED BY <1>7, <2>1, <3>2
  <2>5. CASE ended' = TRUE /\ UNCHANGED <<next, writes>>
    <3>1. PeerTyped'
      BY <1>1, <1>2, <1>3, <1>4, <1>5, <2>1, <2>5 DEF PeerTyped
    <3>. QED BY <1>7, <2>1, <3>1
  <2>. QED BY <2>2, <2>4, <2>5
<1>11. ASSUME EndStream, PeerUnchanged
       PROVE  PeerTyped' /\ StreamTyped' /\ Consumed' = Consumed
  <2>1. ended' = TRUE /\ UNCHANGED <<bytes, wire, next, writes, lost>>
    BY <1>11 DEF EndStream, PeerUnchanged
  <2>2. PeerTyped'
    BY <1>1, <1>2, <1>3, <1>4, <1>5, <2>1 DEF PeerTyped
  <2>. QED BY <1>7, <2>1, <2>2
<1>12. ASSUME ConnectionLost
       PROVE  PeerTyped' /\ StreamTyped' /\ Consumed' = Consumed
  <2>1. ended' = TRUE /\ lost' = TRUE /\ UNCHANGED <<next, writes>>
    BY <1>12 DEF ConnectionLost
  <2>2. PICK k \in 0..Len(wire) :
          /\ wire' = SubSeq(wire, 1, k)
          /\ bytes' = SubSeq(bytes, 1, Len(bytes) - Len(wire) + k)
    BY <1>12 DEF ConnectionLost
  <2>3. StreamTyped' /\ Consumed' = Consumed
    BY <1>1, <1>2, <2>2, LossKeeps
  <2>4. PeerTyped'
    BY <1>1, <1>2, <1>3, <1>4, <1>5, <2>1 DEF PeerTyped
  <2>. QED BY <2>3, <2>4
<1>13. PeerTyped' /\ StreamTyped' /\ Consumed' = Consumed
  BY <1>6, <1>8, <1>9, <1>10, <1>11, <1>12 DEF PeerStep, Sends
<1>14. ReaderTyped' /\ Stages' /\ VersionKnown'
  <2>1. /\ UNCHANGED <<reading, input, body, chunk, session, loop, consumer, left, received, from>>
        /\ ReaderTyped /\ Stages /\ VersionKnown
    BY <1>1 DEF PipeTyped, readerVars
  <2>2. ReaderTyped'
    BY <2>1 DEF ReaderTyped
  <2>3. Stages'
    BY <2>1 DEF Stages
  <2>4. VersionKnown'
    BY <2>1 DEF VersionKnown, VersionHeader, Headers
  <2>. QED BY <2>2, <2>3, <2>4
<1>. QED BY <1>1, <1>13, <1>14 DEF PipeTyped

\* The reading end leaves the peer alone.
LEMMA ReaderLeavesPeer ==
  ASSUME PeerTyped, UNCHANGED <<peerVars, ended>>
  PROVE  PeerTyped'
BY DEF PeerTyped, peerVars, Script, Item, scenario

-----------------------------------------------------------------------------
(* The limits of a body.                                                    *)

\* What has been given of a body, and what it may still be given.
Bounds ==
  /\ loop = "frame" /\ input.status = "ready" => body.total = 0 /\ body.kind # "over"
  /\ loop = "body" =>
       /\ body.kind = "fixed" => body.total + body.remaining <= MaxBodyLength
       /\ body.kind = "dynamic" => body.total <= MaxBodyLength
       /\ chunk.status = "awaited" => Len(consumer.text) = body.total
       /\ chunk.status = "ok" =>
            /\ Len(chunk.bytes) <= MaxBodyChunkLength
            /\ Len(consumer.text) + Len(chunk.bytes) <= MaxBodyLength
            /\ body.kind # "over" => Len(consumer.text) + Len(chunk.bytes) = body.total

\* A step of the reader or of readFrame.  Each of its cases says what it does to the
\* operation, the body and the chunk.
LEMMA InputKeeps ==
  ASSUME PipeTyped, Bounds, InputProgress
  PROVE  PipeTyped' /\ Bounds' /\ Consumed' >= Consumed
<1>1. /\ UNCHANGED <<number, next, writes, lost, bytes, sent>>
      /\ UNCHANGED <<session, loop, consumer, left, acks, received, from>>
      /\ loop \in {"frame", "body"} /\ InputStep(session.started, session.version)
  BY DEF InputProgress, peerVars, readerVars
<1>2. PeerTyped /\ StreamTyped /\ ReaderTyped /\ Stages /\ VersionKnown
  BY DEF PipeTyped
<1>3. Consumed \in Nat
  BY <1>2 DEF StreamTyped
<1>4. MaxBodyLength \in Nat /\ MaxBodyChunkLength \in Nat
  BY FrameInputAssumption
<1>5. reading = "none" => ~InputStep(session.started, session.version)
  BY DEF InputStep, ReceiveChunk, Continues, ReadFixed, ReadEnd, ReadDynamic, SkipEmptyLine,
         ReadCommand, ReadHeaderLine, EndHeader, ReadFails, Completes
<1>6. /\ loop = "frame" => reading \in {"command", "header"} /\ input.status = "reading"
      /\ loop = "body" => reading \in {"fixed", "end", "dynamic"} /\ chunk.status = "awaited"
      /\ reading \in {"command", "header"} => loop = "frame" /\ chunk.status # "awaited"
      /\ reading \in {"fixed", "end", "dynamic"} => loop = "body" /\ chunk.status = "awaited"
  BY <1>1, <1>2, <1>5 DEF Stages
<1>7. ASSUME NEW kind, kind # "none", Completes(kind)
      PROVE  /\ PeerTyped' /\ StreamTyped' /\ Consumed' >= Consumed
             /\ Bytes \in Seq(Alphabet)
             /\ kind = "fixed" => /\ Len(Bytes) <= body.remaining
                                  /\ Len(Bytes) <= MaxBodyChunkLength
             /\ kind = "dynamic" => Bytes # <<>> /\ Len(Bytes) <= MaxBodyChunkLength
  <2>1. PeerTyped'
    BY <1>1, <1>2, <1>7, ReaderLeavesPeer DEF peerVars, Completes
  <2>. QED BY <1>1, <1>7, <2>1, CompletesKeeps
<1>8. UNCHANGED input => VersionKnown'
  BY <1>1, <1>2 DEF VersionKnown, VersionHeader, Headers
<1>9. loop # "body" => VersionKnown'
  BY <1>1 DEF VersionKnown
<1>10. CASE ReceiveChunk
  <2>1. UNCHANGED <<ended, reading, input, body, chunk>>
    BY <1>10 DEF ReceiveChunk
  <2>2. StreamTyped' /\ Consumed' = Consumed
    <3>1. PICK n \in DOMAIN wire :
            /\ buffer' = buffer \o SubSeq(wire, 1, n)
            /\ wire' = SubSeq(wire, n + 1, Len(wire))
      BY <1>10 DEF ReceiveChunk
    <3>2. n \in 1..Len(wire)
      BY <1>2 DEF StreamTyped
    <3>. QED BY <1>1, <1>2, <3>1, <3>2, ReceiveKeeps
  <2>3. PeerTyped'
    BY <1>1, <1>2, <2>1, ReaderLeavesPeer DEF peerVars
  <2>4. ReaderTyped' /\ Stages'
    BY <1>1, <1>2, <2>1 DEF ReaderTyped, Stages
  <2>5. Bounds'
    BY <1>1, <2>1 DEF Bounds
  <2>. QED BY <1>3, <1>8, <2>1, <2>2, <2>3, <2>4, <2>5 DEF PipeTyped
<1>11. CASE ReadFixed
  <2>1. /\ Completes("fixed") /\ reading' = "none" /\ chunk' = Yields(Bytes)
        /\ body' = [body EXCEPT !.remaining = @ - Len(Bytes), !.total = @ + Len(Bytes)]
        /\ UNCHANGED input
    BY <1>11 DEF ReadFixed
  <2>2. /\ PeerTyped' /\ StreamTyped' /\ Consumed' >= Consumed /\ Bytes \in Seq(Alphabet)
        /\ Len(Bytes) <= body.remaining /\ Len(Bytes) <= MaxBodyChunkLength
    BY <1>7, <2>1
  <2>3. PICK n \in Nat, r \in Nat, t \in Nat :
          n = Len(Bytes) /\ r = body.remaining /\ t = body.total /\ n <= r
    BY <1>2, <2>2 DEF ReaderTyped
  <2>4. reading = "fixed" /\ loop = "body" /\ body.kind = "fixed"
    BY <1>2, <1>6, <2>1 DEF Completes, Stages
  <2>5. body' = [kind |-> "fixed", remaining |-> r - n, total |-> t + n]
    BY <1>2, <2>1, <2>3, <2>4 DEF ReaderTyped
  <2>6. chunk' = [status |-> "ok", bytes |-> Bytes]
    BY <2>1 DEF Yields
  <2>7. ReaderTyped'
    BY <1>1, <1>2, <2>1, <2>2, <2>3, <2>5, <2>6 DEF ReaderTyped
  <2>8. Stages'
    BY <1>1, <2>1, <2>4, <2>6 DEF Stages
  <2>9. Bounds'
    <3>1. t + r <= MaxBodyLength /\ Len(consumer.text) = t
      BY <1>6, <2>3, <2>4 DEF Bounds
    <3>2. (t + n) + (r - n) <= MaxBodyLength /\ t + n <= MaxBodyLength
      BY <1>4, <2>3, <3>1
    <3>. QED BY <1>1, <2>2, <2>3, <2>4, <2>5, <2>6, <3>1, <3>2 DEF Bounds
  <2>. QED BY <1>8, <2>1, <2>2, <2>7, <2>8, <2>9 DEF PipeTyped
<1>12. CASE ReadEnd
  <2>1. /\ Completes("end") /\ reading' = "none" /\ body' = Over
        /\ chunk' = IF IsEnd(Bytes) THEN Yields(<<>>) ELSE Failed
        /\ UNCHANGED input
    BY <1>12 DEF ReadEnd
  <2>2. PeerTyped' /\ StreamTyped' /\ Consumed' >= Consumed
    BY <1>7, <2>1
  <2>4. reading = "end" /\ loop = "body" /\ body.kind = "fixed"
    BY <1>2, <1>6, <2>1 DEF Completes, Stages
  <2>5. body' = [kind |-> "over", remaining |-> 0, total |-> 0]
    BY <2>1 DEF Over
  <2>6. \/ chunk' = [status |-> "ok", bytes |-> <<>>]
        \/ chunk' = [status |-> "failed", bytes |-> <<>>]
    BY <2>1 DEF Yields, Failed
  <2>7. ReaderTyped'
    <3>1. body' \in [kind : {"over", "fixed", "dynamic"}, remaining : Nat, total : Nat]
      BY <2>5
    <3>2. chunk' \in [status : {"none", "awaited", "ok", "failed", "done"}, bytes : Seq(Alphabet)]
      <4>1. PICK s \in {"ok", "failed"} : chunk' = [status |-> s, bytes |-> <<>>]
        BY <2>6
      <4>. QED BY <4>1
    <3>. QED BY <1>1, <1>2, <2>1, <3>1, <3>2 DEF ReaderTyped
  <2>8. Stages'
    BY <1>1, <2>1, <2>4, <2>6 DEF Stages
  <2>9. Bounds'
    <3>1. PICK t \in Nat, r \in Nat : t = body.total /\ r = body.remaining
      BY <1>2 DEF ReaderTyped
    <3>2. t + r <= MaxBodyLength /\ Len(consumer.text) = t
      BY <1>6, <2>4, <3>1 DEF Bounds
    <3>3. t + 0 <= MaxBodyLength
      BY <1>4, <3>1, <3>2
    <3>. QED BY <1>1, <1>4, <2>4, <2>5, <2>6, <3>2, <3>3 DEF Bounds
  <2>. QED BY <1>8, <2>1, <2>2, <2>7, <2>8, <2>9 DEF PipeTyped
<1>13. CASE ReadDynamic
  <2>. DEFINE last == Last(Bytes) = NUL
              yielded == IF last THEN Front(Bytes) ELSE Bytes
              total == body.total + Len(yielded)
  <2>1. /\ Completes("dynamic") /\ reading' = "none"
        /\ chunk' = IF TooLarge(total) THEN Failed ELSE Yields(yielded)
        /\ body' = IF TooLarge(total) \/ last THEN Over ELSE [body EXCEPT !.total = total]
        /\ UNCHANGED input
    BY <1>13 DEF ReadDynamic
  <2>2. /\ PeerTyped' /\ StreamTyped' /\ Consumed' >= Consumed /\ Bytes \in Seq(Alphabet)
        /\ Bytes # <<>> /\ Len(Bytes) <= MaxBodyChunkLength
    BY <1>7, <2>1
  <2>3. yielded \in Seq(Alphabet) /\ Len(yielded) <= MaxBodyChunkLength
    <3>1. PICK n \in Nat : n = Len(Bytes)
      BY <2>2
    <3>2. n >= 1
      BY <2>2, <3>1
    <3>3. Front(Bytes) = SubSeq(Bytes, 1, n - 1)
      BY <3>1 DEF Front
    <3>4. SubSeq(Bytes, 1, n - 1) \in Seq(Alphabet) /\ Len(SubSeq(Bytes, 1, n - 1)) = n - 1
      <4>1. n - 1 \in 0..Len(Bytes)
        BY <3>1, <3>2
      <4>. QED BY <2>2, <4>1, CutInTwo
    <3>5. n - 1 <= MaxBodyChunkLength
      BY <1>4, <2>2, <3>1
    <3>. QED BY <2>2, <3>3, <3>4, <3>5
  <2>4. reading = "dynamic" /\ loop = "body" /\ body.kind = "dynamic"
    BY <1>2, <1>6, <2>1 DEF Completes, Stages
  <2>. HIDE DEF yielded, last
  <2>5. PICK n \in Nat, r \in Nat, t \in Nat :
          n = Len(yielded) /\ r = body.remaining /\ t = body.total
    BY <1>2, <2>3 DEF ReaderTyped
  <2>6. \/ /\ t + n > MaxBodyLength
           /\ body' = [kind |-> "over", remaining |-> 0, total |-> 0]
           /\ chunk' = [status |-> "failed", bytes |-> <<>>]
        \/ /\ t + n <= MaxBodyLength
           /\ \/ body' = [kind |-> "over", remaining |-> 0, total |-> 0]
              \/ body' = [kind |-> "dynamic", remaining |-> r, total |-> t + n]
           /\ chunk' = [status |-> "ok", bytes |-> yielded]
    <3>1. [body EXCEPT !.total = t + n] = [kind |-> "dynamic", remaining |-> r, total |-> t + n]
      <4>1. body = [kind |-> "dynamic", remaining |-> r, total |-> t]
        BY <1>2, <2>4, <2>5 DEF ReaderTyped
      <4>. QED BY <4>1
    <3>. QED BY <1>4, <2>1, <2>5, <3>1 DEF TooLarge, Over, Failed, Yields
  <2>7. ReaderTyped'
    <3>1. body' \in [kind : {"over", "fixed", "dynamic"}, remaining : Nat, total : Nat]
      <4>1. PICK k \in {"over", "dynamic"}, m \in Nat, u \in Nat :
              body' = [kind |-> k, remaining |-> m, total |-> u]
        <5>1. t + n \in Nat /\ 0 \in Nat
          OBVIOUS
        <5>. QED BY <2>6, <5>1
      <4>. QED BY <4>1
    <3>2. chunk' \in [status : {"none", "awaited", "ok", "failed", "done"}, bytes : Seq(Alphabet)]
      <4>1. PICK s \in {"ok", "failed"}, b \in Seq(Alphabet) : chunk' = [status |-> s, bytes |-> b]
        <5>1. <<>> \in Seq(Alphabet)
          OBVIOUS
        <5>. QED BY <2>3, <2>6, <5>1
      <4>. QED BY <4>1
    <3>. QED BY <1>1, <1>2, <2>1, <3>1, <3>2 DEF ReaderTyped
  <2>8. Stages'
    BY <1>1, <2>1, <2>4, <2>6 DEF Stages
  <2>9. Bounds'
    <3>1. Len(consumer.text) = t
      BY <1>6, <2>4, <2>5 DEF Bounds
    <3>. QED BY <1>1, <2>3, <2>4, <2>5, <2>6, <3>1 DEF Bounds
  <2>. QED BY <1>8, <2>1, <2>2, <2>7, <2>8, <2>9 DEF PipeTyped
\* readFrame is at work.
<1>14. ASSUME loop = "frame", UNCHANGED chunk,
              input' \in [status : {"reading", "ready", "failed"}, command : Seq(Alphabet),
                          lines : Lines(Alphabet)],
              \/ reading' \in {"command", "header"} /\ input'.status = "reading" /\ UNCHANGED body
              \/ reading' = "none" /\ input'.status = "failed" /\ UNCHANGED body
              \/ /\ reading' = "none" /\ input'.status = "ready"
                 /\ body' \in [kind : {"fixed", "dynamic"}, remaining : Nat, total : {0}]
       PROVE  ReaderTyped' /\ Stages' /\ Bounds' /\ VersionKnown'
  <2>1. body' \in [kind : {"over", "fixed", "dynamic"}, remaining : Nat, total : Nat]
    BY <1>2, <1>14 DEF ReaderTyped
  <2>2. ReaderTyped'
    BY <1>1, <1>2, <1>14, <2>1 DEF ReaderTyped
  <2>3. Stages'
    BY <1>1, <1>6, <1>14 DEF Stages
  <2>4. Bounds'
    BY <1>1, <1>14 DEF Bounds
  <2>. QED BY <1>9, <1>14, <2>2, <2>3, <2>4
<1>15. /\ input = [status |-> input.status, command |-> input.command, lines |-> input.lines]
       /\ input.command \in Seq(Alphabet) /\ input.lines \in Lines(Alphabet)
  BY <1>2 DEF ReaderTyped
<1>16. ReadFrameFails =>
         /\ input' \in [status : {"reading", "ready", "failed"}, command : Seq(Alphabet),
                        lines : Lines(Alphabet)]
         /\ reading' = "none" /\ input'.status = "failed"
  BY <1>15 DEF ReadFrameFails
<1>17. CASE SkipEmptyLine(session.started)
  <2>1. Completes("command") /\ UNCHANGED <<body, chunk>>
        /\ (UNCHANGED <<reading, input>> \/ ReadFrameFails)
    BY <1>17 DEF SkipEmptyLine
  <2>2. reading = "command" /\ loop = "frame" /\ input.status = "reading"
    BY <1>6, <2>1 DEF Completes
  <2>3. ReaderTyped' /\ Stages' /\ Bounds' /\ VersionKnown'
    BY <1>14, <1>15, <1>16, <2>1, <2>2
  <2>. QED BY <1>7, <2>1, <2>3 DEF PipeTyped
<1>18. CASE ReadCommand
  <2>1. /\ Completes("command") /\ UNCHANGED <<body, chunk>> /\ reading' = "header"
        /\ input' = [input EXCEPT !.command = Bytes]
    BY <1>18 DEF ReadCommand
  <2>2. reading = "command" /\ loop = "frame" /\ input.status = "reading"
    BY <1>6, <2>1 DEF Completes
  <2>3. Bytes \in Seq(Alphabet)
    BY <1>7, <2>1
  <2>4. ReaderTyped' /\ Stages' /\ Bounds' /\ VersionKnown'
    BY <1>14, <1>15, <2>1, <2>2, <2>3
  <2>. QED BY <1>7, <2>1, <2>4 DEF PipeTyped
<1>19. CASE ReadHeaderLine(session.version)
  <2>. DEFINE lines == Append(input.lines, HeaderLine(Bytes, session.version))
  <2>1. /\ Completes("header") /\ UNCHANGED <<body, chunk>>
        /\ \/ ReadFrameFails
           \/ /\ Separators(Bytes) # {} /\ UNCHANGED reading
              /\ input' = [input EXCEPT !.lines = lines]
    BY <1>19 DEF ReadHeaderLine
  <2>2. reading = "header" /\ loop = "frame" /\ input.status = "reading"
    BY <1>6, <2>1 DEF Completes
  <2>3. Bytes \in Seq(Alphabet) /\ session.version \in Versions
    BY <1>2, <1>7, <2>1 DEF ReaderTyped
  <2>4. Separators(Bytes) # {} => lines \in Lines(Alphabet)
    <3>1. ASSUME NEW line \in Seq(Alphabet) \X Seq(Alphabet)
          PROVE  Append(input.lines, line) \in Lines(Alphabet)
      BY <1>15 DEF Lines
    <3>2. Separators(Bytes) # {} =>
            HeaderLine(Bytes, session.version) \in Seq(Alphabet) \X Seq(Alphabet)
      BY <2>3, HeaderLineType
    <3>. QED BY <3>1, <3>2
  <2>. HIDE DEF lines
  <2>5. ReaderTyped' /\ Stages' /\ Bounds' /\ VersionKnown'
    BY <1>14, <1>15, <1>16, <2>1, <2>2, <2>4
  <2>. QED BY <1>7, <2>1, <2>5 DEF PipeTyped
<1>20. CASE EndHeader
  <2>1. /\ Completes("header") /\ UNCHANGED chunk /\ reading' = "none"
        /\ input' = [input EXCEPT !.status = "ready"]
        /\ body' = BodyOf(NewHeaders(input.lines))
    BY <1>20 DEF EndHeader
  <2>2. reading = "header" /\ loop = "frame" /\ input.status = "reading"
    BY <1>6, <2>1 DEF Completes
  <2>3. body' \in [kind : {"fixed", "dynamic"}, remaining : Nat, total : {0}]
    BY <1>15, <2>1, AlphabetHas, NewHeadersType, BodyOfType
  <2>4. ReaderTyped' /\ Stages' /\ Bounds' /\ VersionKnown'
    BY <1>14, <1>15, <2>1, <2>2, <2>3
  <2>. QED BY <1>7, <2>1, <2>4 DEF PipeTyped
<1>21. CASE ReadFails
  <2>1. UNCHANGED <<wire, ended, buffer>>
    BY <1>21 DEF ReadFails
  <2>2. PeerTyped' /\ StreamTyped' /\ Consumed' = Consumed
    <3>1. PeerTyped'
      BY <1>1, <1>2, <2>1, ReaderLeavesPeer DEF peerVars
    <3>. QED BY <1>1, <1>2, <2>1, <3>1 DEF StreamTyped, Consumed, Stands
  <2>3. CASE reading \in {"command", "header"}
    <3>1. ReadFrameFails /\ UNCHANGED <<body, chunk>>
      BY <1>21, <2>3 DEF ReadFails
    <3>2. ReaderTyped' /\ Stages' /\ Bounds' /\ VersionKnown'
      BY <1>6, <1>14, <1>16, <2>3, <3>1
    <3>. QED BY <1>3, <2>2, <3>2 DEF PipeTyped
  <2>4. CASE reading \notin {"command", "header"}
    <3>1. reading' = "none" /\ body' = Over /\ chunk' = Failed /\ UNCHANGED input
      BY <1>21, <2>4 DEF ReadFails
    <3>2. loop = "body"
      BY <1>1, <1>6, <2>4
    <3>3. ReaderTyped'
      BY <1>1, <1>2, <3>1 DEF ReaderTyped, Over, Failed
    <3>4. Stages'
      BY <1>1, <3>1, <3>2 DEF Stages, Over, Failed
    <3>5. Bounds'
      BY <1>1, <3>1, <3>2 DEF Bounds, Over, Failed
    <3>. QED BY <1>3, <1>8, <2>2, <3>1, <3>3, <3>4, <3>5 DEF PipeTyped
  <2>. QED BY <2>3, <2>4
<1>. QED BY <1>1, <1>10, <1>11, <1>12, <1>13, <1>17, <1>18, <1>19, <1>20, <1>21 DEF InputStep

\* The next() of a body's generator.
LEMMA PullCases ==
  ASSUME ReaderTyped, PullBody
  PROVE  \/ /\ body.kind = "over" /\ UNCHANGED body
            /\ reading' = "none" /\ chunk' = Done
         \/ /\ body.kind = "fixed" /\ body' = Over
            /\ reading' = "none" /\ chunk' = Failed
         \/ /\ body.kind = "fixed" /\ body.remaining <= MaxBodyLength /\ UNCHANGED body
            /\ chunk' = Awaited
            /\ \/ body.remaining > 0 /\ reading' = "fixed"
               \/ reading' = "end"
         \/ /\ body.kind = "dynamic" /\ UNCHANGED body
            /\ chunk' = Awaited /\ reading' = "dynamic"
<1>1. body.kind \in {"over", "fixed", "dynamic"} /\ body.remaining \in Nat
  BY DEF ReaderTyped
<1>2. CASE body.kind = "over"
  BY <1>2 DEF PullBody
<1>3. CASE body.kind = "dynamic"
  BY <1>3 DEF PullBody
<1>4. CASE body.kind = "fixed" /\ body.remaining > MaxBodyLength
  BY <1>4 DEF PullBody, TooLarge
<1>5. CASE body.kind = "fixed" /\ ~(body.remaining > MaxBodyLength)
  <2>1. body.remaining <= MaxBodyLength
    BY <1>1, <1>5, FrameInputAssumption
  <2>. QED BY <1>5, <2>1 DEF PullBody, TooLarge
<1>. QED BY <1>1, <1>2, <1>3, <1>4, <1>5

\* What the next() of a body generator leaves behind.
LEMMA PullTypes ==
  ASSUME ReaderTyped, PullBody
  PROVE  /\ reading' \in {"none", "fixed", "end", "dynamic"}
         /\ body' \in [kind : {"over", "fixed", "dynamic"}, remaining : Nat, total : Nat]
         /\ chunk' \in [status : {"awaited", "failed", "done"}, bytes : Seq(Alphabet)]
         /\ chunk'.status = "awaited" <=> reading' \in {"fixed", "end", "dynamic"}
         /\ reading' = "fixed" => body'.kind = "fixed" /\ body'.remaining > 0
         /\ reading' = "end" => body'.kind = "fixed"
         /\ reading' = "dynamic" => body'.kind = "dynamic"
<1>1. body \in [kind : {"over", "fixed", "dynamic"}, remaining : Nat, total : Nat]
  BY DEF ReaderTyped
<1>2. <<>> \in Seq(Alphabet)
  OBVIOUS
<1>3. /\ Over \in [kind : {"over", "fixed", "dynamic"}, remaining : Nat, total : Nat]
      /\ {Done, Failed, Awaited} \subseteq
           [status : {"awaited", "failed", "done"}, bytes : Seq(Alphabet)]
      /\ Awaited.status = "awaited" /\ Done.status # "awaited" /\ Failed.status # "awaited"
  BY <1>2 DEF Over, Done, Failed, Awaited
<1>. HIDE DEF Over, Done, Failed, Awaited
<1>. QED BY <1>1, <1>3, PullCases

\* A body is given to a reader.
LEMMA GiveBodyKeeps ==
  ASSUME PipeTyped, Bounds, FrameReady, NEW reader, GiveBody(reader),
         reader \in {"receipt", "connected", "error", "server",
                     "readEmptyBody", "readString", "discardMessages"},
         session' \in [role : {"connect", "accept", "client", "server"},
                       started : BOOLEAN, version : Versions],
         reader = "connected" => \E version \in Versions : VersionHeader = <<version>>
  PROVE  PipeTyped' /\ Bounds' /\ Consumed' = Consumed
<1>1. /\ UNCHANGED <<number, next, writes, lost, bytes, sent>>
      /\ UNCHANGED <<wire, ended, buffer, input, left, received, from>>
      /\ PullBody /\ loop' = "body" /\ consumer' = [reader |-> reader, text |-> <<>>]
      /\ loop = "frame" /\ input.status = "ready"
  BY DEF GiveBody, peerVars, FrameReady
<1>2. PeerTyped /\ StreamTyped /\ ReaderTyped
  BY DEF PipeTyped
<1>3. PeerTyped' /\ StreamTyped' /\ Consumed' = Consumed
  BY <1>1, <1>2, ReaderLeavesPeer DEF peerVars, StreamTyped, Consumed, Stands
<1>4. /\ reading' \in {"none", "fixed", "end", "dynamic"}
      /\ body' \in [kind : {"over", "fixed", "dynamic"}, remaining : Nat, total : Nat]
      /\ chunk' \in [status : {"awaited", "failed", "done"}, bytes : Seq(Alphabet)]
      /\ chunk'.status = "awaited" <=> reading' \in {"fixed", "end", "dynamic"}
      /\ reading' = "fixed" => body'.kind = "fixed" /\ body'.remaining > 0
      /\ reading' = "end" => body'.kind = "fixed"
      /\ reading' = "dynamic" => body'.kind = "dynamic"
  BY <1>1, <1>2, PullTypes
<1>5. consumer' \in [reader : {"none", "receipt", "connected", "error", "server",
                               "readEmptyBody", "readString", "discardMessages"},
                     text : Seq(Alphabet)]
  <2>1. <<>> \in Seq(Alphabet)
    OBVIOUS
  <2>. QED BY <1>1, <2>1
<1>6. chunk' \in [status : {"none", "awaited", "ok", "failed", "done"}, bytes : Seq(Alphabet)]
  BY <1>4
<1>7. ReaderTyped'
  BY <1>1, <1>2, <1>4, <1>5, <1>6 DEF ReaderTyped
<1>8. Stages'
  BY <1>1, <1>4 DEF Stages
<1>9. VersionKnown'
  BY <1>1 DEF VersionKnown, VersionHeader, Headers
<1>10. Bounds'
  <2>1. PICK t \in Nat, r \in Nat : t = body.total /\ r = body.remaining /\ t = 0
    BY <1>1, <1>2 DEF Bounds, ReaderTyped
  <2>2. body.kind # "over" /\ MaxBodyLength \in Nat
    BY <1>1, FrameInputAssumption DEF Bounds
  <2>3. Len(consumer'.text) = 0
    BY <1>1
  <2>4. chunk'.status # "ok"
    BY <1>4
  <2>5. CASE body' = Over
    BY <1>1, <1>2, <2>2, <2>3, <2>4, <2>5, PullCases DEF Bounds, Over, Awaited, Failed
  <2>6. CASE UNCHANGED body
    <3>1. body.kind = "fixed" => r <= MaxBodyLength
      BY <1>1, <1>2, <2>1, <2>2, <2>6, PullCases DEF Over
    <3>2. body.kind = "fixed" => t + r <= MaxBodyLength
      BY <2>1, <3>1
    <3>3. t <= MaxBodyLength
      BY <2>1, <2>2
    <3>4. /\ body' = body /\ body'.total = t /\ body'.remaining = r /\ loop' = "body"
          /\ Len(consumer'.text) = t
      BY <1>1, <2>1, <2>3, <2>6
    <3>. QED BY <2>4, <3>2, <3>3, <3>4 DEF Bounds
  <2>. QED BY <1>1, <1>2, <2>5, <2>6, PullCases
<1>. QED BY <1>3, <1>7, <1>8, <1>9, <1>10 DEF PipeTyped

\* The steps that leave the stream and the generator alone.
LEMMA QuietStepKeeps ==
  ASSUME PipeTyped, Bounds, UNCHANGED <<peerVars, wire, ended, buffer, reading, input, chunk>>,
         reading = "none", loop' \in {"idle", "closed", "abandoned"},
         left' \in {"whole", "failed", "skipped", "unread", "refused"},
         UNCHANGED <<consumer, from>>, body' = Over \/ UNCHANGED body,
         session' \in [role : {"connect", "accept", "client", "server"},
                       started : BOOLEAN, version : Versions],
         received' \in Seq(Entries)
  PROVE  PipeTyped' /\ Bounds' /\ Consumed' = Consumed
<1>1. PeerTyped /\ StreamTyped /\ ReaderTyped /\ Stages
  BY DEF PipeTyped
<1>2. UNCHANGED <<number, next, writes, lost, bytes, sent>>
  BY DEF peerVars
<1>3. PeerTyped' /\ StreamTyped' /\ Consumed' = Consumed
  BY <1>1, <1>2, ReaderLeavesPeer DEF StreamTyped, Consumed, Stands
<1>4. body' \in [kind : {"over", "fixed", "dynamic"}, remaining : Nat, total : Nat]
  BY <1>1 DEF ReaderTyped, Over
<1>5. ReaderTyped'
  BY <1>1, <1>4 DEF ReaderTyped
<1>6. Stages' /\ VersionKnown' /\ Bounds'
  BY <1>1 DEF Stages, VersionKnown, Bounds
<1>. QED BY <1>3, <1>5, <1>6 DEF PipeTyped

-----------------------------------------------------------------------------
(* Where frames begin, and the invariant.                                   *)

\* Where the last frame that was read ended.
LastTo == EndBefore(Len(received) + 1)

\* A frame begins where the last one ended if that one was read whole, and
\* somewhere behind it if not.
Aligned ==
  /\ LastTo <= Consumed
  /\ loop = "idle" /\ left = "whole" => Consumed = LastTo
  /\ loop \in {"frame", "body"} => IF left = "whole" THEN from = LastTo + 1 ELSE from > LastTo
  /\ loop \in {"idle", "frame", "body"} => left \in {"whole", "failed", "skipped"}
  /\ \A k \in 1..Len(received) :
       IF received[k].after = "whole" THEN received[k].from = EndBefore(k) + 1
                                      ELSE received[k].from > EndBefore(k)

\* The inductive invariant.
PipeInv == PipeTyped /\ Bounds /\ Aligned

\* A reader takes a chunk and asks for the next.
LEMMA TakeChunkKeeps ==
  ASSUME PipeTyped, Bounds, TakeChunk
  PROVE  PipeTyped' /\ Bounds' /\ Consumed' = Consumed
<1>1. /\ UNCHANGED <<number, next, writes, lost, bytes, sent>>
      /\ UNCHANGED <<wire, ended, buffer, input, session, loop, left, received, from>>
      /\ PullBody /\ loop = "body" /\ chunk.status = "ok"
      /\ consumer' = [consumer EXCEPT !.text = @ \o chunk.bytes]
  BY DEF TakeChunk, peerVars
<1>2. PeerTyped /\ StreamTyped /\ ReaderTyped /\ VersionKnown
  BY DEF PipeTyped
<1>3. PeerTyped' /\ StreamTyped' /\ Consumed' = Consumed
  BY <1>1, <1>2, ReaderLeavesPeer DEF peerVars, StreamTyped, Consumed, Stands
<1>4. /\ reading' \in {"none", "fixed", "end", "dynamic"}
      /\ body' \in [kind : {"over", "fixed", "dynamic"}, remaining : Nat, total : Nat]
      /\ chunk' \in [status : {"awaited", "failed", "done"}, bytes : Seq(Alphabet)]
      /\ chunk'.status = "awaited" <=> reading' \in {"fixed", "end", "dynamic"}
      /\ reading' = "fixed" => body'.kind = "fixed" /\ body'.remaining > 0
      /\ reading' = "end" => body'.kind = "fixed"
      /\ reading' = "dynamic" => body'.kind = "dynamic"
  BY <1>1, <1>2, PullTypes
<1>5. PICK text \in Seq(Alphabet), more \in Seq(Alphabet) :
        text = consumer.text /\ more = chunk.bytes
  BY <1>2 DEF ReaderTyped
<1>6. text \o more \in Seq(Alphabet) /\ Len(text \o more) = Len(text) + Len(more)
  BY JoinOfTwo, Zenon
<1>7. /\ consumer' = [reader |-> consumer.reader, text |-> text \o more]
      /\ consumer.reader \in {"none", "receipt", "connected", "error", "server",
                              "readEmptyBody", "readString", "discardMessages"}
  BY <1>1, <1>2, <1>5 DEF ReaderTyped
<1>8. consumer' \in [reader : {"none", "receipt", "connected", "error", "server",
                               "readEmptyBody", "readString", "discardMessages"},
                     text : Seq(Alphabet)]
  BY <1>6, <1>7
<1>9. chunk' \in [status : {"none", "awaited", "ok", "failed", "done"}, bytes : Seq(Alphabet)]
  BY <1>4
<1>10. ReaderTyped'
  BY <1>1, <1>2, <1>4, <1>8, <1>9 DEF ReaderTyped
<1>11. Stages'
  BY <1>1, <1>4 DEF Stages
<1>12. VersionKnown'
  BY <1>1, <1>2, <1>7 DEF VersionKnown, VersionHeader, Headers
<1>13. Bounds'
  <2>1. chunk'.status # "ok" /\ loop' = "body"
    BY <1>1, <1>4
  <2>2. CASE body' = Over
    <3>1. body'.kind = "over" /\ (chunk'.status = "awaited" => FALSE)
      BY <1>1, <1>2, <1>4, <2>2, PullCases DEF Over, Awaited, Failed, Done
    <3>. QED BY <2>1, <3>1 DEF Bounds
  <2>3. CASE UNCHANGED body
    <3>1. body.kind # "over" => Len(text) + Len(more) = body.total
      BY <1>1, <1>5 DEF Bounds
    <3>2. chunk'.status = "awaited" => body.kind # "over"
      BY <1>1, <1>2, <1>4, <2>3, PullCases DEF Over, Awaited, Failed, Done
    <3>3. Len(consumer'.text) = Len(text) + Len(more)
      BY <1>6, <1>7
    <3>4. /\ body.kind = "fixed" => body.total + body.remaining <= MaxBodyLength
          /\ body.kind = "dynamic" => body.total <= MaxBodyLength
      BY <1>1 DEF Bounds
    <3>. QED BY <2>1, <2>3, <3>1, <3>2, <3>3, <3>4 DEF Bounds
  <2>. QED BY <1>1, <1>2, <2>2, <2>3, PullCases
<1>. QED BY <1>3, <1>10, <1>11, <1>12, <1>13 DEF PipeTyped

\* A frame that has been read to its end.
LEMMA EntryType ==
  ASSUME PipeTyped
  PROVE  /\ Entry \in Entries
         /\ Entry.from = from /\ Entry.to = Consumed /\ Entry.after = left
<1>1. ReaderTyped /\ Consumed \in Nat
  BY DEF PipeTyped, StreamTyped
<1>2. NewHeaders(input.lines) \in HeaderTables(Alphabet)
  BY <1>1, AlphabetHas, NewHeadersType DEF ReaderTyped
<1>3. Headers.lines \in Lines(Alphabet)
  BY <1>2 DEF Headers, HeaderTables
<1>. QED BY <1>1, <1>3 DEF Entry, Entries, ReaderTyped, Command

\* The session after a body: VersionKnown gives CONNECTED its version.
LEMMA SessionAfterBodyType ==
  ASSUME PipeTyped, loop = "body"
  PROVE  SessionAfterBody \in [role : {"connect", "accept", "client", "server"},
                               started : BOOLEAN, version : Versions]
<1>1. /\ session \in [role : {"connect", "accept", "client", "server"},
                      started : BOOLEAN, version : Versions]
      /\ scenario.version \in Versions
  BY ScriptType DEF PipeTyped, PeerTyped, ReaderTyped
<1>2. CASE consumer.reader = "connected"
  <2>1. PICK version \in Versions : VersionHeader = <<version>>
    BY <1>2 DEF PipeTyped, VersionKnown
  <2>2. SessionAfterBody = [session EXCEPT !.role = "client", !.version = version]
    BY <1>2, <2>1 DEF SessionAfterBody
  <2>. QED BY <1>1, <2>2
<1>3. CASE consumer.reader = "server"
  <2>1. SessionAfterBody = [started |-> TRUE, version |-> scenario.version, role |-> "server"]
    BY <1>3 DEF SessionAfterBody
  <2>. QED BY <1>1, <2>1
<1>4. CASE consumer.reader \notin {"connected", "server"}
  BY <1>1, <1>4 DEF SessionAfterBody
<1>. QED BY <1>2, <1>3, <1>4

\* The end of the last frame is a position.
LEMMA LastToType ==
  ASSUME PipeTyped
  PROVE  LastTo \in Nat
<1>1. received \in Seq(Entries)
  BY DEF PipeTyped, ReaderTyped
<1>2. PICK n \in Nat : n = Len(received)
  BY <1>1
<1>3. CASE n = 0
  BY <1>2, <1>3 DEF LastTo, EndBefore
<1>4. CASE n # 0
  <2>1. n \in 1..Len(received) /\ n + 1 # 1 /\ (n + 1) - 1 = n
    BY <1>2, <1>4
  <2>2. received[n] \in Entries
    BY <1>1, <2>1
  <2>3. received[n].to \in Nat
    BY <2>2 DEF Entries
  <2>. QED BY <1>2, <2>1, <2>3 DEF LastTo, EndBefore
<1>. QED BY <1>3, <1>4

\* No frame is read to its end.
LEMMA AlignedKept ==
  ASSUME PipeTyped, PipeTyped', Aligned, UNCHANGED received,
         \/ /\ Consumed' >= Consumed /\ UNCHANGED <<loop, left, from>>
            /\ loop = "idle" => Consumed' = Consumed
         \/ /\ Consumed' = Consumed /\ loop' \in {"frame", "body"} /\ loop = "frame"
            /\ UNCHANGED <<left, from>>
         \/ /\ Consumed' = Consumed /\ loop' = "idle" /\ left' \in {"failed", "skipped"}
         \/ /\ Consumed' = Consumed /\ loop' \in {"closed", "abandoned"}
         \/ /\ Consumed' = Consumed /\ loop = "idle" /\ loop' = "frame"
            /\ from' = Consumed + 1 /\ UNCHANGED left
  PROVE  Aligned'
<1>1. Consumed \in Nat /\ Consumed' \in Nat /\ UNCHANGED LastTo /\ received \in Seq(Entries)
  BY DEF PipeTyped, StreamTyped, LastTo, EndBefore, ReaderTyped
<1>2. LastTo \in Nat
  BY LastToType
<1>3. PICK c \in Nat, d \in Nat, l \in Nat :
        c = Consumed /\ d = Consumed' /\ l = LastTo /\ l = LastTo' /\ l <= c
  BY <1>1, <1>2 DEF Aligned
<1>4. l <= d
  BY <1>3
<1>. QED BY <1>1, <1>3, <1>4 DEF Aligned, EndBefore

\* A frame has been read to its end.
LEMMA AlignedAppends ==
  ASSUME PipeTyped, Aligned, loop = "body", loop' \in {"idle", "closed"}, left' = "whole",
         received' = Append(received, Entry), Consumed' = Consumed
  PROVE  Aligned'
<1>1. /\ received \in Seq(Entries)
      /\ Entry \in Entries /\ Entry.from = from /\ Entry.to = Consumed /\ Entry.after = left
      /\ Consumed \in Nat /\ from \in Nat /\ LastTo \in Nat
  BY EntryType, LastToType DEF PipeTyped, StreamTyped, ReaderTyped
<1>2. PICK n \in Nat, e \in Entries : n = Len(received) /\ e = Entry
  BY <1>1
<1>3. /\ received' # <<>> /\ Len(received') = n + 1 /\ received'[n + 1] = e
      /\ \A k \in 1..n : received'[k] = received[k]
  BY <1>1, <1>2
<1>4. LastTo' = Consumed
  <2>1. n + 1 \in Nat /\ (n + 1) + 1 # 1 /\ ((n + 1) + 1) - 1 = n + 1
    OBVIOUS
  <2>. QED BY <1>1, <1>2, <1>3, <2>1 DEF LastTo, EndBefore
<1>5. IF left = "whole" THEN from = LastTo + 1 ELSE from > LastTo
  BY DEF Aligned
<1>6. ASSUME NEW k \in 1..(n + 1)
      PROVE  IF received'[k].after = "whole" THEN received'[k].from = EndBefore(k)' + 1
                                             ELSE received'[k].from > EndBefore(k)'
  <2>0. EndBefore(k)' = EndBefore(k)
    <3>1. k # 1 => k - 1 \in 1..n
      OBVIOUS
    <3>. QED BY <1>3, <3>1 DEF EndBefore
  <2>1. CASE k = n + 1
    <3>1. received'[k] = e /\ EndBefore(k) = LastTo
      BY <1>2, <1>3, <2>1 DEF LastTo
    <3>. QED BY <1>1, <1>2, <1>5, <2>0, <3>1
  <2>2. CASE k # n + 1
    <3>1. k \in 1..n
      BY <2>2
    <3>2. received'[k] = received[k]
      BY <1>3, <3>1
    <3>3. IF received[k].after = "whole" THEN received[k].from = EndBefore(k) + 1
                                         ELSE received[k].from > EndBefore(k)
      BY <1>2, <3>1 DEF Aligned
    <3>. QED BY <2>0, <3>2, <3>3
  <2>. QED BY <2>1, <2>2
<1>. QED BY <1>1, <1>3, <1>4, <1>6 DEF Aligned

\* PipeInv holds initially.
LEMMA InitPipeInv ==
  ASSUME Init
  PROVE  PipeInv
<1>1. <<>> \in Seq(Alphabet) /\ <<>> \in Seq(Seq(Alphabet)) /\ <<>> \in Seq(Entries)
      /\ <<>> \in Lines(Alphabet) /\ Len(<<>>) = 0
  BY DEF Lines
<1>2. number \in DOMAIN Scenarios /\ Len(Script) \in Nat /\ scenario.version \in Versions
      /\ scenario.role \in {"connect", "accept", "client", "server"}
  BY ScriptType DEF Init
<1>3. "1.0" \in Versions
  BY DEF Versions
<1>4. PeerTyped
  <2>1. next = 1 /\ writes = [ongoing |-> FALSE, rest |-> <<>>] /\ lost = FALSE /\ ended = FALSE
    BY DEF Init, Idle
  <2>2. next \in 1..(Len(Script) + 1)
    BY <1>2, <2>1
  <2>. QED BY <1>1, <1>2, <2>1, <2>2 DEF PeerTyped
<1>5. Consumed = 0
  <2>1. Len(bytes) = 0 /\ Len(wire) = 0 /\ Len(buffer) = 0
    BY <1>1 DEF Init
  <2>. QED BY <2>1 DEF Consumed
<1>6. StreamTyped
  BY <1>1, <1>5 DEF Init, StreamTyped, Stands
<1>7. session \in [role : {"connect", "accept", "client", "server"},
                   started : BOOLEAN, version : Versions]
  BY <1>2, <1>3 DEF Init
<1>8. input \in [status : {"none", "reading", "ready", "failed"},
                 command : Seq(Alphabet), lines : Lines(Alphabet)]
  BY <1>1 DEF Init, NoInput
<1>9. body \in [kind : {"over", "fixed", "dynamic"}, remaining : Nat, total : Nat]
  BY DEF Init, Over
<1>10. chunk \in [status : {"none", "awaited", "ok", "failed", "done"}, bytes : Seq(Alphabet)]
  BY <1>1 DEF Init, NoChunk
<1>11. consumer \in [reader : {"none", "receipt", "connected", "error", "server",
                               "readEmptyBody", "readString", "discardMessages"},
                     text : Seq(Alphabet)]
  BY <1>1 DEF Init
<1>12. ReaderTyped
  BY <1>1, <1>7, <1>8, <1>9, <1>10, <1>11 DEF Init, ReaderTyped
<1>13. Stages /\ VersionKnown /\ Bounds
  BY DEF Init, Stages, VersionKnown, Bounds, NoChunk
<1>14. LastTo = 0 /\ Len(received) = 0
  BY <1>1 DEF Init, LastTo, EndBefore
<1>15. Aligned
  BY <1>5, <1>14 DEF Init, Aligned
<1>. QED BY <1>4, <1>6, <1>12, <1>13, <1>15 DEF PipeInv, PipeTyped

\* readFrame is called.
LEMMA ReadNextFrameKeeps ==
  ASSUME PipeTyped, Bounds, ReadNextFrame
  PROVE  PipeTyped' /\ Bounds' /\ Consumed' = Consumed
<1>1. /\ UNCHANGED <<number, next, writes, lost, bytes, sent>>
      /\ UNCHANGED <<wire, ended, buffer, session, consumer, left, received>>
      /\ loop = "idle" /\ loop' = "frame" /\ from' = Consumed + 1 /\ ReadFrame
  BY DEF ReadNextFrame, ReadFrame, peerVars
<1>2. PeerTyped /\ StreamTyped /\ ReaderTyped
  BY DEF PipeTyped
<1>3. PeerTyped' /\ StreamTyped' /\ Consumed' = Consumed
  BY <1>1, <1>2, ReaderLeavesPeer DEF peerVars, StreamTyped, Consumed, Stands
<1>4. <<>> \in Seq(Alphabet) /\ <<>> \in Lines(Alphabet)
  BY DEF Lines
<1>5. input' \in [status : {"reading"}, command : Seq(Alphabet), lines : Lines(Alphabet)]
  BY <1>1, <1>4 DEF ReadFrame, NoInput
<1>6. body' \in [kind : {"over", "fixed", "dynamic"}, remaining : Nat, total : Nat]
  BY <1>1, <1>2 DEF ReadFrame, Over, ReaderTyped
<1>7. chunk' \in [status : {"none"}, bytes : Seq(Alphabet)] /\ reading' = "command"
  BY <1>1, <1>4 DEF ReadFrame, NoChunk
<1>8. from' \in Nat
  BY <1>1, <1>2 DEF StreamTyped
<1>9. ReaderTyped'
  BY <1>1, <1>2, <1>5, <1>6, <1>7, <1>8 DEF ReaderTyped
<1>10. Stages' /\ VersionKnown' /\ Bounds'
  BY <1>1, <1>5, <1>7 DEF Stages, VersionKnown, Bounds
<1>. QED BY <1>3, <1>9, <1>10 DEF PipeTyped

\* The steps that give a frame's body to a reader.
LEMMA GivenKeeps ==
  ASSUME PipeTyped, Bounds, TakeMessage \/ TakeReceipt \/ TakeError \/ TakeConnected \/ ServeFrame
  PROVE  /\ PipeTyped' /\ Bounds' /\ Consumed' = Consumed
         /\ loop = "frame" /\ loop' = "body" /\ UNCHANGED <<received, left, from>>
<1>. DEFINE Readers == {"receipt", "connected", "error", "server",
                        "readEmptyBody", "readString", "discardMessages"}
            Sessions == [role : {"connect", "accept", "client", "server"},
                         started : BOOLEAN, version : Versions]
<1>1. scenario.program \in {"readEmptyBody", "readString", "discardMessages"}
  BY ScriptType DEF PipeTyped, PeerTyped
<1>2. session \in Sessions
  BY DEF PipeTyped, ReaderTyped
<1>3. TakeConnected => session' \in Sessions
  BY <1>2 DEF TakeConnected
<1>4. \E reader \in Readers :
        /\ FrameReady /\ GiveBody(reader) /\ session' \in Sessions
        /\ reader = "connected" => \E version \in Versions : VersionHeader = <<version>>
  <2>1. CASE TakeMessage
    <3>1. /\ FrameReady /\ GiveBody(scenario.program) /\ session' \in Sessions
      BY <1>2, <2>1 DEF TakeMessage
    <3>. QED BY <1>1, <3>1
  <2>2. CASE TakeReceipt
    <3>1. FrameReady /\ GiveBody("receipt") /\ session' \in Sessions
      BY <1>2, <2>2 DEF TakeReceipt
    <3>. QED BY <3>1
  <2>3. CASE TakeError
    <3>1. FrameReady /\ GiveBody("error") /\ session' \in Sessions
      BY <1>2, <2>3 DEF TakeError
    <3>. QED BY <3>1
  <2>4. CASE TakeConnected
    <3>1. /\ FrameReady /\ GiveBody("connected") /\ session' \in Sessions
          /\ \E version \in Versions : VersionHeader = <<version>>
      BY <1>3, <2>4 DEF TakeConnected
    <3>. QED BY <3>1
  <2>5. CASE ServeFrame
    <3>1. FrameReady /\ GiveBody("server") /\ session' \in Sessions
      BY <1>2, <2>5 DEF ServeFrame
    <3>. QED BY <3>1
  <2>. QED BY <2>1, <2>2, <2>3, <2>4, <2>5
<1>5. PICK reader \in Readers :
        /\ FrameReady /\ GiveBody(reader) /\ session' \in Sessions
        /\ reader = "connected" => \E version \in Versions : VersionHeader = <<version>>
  BY <1>4
<1>6. PipeTyped' /\ Bounds' /\ Consumed' = Consumed
  BY <1>5, GiveBodyKeeps
<1>7. loop = "frame" /\ loop' = "body" /\ UNCHANGED <<received, left, from>>
  BY <1>5 DEF FrameReady, GiveBody
<1>. QED BY <1>6, <1>7

\* The steps that stop reading a frame before its end.
LEMMA StopKeeps ==
  ASSUME PipeTyped, Bounds,
         FrameFails \/ SkipFrame \/ RefuseFrame \/ StopReading \/ EndFailedBody
  PROVE  /\ PipeTyped' /\ Bounds' /\ Consumed' = Consumed /\ UNCHANGED received
         /\ \/ loop' = "idle" /\ left' \in {"failed", "skipped"}
            \/ loop' \in {"closed", "abandoned"}
<1>1. /\ ReaderTyped /\ Stages
      /\ session \in [role : {"connect", "accept", "client", "server"},
                      started : BOOLEAN, version : Versions]
      /\ left \in {"whole", "failed", "skipped", "unread", "refused"}
      /\ received \in Seq(Entries)
  BY DEF PipeTyped, ReaderTyped
<1>2. /\ UNCHANGED <<peerVars, wire, ended, buffer, reading, input, chunk>>
      /\ UNCHANGED <<consumer, from, session, received>>
      /\ body' = Over \/ UNCHANGED body
      /\ \/ loop' = "idle" /\ left' \in {"failed", "skipped"}
         \/ loop' \in {"closed", "abandoned"} /\ left' \in {"unread", "refused"}
         \/ loop' \in {"closed", "abandoned"} /\ UNCHANGED left
      /\ \/ loop = "frame" /\ input.status \in {"ready", "failed"}
         \/ loop = "body" /\ chunk.status \in {"failed", "ok"}
  <2>1. CASE FrameFails
    BY <2>1 DEF FrameFails, Close, inputVars
  <2>2. CASE SkipFrame
    BY <2>2 DEF SkipFrame, FrameReady, inputVars
  <2>3. CASE RefuseFrame
    BY <2>3 DEF RefuseFrame, FrameReady, Close, inputVars
  <2>4. CASE StopReading
    BY <2>4 DEF StopReading, StopsReading, LoopAfterReturn
  <2>5. CASE EndFailedBody
    BY <2>5 DEF EndFailedBody, inputVars
  <2>. QED BY <2>1, <2>2, <2>3, <2>4, <2>5
<1>3. reading = "none"
  BY <1>1, <1>2 DEF Stages
<1>4. /\ loop' \in {"idle", "closed", "abandoned"}
      /\ left' \in {"whole", "failed", "skipped", "unread", "refused"}
      /\ session' \in [role : {"connect", "accept", "client", "server"},
                       started : BOOLEAN, version : Versions]
      /\ received' \in Seq(Entries)
  BY <1>1, <1>2
<1>. QED BY <1>2, <1>3, <1>4, QuietStepKeeps

\* A frame has been read to its end.
LEMMA EndBodyKeeps ==
  ASSUME PipeTyped, Bounds, EndBody
  PROVE  PipeTyped' /\ Bounds' /\ Consumed' = Consumed
<1>1. /\ UNCHANGED <<peerVars, wire, ended, buffer, reading, input, chunk>>
      /\ UNCHANGED <<consumer, from, body>>
      /\ loop' = LoopAfterBody /\ left' = "whole" /\ received' = Append(received, Entry)
      /\ session' = SessionAfterBody /\ loop = "body" /\ chunk.status = "done"
  BY DEF EndBody, inputVars
<1>2. received \in Seq(Entries) /\ Entry \in Entries
  BY EntryType DEF PipeTyped, ReaderTyped
<1>3. received' \in Seq(Entries)
  BY <1>1, <1>2
<1>4. loop' \in {"idle", "closed", "abandoned"}
  BY <1>1 DEF LoopAfterBody
<1>5. reading = "none"
  BY <1>1 DEF PipeTyped, ReaderTyped, Stages
<1>6. session' \in [role : {"connect", "accept", "client", "server"},
                    started : BOOLEAN, version : Versions]
  BY <1>1, SessionAfterBodyType
<1>. QED BY <1>1, <1>3, <1>4, <1>5, <1>6, QuietStepKeeps

\* Every step keeps PipeInv.
LEMMA NextPipeInv ==
  ASSUME PipeInv, [Next]_vars
  PROVE  PipeInv'
<1>1. PipeTyped /\ Bounds /\ Aligned
  BY DEF PipeInv
<1>2. Consumed \in Nat
  BY <1>1 DEF PipeTyped, StreamTyped
<1>3. CASE PeerStep \/ ConnectionLost
  <2>1. /\ PipeTyped' /\ Consumed' = Consumed
        /\ UNCHANGED <<buffer, reading, input, body, chunk, readerVars>>
    BY <1>1, <1>3, PeerKeeps
  <2>2. UNCHANGED <<input, body, chunk, loop, consumer, left, received, from>>
    BY <2>1 DEF readerVars
  <2>3. Bounds'
    BY <1>1, <2>2 DEF Bounds
  <2>4. Aligned'
    BY <1>1, <1>2, <2>1, <2>2, AlignedKept
  <2>. QED BY <2>1, <2>3, <2>4 DEF PipeInv
<1>4. CASE InputProgress
  <2>1. PipeTyped' /\ Bounds' /\ Consumed' >= Consumed
    BY <1>1, <1>4, InputKeeps
  <2>2. UNCHANGED <<loop, left, received, from>> /\ loop # "idle"
    BY <1>4 DEF InputProgress, readerVars
  <2>3. Aligned'
    BY <1>1, <2>1, <2>2, AlignedKept
  <2>. QED BY <2>1, <2>3 DEF PipeInv
<1>5. CASE ReadNextFrame
  <2>1. PipeTyped' /\ Bounds' /\ Consumed' = Consumed
    BY <1>1, <1>5, ReadNextFrameKeeps
  <2>2. /\ loop = "idle" /\ loop' = "frame" /\ from' = Consumed + 1
        /\ UNCHANGED <<left, received>>
    BY <1>5 DEF ReadNextFrame
  <2>3. Aligned'
    BY <1>1, <2>1, <2>2, AlignedKept
  <2>. QED BY <2>1, <2>3 DEF PipeInv
<1>6. CASE TakeMessage \/ TakeReceipt \/ TakeError \/ TakeConnected \/ ServeFrame
  <2>1. /\ PipeTyped' /\ Bounds' /\ Consumed' = Consumed
        /\ loop = "frame" /\ loop' = "body" /\ UNCHANGED <<received, left, from>>
    BY <1>1, <1>6, GivenKeeps
  <2>2. Aligned'
    BY <1>1, <2>1, AlignedKept
  <2>. QED BY <2>1, <2>2 DEF PipeInv
<1>7. CASE FrameFails \/ SkipFrame \/ RefuseFrame \/ StopReading \/ EndFailedBody
  <2>1. /\ PipeTyped' /\ Bounds' /\ Consumed' = Consumed /\ UNCHANGED received
        /\ \/ loop' = "idle" /\ left' \in {"failed", "skipped"}
           \/ loop' \in {"closed", "abandoned"}
    BY <1>1, <1>7, StopKeeps
  <2>2. Aligned'
    BY <1>1, <2>1, AlignedKept
  <2>. QED BY <2>1, <2>2 DEF PipeInv
<1>8. CASE TakeChunk
  <2>1. PipeTyped' /\ Bounds' /\ Consumed' = Consumed
    BY <1>1, <1>8, TakeChunkKeeps
  <2>2. UNCHANGED <<loop, left, received, from>>
    BY <1>8 DEF TakeChunk
  <2>3. Aligned'
    BY <1>1, <1>2, <2>1, <2>2, AlignedKept
  <2>. QED BY <2>1, <2>3 DEF PipeInv
<1>9. CASE EndBody
  <2>1. PipeTyped' /\ Bounds' /\ Consumed' = Consumed
    BY <1>1, <1>9, EndBodyKeeps
  <2>2. /\ loop = "body" /\ loop' \in {"idle", "closed"} /\ left' = "whole"
        /\ received' = Append(received, Entry)
    BY <1>9 DEF EndBody, LoopAfterBody
  <2>3. Aligned'
    BY <1>1, <2>1, <2>2, AlignedAppends
  <2>. QED BY <2>1, <2>3 DEF PipeInv
<1>10. CASE UNCHANGED vars
  <2>1. /\ UNCHANGED <<number, next, writes, lost, bytes, sent, wire, ended, buffer>>
        /\ UNCHANGED <<reading, input, body, chunk>>
        /\ UNCHANGED <<session, loop, consumer, left, received, from>>
    BY <1>10 DEF vars, inputVars, peerVars, readerVars
  <2>2. PeerTyped' /\ StreamTyped' /\ Consumed' = Consumed
    BY <1>1, <2>1, ReaderLeavesPeer DEF PipeTyped, peerVars, StreamTyped, Consumed, Stands
  <2>3. ReaderTyped' /\ Stages'
    BY <1>1, <2>1 DEF PipeTyped, ReaderTyped, Stages
  <2>4. VersionKnown' /\ Bounds'
    BY <1>1, <2>1 DEF PipeTyped, VersionKnown, VersionHeader, Headers, Bounds
  <2>5. PipeTyped'
    BY <2>2, <2>3, <2>4 DEF PipeTyped
  <2>6. Aligned'
    BY <1>1, <1>2, <2>1, <2>2, <2>5, AlignedKept
  <2>. QED BY <2>4, <2>5, <2>6 DEF PipeInv
<1>. QED BY <1>3, <1>4, <1>5, <1>6, <1>7, <1>8, <1>9, <1>10 DEF Next, ReaderStep, Rest

\* The inductive invariant holds always: the types, what the receive loop, readFrame and
\* the body generator know of each other (Stages), what has been given of a body
\* (Bounds), and where frames begin (Aligned).
THEOREM PipeInvCorrect == Spec => []PipeInv
<1>1. Init => PipeInv
  BY InitPipeInv
<1>2. PipeInv /\ [Next]_vars => PipeInv'
  BY NextPipeInv
<1>. QED BY <1>1, <1>2, PTL DEF Spec

\* The state is well formed, and the reader is never ahead of the peer: what has been
\* put on the wire is what readFrame has consumed, what the Reader buffers and what is
\* under way, byte for byte, whatever the scripts and the limits are
\* (reader.ts:36-153, input.ts:31-242).
THEOREM PipeTypeCorrect == Spec => []TypeOK
<1>1. PipeInv => TypeOK
  BY TypesSuffice DEF PipeInv
<1>. QED BY <1>1, PipeInvCorrect, PTL

\* The receive loop reads the next frame where the last one ended, if that was read
\* whole, and behind it otherwise; it is otherwise only after a frame whose body it
\* skipped or whose body failed (session.ts:602-703, input.ts:135-242).
THEOREM FramesAlignedCorrect == Spec => []FramesAligned
<1>1. PipeInv => FramesAligned
  <2>. SUFFICES ASSUME PipeInv PROVE FramesAligned
    OBVIOUS
  <2>1. Aligned
    BY DEF PipeInv
  <2>2. DOMAIN received = 1..Len(received)
    BY DEF PipeInv, PipeTyped, ReaderTyped
  <2>. QED BY <2>1, <2>2 DEF Aligned, FramesAligned, LastTo
<1>. QED BY <1>1, PipeInvCorrect, PTL

\* No reader is given more of a body than maxBodyChunkLength at a time and maxBodyLength
\* in all, in a body of fixed and of dynamic size, whatever the peer sends
\* (input.ts:135-242).
THEOREM BodyBoundedCorrect == Spec => []BodyBounded
<1>1. PipeInv => BodyBounded
  <2>. SUFFICES ASSUME PipeInv PROVE BodyBounded
    OBVIOUS
  <2>1. consumer.text \in Seq(Alphabet) /\ chunk.bytes \in Seq(Alphabet)
    BY DEF PipeInv, PipeTyped, ReaderTyped
  <2>2. Len(consumer.text \o chunk.bytes) = Len(consumer.text) + Len(chunk.bytes)
    BY <2>1, JoinOfTwo
  <2>. QED BY <2>2 DEF PipeInv, Bounds, BodyBounded
<1>. QED BY <1>1, PipeInvCorrect, PTL
=============================================================================
