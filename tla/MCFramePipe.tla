---------------------------- MODULE MCFramePipe ----------------------------
(* Scenarios for TLC: what the peer sends, and who reads it. *)
EXTENDS FramePipe

MCAlphabet == STRING

MCScenario(role, version, script) ==
  [role |-> role, version |-> version, script |-> script, beats |-> FALSE,
   program |-> "readString", limit |-> 9, acks |-> FALSE, lossy |-> FALSE]

\* Every pair of two sequences' elements, through an operator.
Each(first, second, Make(_, _)) ==
  FlattenSeq([i \in DOMAIN first |->
                [j \in DOMAIN second |-> Make(first[i], second[j])]])

Whole(frame) == [kind |-> "frame", frame |-> frame]
Broken(frame) == [kind |-> "frame", frame |-> [frame EXCEPT !.fails = TRUE]]
Connect(lines) == [kind |-> "connect", headers |-> NewHeaders(lines)]
Raw(data) == [kind |-> "bytes", bytes |-> data]

Length(value) == <<ContentLength, value>>
Header(name, value) == <<<<name>>, value>>
Subscription == Header("subscription", <<"s">>)
MessageId == Header("message-id", <<"1">>)
Message(lines, chunks) == Frame("MESSAGE", <<Subscription>> \o lines, chunks)
Receipt(chunks) == Frame("RECEIPT", << Header("receipt-id", <<"r">>) >>, chunks)
Error(chunks) == Frame("ERROR", << Header("message", <<"m">>) >>, chunks)
Send(lines, chunks) == Frame("SEND", lines, chunks)

\* What the library writes is read by a server, under every version: values of
\* every kind, one write or several, with and without a content-length.
MCValues ==
  << <<>>, <<"a", ":">>, <<Backslash, "n">>, <<Backslash, Backslash, "r">>,
     <<LF, "a">>, <<"a", CR>>, <<CR, LF>>, <<Backslash>> >>

MCLengths == << <<"2">>, <<"0">>, <<"x">>, <<"-", "1">>, <<"1", "2">> >>

MCSends ==
  Each(MCValues, << <<>>, << <<"a">>, <<"b">> >> >>,
       LAMBDA value, chunks : Send(<< Header("x", value) >>, chunks))
  \o
  Each(MCLengths, << <<>>, << <<NUL>>, <<LF>> >>, << <<"a", "a", "a">> >> >>,
       LAMBDA value, chunks : Send(<< Length(value) >>, chunks))
  \o
  << Send(<< Length(<<"2">>), Length(<<"1">>) >>, << <<"a">> >>),
     Send(<< <<<<"X", ":">>, <<"a">>>>, Header("x", <<"b">>) >>, <<>>),
     Frame("ACK", << Header("id", <<"1">>) >>, << <<"a">> >>),
     JsonMessage(<<"q">>, <<"1">>) >>

ServerReads ==
  Each(<<"1.0", "1.1", "1.2">>, MCSends,
       LAMBDA version, frame :
         MCScenario("server", version, <<Whole(frame), Whole(Frame("ACK", <<>>, <<>>))>>))
  \o
  Each(<<TRUE>>, << <<>>, <<Length(<<"1">>)>>, <<Length(<<"2">>)>> >>,
       LAMBDA lossy, lines :
         [MCScenario("server", "1.2", <<Broken(Send(lines, << <<"a">> >>))>>)
            EXCEPT !.lossy = lossy])

MCConnects ==
  << << Header("host", <<"h">>), Header("heart-beat", <<"0">>) >>,
     << Header("host", <<"h">>), Header("host", <<"i">>), Header("heart-beat", <<>>) >> >>

Accepts ==
  Each(<<TRUE, FALSE>>, MCConnects,
       LAMBDA beats, lines :
         [MCScenario("accept", "1.2", <<Connect(lines), Raw(<<LF>>), Whole(Send(<<>>, <<>>))>>)
            EXCEPT !.beats = beats])

\* What a server sends, a client reads, with each kind of reader.
Connected(version) == Whole(Frame("CONNECTED", << Header("version", <<version>>) >>, <<>>))

MCAnswers ==
  << <<Connected("1.2"), Raw(<<LF>>), Whole(Message(<<>>, << <<"a">> >>))>>,
     <<Connected("2")>>, <<Whole(Error(<< <<"a">> >>))>>, <<Whole(Receipt(<<>>))>>,
     <<Raw(<<LF>>), Connected("1.2")>> >>

MCFirst ==
  << Message(<<MessageId>>, << <<"a">>, <<"b">> >>),
     Message(<<MessageId, Length(<<"0">>)>>, <<>>),
     Frame("MESSAGE", <<>>, <<>>), Frame("INFO", <<>>, << <<"a">> >>) >>

MCSecond ==
  << Message(<<Header("message-id", <<"2">>)>>, << <<"a">> >>), Receipt(<<>>),
     Receipt(<< <<"a">> >>), Error(<< <<"a">>, <<"b">>, <<"c">> >>) >>

Programs == <<"readString", "readEmptyBody", "discardMessages">>

ClientReads ==
  Each(<<"connect">>, MCAnswers, LAMBDA role, script : MCScenario(role, "1.2", script))
  \o
  Each(Programs, Each(MCFirst, MCSecond, LAMBDA a, b : <<Whole(a), Whole(b)>>),
       LAMBDA program, script :
         [MCScenario("client", "1.1", script)
            EXCEPT !.program = program, !.limit = 1, !.acks = TRUE])

\* Bytes of a peer's own: heart-beats and CR LF, lengths that are not numbers,
\* lines, headers and bodies at their limits and past them, a frame cut off.
MCLines ==
  << <<>>,
     <<"x", ":", Backslash, "c", CR, LF>>,
     <<"content-length", ":", "2", LF>>,
     <<"content-length", ":", "-", "2", LF>>,
     <<"content-length", ":", "x", LF>>,
     <<"content-length", ":", "9", LF>>,
     <<"content-length", ":", "0", LF, "content-length", ":", "2", LF>>,
     <<"x", LF>>,
     <<"x", ":", "a", "b", "c", LF>>, <<"x", ":", "a", "b", "c", "d", LF>>,
     <<"a", ":", LF, "b", ":", LF>>, <<"a", ":", LF, "b", ":", LF, "c", ":", LF>> >>

MCTails ==
  << <<LF, NUL, LF>>, <<CR, LF, "a", "b", NUL>>,
     <<LF, "a", "b", "c", "d", "e", NUL>>, <<LF, "a", NUL, "b">> >>

MCMessages ==
  Each(MCLines, MCTails,
       LAMBDA lines, tail : <<"MESSAGE", LF, "subscription", ":", "s", LF>> \o lines \o tail)

MCOdd ==
  << <<LF>>, <<"A", LF, LF, NUL, CR, LF, "B", LF, LF, NUL>>,
     <<"a", "b", "c", "d", "e", "f", "g", LF>> >>

PeerBytes ==
  Each(<<"readString", "discardMessages">>, MCMessages,
       LAMBDA program, data :
         [MCScenario("client", "1.2", <<Raw(data), Raw(<<LF, "RECEIPT", LF, LF, NUL>>)>>)
            EXCEPT !.program = program])
  \o
  Each(<<"accept">>, MCOdd, LAMBDA role, data : MCScenario(role, "1.0", <<Raw(data)>>))

LosesConnection ==
  Each(<<"readString", "discardMessages">>, << <<>>, << <<"a", "b">>, <<"c">> >> >>,
       LAMBDA program, chunks :
         [MCScenario("client", "1.2", <<Whole(Message(<<MessageId>>, chunks)), Whole(Receipt(<<>>))>>)
            EXCEPT !.program = program, !.acks = TRUE, !.lossy = TRUE])

\* A message that the server fails to write to its end, behind a whole one.
LosesMessage ==
  Each(<<"readString", "discardMessages">>, << <<>>, << <<"a">>, <<"b">> >> >>,
       LAMBDA program, chunks :
         [MCScenario("client", "1.2",
                     <<Whole(Message(<<MessageId>>, << <<"a">> >>)),
                       Broken(Message(<<Header("message-id", <<"2">>)>>, chunks))>>)
            EXCEPT !.program = program, !.acks = TRUE])

MCScenarios ==
  ServerReads \o Accepts \o ClientReads \o PeerBytes \o LosesConnection \o LosesMessage

\* A message whose body is larger than the reader allows, then another.
TooLargeScenarios ==
  <<[MCScenario("client", "1.2", <<Whole(Message(<<>>, << <<"a", "b", "c", "d", "e", "f", "g">> >>)),
                                   Whole(Message(<<>>, <<>>))>>)
       EXCEPT !.program = "discardMessages"]>>
=============================================================================
