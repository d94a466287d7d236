-------------------------- MODULE WebSocketStream --------------------------
(***************************************************************************)
(* The transport stream over a WebSocket of                                *)
(* src/transport/webSocketStream.ts: a queue of received chunks that its    *)
(* reader pulls from, and a queue of written chunks that an asynchronous    *)
(* loop, here the pump, sends.                                             *)
(*                                                                         *)
(* Each continuation of the pump and of the reader is an action of its own, *)
(* so a write, a close or a socket event may come between any two of them.  *)
(* Chunks are numbered, in the order written and in the order received.     *)
(***************************************************************************)
EXTENDS Integers, Sequences, FiniteSets, Functions, SequencesExt

CONSTANTS
  MaxWrites,     \* bound: calls of write()
  MaxArrivals,   \* bound: messages the socket receives
  Kinds          \* what the socket hands over: "bytes" (an ArrayBuffer or a
                 \* string) or "blob"

ASSUME WebSocketAssumption ==
  /\ MaxWrites \in Nat /\ MaxArrivals \in Nat
  /\ Kinds \subseteq {"bytes", "blob"}

Q == INSTANCE Queue WITH Consumers <- {"pump", "reader"}

Writes == 1..MaxWrites
EndOfWrites == 0    \* writeEnd(), as a caller of drained()

VARIABLES
  socket,      \* readyState
  input,       \* inputQueue
  output,      \* outputQueue
  pump,        \* the output loop: "waiting" in next(), "opening" in
               \* socketReady(), "sending" past it, "returned", "ended"
  reader,      \* the stream's iterator: "idle", "waiting" in next(), "ended"
  writeCalls,  \* number of calls of write()
  accepted,    \* those not refused, in order
  sent,        \* chunks passed to socket.send while the socket was open
  ending,      \* how many writes were accepted before writeEnd(), or -1
  arrived,     \* number of messages received
  blobs,       \* blobs whose arrayBuffer() has not resolved
  asBlob,      \* history: the messages that came as blobs
  yielded      \* chunks the iterator has yielded

outputVars == <<output, pump, writeCalls, accepted, sent, ending>>
inputVars == <<input, reader, arrived, blobs, asBlob, yielded>>
vars == <<socket, outputVars, inputVars>>

TypeOK ==
  /\ socket \in {"connecting", "open", "closing", "closed"}
  /\ pump \in {"waiting", "opening", "sending", "returned", "ended"}
  /\ reader \in {"idle", "waiting", "ended"}
  /\ writeCalls \in 0..MaxWrites /\ ending \in -1..MaxWrites
  /\ arrived \in 0..MaxArrivals
  /\ blobs \subseteq asBlob /\ asBlob \subseteq 1..MaxArrivals
  /\ \A s \in {accepted, sent, output.items} : Range(s) \subseteq Writes
  /\ \A s \in {yielded, input.items} : Range(s) \subseteq 1..MaxArrivals
  /\ output.drains \subseteq Writes \cup {EndOfWrites}
  /\ output.consumers = IF pump = "waiting"
                             /\ output.results["pump"].kind = "pending"
                          THEN {"pump"} ELSE {}

Init ==
  /\ socket = "connecting"
  /\ input = Q!NewQueue
  /\ output = Q!Consume(Q!NewQueue, "pump")
  /\ pump = "waiting" /\ reader = "idle"
  /\ writeCalls = 0 /\ accepted = <<>> /\ sent = <<>> /\ ending = -1
  /\ arrived = 0 /\ blobs = {} /\ asBlob = {} /\ yielded = <<>>

-----------------------------------------------------------------------------
(* Writing.                                                                 *)

\* write(): refused once the socket is closing, else queued, and resolved when
\* the queue is empty.
Write ==
  /\ writeCalls < MaxWrites
  /\ writeCalls' = writeCalls + 1
  /\ \/ /\ socket \in {"closing", "closed"}
        /\ UNCHANGED <<output, accepted>>
     \/ /\ socket \in {"connecting", "open"}
        /\ output' = Q!Drained(Q!Push(output, writeCalls + 1), writeCalls + 1)
        /\ accepted' = Append(accepted, writeCalls + 1)
  /\ UNCHANGED <<socket, pump, sent, ending, inputVars>>

\* writeEnd(), which the transport calls once.
WriteEnd ==
  /\ ending = -1
  /\ ending' = Len(accepted)
  /\ output' = Q!Drained(Q!Terminate(output), EndOfWrites)
  /\ UNCHANGED <<socket, pump, writeCalls, accepted, sent, inputVars>>

SocketClose == socket' = IF socket = "closed" THEN "closed" ELSE "closing"

\* The pump's next() has resolved with a chunk: it calls socketReady().
PumpTakes ==
  /\ pump = "waiting"
  /\ output.results["pump"].kind = "value"
  /\ pump' = CASE socket = "open" -> "sending"
               [] socket = "closed" -> "returned"
               [] OTHER -> "opening"
  /\ UNCHANGED <<socket, output, writeCalls, accepted, sent, ending, inputVars>>

\* socketReady() has resolved: the pump sends its chunk, which a socket that is
\* closing by now drops, and asks for the next.
PumpSends ==
  /\ pump = "sending"
  /\ sent' = IF socket = "open"
               THEN Append(sent, output.results["pump"].value) ELSE sent
  /\ output' = Q!Consume(output, "pump")
  /\ pump' = "waiting"
  /\ UNCHANGED <<socket, writeCalls, accepted, ending, inputVars>>

\* The queue is at its end.
PumpEnds ==
  /\ pump = "waiting"
  /\ output.results["pump"].kind = "done"
  /\ pump' = "ended"
  /\ SocketClose
  /\ UNCHANGED <<output, writeCalls, accepted, sent, ending, inputVars>>

-----------------------------------------------------------------------------
(* The socket.                                                              *)

\* close(), which the transport calls when writeEnd() has resolved or at once.
Close ==
  /\ SocketClose
  /\ UNCHANGED <<outputVars, inputVars>>

SocketOpens ==
  /\ socket = "connecting"
  /\ socket' = "open"
  /\ pump' = IF pump = "opening" THEN "sending" ELSE pump
  /\ UNCHANGED <<output, writeCalls, accepted, sent, ending, inputVars>>

\* The socket is closed, by either side or because it could not be opened.
SocketCloses ==
  /\ socket # "closed"
  /\ socket' = "closed"
  /\ pump' = IF pump = "opening" THEN "returned" ELSE pump
  /\ input' = Q!Terminate(input)
  /\ UNCHANGED <<output, writeCalls, accepted, sent, ending, reader, arrived,
                 blobs, asBlob, yielded>>

-----------------------------------------------------------------------------
(* Reading.                                                                 *)

Arrive(kind) ==
  /\ socket \in {"open", "closing"}
  /\ arrived < MaxArrivals
  /\ arrived' = arrived + 1
  /\ \/ /\ kind = "bytes"
        /\ input' = Q!Push(input, arrived + 1)
        /\ UNCHANGED <<blobs, asBlob>>
     \/ /\ kind = "blob"
        /\ blobs' = blobs \cup {arrived + 1}
        /\ asBlob' = asBlob \cup {arrived + 1}
        /\ UNCHANGED input
  /\ UNCHANGED <<socket, outputVars, reader, yielded>>

\* arrayBuffer() resolves, for whichever blob.
BlobRead(n) ==
  /\ n \in blobs
  /\ blobs' = blobs \ {n}
  /\ input' = Q!Push(input, n)
  /\ UNCHANGED <<socket, outputVars, reader, arrived, asBlob, yielded>>

\* The transport's reader asks for a chunk.
Pull ==
  /\ reader = "idle"
  /\ reader' = "waiting"
  /\ input' = Q!Consume(input, "reader")
  /\ UNCHANGED <<socket, outputVars, arrived, blobs, asBlob, yielded>>

Yield ==
  /\ reader = "waiting"
  /\ \/ /\ input.results["reader"].kind = "value"
        /\ yielded' = Append(yielded, input.results["reader"].value)
        /\ reader' = "idle"
     \/ /\ input.results["reader"].kind = "done"
        /\ reader' = "ended"
        /\ UNCHANGED yielded
  /\ UNCHANGED <<socket, outputVars, input, arrived, blobs, asBlob>>

-----------------------------------------------------------------------------
Next ==
  \/ Write \/ WriteEnd \/ Close
  \/ PumpTakes \/ PumpSends \/ PumpEnds
  \/ SocketOpens \/ SocketCloses
  \/ \E kind \in Kinds : Arrive(kind)
  \/ \E n \in 1..MaxArrivals : BlobRead(n)
  \/ Pull \/ Yield

Spec == Init /\ [][Next]_vars

\* The event loop resumes the pump and the reader.
FairSpec == Spec /\ WF_vars(PumpTakes) /\ WF_vars(PumpSends) /\ WF_vars(Yield)

-----------------------------------------------------------------------------
(* Properties.                                                              *)

Pending(w) == w \in output.drains
Resolved(w) == w \in Range(accepted) /\ ~Pending(w)

\* Chunks go out in the order written, without gaps, whether the pump was
\* waiting for them or they were queued.
OutputInOrder == IsPrefix(sent, accepted)

\* No drained() call is left behind by an empty queue.
NoLostDrain == output.drains # {} => output.items # <<>>

\* The pump closes the socket after writeEnd() only when all that was written
\* before has been sent.
EndSendsAll ==
  [][(pump' = "ended" /\ pump # "ended" /\ socket = "open")
       => Len(sent) >= ending]_vars

\* The iterator yields no chunk twice and those that came as bytes in order,
\* and ends only when it has yielded all of them, however the end of the
\* connection and the reader interleave.  (A blob may fall behind.)
InputInOrder ==
  /\ \A i, j \in 1..Len(yielded) : i < j =>
       /\ yielded[i] # yielded[j]
       /\ {yielded[i], yielded[j]} \cap asBlob = {} => yielded[i] < yielded[j]
  /\ reader = "ended" => (1..arrived) \ asBlob \subseteq Range(yielded)

\* While the socket stays open and before writeEnd(), every write resolves.
WritesSettle ==
  \A w \in Writes :
    (Pending(w) /\ socket = "open")
      ~> (~Pending(w) \/ socket # "open" \/ output.terminated)
=============================================================================
