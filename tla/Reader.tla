------------------------------- MODULE Reader -------------------------------
(***************************************************************************)
(* The read operations of src/stream/reader.ts, as what each of them does   *)
(* with the bytes that are buffered.                                       *)
(*                                                                         *)
(* A byte is a character or a symbol: what nothing looks into (a command, a *)
(* header name) is one symbol.  The index at which a scan resumes after     *)
(* more bytes have come is left out: what was scanned does not change.  A   *)
(* variant that precedes a definition is faulty and unused.                 *)
(***************************************************************************)
EXTENDS Integers, Sequences, FiniteSetsExt

LF == "LF"
CR == "CR"
NUL == "NUL"
Backslash == "\\"

Smaller(a, b) == IF a <= b THEN a ELSE b

ReadContinued == [status |-> "continued"]
ReadError == [status |-> "error"]
ReadCompleted(consume, skip) ==
  [status |-> "completed", consume |-> consume, skip |-> skip]

\* The positions of a byte among the first `limit` of the buffer.
Found(byte, buffer, limit) ==
  {i \in 1..Smaller(Len(buffer), limit) : buffer[i] = byte}

\* readLine: the line is returned without its end, LF or CR LF.
LineFits(buffer, maxLength) == Len(buffer) <= maxLength

CRKept(buffer, end) == FALSE

CRBefore(buffer, end) == end > 1 /\ buffer[end - 1] = CR

ReadLine(buffer, maxLength) ==
  LET ends == Found(LF, buffer, maxLength)
      end == Min(ends)
      length == IF CRBefore(buffer, end) THEN end - 2 ELSE end - 1
  IN IF ends # {} THEN ReadCompleted(length, end - length)
     ELSE IF LineFits(buffer, maxLength) THEN ReadContinued
     ELSE ReadError

\* readUntil: the byte looked for is returned with what precedes it.
ReadUntil(buffer, byte, maxReadLength) ==
  LET ends == Found(byte, buffer, maxReadLength)
  IN IF ends # {} THEN ReadCompleted(Min(ends), 0)
     ELSE IF Len(buffer) >= maxReadLength THEN ReadCompleted(maxReadLength, 0)
     ELSE ReadContinued

\* readRange; the code calls it only through read, with minBytes = maxBytes.
ReadRange(buffer, minBytes, maxBytes) ==
  IF Len(buffer) >= minBytes
    THEN ReadCompleted(Smaller(Len(buffer), maxBytes), 0)
    ELSE ReadContinued

\* runProper: what a completed operation returns, and what it leaves.
Taken(buffer, result) == SubSeq(buffer, 1, result.consume)

Emptied(buffer, result) == <<>>

Left(buffer, result) ==
  SubSeq(buffer, result.consume + result.skip + 1, Len(buffer))
=============================================================================
