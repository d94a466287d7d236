---------------------------- MODULE FrameHeaders ----------------------------
(***************************************************************************)
(* The header table of src/frame/header.ts (class FrameHeaders): the lines  *)
(* in their order, and the value that counts for each name.                 *)
(*                                                                         *)
(* Names and values are sequences of characters, or of symbols that stand   *)
(* for what is never looked into.  A header whose value is undefined is one *)
(* that the caller leaves out.  `concat`, which nothing in src/ calls, is   *)
(* left out.                                                                *)
(***************************************************************************)
EXTENDS Integers, SequencesExt

\* toLowerCase, over the letters that occur.
LowerCase(name) ==
  [i \in DOMAIN name |-> IF name[i] = "X" THEN "x" ELSE name[i]]

NoHeaders == [lines |-> <<>>, map |-> <<>>]

\* Number.parseInt(value, 10): the number that the value begins with, as a set
\* of one, or the empty set for NaN, which compares with nothing.
Digits == {ToString(n) : n \in 0..9}

DigitsFrom(value, first) ==
  LET others == {i \in first..Len(value) : value[i] \notin Digits}
  IN SubSeq(value, first, IF others = {} THEN Len(value) ELSE Min(others) - 1)

ParseInt(value) ==
  LET negative == value # <<>> /\ Head(value) = "-"
      digits == DigitsFrom(value, IF negative THEN 2 ELSE 1)
      digit(c) == CHOOSE n \in 0..9 : ToString(n) = c
      number == FoldLeft(LAMBDA n, c : 10 * n + digit(c), 0, digits)
  IN IF digits = <<>> THEN {} ELSE {IF negative THEN -number ELSE number}

ContentLength == <<"content-length">>

\* appendLine: of several values of a name the first one counts.
Prefer(first, second) ==
  [name \in DOMAIN first \cup DOMAIN second |->
     IF name \in DOMAIN first THEN first[name] ELSE second[name]]

FirstCounts(map, name, value) == Prefer(map, [n \in {name} |-> value])

AppendLine(headers, line) ==
  LET name == LowerCase(line[1])
  IN [lines |-> Append(headers.lines, <<name, line[2]>>),
      map |-> FirstCounts(headers.map, name, line[2])]

NewHeaders(lines) == FoldLeft(AppendLine, NoHeaders, lines)

\* filter, by the set of lines that pass its test.
AppendKept(headers, line, kept) ==
  IF line \in kept THEN AppendLine(headers, line) ELSE headers

FilterHeaders(headers, kept) ==
  FoldLeft(LAMBDA filtered, line : AppendKept(filtered, line, kept), NoHeaders, headers.lines)

\* The lines that introduce a name.
FirstLines(lines) ==
  LET first(i) == \A j \in 1..(i - 1) : lines[j][1] # lines[i][1]
      step(firsts, i) == IF first(i) THEN Append(firsts, lines[i]) ELSE firsts
  IN FoldLeftDomain(step, <<>>, lines)

\* merge: one line for each name, the later table's value counts.
MergeHeaders(older, newer) ==
  LET map == Prefer(newer.map, older.map)
      names == FirstLines(older.lines \o newer.lines)
  IN [lines |-> [i \in DOMAIN names |-> <<names[i][1], map[names[i][1]]>>],
      map |-> map]

IsSet(headers, name) == name \in DOMAIN headers.map

Get(headers, name) == headers.map[name]

Has(headers, name) == IsSet(headers, name) /\ Get(headers, name) # <<>>
=============================================================================
