-------------------------- MODULE FrameTextProofs --------------------------
(***************************************************************************)
(* Theorems about what FramePipe reads of a frame: the text of a header and*)
(* its lines, what the reader takes of it, that a frame that was read is    *)
(* what stands on the wire, that one is refused for what it is, and that a *)
(* frame that was written is the one that is read there.                   *)
(***************************************************************************)
EXTENDS FramePipeProofs, FiniteSetTheorems

-----------------------------------------------------------------------------
(* The lines of a text that grows.                                          *)

\* A set with one element more.
LEMMA OneMore ==
  ASSUME NEW s, NEW t, NEW e, t \subseteq s, e \notin t, \A i \in s : i \in t \/ i = e
  PROVE  (e \in s => s = t \cup {e}) /\ (e \notin s => s = t)
OBVIOUS

\* A part of a text is a part of a longer one.
LEMMA PartStays ==
  ASSUME NEW A, NEW text \in Seq(A), NEW all \in Seq(A),
         NEW first \in Nat, NEW last \in Nat, 1 <= first, first <= last + 1,
         last <= Len(text), last <= Len(all), \A i \in 1..last : all[i] = text[i]
  PROVE  SubSeq(all, first, last) = SubSeq(text, first, last)
<1>1. /\ SubSeq(text, first, last) \in Seq(A)
      /\ Len(SubSeq(text, first, last)) = (last - first) + 1
      /\ \A i \in 1..((last - first) + 1) : SubSeq(text, first, last)[i] = text[(first + i) - 1]
  BY PartOf
<1>2. /\ SubSeq(all, first, last) \in Seq(A)
      /\ Len(SubSeq(all, first, last)) = (last - first) + 1
      /\ \A i \in 1..((last - first) + 1) : SubSeq(all, first, last)[i] = all[(first + i) - 1]
  BY PartOf
<1>3. \A i \in 1..((last - first) + 1) :
        SubSeq(all, first, last)[i] = SubSeq(text, first, last)[i]
  <2>1. ASSUME NEW i \in 1..((last - first) + 1)
        PROVE  (first + i) - 1 \in 1..last
    OBVIOUS
  <2>. QED BY <1>1, <1>2, <2>1
<1>4. PICK a \in Seq(A), b \in Seq(A) :
        a = SubSeq(all, first, last) /\ b = SubSeq(text, first, last)
  BY <1>1, <1>2
<1>5. Len(a) = Len(b) /\ \A i \in 1..Len(a) : a[i] = b[i]
  BY <1>1, <1>2, <1>3, <1>4
<1>. QED BY <1>4, <1>5, SeqEqual, Zenon

\* The ends of lines are positions.
LEMMA EndsType ==
  ASSUME NEW A, NEW text \in Seq(A)
  PROVE  /\ Ends(text) \in SUBSET (1..Len(text)) /\ Ends(text) \in SUBSET Nat
         /\ \A i \in 1..Len(text) : i \in Ends(text) <=> text[i] = LF
         /\ CommandEnds(text) \subseteq Ends(text) /\ HeaderEnds(text) \subseteq Ends(text)
BY DEF Ends, CommandEnds, HeaderEnds

\* A line that has ended stays as it is when more bytes follow.
LEMMA LineStays ==
  ASSUME NEW A, NEW text \in Seq(A), NEW more \in Seq(A)
  PROVE  /\ Ends(text) = {i \in Ends(text \o more) : i <= Len(text)}
         /\ \A i \in Ends(text) : LineTo(text \o more, i) = LineTo(text, i)
         /\ CommandEnds(text) = {i \in CommandEnds(text \o more) : i <= Len(text)}
         /\ HeaderEnds(text) = {i \in HeaderEnds(text \o more) : i <= Len(text)}
<1>0. PICK all \in Seq(A), n \in Nat, m \in Nat :
        all = text \o more /\ n = Len(text) /\ m = Len(more)
  <2>1. text \o more \in Seq(A)
    OBVIOUS
  <2>2. Len(text) \in Nat /\ Len(more) \in Nat
    OBVIOUS
  <2>. QED BY <2>1, <2>2
<1>1. /\ all = text \o more /\ all \in Seq(A)
      /\ n = Len(text) /\ m = Len(more) /\ Len(all) = n + m
      /\ \A i \in 1..n : all[i] = text[i]
      /\ \A i \in 1..m : all[n + i] = more[i]
  BY <1>0, JoinOfTwo, SMT
<1>2. all = text \o more /\ Len(all) = n + m /\ \A i \in 1..n : all[i] = text[i]
  BY <1>1
<1>3. /\ Ends(text) \in SUBSET (1..n) /\ Ends(all) \in SUBSET (1..(n + m))
      /\ \A i \in 1..n : i \in Ends(text) <=> text[i] = LF
      /\ \A i \in 1..(n + m) : i \in Ends(all) <=> all[i] = LF
  BY <1>1, <1>2, EndsType
<1>4. \A i \in 1..n : i \in 1..(n + m) /\ (i \in Ends(text) <=> i \in Ends(all))
  <2>1. ASSUME NEW i \in 1..n PROVE i \in 1..(n + m)
    OBVIOUS
  <2>. QED BY <1>2, <1>3, <2>1
<1>5. Ends(text) = {i \in Ends(all) : i <= n}
  <2>1. \A i \in 1..(n + m) : i <= n <=> i \in 1..n
    OBVIOUS
  <2>. QED BY <1>3, <1>4, <2>1
<1>6. ASSUME NEW i \in Ends(text) PROVE LineTo(all, i) = LineTo(text, i)
  <2>1. i \in 1..n
    BY <1>3
  <2>. DEFINE before == {j \in Ends(text) : j < i}
              first == IF before = {} THEN 1 ELSE Max(before) + 1
  <2>2. {j \in Ends(all) : j < i} = before
    <3>1. \A j \in 1..(n + m) : j < i => j \in 1..n
      BY <2>1
    <3>. QED BY <1>3, <1>4, <3>1
  <2>3. before \in SUBSET (1..n)
    BY <1>3
  <2>4. before # {} => Max(before) \in before
    BY <2>3, MaxOfPositions
  <2>5. first \in Nat /\ 1 <= first /\ first <= (i - 1) + 1
    <3>1. CASE before = {}
      BY <2>1, <3>1
    <3>2. CASE before # {}
      <4>1. PICK p \in 1..n : p = Max(before) /\ p < i
        BY <2>3, <2>4, <3>2
      <4>. QED BY <2>1, <3>2, <4>1
    <3>. QED BY <3>1, <3>2
  <2>. HIDE DEF first
  <2>6. i - 1 \in Nat /\ i - 1 <= n /\ i - 1 <= n + m /\ \A j \in 1..(i - 1) : j \in 1..n
    BY <2>1
  <2>7. SubSeq(all, first, i - 1) = SubSeq(text, first, i - 1)
    BY <1>1, <1>2, <2>5, <2>6, PartStays
  <2>. QED BY <2>2, <2>7 DEF LineTo, first
<1>7. CommandEnds(text) = {i \in CommandEnds(all) : i <= n}
  BY <1>3, <1>5, <1>6 DEF CommandEnds
<1>8. HeaderEnds(text) = {i \in HeaderEnds(all) : i <= n}
  <2>1. ASSUME NEW i \in 1..n
        PROVE  (\E j \in CommandEnds(text) : j < i) <=> (\E j \in CommandEnds(all) : j < i)
    <3>1. \A j \in CommandEnds(all) : j \in 1..(n + m)
      BY <1>3 DEF CommandEnds
    <3>2. \A j \in 1..(n + m) : j < i => j <= n
      OBVIOUS
    <3>. QED BY <1>7, <3>1, <3>2
  <2>. QED BY <1>3, <1>5, <1>6, <2>1 DEF HeaderEnds
<1>. QED BY <1>1, <1>2, <1>5, <1>6, <1>7, <1>8

\* A line without the CR that may precede its end.
Stripped(line) == IF EndsInCR(line) THEN Front(line) ELSE line

\* A text of whole lines.
Lined(text) == text = <<>> \/ text[Len(text)] = LF

\* A piece of a text that is one line, its end included.
OneLine(piece) ==
  piece # <<>> /\ \A i \in 1..Len(piece) : piece[i] = LF <=> i = Len(piece)

\* A line is added to a text of whole lines.
LEMMA LineAdded ==
  ASSUME NEW A, NEW text \in Seq(A), Lined(text), NEW piece \in Seq(A), OneLine(piece)
  PROVE  LET all == text \o piece
             end == Len(all)
             line == Stripped(SubSeq(piece, 1, Len(piece) - 1))
         IN /\ all \in Seq(A) /\ Lined(all) /\ Len(text) < end
            /\ Ends(all) = Ends(text) \cup {end}
            /\ \A i \in Ends(text) : i < end /\ LineTo(all, i) = LineTo(text, i)
            /\ LineTo(all, end) = line
            /\ CommandEnds(all) =
                 IF line = <<>> THEN CommandEnds(text) ELSE CommandEnds(text) \cup {end}
            /\ HeaderEnds(all) =
                 IF line = <<>> /\ CommandEnds(text) # {} THEN HeaderEnds(text) \cup {end}
                                                         ELSE HeaderEnds(text)
<1>0. PICK all \in Seq(A), n \in Nat, m \in Nat :
        all = text \o piece /\ n = Len(text) /\ m = Len(piece)
  <2>1. text \o piece \in Seq(A)
    OBVIOUS
  <2>2. Len(text) \in Nat /\ Len(piece) \in Nat
    OBVIOUS
  <2>. QED BY <2>1, <2>2
<1>1. /\ all = text \o piece /\ all \in Seq(A)
      /\ n = Len(text) /\ m = Len(piece) /\ Len(all) = n + m
      /\ \A i \in 1..n : all[i] = text[i]
      /\ \A i \in 1..m : all[n + i] = piece[i]
  BY <1>0, JoinOfTwo, SMT
<1>2. /\ all = text \o piece /\ Len(all) = n + m
      /\ \A i \in 1..n : all[i] = text[i]
      /\ \A i \in 1..m : all[n + i] = piece[i]
  BY <1>1
<1>3. m >= 1 /\ \A i \in 1..m : piece[i] = LF <=> i = m
  BY <1>1 DEF OneLine
<1>4. /\ Ends(text) \in SUBSET (1..n) /\ Ends(all) \in SUBSET (1..(n + m))
      /\ \A i \in 1..n : i \in Ends(text) <=> text[i] = LF
      /\ \A i \in 1..(n + m) : i \in Ends(all) <=> all[i] = LF
      /\ CommandEnds(text) \subseteq Ends(text) /\ HeaderEnds(text) \subseteq Ends(text)
      /\ CommandEnds(all) \subseteq Ends(all) /\ HeaderEnds(all) \subseteq Ends(all)
  BY <1>1, <1>2, EndsType
<1>5. \A i \in (n + 1)..(n + m) : i \in Ends(all) <=> i = n + m
  <2>1. ASSUME NEW i \in (n + 1)..(n + m)
        PROVE  i \in Ends(all) <=> i = n + m
    <3>1. PICK j \in 1..m : j = i - n /\ i = n + j
      <4>1. i - n \in 1..m /\ i = n + (i - n)
        OBVIOUS
      <4>. QED BY <4>1
    <3>2. i \in 1..(n + m) /\ all[i] = piece[j] /\ (j = m <=> i = n + m)
      BY <1>2, <3>1
    <3>. QED BY <1>3, <1>4, <3>2
  <2>. QED BY <2>1
<1>6. /\ Ends(text) = {i \in Ends(all) : i <= n}
      /\ \A i \in Ends(text) : LineTo(all, i) = LineTo(text, i)
      /\ CommandEnds(text) = {i \in CommandEnds(all) : i <= n}
      /\ HeaderEnds(text) = {i \in HeaderEnds(all) : i <= n}
  BY <1>1, <1>2, LineStays
<1>7. n + m \in Ends(all) /\ n < n + m
  <2>1. n + m \in (n + 1)..(n + m)
    BY <1>3
  <2>. QED BY <1>5, <2>1
<1>8. \A i \in Ends(all) : i <= n \/ i = n + m
  <2>1. \A i \in 1..(n + m) : i <= n \/ i \in (n + 1)..(n + m)
    OBVIOUS
  <2>. QED BY <1>4, <1>5, <2>1
<1>9. Ends(all) = Ends(text) \cup {n + m}
  BY <1>6, <1>7, <1>8
<1>10. LineTo(all, n + m) = Stripped(SubSeq(piece, 1, m - 1))
  <2>. DEFINE before == {j \in Ends(all) : j < n + m}
              first == IF before = {} THEN 1 ELSE Max(before) + 1
  <2>1. before = Ends(text)
    <3>1. \A j \in 1..n : j < n + m
      BY <1>3
    <3>. QED BY <1>4, <1>9, <3>1
  <2>2. first = n + 1
    <3>1. CASE n = 0
      <4>1. Ends(text) = {}
        BY <1>4, <3>1
      <4>. QED BY <2>1, <3>1, <4>1
    <3>2. CASE n # 0
      <4>1. n \in Ends(text) /\ n \in 1..n
        <5>1. text # <<>> /\ n \in 1..n
          BY <1>1, <3>2
        <5>2. text[n] = LF
          BY <1>1, <5>1 DEF Lined
        <5>. QED BY <1>4, <5>1, <5>2
      <4>2. Ends(text) \in SUBSET Nat /\ \A i \in Ends(text) : i <= n
        BY <1>4
      <4>3. Max(Ends(text)) = n
        BY <4>1, <4>2, MaxIs
      <4>. QED BY <2>1, <4>1, <4>3
    <3>. QED BY <3>1, <3>2
  <2>3. SubSeq(all, n + 1, (n + m) - 1) = SubSeq(piece, 1, m - 1)
    <3>1. PICK k \in Nat : k = m - 1 /\ (n + m) - 1 = n + k /\ k <= m /\ (n + m) = (n + k) + 1
      <4>1. m - 1 \in Nat /\ (n + m) - 1 = n + (m - 1) /\ m - 1 <= m
            /\ (n + m) = (n + (m - 1)) + 1
        BY <1>3
      <4>. QED BY <4>1
    <3>2. /\ SubSeq(all, n + 1, n + k) \in Seq(A)
          /\ Len(SubSeq(all, n + 1, n + k)) = ((n + k) - (n + 1)) + 1
          /\ \A i \in 1..(((n + k) - (n + 1)) + 1) :
                SubSeq(all, n + 1, n + k)[i] = all[((n + 1) + i) - 1]
      <4>1. n + 1 \in Nat /\ n + k \in Nat /\ n + 1 >= 1 /\ n + k <= Len(all)
            /\ n + 1 <= (n + k) + 1
        BY <1>2, <3>1
      <4>. QED BY <4>1, PartOf
    <3>3. /\ SubSeq(piece, 1, k) \in Seq(A)
          /\ Len(SubSeq(piece, 1, k)) = (k - 1) + 1
          /\ \A i \in 1..((k - 1) + 1) : SubSeq(piece, 1, k)[i] = piece[(1 + i) - 1]
      <4>1. 1 \in Nat /\ 1 >= 1 /\ k <= Len(piece) /\ 1 <= k + 1
        BY <1>1, <3>1
      <4>. QED BY <4>1, <3>1, PartOf
    <3>4. PICK a \in Seq(A), b \in Seq(A) :
            a = SubSeq(all, n + 1, n + k) /\ b = SubSeq(piece, 1, k)
      BY <3>2, <3>3
    <3>5. ((n + k) - (n + 1)) + 1 = k /\ (k - 1) + 1 = k
      BY <3>1
    <3>6. Len(a) = k /\ Len(b) = k
      BY <3>2, <3>3, <3>4, <3>5
    <3>7. \A i \in 1..k : ((n + 1) + i) - 1 = n + i /\ (1 + i) - 1 = i /\ i \in 1..m
      BY <3>1
    <3>8. \A i \in 1..k : a[i] = all[n + i] /\ b[i] = piece[i]
      BY <3>2, <3>3, <3>4, <3>5, <3>7
    <3>9. \A i \in 1..Len(a) : a[i] = b[i]
      BY <1>2, <3>6, <3>7, <3>8
    <3>10. a = b
      BY <3>6, <3>9, SeqEqual, Zenon
    <3>. QED BY <3>1, <3>4, <3>10
  <2>. HIDE DEF first
  <2>4. LineTo(all, n + m) = Stripped(SubSeq(all, first, (n + m) - 1))
    BY DEF LineTo, Stripped, first
  <2>. QED BY <2>2, <2>3, <2>4
<1>. DEFINE line == Stripped(SubSeq(piece, 1, m - 1))
<1>. HIDE DEF line
<1>11. CommandEnds(all) =
         IF line = <<>> THEN CommandEnds(text) ELSE CommandEnds(text) \cup {n + m}
  <2>1. n + m \in CommandEnds(all) <=> line # <<>>
    BY <1>7, <1>10 DEF CommandEnds, line
  <2>2. \A i \in CommandEnds(all) : i \in CommandEnds(text) \/ i = n + m
    BY <1>4, <1>6, <1>8
  <2>3. CommandEnds(text) \subseteq CommandEnds(all)
    BY <1>6
  <2>4. n + m \notin CommandEnds(text)
    BY <1>6, <1>7
  <2>5. /\ n + m \in CommandEnds(all) => CommandEnds(all) = CommandEnds(text) \cup {n + m}
        /\ n + m \notin CommandEnds(all) => CommandEnds(all) = CommandEnds(text)
    BY <2>2, <2>3, <2>4, OneMore
  <2>. QED BY <2>1, <2>5
<1>12. HeaderEnds(all) =
         IF line = <<>> /\ CommandEnds(text) # {} THEN HeaderEnds(text) \cup {n + m}
                                                  ELSE HeaderEnds(text)
  <2>1. n + m \in HeaderEnds(all) <=> line = <<>> /\ CommandEnds(text) # {}
    <3>1. line = <<>> => CommandEnds(all) = CommandEnds(text)
      BY <1>11
    <3>2. \A j \in CommandEnds(text) : j < n + m
      <4>1. \A j \in 1..n : j < n + m
        BY <1>3
      <4>. QED BY <1>4, <4>1
    <3>3. n + m \in HeaderEnds(all) <=> line = <<>> /\ \E j \in CommandEnds(all) : j < n + m
      BY <1>7, <1>10 DEF HeaderEnds, line
    <3>. QED BY <3>1, <3>2, <3>3
  <2>2. \A i \in HeaderEnds(all) : i \in HeaderEnds(text) \/ i = n + m
    BY <1>4, <1>6, <1>8
  <2>3. HeaderEnds(text) \subseteq HeaderEnds(all)
    BY <1>6
  <2>4. n + m \notin HeaderEnds(text)
    BY <1>6, <1>7
  <2>5. /\ n + m \in HeaderEnds(all) => HeaderEnds(all) = HeaderEnds(text) \cup {n + m}
        /\ n + m \notin HeaderEnds(all) => HeaderEnds(all) = HeaderEnds(text)
    BY <2>2, <2>3, <2>4, OneMore
  <2>. QED BY <2>1, <2>5
<1>13. Lined(all)
  <2>1. all[n + m] = LF
    BY <1>4, <1>7
  <2>. QED BY <1>2, <2>1 DEF Lined
<1>14. \A i \in Ends(text) : i < n + m
  <2>1. \A j \in 1..n : j < n + m
    BY <1>3
  <2>. QED BY <1>4, <2>1
<1>. QED BY <1>1, <1>2, <1>6, <1>7, <1>9, <1>10, <1>11, <1>12, <1>13, <1>14 DEF line

\* The lines of a text that are not empty are a command and these header lines.
LinesAt(text, ends, command, lines, version) ==
  /\ CommandEnds(text) = {ends[i] : i \in 0..Len(lines)}
  /\ \A i, j \in 0..Len(lines) : i < j => ends[i] < ends[j]
  /\ LineTo(text, ends[0]) = command
  /\ \A i \in 1..Len(lines) : lines[i] = HeaderLine(LineTo(text, ends[i]), version)

HasLines(text, command, lines, version) ==
  \E ends \in [0..Len(lines) -> Nat] : LinesAt(text, ends, command, lines, version)

\* A header as far as it has been read, and a whole one.
HeaderOpen(text, command, lines, version) ==
  Lined(text) /\ HeaderEnds(text) = {} /\ HasLines(text, command, lines, version)

HeaderWhole(text, command, lines, version) ==
  HeaderEnds(text) = {Len(text)} /\ HasLines(text, command, lines, version)

\* The first line that is not empty is the command.
LEMMA CommandRead ==
  ASSUME NEW A, NEW text \in Seq(A), Lined(text), CommandEnds(text) = {},
         NEW piece \in Seq(A), OneLine(piece), NEW version,
         NEW line, line = Stripped(SubSeq(piece, 1, Len(piece) - 1))
  PROVE  /\ line = <<>> => Lined(text \o piece) /\ CommandEnds(text \o piece) = {}
         /\ line # <<>> => HeaderOpen(text \o piece, line, <<>>, version)
<1>1. PICK all \in Seq(A) : all = text \o piece
  <2>1. text \o piece \in Seq(A)
    OBVIOUS
  <2>. QED BY <2>1
<1>2. PICK end \in Nat : end = Len(all)
  OBVIOUS
<1>3. /\ Lined(all)
      /\ LineTo(all, end) = line
      /\ CommandEnds(all) =
           IF line = <<>> THEN CommandEnds(text) ELSE CommandEnds(text) \cup {end}
      /\ HeaderEnds(all) =
           IF line = <<>> /\ CommandEnds(text) # {} THEN HeaderEnds(text) \cup {end}
                                                    ELSE HeaderEnds(text)
  BY <1>1, <1>2, LineAdded
<1>4. CASE line = <<>>
  BY <1>1, <1>3, <1>4
<1>5. CASE line # <<>>
  <2>1. HeaderEnds(text) = {}
    BY DEF HeaderEnds
  <2>2. CommandEnds(all) = {end} /\ HeaderEnds(all) = {}
    BY <1>3, <1>5, <2>1
  <2>. DEFINE ends == [i \in 0..0 |-> end]
  <2>3. Len(<<>>) = 0 /\ ends \in [0..0 -> Nat] /\ ends[0] = end
    OBVIOUS
  <2>4. {ends[i] : i \in 0..0} = {end}
    OBVIOUS
  <2>. HIDE DEF ends
  <2>5. LinesAt(all, ends, line, <<>>, version)
    <3>1. /\ CommandEnds(all) = {ends[i] : i \in 0..0}
          /\ LineTo(all, ends[0]) = line
      <4>1. LineTo(all, ends[0]) = line
        BY <1>3, <2>3
      <4>. QED BY <2>2, <2>4, <4>1
    <3>4. \A i, j \in 0..0 : i < j => ends[i] < ends[j]
      OBVIOUS
    <3>2. \A i \in 1..0 : <<>>[i] = HeaderLine(LineTo(all, ends[i]), version)
      OBVIOUS
    <3>3. Len(<<>>) = 0
      OBVIOUS
    <3>. QED BY <3>1, <3>2, <3>3, <3>4, Zenon DEF LinesAt
  <2>6. HasLines(all, line, <<>>, version)
    BY <2>3, <2>5, Zenon DEF HasLines
  <2>. QED BY <1>1, <1>3, <2>2, <2>6 DEF HeaderOpen
<1>. QED BY <1>4, <1>5

\* The lines that are not empty end here.
LinesEnd(text, n, ends) ==
  /\ CommandEnds(text) = {ends[i] : i \in 0..n}
  /\ \A i, j \in 0..n : i < j => ends[i] < ends[j]

\* One line more.
Longer(ends, n, end) == [i \in 0..(n + 1) |-> IF i = n + 1 THEN end ELSE ends[i]]

\* It is a function to the numbers that keeps the ends before it.
LEMMA LongerType ==
  ASSUME NEW n \in Nat, NEW ends \in [0..n -> Nat], NEW end \in Nat
  PROVE  /\ Longer(ends, n, end) \in [0..(n + 1) -> Nat]
         /\ Longer(ends, n, end)[n + 1] = end
         /\ \A i \in 0..n : Longer(ends, n, end)[i] = ends[i]
<1>1. \A i \in 0..n : i \in 0..(n + 1) /\ i # n + 1
  OBVIOUS
<1>2. \A i \in 0..(n + 1) : i # n + 1 => i \in 0..n
  OBVIOUS
<1>3. n + 1 \in 0..(n + 1)
  OBVIOUS
<1>. QED BY <1>1, <1>2, <1>3 DEF Longer

\* A line that is not empty is added to a header.
LEMMA LinesEndGrows ==
  ASSUME NEW A, NEW text \in Seq(A), Lined(text), HeaderEnds(text) = {},
         NEW n \in Nat, NEW ends \in [0..n -> Nat], LinesEnd(text, n, ends),
         NEW piece \in Seq(A), OneLine(piece),
         Stripped(SubSeq(piece, 1, Len(piece) - 1)) # <<>>
  PROVE  LET all == text \o piece
         IN HeaderEnds(all) = {} /\ LinesEnd(all, n + 1, Longer(ends, n, Len(all)))
<1>1. PICK all \in Seq(A), end \in Nat : all = text \o piece /\ end = Len(all)
  <2>1. text \o piece \in Seq(A) /\ Len(text \o piece) \in Nat
    OBVIOUS
  <2>. QED BY <2>1
<1>2. /\ \A i \in Ends(text) : i < end
      /\ CommandEnds(all) = CommandEnds(text) \cup {end}
      /\ HeaderEnds(all) = {}
  BY <1>1, LineAdded
<1>3. /\ CommandEnds(text) = {ends[i] : i \in 0..n}
      /\ \A i, j \in 0..n : i < j => ends[i] < ends[j]
  BY DEF LinesEnd
<1>4. \A i \in 0..n : ends[i] < end
  BY <1>2, <1>3, EndsType
<1>5. PICK longer \in [0..(n + 1) -> Nat] : longer = Longer(ends, n, end)
  BY LongerType
<1>6. longer[n + 1] = end
  BY <1>5, LongerType
<1>7. /\ \A i \in 0..n : longer[i] = ends[i]
      /\ \A i \in 0..n : i \in 0..(n + 1)
  <2>1. \A i \in 0..n : i \in 0..(n + 1) /\ i # n + 1
    OBVIOUS
  <2>. QED BY <1>5, <2>1 DEF Longer
<1>8. \A i \in 0..(n + 1) : i \in 0..n \/ i = n + 1
  OBVIOUS
<1>9. CommandEnds(all) = {longer[i] : i \in 0..(n + 1)}
  <2>1. n + 1 \in 0..(n + 1)
    OBVIOUS
  <2>. QED BY <1>2, <1>3, <1>5, <1>6, <1>7, <1>8, <2>1
<1>10. ASSUME NEW i \in 0..(n + 1), NEW j \in 0..(n + 1), i < j
       PROVE  longer[i] < longer[j]
  <2>1. i \in 0..n
    BY <1>10
  <2>2. CASE j = n + 1
    BY <1>4, <1>6, <1>7, <2>1, <2>2
  <2>3. CASE j \in 0..n
    BY <1>3, <1>7, <1>10, <2>1, <2>3
  <2>. QED BY <1>8, <2>2, <2>3
<1>11. LinesEnd(all, n + 1, longer)
  BY <1>9, <1>10 DEF LinesEnd
<1>. QED BY <1>1, <1>2, <1>5, <1>11

\* A header line, or the empty line that ends the header.
LEMMA HeaderLineRead ==
  ASSUME NEW A, NEW text \in Seq(A), NEW command, NEW X, NEW lines \in Seq(X), NEW version,
         HeaderOpen(text, command, lines, version),
         NEW piece \in Seq(A), OneLine(piece),
         NEW line, line = Stripped(SubSeq(piece, 1, Len(piece) - 1))
  PROVE  /\ line = <<>> => HeaderWhole(text \o piece, command, lines, version)
         /\ line # <<>> /\ HeaderLine(line, version) \in X =>
              HeaderOpen(text \o piece, command, Append(lines, HeaderLine(line, version)), version)
<1>1. PICK all \in Seq(A) : all = text \o piece
  <2>1. text \o piece \in Seq(A)
    OBVIOUS
  <2>. QED BY <2>1
<1>2. PICK end \in Nat, n \in Nat : end = Len(all) /\ n = Len(lines)
  OBVIOUS
<1>3. Lined(text) /\ HeaderEnds(text) = {} /\ HasLines(text, command, lines, version)
  BY DEF HeaderOpen
<1>4. /\ Lined(all) /\ LineTo(all, end) = line
      /\ \A i \in Ends(text) : i < end /\ LineTo(all, i) = LineTo(text, i)
      /\ CommandEnds(all) =
           IF line = <<>> THEN CommandEnds(text) ELSE CommandEnds(text) \cup {end}
      /\ HeaderEnds(all) =
           IF line = <<>> /\ CommandEnds(text) # {} THEN HeaderEnds(text) \cup {end}
                                                    ELSE HeaderEnds(text)
  BY <1>1, <1>2, <1>3, LineAdded
<1>5. PICK ends \in [0..n -> Nat] : LinesAt(text, ends, command, lines, version)
  BY <1>2, <1>3 DEF HasLines
<1>6. /\ CommandEnds(text) = {ends[i] : i \in 0..n}
      /\ \A i, j \in 0..n : i < j => ends[i] < ends[j]
      /\ LineTo(text, ends[0]) = command
      /\ \A i \in 1..n : lines[i] = HeaderLine(LineTo(text, ends[i]), version)
  BY <1>2, <1>5 DEF LinesAt
<1>7. \A i \in 0..n : ends[i] < end /\ LineTo(all, ends[i]) = LineTo(text, ends[i])
  BY <1>4, <1>6, EndsType
<1>8. 0 \in 0..n /\ \A i \in 1..n : i \in 0..n
  BY <1>2
<1>9. LineTo(all, ends[0]) = command
  BY <1>6, <1>7, <1>8
<1>10. CASE line = <<>>
  <2>1. CommandEnds(text) # {}
    BY <1>6, <1>8
  <2>2. HeaderEnds(all) = {end} /\ CommandEnds(all) = CommandEnds(text)
    BY <1>3, <1>4, <1>10, <2>1
  <2>3. LinesAt(all, ends, command, lines, version)
    BY <1>2, <1>6, <1>7, <1>8, <1>9, <2>2 DEF LinesAt
  <2>. QED BY <1>1, <1>2, <1>10, <2>2, <2>3 DEF HeaderWhole, HasLines
<1>11. ASSUME line # <<>>, HeaderLine(line, version) \in X
       PROVE  HeaderOpen(all, command, Append(lines, HeaderLine(line, version)), version)
  <2>1. HeaderEnds(all) = {} /\ CommandEnds(all) = CommandEnds(text) \cup {end}
    BY <1>3, <1>4, <1>11
  <2>2. PICK more \in Seq(X) : more = Append(lines, HeaderLine(line, version))
    <3>1. Append(lines, HeaderLine(line, version)) \in Seq(X)
      BY <1>11
    <3>. QED BY <3>1
  <2>3. /\ Len(more) = n + 1 /\ more[n + 1] = HeaderLine(line, version)
        /\ \A i \in 1..n : more[i] = lines[i]
    BY <1>2, <1>11, <2>2
  <2>4. PICK longer \in [0..(n + 1) -> Nat] : longer = Longer(ends, n, end)
    BY <1>2, LongerType
  <2>5. longer[n + 1] = end
    BY <1>2, <2>4, LongerType
  <2>6. \A i \in 0..n : longer[i] = ends[i]
    <3>1. \A i \in 0..n : Longer(ends, n, end)[i] = ends[i]
      BY LongerType, Zenon
    <3>. QED BY <2>4, <3>1
  <2>7. LinesEnd(all, n + 1, longer)
    <3>1. LinesEnd(text, n, ends)
      BY <1>6 DEF LinesEnd
    <3>. QED BY <1>1, <1>2, <1>3, <1>11, <2>4, <3>1, LinesEndGrows
  <2>8. /\ CommandEnds(all) = {longer[i] : i \in 0..(n + 1)}
        /\ \A i, j \in 0..(n + 1) : i < j => longer[i] < longer[j]
    BY <2>7 DEF LinesEnd
  <2>10. LineTo(all, longer[0]) = command
    BY <1>8, <1>9, <2>6
  <2>11. \A i \in 1..(n + 1) : more[i] = HeaderLine(LineTo(all, longer[i]), version)
    <3>1. ASSUME NEW i \in 1..(n + 1)
          PROVE  more[i] = HeaderLine(LineTo(all, longer[i]), version)
      <4>1. CASE i = n + 1
        BY <1>4, <2>3, <2>5, <4>1
      <4>2. CASE i # n + 1
        <5>1. i \in 1..n /\ i \in 0..n
          BY <4>2
        <5>. QED BY <1>6, <1>7, <2>3, <2>6, <5>1
      <4>. QED BY <4>1, <4>2
    <3>. QED BY <3>1
  <2>12. LinesAt(all, longer, command, more, version)
    BY <2>3, <2>8, <2>10, <2>11 DEF LinesAt
  <2>13. HasLines(all, command, more, version)
    BY <2>3, <2>5, <2>12 DEF HasLines
  <2>. QED BY <1>4, <2>1, <2>2, <2>13 DEF HeaderOpen
<1>. QED BY <1>1, <1>10, <1>11

\* The first k of increasing numbers are k numbers.
LEMMA RankOf ==
  ASSUME NEW n \in Nat, NEW ends \in [0..n -> Nat],
         \A i, j \in 0..n : i < j => ends[i] < ends[j]
  PROVE  \A k \in 0..(n + 1) : Cardinality({ends[i] : i \in 0..(k - 1)}) = k
<1>. DEFINE first(k) == {ends[i] : i \in 0..(k - 1)}
            P == {k \in Nat : k <= n + 1 => IsFiniteSet(first(k)) /\ Cardinality(first(k)) = k}
<1>1. 0 \in P
  <2>1. first(0) = {}
    OBVIOUS
  <2>. HIDE DEF first
  <2>. QED BY <2>1, FS_EmptySet
<1>2. ASSUME NEW k \in Nat, k \in P PROVE k + 1 \in P
  <2>. SUFFICES ASSUME k + 1 <= n + 1
                PROVE  IsFiniteSet(first(k + 1)) /\ Cardinality(first(k + 1)) = k + 1
    OBVIOUS
  <2>1. k \in 0..n /\ k <= n + 1
    OBVIOUS
  <2>2. IsFiniteSet(first(k)) /\ Cardinality(first(k)) = k
    BY <1>2, <2>1
  <2>3. first(k + 1) = first(k) \cup {ends[k]}
    <3>1. \A i \in Nat : i \in 0..((k + 1) - 1) <=> i \in 0..(k - 1) \/ i = k
      OBVIOUS
    <3>. QED BY <3>1
  <2>4. ends[k] \notin first(k)
    <3>1. ASSUME NEW i \in 0..(k - 1) PROVE ends[i] # ends[k]
      <4>1. i \in 0..n /\ i < k
        BY <2>1
      <4>2. ends[i] < ends[k] /\ ends[i] \in Nat /\ ends[k] \in Nat
        BY <2>1, <4>1
      <4>. QED BY <4>2
    <3>. QED BY <3>1
  <2>. HIDE DEF first
  <2>. QED BY <2>2, <2>3, <2>4, FS_AddElement
<1>. HIDE DEF first, P
<1>3. Nat \subseteq P
  BY <1>1, <1>2, Induct
<1>4. \A k \in 0..(n + 1) : k \in Nat /\ k <= n + 1
  OBVIOUS
<1>5. \A k \in 0..(n + 1) : Cardinality(first(k)) = k
  BY <1>3, <1>4 DEF P
<1>. QED BY <1>5 DEF first

\* The lines of a header that begins with these n.
LinesOf(text, n, ends, all, size) ==
  /\ DOMAIN HeaderLines(all) = 1..size /\ Len(HeaderLines(all)) = size
  /\ n <= size /\ (HeaderEnds(text) # {} => size = n)
  /\ \A k \in 1..n : HeaderLines(all)[k] = LineTo(text, ends[k])

\* The lines of a header that is whole, or not yet, are those of the longer text.
LEMMA LinesRemain ==
  ASSUME NEW A, NEW text \in Seq(A), NEW more \in Seq(A), NEW n \in Nat,
         NEW ends \in [0..n -> Nat], LinesEnd(text, n, ends),
         HeaderEnds(text) \subseteq {Len(text)}
  PROVE  \E size \in Nat : LinesOf(text, n, ends, text \o more, size)
<1>1. PICK all \in Seq(A), h \in Nat, l \in Nat :
        all = text \o more /\ h = Len(text) /\ l = Len(all)
  <2>1. text \o more \in Seq(A) /\ Len(text) \in Nat /\ Len(text \o more) \in Nat
    OBVIOUS
  <2>. QED BY <2>1
<1>2. /\ CommandEnds(text) = {ends[i] : i \in 0..n}
      /\ \A i, j \in 0..n : i < j => ends[i] < ends[j]
  BY DEF LinesEnd
<1>3. /\ \A i \in Ends(text) : LineTo(all, i) = LineTo(text, i)
      /\ CommandEnds(text) = {i \in CommandEnds(all) : i <= h}
      /\ HeaderEnds(text) = {i \in HeaderEnds(all) : i <= h}
  BY <1>1, LineStays
<1>4. /\ Ends(all) \in SUBSET (1..l) /\ CommandEnds(all) \subseteq Ends(all)
      /\ HeaderEnds(all) \subseteq Ends(all)
      /\ CommandEnds(text) \subseteq Ends(text) /\ HeaderEnds(text) \subseteq Ends(text)
  BY <1>1, EndsType
<1>5. PICK places \in SUBSET (1..l) : places = LineEnds(all)
  BY <1>4 DEF LineEnds
<1>6. \A i \in 0..n : ends[i] \in CommandEnds(all) /\ ends[i] \in Ends(text) /\ ends[i] <= h
  BY <1>2, <1>3, <1>4
<1>7. \A j \in HeaderEnds(all) : j \in Nat /\ h <= j
  <2>1. ASSUME NEW j \in HeaderEnds(all) PROVE j \in Nat /\ h <= j
    <3>1. j \in Nat
      BY <1>4
    <3>2. j <= h => j = h
      BY <1>1, <1>3
    <3>. QED BY <3>1, <3>2
  <2>. QED BY <2>1
\* The ends of the lines of the shorter text come first.
<1>8. \A i \in 0..n : ends[i] \in places
  <2>1. ASSUME NEW i \in 0..n, NEW j \in HeaderEnds(all) PROVE ends[i] < j
    <3>1. LineTo(all, ends[i]) # <<>> /\ LineTo(all, j) = <<>>
      BY <1>6 DEF CommandEnds, HeaderEnds
    <3>2. ends[i] # j
      BY <3>1
    <3>3. ends[i] \in Nat /\ ends[i] <= h /\ j \in Nat /\ h <= j
      BY <1>6, <1>7
    <3>. QED BY <3>2, <3>3
  <2>. QED BY <1>5, <1>6, <2>1 DEF LineEnds
<1>9. \A j \in places : j \in Nat /\ (j <= h => \E i \in 0..n : j = ends[i])
  BY <1>2, <1>3, <1>5 DEF LineEnds
<1>10. \A k \in 0..(n + 1) : Cardinality({ends[i] : i \in 0..(k - 1)}) = k
  BY <1>2, RankOf
<1>11. IsFiniteSet(places)
  <2>1. IsFiniteSet(1..l)
    BY FS_Interval
  <2>. QED BY <2>1, FS_Subset
<1>12. PICK size \in Nat : /\ Cardinality(places) = size + 1 /\ n <= size
                           /\ (HeaderEnds(text) # {} => size = n)
  <2>1. PICK first \in SUBSET places : first = {ends[i] : i \in 0..n}
    BY <1>8
  <2>2. Cardinality(first) = n + 1
    <3>1. n + 1 \in 0..(n + 1) /\ (n + 1) - 1 = n
      OBVIOUS
    <3>. QED BY <1>10, <2>1, <3>1
  <2>3. Cardinality(places) \in Nat /\ n + 1 <= Cardinality(places)
    BY <1>11, <2>2, FS_Subset, FS_CardinalityType
  <2>4. HeaderEnds(text) # {} => Cardinality(places) = n + 1
    <3>1. ASSUME HeaderEnds(text) # {} PROVE places = first
      <4>1. h \in HeaderEnds(all)
        BY <1>1, <1>3, <3>1
      <4>2. \A j \in places : j < h
        BY <1>5, <4>1 DEF LineEnds
      <4>3. \A j \in places : j \in first
        BY <1>9, <2>1, <4>2
      <4>. QED BY <2>1, <4>3
    <3>. QED BY <2>2, <3>1
  <2>5. Cardinality(places) - 1 \in Nat /\ Cardinality(places) = (Cardinality(places) - 1) + 1
        /\ n <= Cardinality(places) - 1
        /\ (HeaderEnds(text) # {} => Cardinality(places) - 1 = n)
    BY <2>3, <2>4
  <2>. QED BY <2>5
<1>. DEFINE place(i) == Cardinality({j \in places : j < i})
<1>13. ASSUME NEW k \in 0..n PROVE place(ends[k]) = k
  <2>1. \A i \in 0..n : ends[i] < ends[k] <=> i < k
    <3>1. ASSUME NEW i \in 0..n PROVE ends[i] < ends[k] <=> i < k
      <4>1. ends[i] \in Nat /\ ends[k] \in Nat /\ (i < k \/ i = k \/ k < i)
        OBVIOUS
      <4>. QED BY <1>2, <4>1
    <3>. QED BY <3>1
  <2>2. \A i \in 0..n : i < k <=> i \in 0..(k - 1)
    OBVIOUS
  <2>3. \A i \in 0..(k - 1) : i \in 0..n
    OBVIOUS
  <2>4. \A j \in places : j < ends[k] => \E i \in 0..n : j = ends[i]
    <3>1. ends[k] \in Nat /\ ends[k] <= h
      BY <1>6
    <3>2. \A j \in places : j < ends[k] => j <= h
      BY <1>1, <1>9, <3>1
    <3>. QED BY <1>9, <3>2
  <2>5. {j \in places : j < ends[k]} = {ends[i] : i \in 0..(k - 1)}
    BY <1>8, <2>1, <2>2, <2>3, <2>4
  <2>6. k \in 0..(n + 1)
    OBVIOUS
  <2>. QED BY <1>10, <2>5, <2>6
<1>14. ASSUME NEW j \in places, j > h PROVE place(j) > n
  <2>1. PICK before \in SUBSET places : before = {i \in places : i < j}
    OBVIOUS
  <2>2. PICK first \in SUBSET before : first = {ends[i] : i \in 0..n}
    <3>1. \A i \in 0..n : ends[i] < j
      <4>1. j \in Nat
        BY <1>9
      <4>. QED BY <1>1, <1>6, <1>14, <4>1
    <3>. QED BY <1>8, <2>1, <3>1
  <2>3. Cardinality(first) = n + 1
    <3>1. n + 1 \in 0..(n + 1) /\ (n + 1) - 1 = n
      OBVIOUS
    <3>. QED BY <1>10, <2>2, <3>1
  <2>4. IsFiniteSet(before)
    BY <1>11, FS_Subset
  <2>5. n + 1 <= Cardinality(before) /\ Cardinality(before) \in Nat
    BY <2>3, <2>4, FS_Subset, FS_CardinalityType
  <2>. QED BY <2>1, <2>5
<1>. HIDE DEF place
<1>15. ASSUME NEW k \in 1..n PROVE Min({i \in places : place(i) = k}) = ends[k]
  <2>1. k \in 0..n /\ k <= n
    OBVIOUS
  <2>2. ASSUME NEW j \in places, place(j) = k PROVE j = ends[k]
    <3>1. j \in Nat /\ j <= h
      <4>1. j \in Nat
        BY <1>9
      <4>2. ~(j > h)
        BY <1>14, <2>1, <2>2
      <4>. QED BY <1>1, <4>1, <4>2
    <3>2. PICK i \in 0..n : j = ends[i]
      BY <1>9, <3>1
    <3>. QED BY <1>13, <2>2, <3>2
  <2>3. {i \in places : place(i) = k} = {ends[k]}
    BY <1>8, <1>13, <2>1, <2>2
  <2>4. ends[k] \in Nat /\ {ends[k]} \in SUBSET Nat
    BY <2>1
  <2>5. ends[k] \in {ends[k]} /\ \A i \in {ends[k]} : ends[k] <= i
    BY <2>4
  <2>6. Min({ends[k]}) = ends[k]
    BY <2>4, <2>5, MinIs
  <2>. QED BY <2>3, <2>6
<1>16. HeaderLines(all) = [k \in 1..size |->
                            LineTo(all, Min({i \in places : place(i) = k}))]
  <2>1. (size + 1) - 1 = size
    OBVIOUS
  <2>. QED BY <1>5, <1>12, <2>1 DEF HeaderLines, place
<1>17. \A k \in 1..n : k \in 1..size /\ k \in 0..n
  BY <1>12
<1>18. \A k \in 1..n : HeaderLines(all)[k] = LineTo(text, ends[k])
  BY <1>3, <1>6, <1>15, <1>16, <1>17
<1>19. DOMAIN HeaderLines(all) = 1..size /\ Len(HeaderLines(all)) = size
  BY <1>16
<1>. QED BY <1>1, <1>12, <1>18, <1>19 DEF LinesOf

\* What a whole header is read as, whatever follows it.
LEMMA HeaderParses ==
  ASSUME NEW A, NEW text \in Seq(A), NEW more \in Seq(A), NEW X, NEW lines \in Seq(X),
         NEW command, NEW version, HeaderWhole(text, command, lines, version)
  PROVE  LET all == text \o more
         IN /\ HeaderEnds(all) # {} /\ Min(HeaderEnds(all)) = Len(text)
            /\ command = LineTo(all, Min(CommandEnds(all)))
            /\ DecodedLines(all, version) = lines
            /\ BodyText(all) = more
<1>0. PICK all \in Seq(A) : all = text \o more
  <2>1. text \o more \in Seq(A)
    OBVIOUS
  <2>. QED BY <2>1
<1>1. PICK h \in Nat, m \in Nat, n \in Nat : h = Len(text) /\ m = Len(more) /\ n = Len(lines)
  OBVIOUS
<1>2. Len(all) = h + m /\ \A i \in 1..m : all[h + i] = more[i]
  BY <1>0, <1>1, JoinOfTwo, SMT
<1>3. HeaderEnds(text) = {h} /\ HasLines(text, command, lines, version)
  BY <1>1 DEF HeaderWhole
<1>4. PICK ends \in [0..n -> Nat] : LinesAt(text, ends, command, lines, version)
  BY <1>1, <1>3 DEF HasLines
<1>5. /\ CommandEnds(text) = {ends[i] : i \in 0..n}
      /\ \A i, j \in 0..n : i < j => ends[i] < ends[j]
      /\ LineTo(text, ends[0]) = command
      /\ \A i \in 1..n : lines[i] = HeaderLine(LineTo(text, ends[i]), version)
  BY <1>1, <1>4 DEF LinesAt
<1>6. /\ \A i \in Ends(text) : LineTo(all, i) = LineTo(text, i)
      /\ CommandEnds(text) = {i \in CommandEnds(all) : i <= h}
      /\ HeaderEnds(text) = {i \in HeaderEnds(all) : i <= h}
  BY <1>0, <1>1, LineStays
<1>7. /\ Ends(all) \in SUBSET Nat /\ CommandEnds(all) \subseteq Ends(all)
      /\ HeaderEnds(all) \subseteq Ends(all)
      /\ CommandEnds(text) \subseteq Ends(text) /\ HeaderEnds(text) \subseteq Ends(text)
  BY EndsType
<1>8. /\ CommandEnds(all) \in SUBSET Nat /\ HeaderEnds(all) \in SUBSET Nat
      /\ h \in HeaderEnds(all) /\ \A i \in HeaderEnds(all) : i <= h => i = h
  BY <1>3, <1>6, <1>7
<1>9. Min(HeaderEnds(all)) = h
  <2>1. \A i \in HeaderEnds(all) : h <= i
    BY <1>8
  <2>. QED BY <1>8, <2>1, MinIs
<1>10. BodyText(all) = more
  <2>1. SubSeq(all, h + 1, Len(all)) = more
    BY <1>1, <1>2, EndOfSequence
  <2>. QED BY <1>9, <2>1 DEF BodyText
<1>11. \A i \in 0..n : ends[i] \in CommandEnds(all) /\ ends[i] \in Ends(text) /\ ends[i] <= h
  BY <1>5, <1>6, <1>7
<1>12. 0 \in 0..n /\ \A i \in 0..n : i = 0 \/ 0 < i
  BY <1>1
<1>13. Min(CommandEnds(all)) = ends[0]
  <2>1. ASSUME NEW i \in CommandEnds(all) PROVE ends[0] <= i
    <3>1. i \in Nat /\ ends[0] \in Nat /\ ends[0] <= h
      BY <1>8, <1>11, <1>12
    <3>2. CASE i <= h
      <4>1. PICK j \in 0..n : i = ends[j]
        BY <1>5, <1>6, <3>2
      <4>. QED BY <1>5, <1>12, <3>1, <4>1
    <3>3. CASE i > h
      BY <3>1, <3>3
    <3>. QED BY <3>1, <3>2, <3>3
  <2>2. ends[0] \in CommandEnds(all)
    BY <1>11, <1>12
  <2>. QED BY <1>8, <2>1, <2>2, MinIs
<1>14. LineTo(all, Min(CommandEnds(all))) = command
  BY <1>5, <1>6, <1>11, <1>12, <1>13
<1>15. LinesEnd(text, n, ends)
  BY <1>5 DEF LinesEnd
<1>16. /\ DOMAIN HeaderLines(all) = 1..n
       /\ \A k \in 1..n : HeaderLines(all)[k] = LineTo(text, ends[k])
  <2>1. HeaderEnds(text) \subseteq {Len(text)} /\ HeaderEnds(text) # {}
    BY <1>1, <1>3
  <2>2. PICK size \in Nat : LinesOf(text, n, ends, text \o more, size)
    BY <1>15, <2>1, LinesRemain
  <2>. QED BY <1>0, <2>1, <2>2 DEF LinesOf
<1>17. DecodedLines(all, version) = [i \in 1..n |-> lines[i]]
  <2>1. \A i \in 1..n : HeaderLine(HeaderLines(all)[i], version) = lines[i]
    BY <1>5, <1>16
  <2>. QED BY <1>16, <2>1 DEF DecodedLines
<1>18. [i \in 1..n |-> lines[i]] = lines
  BY <1>1
<1>. QED BY <1>0, <1>1, <1>8, <1>9, <1>10, <1>14, <1>17, <1>18

-----------------------------------------------------------------------------
(* What the reader takes of the stream.                                     *)

\* A sequence is empty or has a first element.
LEMMA EmptyOrNot ==
  ASSUME NEW S, NEW s \in Seq(S)
  PROVE  s # <<>> <=> Len(s) >= 1
OBVIOUS

\* A completed readLine takes one line, its end included.
LEMMA LineTaken ==
  ASSUME PipeTyped, NEW kind \in {"command", "header"}, Completes(kind)
  PROVE  \E k \in 1..Len(buffer) :
           /\ buffer' = SubSeq(buffer, k + 1, Len(buffer))
           /\ SubSeq(buffer, 1, k) \in Seq(Alphabet) /\ OneLine(SubSeq(buffer, 1, k))
           /\ Len(SubSeq(buffer, 1, k)) <= MaxLineLength
           /\ Bytes = Stripped(SubSeq(SubSeq(buffer, 1, k), 1, Len(SubSeq(buffer, 1, k)) - 1))
<1>. DEFINE ends == Found(LF, buffer, MaxLineLength)
            end == Min(ends)
            length == IF CRBefore(buffer, end) THEN end - 2 ELSE end - 1
<1>1. buffer \in Seq(Alphabet) /\ MaxLineLength \in Nat /\ MaxLineLength >= 1
  BY FrameInputAssumption DEF PipeTyped, StreamTyped
<1>2. Operation = ReadLine(buffer, MaxLineLength) /\ Operation.status = "completed"
      /\ buffer' = Left(buffer, Operation)
  BY DEF Completes, Operation
<1>3. ends # {}
  BY <1>2 DEF ReadLine, ReadContinued, ReadError
<1>4. Operation = ReadCompleted(length, end - length)
  BY <1>2, <1>3 DEF ReadLine
<1>5. PICK n \in Nat : n = Len(buffer)
  BY <1>1
<1>6. ends \in SUBSET Nat /\ end \in ends /\ \A i \in ends : end <= i
  BY <1>1, <1>3, FoundType, MinIsLeast
<1>7. /\ end \in 1..n /\ end <= MaxLineLength /\ buffer[end] = LF
      /\ \A i \in 1..n : i < end => buffer[i] # LF
  <2>1. \A i \in Nat : i \in ends <=> i \in 1..n /\ i <= MaxLineLength /\ buffer[i] = LF
    BY <1>1, <1>5 DEF Found, Smaller
  <2>. HIDE DEF ends
  <2>2. end \in 1..n /\ end <= MaxLineLength /\ buffer[end] = LF
    BY <1>6, <2>1
  <2>3. ASSUME NEW i \in 1..n, i < end PROVE buffer[i] # LF
    BY <1>1, <1>6, <2>1, <2>2, <2>3
  <2>. QED BY <2>2, <2>3
<1>. HIDE DEF ends, end
<1>a. PICK e \in 1..n : /\ e = end /\ buffer[e] = LF /\ e <= MaxLineLength
                       /\ \A i \in 1..n : i < e => buffer[i] # LF
  BY <1>7
<1>b. PICK l \in Nat, skip \in Nat :
        l = (IF CRBefore(buffer, e) THEN e - 2 ELSE e - 1) /\ l + skip = e /\ skip = e - l
  <2>1. (IF CRBefore(buffer, e) THEN e - 2 ELSE e - 1) \in Nat
    BY DEF CRBefore
  <2>2. e - (IF CRBefore(buffer, e) THEN e - 2 ELSE e - 1) \in Nat
    BY DEF CRBefore
  <2>. QED BY <2>1, <2>2
<1>8. Operation = ReadCompleted(l, skip)
  BY <1>4, <1>a, <1>b
<1>9. buffer' = SubSeq(buffer, e + 1, Len(buffer)) /\ Bytes = SubSeq(buffer, 1, l)
  <2>1. buffer' = SubSeq(buffer, (l + skip) + 1, Len(buffer))
    BY <1>2, <1>8 DEF Left, ReadCompleted
  <2>2. Bytes = SubSeq(buffer, 1, l)
    BY <1>8 DEF Bytes, Taken, ReadCompleted
  <2>. QED BY <1>b, <2>1, <2>2
<1>10. PICK piece \in Seq(Alphabet) :
         /\ piece = SubSeq(buffer, 1, e) /\ Len(piece) = e
         /\ \A i \in 1..e : piece[i] = buffer[i]
  <2>1. /\ SubSeq(buffer, 1, e) \in Seq(Alphabet)
        /\ Len(SubSeq(buffer, 1, e)) = (e - 1) + 1
        /\ \A i \in 1..((e - 1) + 1) : SubSeq(buffer, 1, e)[i] = buffer[(1 + i) - 1]
    <3>1. 1 \in Nat /\ e \in Nat /\ 1 >= 1 /\ e <= Len(buffer) /\ 1 <= e + 1
      BY <1>5, <1>a
    <3>. QED BY <1>1, <3>1, PartOf
  <2>2. (e - 1) + 1 = e /\ \A i \in 1..e : (1 + i) - 1 = i
    BY <1>a
  <2>. QED BY <2>1, <2>2
<1>11. OneLine(piece)
  <2>1. \A i \in 1..e : i \in 1..n /\ (i = e \/ i < e)
    BY <1>a
  <2>2. piece # <<>>
    <3>1. Len(piece) >= 1
      BY <1>10
    <3>. QED BY <3>1, EmptyOrNot, Zenon
  <2>. QED BY <1>a, <1>10, <2>1, <2>2 DEF OneLine
<1>12. PICK line \in Seq(Alphabet) :
         /\ line = SubSeq(piece, 1, e - 1) /\ Len(line) = e - 1
         /\ \A i \in 1..(e - 1) : line[i] = buffer[i]
  <2>1. /\ SubSeq(piece, 1, e - 1) \in Seq(Alphabet)
        /\ Len(SubSeq(piece, 1, e - 1)) = ((e - 1) - 1) + 1
        /\ \A i \in 1..(((e - 1) - 1) + 1) : SubSeq(piece, 1, e - 1)[i] = piece[(1 + i) - 1]
    <3>1. 1 \in Nat /\ e - 1 \in Nat /\ 1 >= 1 /\ e - 1 <= Len(piece) /\ 1 <= (e - 1) + 1
      BY <1>a, <1>10
    <3>. QED BY <3>1, PartOf
  <2>2. ((e - 1) - 1) + 1 = e - 1
        /\ \A i \in 1..(e - 1) : (1 + i) - 1 = i /\ i \in 1..e
    BY <1>a
  <2>3. PICK line \in Seq(Alphabet) : line = SubSeq(piece, 1, e - 1)
    BY <2>1
  <2>4. Len(line) = e - 1 /\ \A i \in 1..(e - 1) : line[i] = piece[i]
    BY <2>1, <2>2, <2>3
  <2>5. \A i \in 1..(e - 1) : line[i] = buffer[i]
    BY <1>10, <2>2, <2>4
  <2>. QED BY <2>3, <2>4, <2>5
<1>13. EndsInCR(line) <=> CRBefore(buffer, e)
  <2>1. e > 1 <=> line # <<>>
    <3>1. line # <<>> <=> Len(line) >= 1
      BY EmptyOrNot, Zenon
    <3>2. Len(line) >= 1 <=> e > 1
      BY <1>12
    <3>. QED BY <3>1, <3>2
  <2>2. e > 1 => e - 1 \in 1..(e - 1)
    BY <1>a
  <2>3. e > 1 => Last(line) = buffer[e - 1]
    BY <1>12, <2>2 DEF Last
  <2>. QED BY <2>1, <2>3 DEF EndsInCR, CRBefore
<1>14. Stripped(line) = SubSeq(buffer, 1, l)
  <2>1. CASE CRBefore(buffer, e)
    <3>1. e - 1 \in 1..n /\ e > 1
      BY <1>a, <2>1 DEF CRBefore
    <3>2. l = e - 2 /\ Len(line) - 1 = e - 2 /\ e - 2 \in Nat
      BY <1>b, <1>12, <2>1, <3>1
    <3>3. Stripped(line) = SubSeq(line, 1, e - 2)
      BY <1>13, <2>1, <3>2 DEF Stripped, Front
    <3>4. SubSeq(buffer, 1, e - 2) = SubSeq(line, 1, e - 2)
      <4>1. \A i \in 1..(e - 2) : i \in 1..(e - 1)
        BY <3>2
      <4>2. \A i \in 1..(e - 2) : buffer[i] = line[i]
        BY <1>12, <4>1
      <4>3. /\ 1 \in Nat /\ 1 <= 1 /\ 1 <= (e - 2) + 1
            /\ e - 2 <= Len(line) /\ e - 2 <= Len(buffer)
        BY <1>5, <1>a, <1>12, <3>2
      <4>. QED BY <1>1, <3>2, <4>2, <4>3, PartStays
    <3>. QED BY <3>2, <3>3, <3>4
  <2>2. CASE ~CRBefore(buffer, e)
    <3>1. l = e - 1 /\ e - 1 \in Nat
      BY <1>b, <2>2
    <3>2. Stripped(line) = line
      BY <1>13, <2>2 DEF Stripped
    <3>3. SubSeq(buffer, 1, e - 1) = SubSeq(piece, 1, e - 1)
      <4>1. \A i \in 1..(e - 1) : i \in 1..e
        BY <3>1
      <4>2. \A i \in 1..(e - 1) : buffer[i] = piece[i]
        BY <1>10, <4>1
      <4>3. /\ 1 \in Nat /\ 1 <= 1 /\ 1 <= (e - 1) + 1
            /\ e - 1 <= Len(piece) /\ e - 1 <= Len(buffer)
        BY <1>5, <1>a, <1>10, <3>1
      <4>. QED BY <1>1, <3>1, <4>2, <4>3, PartStays
    <3>. QED BY <1>12, <3>1, <3>2, <3>3
  <2>. QED BY <2>1, <2>2
<1>. QED BY <1>5, <1>a, <1>9, <1>10, <1>11, <1>12, <1>14

\* A completed read of a body takes what it returns.
LEMMA PieceTaken ==
  ASSUME PipeTyped, NEW kind \in {"fixed", "end", "dynamic"}, Completes(kind)
  PROVE  \E k \in 0..Len(buffer) :
           /\ buffer' = SubSeq(buffer, k + 1, Len(buffer))
           /\ Bytes = SubSeq(buffer, 1, k) /\ Bytes \in Seq(Alphabet) /\ Len(Bytes) = k
           /\ kind = "fixed" => k <= body.remaining
           /\ kind = "end" => k = 1
           /\ kind = "dynamic" => k >= 1 /\ \A i \in 1..(k - 1) : Bytes[i] # NUL
<1>1. /\ buffer \in Seq(Alphabet) /\ MaxBodyChunkLength \in Nat /\ reading = kind
      /\ buffer' = Left(buffer, Operation) /\ Operation.status = "completed"
  BY FrameInputAssumption DEF PipeTyped, StreamTyped, Completes
<1>2. PICK k \in Nat, skip \in Nat :
        /\ Operation = ReadCompleted(k, skip)
        /\ k + skip <= Len(buffer)
        /\ reading = "fixed" => /\ k <= body.remaining
                                /\ k <= MaxBodyChunkLength
        /\ reading = "dynamic" => k >= 1 /\ k <= MaxBodyChunkLength
  BY <1>1, OperationType
<1>3. PICK n \in Nat : n = Len(buffer)
  BY <1>1
<1>4. skip = 0
  <2>1. Operation.skip = skip
    BY <1>2 DEF ReadCompleted
  <2>2. CASE kind \in {"fixed", "end"}
    <3>1. \E m : Operation = ReadRange(buffer, m, m)
      BY <1>1, <2>2 DEF Operation
    <3>2. Operation.skip = 0
      BY <1>1, <3>1 DEF ReadRange, ReadCompleted, ReadContinued
    <3>. QED BY <2>1, <3>2
  <2>3. CASE kind = "dynamic"
    <3>1. Operation = ReadUntil(buffer, NUL, MaxBodyChunkLength)
      BY <1>1, <2>3 DEF Operation
    <3>2. Operation.skip = 0
      BY <1>1, <3>1 DEF ReadUntil, ReadCompleted, ReadContinued
    <3>. QED BY <2>1, <3>2
  <2>. QED BY <2>2, <2>3
<1>5. k \in 0..Len(buffer) /\ k + 0 = k
  BY <1>2, <1>3, <1>4
<1>6. buffer' = SubSeq(buffer, k + 1, Len(buffer)) /\ Bytes = SubSeq(buffer, 1, k)
  <2>1. buffer' = SubSeq(buffer, (k + 0) + 1, Len(buffer))
    BY <1>1, <1>2, <1>4 DEF Left, ReadCompleted
  <2>2. Bytes = SubSeq(buffer, 1, k)
    BY <1>2 DEF Bytes, Taken, ReadCompleted
  <2>. QED BY <1>5, <2>1, <2>2
<1>7. /\ Bytes \in Seq(Alphabet) /\ Len(Bytes) = k
      /\ \A i \in 1..k : Bytes[i] = buffer[i]
  <2>1. /\ SubSeq(buffer, 1, k) \in Seq(Alphabet)
        /\ Len(SubSeq(buffer, 1, k)) = (k - 1) + 1
        /\ \A i \in 1..((k - 1) + 1) : SubSeq(buffer, 1, k)[i] = buffer[(1 + i) - 1]
    <3>1. 1 \in Nat /\ 1 >= 1 /\ k <= Len(buffer) /\ 1 <= k + 1
      BY <1>3, <1>5
    <3>. QED BY <1>1, <3>1, PartOf
  <2>2. (k - 1) + 1 = k /\ \A i \in 1..k : (1 + i) - 1 = i
    BY <1>2
  <2>. QED BY <1>6, <2>1, <2>2
<1>8. ASSUME kind = "dynamic", NEW i \in 1..(k - 1) PROVE buffer[i] # NUL
  <2>1. Operation = ReadUntil(buffer, NUL, MaxBodyChunkLength)
    BY <1>1, <1>8 DEF Operation
  <2>. DEFINE ends == Found(NUL, buffer, MaxBodyChunkLength)
  <2>2. i \in 1..n /\ i < k /\ i <= MaxBodyChunkLength
    BY <1>1, <1>2, <1>3, <1>5, <1>8
  <2>3. \A j \in 1..n : j <= MaxBodyChunkLength /\ buffer[j] = NUL => j \in ends
    BY <1>1, <1>3 DEF Found, Smaller
  <2>4. ends \in SUBSET Nat
    BY <1>1, FoundType
  <2>5. ends # {} => k = Min(ends)
    BY <1>2, <2>1 DEF ReadUntil, ReadCompleted
  <2>. HIDE DEF ends
  <2>6. i \notin ends
    <3>1. ends # {} => \A j \in ends : k <= j
      BY <2>4, <2>5, MinIsLeast
    <3>. QED BY <2>2, <3>1
  <2>. QED BY <2>2, <2>3, <2>6
<1>9. ASSUME kind = "dynamic" PROVE \A i \in 1..(k - 1) : Bytes[i] # NUL
  <2>1. \A i \in 1..(k - 1) : i \in 1..k
    BY <1>2
  <2>. QED BY <1>7, <1>8, <1>9, <2>1
<1>10. ASSUME kind = "end" PROVE k = 1
  <2>1. Operation = ReadRange(buffer, 1, 1) /\ Operation.status = "completed"
    BY <1>1, <1>10 DEF Operation
  <2>2. Operation = ReadCompleted(1, 0)
    BY <1>3, <2>1 DEF ReadRange, ReadContinued, Smaller
  <2>. QED BY <1>2, <2>2 DEF ReadCompleted
<1>. QED BY <1>1, <1>2, <1>5, <1>6, <1>7, <1>9, <1>10

\* What has been read since the frame began.
Read == SubSeq(bytes, from, Consumed)

\* A part of the stream that has been consumed.
LEMMA ConsumedPart ==
  ASSUME StreamTyped, NEW a \in Nat, NEW b \in Nat, 1 <= a, a <= b + 1, b <= Consumed
  PROVE  /\ SubSeq(bytes, a, b) \in Seq(Alphabet) /\ Len(SubSeq(bytes, a, b)) = (b - a) + 1
         /\ b <= Len(bytes)
<1>1. PICK k \in Nat, u \in Nat, w \in Nat :
        /\ k = Consumed /\ u = Len(buffer) /\ w = Len(wire)
        /\ Len(bytes) = (k + u) + w
        /\ Stands(buffer, bytes, k) /\ Stands(wire, bytes, k + u)
  BY StreamSizes
<1>2. b <= Len(bytes) /\ bytes \in Seq(Alphabet)
  BY <1>1, StreamTypes
<1>. QED BY <1>2, PartOf

\* It grows by what a read takes.
LEMMA ReadGrows ==
  ASSUME StreamTyped, from \in Nat, 1 <= from, from <= Consumed + 1, NEW k \in 0..Len(buffer),
         Consumed' = Consumed + k, UNCHANGED <<bytes, from>>
  PROVE  /\ Read \in Seq(Alphabet) /\ SubSeq(buffer, 1, k) \in Seq(Alphabet)
         /\ Read' = Read \o SubSeq(buffer, 1, k)
<1>1. PICK c \in Nat, u \in Nat, w \in Nat :
        /\ c = Consumed /\ u = Len(buffer) /\ w = Len(wire)
        /\ Len(bytes) = (c + u) + w
        /\ Stands(buffer, bytes, c) /\ Stands(wire, bytes, c + u)
  BY StreamSizes
<1>2. bytes \in Seq(Alphabet) /\ buffer \in Seq(Alphabet)
  BY StreamTypes
<1>3. PICK f \in Nat, m \in Nat : f = from /\ m = c - f + 1 /\ f >= 1 /\ k \in Nat /\ k <= u
                                  /\ f + m = c + 1
  <2>1. c - from + 1 \in Nat /\ from + (c - from + 1) = c + 1 /\ k <= u /\ k \in Nat
    BY <1>1
  <2>. QED BY <2>1
<1>4. PICK a \in Seq(Alphabet) :
        a = Read /\ Len(a) = m /\ \A i \in 1..m : a[i] = bytes[(f + i) - 1]
  <2>1. /\ SubSeq(bytes, f, c) \in Seq(Alphabet) /\ Len(SubSeq(bytes, f, c)) = (c - f) + 1
        /\ \A i \in 1..((c - f) + 1) : SubSeq(bytes, f, c)[i] = bytes[(f + i) - 1]
    <3>1. f >= 1 /\ c <= Len(bytes) /\ f <= c + 1
      BY <1>1, <1>3
    <3>. QED BY <1>2, <3>1, PartOf
  <2>2. (c - f) + 1 = m
    BY <1>3
  <2>. QED BY <1>1, <1>3, <2>1, <2>2 DEF Read
<1>5. PICK b \in Seq(Alphabet) :
        b = SubSeq(buffer, 1, k) /\ Len(b) = k /\ \A i \in 1..k : b[i] = buffer[i]
  <2>1. /\ SubSeq(buffer, 1, k) \in Seq(Alphabet)
        /\ Len(SubSeq(buffer, 1, k)) = (k - 1) + 1
        /\ \A i \in 1..((k - 1) + 1) : SubSeq(buffer, 1, k)[i] = buffer[(1 + i) - 1]
    <3>1. 1 \in Nat /\ 1 >= 1 /\ k <= Len(buffer) /\ 1 <= k + 1
      BY <1>1, <1>3
    <3>. QED BY <1>2, <1>3, <3>1, PartOf
  <2>2. (k - 1) + 1 = k /\ \A i \in 1..k : (1 + i) - 1 = i
    BY <1>3
  <2>. QED BY <2>1, <2>2
<1>6. PICK d \in Seq(Alphabet) :
        d = Read' /\ Len(d) = m + k /\ \A i \in 1..(m + k) : d[i] = bytes[(f + i) - 1]
  <2>1. /\ SubSeq(bytes, f, c + k) \in Seq(Alphabet)
        /\ Len(SubSeq(bytes, f, c + k)) = ((c + k) - f) + 1
        /\ \A i \in 1..(((c + k) - f) + 1) : SubSeq(bytes, f, c + k)[i] = bytes[(f + i) - 1]
    <3>1. f >= 1 /\ c + k \in Nat /\ c + k <= Len(bytes) /\ f <= (c + k) + 1
      BY <1>1, <1>3
    <3>. QED BY <1>2, <3>1, PartOf
  <2>2. ((c + k) - f) + 1 = m + k
    BY <1>3
  <2>3. Read' = SubSeq(bytes, f, c + k)
    BY <1>1, <1>3 DEF Read
  <2>. QED BY <2>1, <2>2, <2>3
<1>7. PICK e \in Seq(Alphabet) :
        /\ e = a \o b /\ Len(e) = m + k
        /\ \A i \in 1..m : e[i] = a[i]
        /\ \A i \in 1..k : e[m + i] = b[i]
  <2>1. a \o b \in Seq(Alphabet)
    OBVIOUS
  <2>2. /\ Len(a \o b) = m + k
        /\ \A i \in 1..m : (a \o b)[i] = a[i]
        /\ \A i \in 1..k : (a \o b)[m + i] = b[i]
    <3>1. /\ Len(a \o b) = Len(a) + Len(b)
          /\ \A i \in 1..Len(a) : (a \o b)[i] = a[i]
          /\ \A i \in 1..Len(b) : (a \o b)[Len(a) + i] = b[i]
      BY JoinOfTwo, SMT
    <3>2. Len(a) = m /\ Len(b) = k
      BY <1>4, <1>5
    <3>. QED BY <3>1, <3>2
  <2>. QED BY <2>1, <2>2
<1>8. \A i \in 1..k : bytes[c + i] = buffer[i]
  <2>1. \A i \in 1..k : i \in 1..u
    BY <1>3
  <2>. QED BY <1>1, <2>1 DEF Stands
<1>9. ASSUME NEW i \in 1..(m + k) PROVE d[i] = e[i]
  <2>1. CASE i <= m
    <3>1. i \in 1..m
      BY <2>1
    <3>. QED BY <1>4, <1>6, <1>7, <3>1
  <2>2. CASE i > m
    <3>1. PICK j \in 1..k : i = m + j
      <4>1. i - m \in 1..k /\ i = m + (i - m)
        BY <2>2
      <4>. QED BY <4>1
    <3>2. (f + i) - 1 = c + j
      BY <1>3, <3>1
    <3>3. d[i] = bytes[c + j]
      BY <1>6, <3>2
    <3>4. e[i] = b[j] /\ b[j] = buffer[j]
      BY <1>5, <1>7, <3>1
    <3>. QED BY <1>8, <3>3, <3>4
  <2>. QED BY <2>1, <2>2
<1>10. d = e
  BY <1>6, <1>7, <1>9, SeqEqual, Zenon
<1>. QED BY <1>4, <1>5, <1>6, <1>7, <1>10

\* What has been consumed stays, whatever the peer and the stream do.
LEMMA ConsumedStays ==
  ASSUME PipeTyped, StreamTyped', PeerStep \/ ConnectionLost \/ UNCHANGED bytes,
         Consumed' >= Consumed,
         NEW a \in Nat, NEW b \in Nat, 1 <= a, a <= b + 1, b <= Consumed
  PROVE  SubSeq(bytes', a, b) = SubSeq(bytes, a, b)
<1>1. StreamTyped
  BY DEF PipeTyped
<1>2. Consumed \in Nat /\ Consumed' \in Nat /\ b <= Consumed'
  BY <1>1 DEF StreamTyped
<1>3. b <= Len(bytes) /\ bytes \in Seq(Alphabet) /\ b <= Len(bytes') /\ bytes' \in Seq(Alphabet)
  <2>1. b <= Len(bytes) /\ bytes \in Seq(Alphabet)
    BY <1>1, ConsumedPart, StreamTypes
  <2>2. bytes' \in Seq(Alphabet) /\ Len(bytes') = (Consumed' + Len(buffer')) + Len(wire')
        /\ Len(buffer') \in Nat /\ Len(wire') \in Nat
    <3>1. bytes' \in Seq(Alphabet) /\ buffer' \in Seq(Alphabet) /\ wire' \in Seq(Alphabet)
      BY DEF StreamTyped
    <3>2. PICK x \in Nat, y \in Nat, z \in Nat :
            x = Len(bytes') /\ y = Len(buffer') /\ z = Len(wire')
      BY <3>1
    <3>3. Consumed' = x - z - y
      BY <3>2 DEF Consumed
    <3>4. x = (Consumed' + y) + z
      BY <1>2, <3>3
    <3>. QED BY <3>1, <3>2, <3>4
  <2>. QED BY <1>2, <2>1, <2>2
<1>4. CASE UNCHANGED bytes
  BY <1>4
<1>5. CASE \E data \in Seq(Alphabet) : bytes' = bytes \o data
  <2>1. PICK data \in Seq(Alphabet) : bytes' = bytes \o data
    BY <1>5
  <2>2. \A i \in 1..Len(bytes) : (bytes \o data)[i] = bytes[i]
    BY <1>3, JoinOfTwo, SMT
  <2>3. \A i \in 1..b : i \in 1..Len(bytes)
    BY <1>3
  <2>4. \A i \in 1..b : bytes'[i] = bytes[i]
    BY <2>1, <2>2, <2>3
  <2>. QED BY <1>3, <2>4, PartStays
<1>6. CASE \E m \in 0..Len(bytes) : bytes' = SubSeq(bytes, 1, m)
  <2>1. PICK m \in 0..Len(bytes) : bytes' = SubSeq(bytes, 1, m)
    BY <1>6
  <2>2. /\ Len(SubSeq(bytes, 1, m)) = (m - 1) + 1
        /\ \A i \in 1..((m - 1) + 1) : SubSeq(bytes, 1, m)[i] = bytes[(1 + i) - 1]
    <3>1. 1 \in Nat /\ m \in Nat /\ 1 >= 1 /\ m <= Len(bytes) /\ 1 <= m + 1
      BY <1>3
    <3>. QED BY <1>3, <3>1, PartOf
  <2>3. (m - 1) + 1 = m /\ m \in Nat
    BY <1>3
  <2>4. \A i \in 1..b : i \in 1..m /\ (1 + i) - 1 = i
    BY <1>3, <2>1, <2>2, <2>3
  <2>5. \A i \in 1..b : bytes'[i] = bytes[i]
    BY <2>1, <2>2, <2>3, <2>4
  <2>. QED BY <1>3, <2>5, PartStays
<1>7. /\ number \in DOMAIN Scenarios /\ next \in 1..(Len(Script) + 1) /\ Len(Script) \in Nat
      /\ writes.rest \in Seq(Seq(Alphabet))
  BY ScriptType DEF PipeTyped, PeerTyped
<1>8. ASSUME SendBytes
      PROVE  \E data \in Seq(Alphabet) : bytes' = bytes \o data
  <2>1. next \in 1..Len(Script) /\ Item.kind = "bytes" /\ bytes' = bytes \o Item.bytes
    BY <1>7, <1>8 DEF SendBytes, Put
  <2>2. Item.bytes \in Seq(Alphabet)
    BY <1>7, <2>1, BytesType
  <2>. QED BY <2>1, <2>2
<1>9. ASSUME Write
      PROVE  \E data \in Seq(Alphabet) : bytes' = bytes \o data
  <2>1. writes.rest # <<>> /\ bytes' = bytes \o Head(writes.rest)
    BY <1>9 DEF Write, Put
  <2>2. Head(writes.rest) \in Seq(Alphabet)
    BY <1>7, <2>1, HeadTailProperties
  <2>. QED BY <2>1, <2>2
<1>10. CASE PeerStep
  <2>1. BeginFrame \/ EndFrame \/ EndStream => UNCHANGED bytes
    BY DEF BeginFrame, EndFrame, EndStream
  <2>. QED BY <1>4, <1>5, <1>8, <1>9, <1>10, <2>1 DEF PeerStep, Sends
<1>11. CASE ConnectionLost
  <2>1. PICK n \in 0..Len(wire) : bytes' = SubSeq(bytes, 1, Len(bytes) - Len(wire) + n)
    BY <1>11 DEF ConnectionLost
  <2>2. PICK k \in Nat, u \in Nat, w \in Nat :
          /\ k = Consumed /\ u = Len(buffer) /\ w = Len(wire)
          /\ Len(bytes) = (k + u) + w
          /\ Stands(buffer, bytes, k) /\ Stands(wire, bytes, k + u)
    BY <1>1, StreamSizes
  <2>3. Len(bytes) - Len(wire) + n \in 0..Len(bytes)
    BY <2>2
  <2>. QED BY <1>6, <2>1, <2>3
<1>. QED BY <1>4, <1>10, <1>11

-----------------------------------------------------------------------------
(* What has been parsed of the frame that is being read.                    *)

\* A header that has been read.
HeadRead(text) == HeaderWhole(text, Command, input.lines, session.version)

\* The body goes on behind this content.
Goes(content) ==
  IF IsSet(Headers, ContentLength)
    THEN /\ body.kind = "fixed"
         /\ Len(content) + body.remaining = BodyLength(Headers)
    ELSE body.kind = "dynamic" /\ NUL \notin ToSet(content)

\* What has been given of the body, or is about to be.
Content == IF chunk.status = "ok" THEN consumer.text \o chunk.bytes ELSE consumer.text

\* What stands behind the header: the content, and the null byte if the body is over.
ContentRead(head, content) ==
  IF body.kind = "over"
    THEN Read = (head \o content) \o <<NUL>> /\ BodyComplete(Headers, content)
    ELSE Read = head \o content /\ Goes(content)

FrameBegun == loop \in {"frame", "body"} => 1 <= from /\ from <= Consumed + 1

HeaderParsed ==
  /\ reading = "command" => Lined(Read) /\ CommandEnds(Read) = {} /\ input.lines = <<>>
  /\ reading = "header" => HeaderOpen(Read, Command, input.lines, session.version)
  /\ FrameReady => HeadRead(Read) /\ body = BodyOf(Headers)

BodyParsed ==
  /\ reading = "end" => body.remaining = 0
  /\ loop = "body" /\ chunk.status \in {"awaited", "ok", "done"} =>
       \E head \in Seq(Alphabet) : HeadRead(head) /\ ContentRead(head, Content)
  /\ loop = "body" /\ chunk.status = "done" => body.kind = "over"

EntriesParsed ==
  \A k \in 1..Len(received) :
    /\ 1 <= received[k].from /\ received[k].from <= received[k].to
    /\ received[k].to <= Consumed
    /\ Parses(SubSeq(bytes, received[k].from, received[k].to), received[k])

\* The inductive invariant.
Parsed == FrameBegun /\ HeaderParsed /\ BodyParsed /\ EntriesParsed

\* The frames that have been read stay read.
LEMMA EntriesStay ==
  ASSUME PipeTyped, StreamTyped', PeerStep \/ ConnectionLost \/ UNCHANGED bytes,
         Consumed' >= Consumed, EntriesParsed, UNCHANGED received
  PROVE  EntriesParsed'
<1>1. received \in Seq(Entries) /\ Consumed \in Nat /\ Consumed' \in Nat
  BY DEF PipeTyped, StreamTyped, ReaderTyped
<1>2. ASSUME NEW k \in 1..Len(received)
      PROVE  /\ 1 <= received[k].from /\ received[k].from <= received[k].to
             /\ received[k].to <= Consumed'
             /\ Parses(SubSeq(bytes', received[k].from, received[k].to), received[k])
  <2>0. received[k] \in Entries
    BY <1>1
  <2>1. PICK a \in Nat, b \in Nat : a = received[k].from /\ b = received[k].to
    BY <2>0 DEF Entries
  <2>2. /\ 1 <= a /\ a <= b /\ b <= Consumed
        /\ Parses(SubSeq(bytes, a, b), received[k])
    BY <2>1 DEF EntriesParsed
  <2>3. a <= b + 1 /\ b <= Consumed'
    BY <1>1, <2>2
  <2>4. SubSeq(bytes', a, b) = SubSeq(bytes, a, b)
    BY <2>2, <2>3, ConsumedStays
  <2>. QED BY <2>1, <2>2, <2>3, <2>4
<1>. QED BY <1>2 DEF EntriesParsed

\* A step that leaves the parser alone.
LEMMA QuietParsed ==
  ASSUME PipeTyped, Parsed, PipeTyped', PeerStep \/ ConnectionLost \/ UNCHANGED bytes,
         Consumed' = Consumed,
         UNCHANGED <<reading, input, body, chunk, session, loop, consumer, received, from>>
  PROVE  Parsed'
<1>1. FrameBegun /\ HeaderParsed /\ BodyParsed /\ EntriesParsed
  BY DEF Parsed
<1>2. StreamTyped /\ StreamTyped' /\ Consumed \in Nat /\ Stages /\ ReaderTyped
  BY DEF PipeTyped, StreamTyped
<1>3. EntriesParsed'
  BY <1>1, <1>2, EntriesStay
<1>4. loop \in {"frame", "body"} => Read' = Read
  <2>. SUFFICES ASSUME loop \in {"frame", "body"} PROVE Read' = Read
    OBVIOUS
  <2>1. PICK a \in Nat, b \in Nat : a = from /\ b = Consumed /\ 1 <= a /\ a <= b + 1 /\ b <= Consumed
    BY <1>1, <1>2 DEF FrameBegun, ReaderTyped
  <2>2. SubSeq(bytes', a, b) = SubSeq(bytes, a, b)
    BY <1>2, <2>1, ConsumedStays
  <2>. QED BY <2>1, <2>2 DEF Read
<1>5. /\ reading \in {"command", "header"} => loop = "frame"
      /\ FrameReady => loop = "frame"
  BY <1>2 DEF Stages, ReaderTyped, FrameReady
<1>6. UNCHANGED <<Headers, Command, Content, FrameReady>>
  BY DEF Headers, Command, Content, FrameReady
<1>7. FrameBegun'
  BY <1>1 DEF FrameBegun
<1>8. HeaderParsed'
  BY <1>1, <1>4, <1>5, <1>6 DEF HeaderParsed, HeadRead
<1>9. BodyParsed'
  BY <1>1, <1>4, <1>6 DEF BodyParsed, HeadRead, ContentRead, Goes
<1>. QED BY <1>3, <1>7, <1>8, <1>9 DEF Parsed

\* readFrame reads a line.
LEMMA LineParsed ==
  ASSUME PipeTyped, Parsed, NEW kind \in {"command", "header"}, Completes(kind),
         UNCHANGED <<bytes, from>>
  PROVE  /\ StreamTyped' /\ Consumed' >= Consumed /\ from <= Consumed' + 1
         /\ loop = "frame" /\ reading = kind
         /\ \E piece \in Seq(Alphabet) :
              /\ OneLine(piece) /\ Bytes = Stripped(SubSeq(piece, 1, Len(piece) - 1))
              /\ Len(piece) <= MaxLineLength
              /\ Read \in Seq(Alphabet) /\ Read' = Read \o piece
<1>1. reading = kind /\ UNCHANGED wire
  BY DEF Completes
<1>2. StreamTyped /\ Consumed \in Nat /\ from \in Nat /\ loop = "frame"
  BY <1>1 DEF PipeTyped, StreamTyped, ReaderTyped, Stages
<1>3. 1 <= from /\ from <= Consumed + 1
  BY <1>2 DEF Parsed, FrameBegun
<1>4. PICK k \in 1..Len(buffer) :
        /\ buffer' = SubSeq(buffer, k + 1, Len(buffer))
        /\ SubSeq(buffer, 1, k) \in Seq(Alphabet) /\ OneLine(SubSeq(buffer, 1, k))
        /\ Len(SubSeq(buffer, 1, k)) <= MaxLineLength
        /\ Bytes = Stripped(SubSeq(SubSeq(buffer, 1, k), 1, Len(SubSeq(buffer, 1, k)) - 1))
  BY LineTaken
<1>5. k \in 0..Len(buffer)
  OBVIOUS
<1>6. StreamTyped' /\ Consumed' = Consumed + k
  BY <1>1, <1>2, <1>4, <1>5, ConsumeKeeps
<1>7. Read \in Seq(Alphabet) /\ Read' = Read \o SubSeq(buffer, 1, k)
  BY <1>2, <1>3, <1>5, <1>6, ReadGrows
<1>8. Consumed' >= Consumed /\ from <= Consumed' + 1
  BY <1>2, <1>3, <1>6
<1>. QED BY <1>1, <1>2, <1>4, <1>6, <1>7, <1>8

\* The steps of readFrame.
LEMMA HeaderStepParsed ==
  ASSUME PipeTyped, Parsed, UNCHANGED <<bytes, session, loop, consumer, received, from>>,
         \/ SkipEmptyLine(session.started) \/ ReadCommand
         \/ ReadHeaderLine(session.version) \/ EndHeader
  PROVE  Parsed'
<1>1. PICK kind \in {"command", "header"} : Completes(kind)
  BY DEF SkipEmptyLine, ReadCommand, ReadHeaderLine, EndHeader
<1>2. /\ StreamTyped' /\ Consumed' >= Consumed /\ from <= Consumed' + 1
      /\ loop = "frame" /\ reading = kind
  BY <1>1, LineParsed
<1>3. PICK piece \in Seq(Alphabet) :
        /\ OneLine(piece) /\ Bytes = Stripped(SubSeq(piece, 1, Len(piece) - 1))
        /\ Read \in Seq(Alphabet) /\ Read' = Read \o piece
  BY <1>1, LineParsed
<1>4. FrameBegun /\ HeaderParsed /\ BodyParsed /\ EntriesParsed
  BY DEF Parsed
<1>5. EntriesParsed'
  BY <1>2, <1>4, EntriesStay
<1>6. FrameBegun'
  BY <1>2, <1>4 DEF FrameBegun
<1>7. /\ input = [status |-> input.status, command |-> input.command, lines |-> input.lines]
      /\ input.lines \in Lines(Alphabet) /\ input.status = "reading"
      /\ session.version \in Versions
  BY <1>2 DEF PipeTyped, ReaderTyped, Stages
<1>8. Bytes \in Seq(Alphabet)
  BY <1>1, CompletesKeeps
<1>9. BodyParsed'
  <2>1. reading' # "end" /\ loop' # "body"
    BY <1>2 DEF SkipEmptyLine, ReadCommand, ReadHeaderLine, EndHeader, ReadFrameFails
  <2>. QED BY <2>1 DEF BodyParsed
<1>10. ReadFrameFails => HeaderParsed'
  BY DEF ReadFrameFails, HeaderParsed, FrameReady
<1>11. CASE SkipEmptyLine(session.started)
  <2>1. Bytes = <<>> /\ reading = "command" /\ (UNCHANGED <<reading, input>> \/ ReadFrameFails)
    BY <1>11 DEF SkipEmptyLine, Completes
  <2>2. Lined(Read) /\ CommandEnds(Read) = {} /\ input.lines = <<>>
    BY <1>4, <2>1 DEF HeaderParsed
  <2>3. Lined(Read \o piece) /\ CommandEnds(Read \o piece) = {}
    BY <1>3, <2>1, <2>2, CommandRead
  <2>4. ASSUME UNCHANGED <<reading, input>> PROVE HeaderParsed'
    <3>1. reading' = "command" /\ input'.status = "reading"
      BY <1>7, <2>1, <2>4
    <3>. QED BY <1>3, <2>2, <2>3, <2>4, <3>1 DEF HeaderParsed, FrameReady
  <2>5. HeaderParsed'
    BY <1>10, <2>1, <2>4
  <2>. QED BY <1>5, <1>6, <1>9, <2>5 DEF Parsed
<1>12. CASE ReadCommand
  <2>1. /\ Bytes # <<>> /\ reading = "command" /\ reading' = "header"
        /\ input' = [input EXCEPT !.command = Bytes]
    BY <1>12 DEF ReadCommand, Completes
  <2>2. Lined(Read) /\ CommandEnds(Read) = {} /\ input.lines = <<>>
    BY <1>4, <2>1 DEF HeaderParsed
  <2>3. HeaderOpen(Read \o piece, Bytes, <<>>, session.version)
    BY <1>3, <2>1, <2>2, CommandRead
  <2>4. input'.status = "reading" /\ input'.lines = <<>> /\ Command' = Bytes
    BY <1>7, <2>1, <2>2 DEF Command
  <2>5. HeaderParsed'
    BY <1>3, <2>1, <2>3, <2>4 DEF HeaderParsed, FrameReady
  <2>. QED BY <1>5, <1>6, <1>9, <2>5 DEF Parsed
<1>13. CASE ReadHeaderLine(session.version)
  <2>. DEFINE new == HeaderLine(Bytes, session.version)
  <2>1. /\ Bytes # <<>> /\ reading = "header"
        /\ \/ ReadFrameFails
           \/ /\ Separators(Bytes) # {} /\ UNCHANGED reading
              /\ input' = [input EXCEPT !.lines = Append(input.lines, new)]
    BY <1>13 DEF ReadHeaderLine, Completes
  <2>2. HeaderOpen(Read, Command, input.lines, session.version)
    BY <1>4, <2>1 DEF HeaderParsed
  <2>3. ASSUME Separators(Bytes) # {}, UNCHANGED reading,
               input' = [input EXCEPT !.lines = Append(input.lines, new)]
        PROVE  HeaderParsed'
    <3>1. new \in Seq(Alphabet) \X Seq(Alphabet)
      BY <1>7, <1>8, <2>3, HeaderLineType
    <3>. HIDE DEF new
    <3>2. input.lines \in Seq(Seq(Alphabet) \X Seq(Alphabet))
      BY <1>7 DEF Lines
    <3>3. HeaderOpen(Read \o piece, Command, Append(input.lines, new), session.version)
      BY <1>3, <2>1, <2>2, <3>1, <3>2, HeaderLineRead DEF new
    <3>4. /\ reading' = "header" /\ input'.status = "reading"
          /\ input'.lines = Append(input.lines, new) /\ Command' = Command
      BY <1>7, <2>1, <2>3 DEF Command
    <3>. QED BY <1>3, <3>3, <3>4 DEF HeaderParsed, FrameReady
  <2>4. HeaderParsed'
    BY <1>10, <2>1, <2>3
  <2>. QED BY <1>5, <1>6, <1>9, <2>4 DEF Parsed
<1>14. CASE EndHeader
  <2>1. /\ Bytes = <<>> /\ reading = "header" /\ reading' = "none"
        /\ input' = [input EXCEPT !.status = "ready"]
        /\ body' = BodyOf(NewHeaders(input.lines))
    BY <1>14 DEF EndHeader, Completes
  <2>2. HeaderOpen(Read, Command, input.lines, session.version)
    BY <1>4, <2>1 DEF HeaderParsed
  <2>3. input.lines \in Seq(Seq(Alphabet) \X Seq(Alphabet))
    BY <1>7 DEF Lines
  <2>4. HeaderWhole(Read \o piece, Command, input.lines, session.version)
    BY <1>3, <2>1, <2>2, <2>3, HeaderLineRead
  <2>5. input'.lines = input.lines /\ UNCHANGED <<Command, Headers>> /\ body' = BodyOf(Headers)
    BY <1>7, <2>1 DEF Command, Headers
  <2>6. HeaderParsed'
    BY <1>3, <2>1, <2>4, <2>5 DEF HeaderParsed, HeadRead
  <2>. QED BY <1>5, <1>6, <1>9, <2>6 DEF Parsed
<1>. QED BY <1>11, <1>12, <1>13, <1>14

-----------------------------------------------------------------------------
(* The body.                                                                *)

\* The same bytes in another order of joining.
LEMMA JoinOfThree ==
  ASSUME NEW A, NEW a \in Seq(A), NEW b \in Seq(A), NEW c \in Seq(A)
  PROVE  /\ (a \o b) \o c = a \o (b \o c)
         /\ a \o b \in Seq(A) /\ a \o <<>> = a /\ <<>> \o a = a
BY ConcatAssociative, ConcatEmptySeq

\* A text without a symbol, joined from two parts.
LEMMA WithoutJoined ==
  ASSUME NEW A, NEW a \in Seq(A), NEW b \in Seq(A), NEW symbol,
         symbol \notin ToSet(a), \A i \in 1..Len(b) : b[i] # symbol
  PROVE  symbol \notin ToSet(a \o b)
<1>1. PICK m \in Nat, n \in Nat : m = Len(a) /\ n = Len(b)
  OBVIOUS
<1>2. \A i \in 1..m : a[i] # symbol
  BY <1>1 DEF ToSet
<1>3. PICK c \in Seq(A) :
        /\ c = a \o b /\ Len(c) = m + n
        /\ \A i \in 1..m : c[i] = a[i]
        /\ \A i \in 1..n : c[m + i] = b[i]
  <2>1. a \o b \in Seq(A)
    OBVIOUS
  <2>2. /\ Len(a \o b) = Len(a) + Len(b)
        /\ \A i \in 1..Len(a) : (a \o b)[i] = a[i]
        /\ \A i \in 1..Len(b) : (a \o b)[Len(a) + i] = b[i]
    BY JoinOfTwo, SMT
  <2>. QED BY <1>1, <2>1, <2>2
<1>4. ASSUME NEW i \in 1..(m + n) PROVE c[i] # symbol
  <2>1. CASE i <= m
    <3>1. i \in 1..m
      BY <2>1
    <3>. QED BY <1>2, <1>3, <3>1
  <2>2. CASE i > m
    <3>1. i - m \in 1..n /\ i = m + (i - m)
      BY <2>2
    <3>. QED BY <1>1, <1>3, <3>1
  <2>. QED BY <2>1, <2>2
<1>. QED BY <1>3, <1>4 DEF ToSet

\* A read fails: nothing is taken, and there is no header or chunk to speak of.
LEMMA ReadFailsParsed ==
  ASSUME PipeTyped, Parsed, PipeTyped', ReadFails,
         UNCHANGED <<bytes, session, loop, consumer, received, from>>
  PROVE  Parsed'
<1>1. FrameBegun /\ EntriesParsed /\ StreamTyped /\ StreamTyped' /\ Stages /\ ReaderTyped
  BY DEF Parsed, PipeTyped
<1>2. UNCHANGED <<wire, buffer>> /\ reading # "none"
  BY DEF ReadFails
<1>3. Consumed' = Consumed /\ Consumed \in Nat
  BY <1>1, <1>2 DEF Consumed, StreamTyped
<1>4. EntriesParsed'
  BY <1>1, <1>3, EntriesStay
<1>5. FrameBegun'
  BY <1>1, <1>3 DEF FrameBegun
<1>6. CASE reading \in {"command", "header"}
  <2>1. /\ loop' = "frame" /\ reading' = "none"
        /\ input' = [input EXCEPT !.status = "failed"]
    BY <1>1, <1>6 DEF ReadFails, ReadFrameFails, Stages, ReaderTyped
  <2>2. ~FrameReady'
    BY <1>1, <2>1 DEF FrameReady, ReaderTyped
  <2>. QED BY <1>4, <1>5, <2>1, <2>2 DEF Parsed, HeaderParsed, BodyParsed
<1>7. CASE reading \notin {"command", "header"}
  <2>1. reading' = "none" /\ chunk' = Failed
    BY <1>7 DEF ReadFails
  <2>2. loop' = "body"
    BY <1>1, <1>2, <1>7 DEF Stages, ReaderTyped
  <2>. QED BY <1>4, <1>5, <2>1, <2>2 DEF Parsed, HeaderParsed, BodyParsed, FrameReady, Failed
<1>. QED BY <1>6, <1>7

\* The reader reads a piece of a body.
LEMMA PieceParsed ==
  ASSUME PipeTyped, Parsed, NEW kind \in {"fixed", "end", "dynamic"}, Completes(kind),
         UNCHANGED <<bytes, from>>
  PROVE  /\ StreamTyped' /\ Consumed' >= Consumed /\ from <= Consumed' + 1
         /\ loop = "body" /\ reading = kind
         /\ kind \in {"fixed", "end"} => body.kind = "fixed"
         /\ kind = "end" => body.remaining = 0
         /\ kind = "dynamic" => body.kind = "dynamic"
         /\ Bytes \in Seq(Alphabet)
         /\ kind = "fixed" => Len(Bytes) <= body.remaining
         /\ kind = "end" => Len(Bytes) = 1
         /\ kind = "dynamic" => /\ Bytes # <<>>
                                /\ \A i \in 1..(Len(Bytes) - 1) : Bytes[i] # NUL
         /\ \E head \in Seq(Alphabet) :
              /\ HeadRead(head) /\ Goes(consumer.text)
              /\ Read' = (head \o consumer.text) \o Bytes
<1>1. reading = kind /\ UNCHANGED wire
  BY DEF Completes
<1>2. /\ StreamTyped /\ Consumed \in Nat /\ from \in Nat /\ loop = "body"
      /\ chunk.status = "awaited"
      /\ kind \in {"fixed", "end"} => body.kind = "fixed"
      /\ kind = "dynamic" => body.kind = "dynamic"
  BY <1>1 DEF PipeTyped, StreamTyped, ReaderTyped, Stages
<1>3. 1 <= from /\ from <= Consumed + 1
  BY <1>2 DEF Parsed, FrameBegun
<1>4. PICK k \in 0..Len(buffer) :
        /\ buffer' = SubSeq(buffer, k + 1, Len(buffer))
        /\ Bytes = SubSeq(buffer, 1, k) /\ Bytes \in Seq(Alphabet) /\ Len(Bytes) = k
        /\ kind = "fixed" => k <= body.remaining
        /\ kind = "end" => k = 1
        /\ kind = "dynamic" => k >= 1 /\ \A i \in 1..(k - 1) : Bytes[i] # NUL
  BY PieceTaken
<1>5. StreamTyped' /\ Consumed' = Consumed + k
  BY <1>1, <1>2, <1>4, ConsumeKeeps
<1>6. Read' = Read \o Bytes
  BY <1>2, <1>3, <1>4, <1>5, ReadGrows
<1>7. Consumed' >= Consumed /\ from <= Consumed' + 1
  BY <1>2, <1>3, <1>5
<1>8. \E head \in Seq(Alphabet) : HeadRead(head) /\ ContentRead(head, Content)
  BY <1>2 DEF Parsed, BodyParsed
<1>9. body.kind # "over" /\ Content = consumer.text
  BY <1>2 DEF Content
<1>10. kind = "end" => body.remaining = 0
  BY <1>1 DEF Parsed, BodyParsed
<1>11. kind = "dynamic" => Bytes # <<>>
  BY <1>4, EmptyOrNot
<1>. QED BY <1>1, <1>2, <1>4, <1>5, <1>6, <1>7, <1>8, <1>9, <1>10, <1>11 DEF ContentRead

\* A body that has been given goes on or is over.
LEMMA BodyStepParsed ==
  ASSUME PipeTyped, Parsed, PipeTyped', ReadFixed \/ ReadEnd \/ ReadDynamic,
         UNCHANGED <<bytes, session, loop, consumer, received, from>>
  PROVE  Parsed'
<1>1. PICK kind \in {"fixed", "end", "dynamic"} : Completes(kind)
  BY DEF ReadFixed, ReadEnd, ReadDynamic
<1>2. /\ StreamTyped' /\ Consumed' >= Consumed /\ from <= Consumed' + 1
      /\ loop = "body" /\ reading = kind
      /\ kind \in {"fixed", "end"} => body.kind = "fixed"
      /\ kind = "end" => body.remaining = 0
      /\ kind = "dynamic" => body.kind = "dynamic"
      /\ Bytes \in Seq(Alphabet)
      /\ kind = "fixed" => Len(Bytes) <= body.remaining
      /\ kind = "dynamic" => Bytes # <<>> /\ \A i \in 1..(Len(Bytes) - 1) : Bytes[i] # NUL
  BY <1>1, PieceParsed
<1>3. PICK head \in Seq(Alphabet) :
        /\ HeadRead(head) /\ Goes(consumer.text)
        /\ Read' = (head \o consumer.text) \o Bytes
  BY <1>1, PieceParsed
<1>4. PICK text \in Seq(Alphabet) : text = consumer.text /\ UNCHANGED <<consumer, input>>
  BY DEF PipeTyped, ReaderTyped, ReadFixed, ReadEnd, ReadDynamic
<1>a. PICK piece \in Seq(Alphabet) : piece = Bytes
  BY <1>2
<1>b. Read' = head \o (text \o piece) /\ Read' = (head \o text) \o piece
  <2>1. (head \o text) \o piece = head \o (text \o piece)
    BY JoinOfThree
  <2>. QED BY <1>3, <1>4, <1>a, <2>1
<1>5. FrameBegun /\ EntriesParsed
  BY DEF Parsed
<1>6. EntriesParsed' /\ FrameBegun'
  BY <1>2, <1>5, EntriesStay DEF FrameBegun
<1>7. loop' = "body" /\ reading' = "none"
  BY <1>2 DEF ReadFixed, ReadEnd, ReadDynamic
<1>8. HeaderParsed'
  BY <1>7 DEF HeaderParsed, FrameReady
<1>9. UNCHANGED <<Headers, Command>> /\ HeadRead(head)'
  BY <1>3, <1>4 DEF Headers, Command, HeadRead
<1>10. SUFFICES ASSUME chunk'.status \in {"awaited", "ok", "done"}
                PROVE  ContentRead(head, Content)' /\ chunk'.status # "done"
  BY <1>6, <1>7, <1>8, <1>9 DEF Parsed, BodyParsed
<1>11. body = [kind |-> body.kind, remaining |-> body.remaining, total |-> body.total]
       /\ body.remaining \in Nat
  BY DEF PipeTyped, ReaderTyped
<1>12. CASE ReadFixed
  <2>1. /\ kind = "fixed" /\ chunk' = Yields(Bytes)
        /\ body' = [body EXCEPT !.remaining = @ - Len(Bytes), !.total = @ + Len(Bytes)]
    BY <1>2, <1>12 DEF ReadFixed, Completes
  <2>2. PICK r \in Nat, n \in Nat, m \in Nat :
          r = body.remaining /\ n = Len(Bytes) /\ n <= r /\ m = Len(text)
    <3>1. Len(Bytes) \in Nat /\ Len(text) \in Nat /\ Len(Bytes) <= body.remaining
      BY <1>2, <2>1
    <3>. QED BY <1>11, <3>1
  <2>3. body'.kind = "fixed" /\ body'.remaining = r - n
    BY <1>2, <1>11, <2>1, <2>2
  <2>4. chunk'.status = "ok" /\ Content' = text \o piece
    BY <1>4, <1>a, <2>1 DEF Yields, Content
  <2>5. Len(text \o piece) + (r - n) = m + r
    <3>1. Len(text \o piece) = m + n
      BY <1>a, <2>2, JoinOfTwo
    <3>. QED BY <3>1
  <2>6. Goes(text \o piece)'
    <3>1. IsSet(Headers, ContentLength) /\ m + r = BodyLength(Headers)
      BY <1>2, <1>3, <1>4, <2>1, <2>2 DEF Goes
    <3>. QED BY <1>9, <2>3, <2>5, <3>1 DEF Goes
  <2>. QED BY <1>b, <2>3, <2>4, <2>6 DEF ContentRead
<1>13. CASE ReadEnd
  <2>1. kind = "end" /\ body' = Over /\ chunk' = IF IsEnd(Bytes) THEN Yields(<<>>) ELSE Failed
    BY <1>2, <1>13 DEF ReadEnd, Completes
  <2>2. Bytes = <<NUL>> /\ chunk' = Yields(<<>>)
    BY <1>10, <2>1 DEF IsEnd, Failed
  <2>3. chunk'.status = "ok" /\ Content' = text /\ body'.kind = "over"
    <3>1. Content' = text \o <<>>
      BY <1>4, <2>2 DEF Yields, Content
    <3>. QED BY <2>1, <2>2, <3>1, JoinOfThree DEF Yields, Over
  <2>4. BodyComplete(Headers, text)
    <3>1. IsSet(Headers, ContentLength) /\ Len(text) + 0 = BodyLength(Headers)
      BY <1>2, <1>3, <1>4, <2>1 DEF Goes
    <3>2. Len(text) + 0 = Len(text)
      OBVIOUS
    <3>. QED BY <3>1, <3>2 DEF BodyComplete
  <2>. QED BY <1>3, <1>4, <1>9, <2>2, <2>3, <2>4 DEF ContentRead
<1>14. CASE ReadDynamic
  <2>. DEFINE last == Last(Bytes) = NUL
              given == IF last THEN Front(Bytes) ELSE Bytes
  <2>1. /\ kind = "dynamic" /\ chunk' = Yields(given)
        /\ last => body' = Over
        /\ ~last => body' = [body EXCEPT !.total = body.total + Len(given)]
    <3>1. /\ kind = "dynamic"
          /\ chunk' = IF TooLarge(body.total + Len(given)) THEN Failed ELSE Yields(given)
          /\ body' = IF TooLarge(body.total + Len(given)) \/ last THEN Over
                     ELSE [body EXCEPT !.total = body.total + Len(given)]
      BY <1>2, <1>14 DEF ReadDynamic, Completes
    <3>2. ~TooLarge(body.total + Len(given))
      BY <1>10, <3>1 DEF Failed
    <3>. QED BY <3>1, <3>2
  <2>2. chunk'.status = "ok" /\ Content' = text \o given
    BY <1>4, <2>1 DEF Yields, Content
  <2>3. ~IsSet(Headers, ContentLength) /\ NUL \notin ToSet(text)
    BY <1>2, <1>3, <1>4, <2>1 DEF Goes
  <2>4. PICK n \in Nat : n = Len(Bytes) - 1 /\ Len(Bytes) = n + 1 /\ Last(Bytes) = Bytes[n + 1]
                         /\ \A i \in 1..n : Bytes[i] # NUL
    <3>1. Len(Bytes) >= 1
      BY <1>2, <2>1, EmptyOrNot
    <3>2. Len(Bytes) - 1 \in Nat /\ Len(Bytes) = (Len(Bytes) - 1) + 1
      BY <1>2, <3>1
    <3>. QED BY <1>2, <2>1, <3>2 DEF Last
  <2>5. CASE last
    <3>1. PICK front \in Seq(Alphabet) :
            front = Front(Bytes) /\ Len(front) = n /\ \A i \in 1..n : front[i] = Bytes[i]
      <4>1. /\ SubSeq(Bytes, 1, n) \in Seq(Alphabet)
            /\ Len(SubSeq(Bytes, 1, n)) = (n - 1) + 1
            /\ \A i \in 1..((n - 1) + 1) : SubSeq(Bytes, 1, n)[i] = Bytes[(1 + i) - 1]
        <5>1. 1 \in Nat /\ 1 >= 1 /\ n <= Len(Bytes) /\ 1 <= n + 1
          BY <2>4
        <5>. QED BY <1>2, <5>1, PartOf
      <4>2. (n - 1) + 1 = n /\ \A i \in 1..n : (1 + i) - 1 = i
        OBVIOUS
      <4>3. Front(Bytes) = SubSeq(Bytes, 1, n)
        BY <2>4 DEF Front
      <4>. QED BY <4>1, <4>2, <4>3
    <3>2. Bytes = front \o <<NUL>>
      <4>1. <<NUL>> \in Seq(Alphabet) /\ Len(<<NUL>>) = 1 /\ <<NUL>>[1] = NUL
        BY AlphabetHas
      <4>2. PICK both \in Seq(Alphabet) :
              /\ both = front \o <<NUL>> /\ Len(both) = n + 1
              /\ \A i \in 1..n : both[i] = front[i]
              /\ both[n + 1] = NUL
        <5>1. front \o <<NUL>> \in Seq(Alphabet)
          BY <3>1, <4>1, JoinOfTwo
        <5>2. /\ Len(front \o <<NUL>>) = Len(front) + Len(<<NUL>>)
              /\ \A i \in 1..Len(front) : (front \o <<NUL>>)[i] = front[i]
              /\ \A i \in 1..Len(<<NUL>>) : (front \o <<NUL>>)[Len(front) + i] = <<NUL>>[i]
          BY <4>1, JoinOfTwo, SMT
        <5>3. 1 \in 1..Len(<<NUL>>)
          BY <4>1
        <5>. QED BY <3>1, <4>1, <5>1, <5>2, <5>3
      <4>3. ASSUME NEW i \in 1..(n + 1) PROVE Bytes[i] = both[i]
        <5>1. CASE i = n + 1
          BY <2>4, <2>5, <4>2, <5>1
        <5>2. CASE i # n + 1
          <6>1. i \in 1..n
            BY <5>2
          <6>. QED BY <3>1, <4>2, <6>1
        <5>. QED BY <5>1, <5>2
      <4>4. Len(Bytes) = Len(both) /\ \A i \in 1..Len(Bytes) : Bytes[i] = both[i]
        BY <2>4, <4>2, <4>3, Zenon
      <4>5. Bytes = both
        BY <1>2, <4>4, SeqEqual, Zenon
      <4>. QED BY <4>2, <4>5
    <3>3. <<NUL>> \in Seq(Alphabet)
      BY AlphabetHas
    <3>4. Read' = (head \o (text \o front)) \o <<NUL>>
      <4>1. Read' = (head \o text) \o (front \o <<NUL>>)
        BY <1>3, <1>4, <3>2
      <4>2. head \o text \in Seq(Alphabet) /\ text \o front \in Seq(Alphabet)
        BY <3>1, JoinOfThree
      <4>3. (head \o text) \o (front \o <<NUL>>) = ((head \o text) \o front) \o <<NUL>>
        BY <3>1, <3>3, <4>2, JoinOfThree
      <4>4. (head \o text) \o front = head \o (text \o front)
        BY <3>1, JoinOfThree
      <4>. QED BY <4>1, <4>3, <4>4
    <3>5. NUL \notin ToSet(text \o front)
      <4>1. \A i \in 1..Len(front) : front[i] # NUL
        BY <2>4, <3>1
      <4>. QED BY <2>3, <3>1, <4>1, WithoutJoined
    <3>6. BodyComplete(Headers, text \o front)
      BY <2>3, <3>5 DEF BodyComplete
    <3>7. body'.kind = "over" /\ Content' = text \o front
      BY <2>1, <2>2, <2>5, <3>1 DEF Over
    <3>. QED BY <1>9, <2>2, <3>4, <3>6, <3>7 DEF ContentRead
  <2>6. CASE ~last
    <3>1. Content' = text \o piece
      BY <1>a, <2>2, <2>6
    <3>2. body'.kind = "dynamic"
      BY <1>2, <1>11, <2>1, <2>6
    <3>3. \A i \in 1..Len(Bytes) : Bytes[i] # NUL
      <4>1. \A i \in 1..(n + 1) : i \in 1..n \/ i = n + 1
        OBVIOUS
      <4>. QED BY <2>4, <2>6, <4>1
    <3>4. NUL \notin ToSet(text \o piece)
      BY <1>a, <2>3, <3>3, WithoutJoined
    <3>5. Goes(text \o piece)'
      BY <1>9, <2>3, <3>2, <3>4 DEF Goes
    <3>. QED BY <1>b, <2>2, <3>1, <3>2, <3>5 DEF ContentRead
  <2>. QED BY <2>5, <2>6
<1>. QED BY <1>12, <1>13, <1>14

\* The length the headers give is one number or none.
LEMMA LengthOnce ==
  ASSUME NEW text
  PROVE  \A m, n \in ParseInt(text) : m = n
BY DEF ParseInt

\* The generator is asked for the next chunk.
LEMMA PullParsed ==
  ASSUME ReaderTyped, PullBody, NEW head \in Seq(Alphabet), NEW content \in Seq(Alphabet),
         HeadRead(head), ContentRead(head, content), consumer'.text = content,
         Read' = Read, UNCHANGED <<input, session.version>>
  PROVE  BodyParsed'
<1>1. UNCHANGED <<Headers, Command>> /\ HeadRead(head)'
  BY DEF Headers, Command, HeadRead
<1>2. body.remaining \in Nat
  BY DEF ReaderTyped
<1>3. reading' = "end" => UNCHANGED body /\ body.remaining = 0
  BY <1>2 DEF PullBody
<1>4. chunk'.status \in {"awaited", "ok", "done"} =>
        /\ chunk'.status # "ok" /\ UNCHANGED body
        /\ chunk'.status = "done" => body.kind = "over"
  BY PullCases DEF Done, Failed, Awaited
<1>5. UNCHANGED body /\ chunk'.status # "ok" => ContentRead(head, Content)'
  BY <1>1 DEF ContentRead, Content, Goes
<1>. QED BY <1>1, <1>3, <1>4, <1>5 DEF BodyParsed

\* The body of a frame as its headers want it.
LEMMA BodyBegins ==
  ASSUME ReaderTyped, body = BodyOf(Headers)
  PROVE  body.kind # "over" /\ Goes(<<>>)
<1>. DEFINE all == ParseInt(Get(Headers, ContentLength))
            lengths == {n \in all : n > 0}
<1>1. CASE ~IsSet(Headers, ContentLength)
  BY <1>1 DEF BodyOf, Goes, ToSet
<1>2. CASE IsSet(Headers, ContentLength)
  <2>1. body.kind = "fixed" /\ body.remaining = IF lengths = {} THEN 0 ELSE Min(lengths)
    BY <1>2 DEF BodyOf
  <2>2. all \in SUBSET Int /\ \A m, n \in all : m = n
    <3>1. Headers.map \in Tables(Alphabet)
      BY AlphabetHas, NewHeadersType DEF ReaderTyped, Headers, HeaderTables
    <3>2. Get(Headers, ContentLength) \in Seq(Alphabet)
      BY <1>2, <3>1 DEF Tables, IsSet, Get
    <3>3. all \in SUBSET Int
      BY <3>2, ParseIntType
    <3>. QED BY <3>3, LengthOnce
  <2>3. BodyLength(Headers) = Max({n \in all : n >= 0} \cup {0})
    BY DEF BodyLength
  <2>. HIDE DEF all
  <2>4. ASSUME lengths = {}
        PROVE  body.remaining = BodyLength(Headers) /\ BodyLength(Headers) \in Nat
    <3>1. \A n \in all : ~(n > 0) /\ n \in Int
      BY <2>2, <2>4
    <3>. HIDE DEF lengths
    <3>2. {n \in all : n >= 0} \cup {0} = {0}
      <4>1. \A n \in all : n >= 0 => n = 0
        BY <3>1
      <4>. QED BY <4>1
    <3>3. Max({0}) = 0
      <4>1. {0} \in SUBSET Nat /\ 0 \in {0} /\ \A i \in {0} : i <= 0
        OBVIOUS
      <4>. QED BY <4>1, MaxIs
    <3>. QED BY <2>1, <2>3, <2>4, <3>2, <3>3
  <2>5. ASSUME lengths # {}
        PROVE  body.remaining = BodyLength(Headers) /\ BodyLength(Headers) \in Nat
    <3>1. PICK n \in Nat : n \in all /\ n > 0
      <4>1. PICK n \in all : n > 0
        BY <2>5
      <4>. QED BY <2>2, <4>1
    <3>2. \A m \in all : m = n
      BY <2>2, <3>1
    <3>3. lengths = {n}
      BY <3>1, <3>2
    <3>4. {m \in all : m >= 0} \cup {0} = {n, 0}
      <4>1. n >= 0
        BY <3>1
      <4>. QED BY <3>1, <3>2, <4>1
    <3>. HIDE DEF lengths
    <3>5. Min({n}) = n
      <4>1. {n} \in SUBSET Nat /\ n \in {n} /\ \A i \in {n} : n <= i
        OBVIOUS
      <4>. QED BY <4>1, MinIs
    <3>6. Max({n, 0}) = n
      <4>1. {n, 0} \in SUBSET Nat /\ n \in {n, 0} /\ \A i \in {n, 0} : i <= n
        BY <3>1
      <4>. QED BY <4>1, MaxIs
    <3>. QED BY <2>1, <2>3, <2>5, <3>3, <3>4, <3>5, <3>6
  <2>6. BodyLength(Headers) \in Nat /\ body.remaining = BodyLength(Headers)
    BY <2>4, <2>5
  <2>7. Len(<<>>) + body.remaining = BodyLength(Headers)
    BY <2>6
  <2>. QED BY <1>2, <2>1, <2>7 DEF Goes
<1>. QED BY <1>1, <1>2

\* What a step that leaves the stream alone keeps.
LEMMA StillRead ==
  ASSUME PipeTyped, StreamTyped', EntriesParsed,
         UNCHANGED <<bytes, wire, buffer, received>>
  PROVE  Consumed' = Consumed /\ EntriesParsed' /\ (UNCHANGED from => Read' = Read)
<1>1. Consumed' = Consumed /\ Consumed \in Nat
  BY DEF Consumed, PipeTyped, StreamTyped
<1>2. Consumed' >= Consumed
  BY <1>1
<1>3. EntriesParsed'
  BY <1>2, EntriesStay
<1>. QED BY <1>1, <1>3 DEF Read

\* A body is given to a reader.
LEMMA GivenParsed ==
  ASSUME PipeTyped, Parsed, PipeTyped',
         TakeMessage \/ TakeReceipt \/ TakeError \/ TakeConnected \/ ServeFrame
  PROVE  Parsed'
<1>1. \E reader : FrameReady /\ GiveBody(reader) /\ session'.version = session.version
  <2>1. TakeConnected => session'.version = session.version
    BY DEF TakeConnected, PipeTyped, ReaderTyped
  <2>. QED BY <2>1 DEF TakeMessage, TakeReceipt, TakeError, TakeConnected, ServeFrame
<1>2. PICK reader : FrameReady /\ GiveBody(reader) /\ session'.version = session.version
  BY <1>1
<1>3. /\ UNCHANGED <<bytes, wire, buffer, input, received, from>>
      /\ PullBody /\ loop' = "body" /\ consumer'.text = <<>> /\ loop = "frame"
  BY <1>2 DEF GiveBody, peerVars, FrameReady
<1>4. FrameBegun /\ HeaderParsed /\ EntriesParsed /\ ReaderTyped /\ StreamTyped'
      /\ StreamTyped
  BY DEF Parsed, PipeTyped
<1>5. Consumed' = Consumed /\ EntriesParsed' /\ Read' = Read
  BY <1>3, <1>4, StillRead
<1>6. FrameBegun'
  BY <1>3, <1>4, <1>5 DEF FrameBegun
<1>7. HeaderParsed'
  <2>1. reading' \notin {"command", "header"}
    BY <1>3 DEF PipeTyped, Stages
  <2>. QED BY <1>3, <2>1 DEF HeaderParsed, FrameReady
<1>8. Read \in Seq(Alphabet)
  <2>1. PICK a \in Nat, b \in Nat : a = from /\ b = Consumed /\ 1 <= a /\ a <= b + 1 /\ b <= Consumed
    BY <1>3, <1>4 DEF FrameBegun, ReaderTyped, StreamTyped
  <2>. QED BY <1>4, <2>1, ConsumedPart DEF Read
<1>9. PICK head \in Seq(Alphabet) : head = Read /\ HeadRead(head) /\ head \o <<>> = head
  BY <1>2, <1>4, <1>8, JoinOfThree DEF HeaderParsed
<1>10. ContentRead(head, <<>>)
  <2>1. body.kind # "over" /\ Goes(<<>>)
    BY <1>2, <1>4, BodyBegins DEF HeaderParsed
  <2>. QED BY <1>9, <2>1 DEF ContentRead
<1>11. BodyParsed'
  <2>1. <<>> \in Seq(Alphabet)
    OBVIOUS
  <2>. QED BY <1>2, <1>3, <1>4, <1>5, <1>9, <1>10, <2>1, PullParsed
<1>. QED BY <1>5, <1>6, <1>7, <1>11 DEF Parsed

\* A reader takes a chunk and asks for the next.
LEMMA TakeChunkParsed ==
  ASSUME PipeTyped, Parsed, PipeTyped', TakeChunk
  PROVE  Parsed'
<1>1. /\ UNCHANGED <<bytes, wire, buffer, input, session, received, from, loop>>
      /\ PullBody /\ loop = "body" /\ chunk.status = "ok"
      /\ consumer' = [consumer EXCEPT !.text = @ \o chunk.bytes]
  BY DEF TakeChunk, peerVars
<1>2. FrameBegun /\ BodyParsed /\ EntriesParsed /\ ReaderTyped /\ StreamTyped'
  BY DEF Parsed, PipeTyped
<1>3. Consumed' = Consumed /\ EntriesParsed' /\ Read' = Read
  BY <1>1, <1>2, StillRead
<1>4. FrameBegun'
  BY <1>1, <1>2, <1>3 DEF FrameBegun
<1>5. HeaderParsed'
  <2>1. reading' \notin {"command", "header"}
    BY <1>1 DEF PipeTyped, Stages
  <2>. QED BY <1>1, <2>1 DEF HeaderParsed, FrameReady
<1>6. PICK content \in Seq(Alphabet) : content = consumer.text \o chunk.bytes
                                       /\ consumer'.text = content /\ Content = content
  <2>1. consumer.text \in Seq(Alphabet) /\ chunk.bytes \in Seq(Alphabet)
    BY <1>2 DEF ReaderTyped
  <2>2. consumer.text \o chunk.bytes \in Seq(Alphabet)
    BY <2>1, JoinOfTwo
  <2>3. consumer'.text = consumer.text \o chunk.bytes
    BY <1>1, <1>2 DEF ReaderTyped
  <2>. QED BY <1>1, <2>2, <2>3 DEF Content
<1>7. PICK head \in Seq(Alphabet) : HeadRead(head) /\ ContentRead(head, content)
  BY <1>1, <1>2, <1>6 DEF BodyParsed
<1>8. BodyParsed'
  BY <1>1, <1>2, <1>3, <1>6, <1>7, PullParsed
<1>. QED BY <1>3, <1>4, <1>5, <1>8 DEF Parsed

\* readFrame is called.
LEMMA ReadNextFrameParsed ==
  ASSUME PipeTyped, Parsed, PipeTyped', ReadNextFrame
  PROVE  Parsed'
<1>1. /\ UNCHANGED <<bytes, wire, buffer, received>>
      /\ loop' = "frame" /\ from' = Consumed + 1 /\ reading' = "command"
      /\ input' = [NoInput EXCEPT !.status = "reading"]
  BY DEF ReadNextFrame, ReadFrame, peerVars
<1>2. EntriesParsed /\ StreamTyped /\ StreamTyped'
  BY DEF Parsed, PipeTyped
<1>3. Consumed' = Consumed /\ EntriesParsed' /\ Consumed \in Nat
  BY <1>1, <1>2, StillRead DEF StreamTyped
<1>4. FrameBegun'
  BY <1>1, <1>3 DEF FrameBegun
<1>5. Read' = <<>>
  <2>1. PICK k \in Nat : k = Consumed
    BY <1>3
  <2>2. SubSeq(bytes, k + 1, k) = <<>>
    <3>1. bytes \in Seq(Alphabet)
      BY <1>2, StreamTypes
    <3>. QED BY <3>1
  <2>3. Read' = SubSeq(bytes, k + 1, k)
    BY <1>1, <1>3, <2>1 DEF Read
  <2>. QED BY <2>2, <2>3
<1>6. CommandEnds(<<>>) = {}
  BY DEF CommandEnds, Ends
<1>7. input'.lines = <<>> /\ input'.status = "reading"
  BY <1>1 DEF NoInput
<1>8. HeaderParsed'
  BY <1>1, <1>5, <1>6, <1>7 DEF HeaderParsed, FrameReady, Lined
<1>9. BodyParsed'
  BY <1>1 DEF BodyParsed
<1>. QED BY <1>3, <1>4, <1>8, <1>9 DEF Parsed

\* The steps that stop reading a frame before its end.
LEMMA StopParsed ==
  ASSUME PipeTyped, Bounds, Parsed,
         FrameFails \/ SkipFrame \/ RefuseFrame \/ StopReading \/ EndFailedBody
  PROVE  Parsed'
<1>1. PipeTyped' /\ UNCHANGED received /\ loop' \in {"idle", "closed", "abandoned"}
  BY StopKeeps
<1>2. UNCHANGED <<bytes, wire, buffer>>
  BY DEF FrameFails, SkipFrame, RefuseFrame, StopReading, EndFailedBody, Close, inputVars, peerVars
<1>3. EntriesParsed /\ StreamTyped'
  BY <1>1 DEF Parsed, PipeTyped
<1>4. EntriesParsed'
  BY <1>1, <1>2, <1>3, StillRead
<1>5. reading' = "none"
  BY <1>1 DEF PipeTyped, Stages
<1>. QED BY <1>1, <1>4, <1>5 DEF Parsed, FrameBegun, HeaderParsed, BodyParsed, FrameReady

\* A body has been read to its end: the frame stands on the wire as it was read.
LEMMA EntryParses ==
  ASSUME PipeTyped, Parsed, loop = "body", chunk.status = "done"
  PROVE  1 <= from /\ from <= Consumed /\ Parses(Read, Entry)
<1>1. FrameBegun /\ BodyParsed /\ ReaderTyped /\ StreamTyped
  BY DEF Parsed, PipeTyped
<1>2. body.kind = "over" /\ Content = consumer.text
  BY <1>1 DEF BodyParsed, Content
<1>3. PICK head \in Seq(Alphabet) : HeadRead(head) /\ ContentRead(head, Content)
  BY <1>1 DEF BodyParsed
<1>4. PICK text \in Seq(Alphabet) : text = consumer.text
  BY <1>1 DEF ReaderTyped
<1>5. Read = (head \o text) \o <<NUL>> /\ BodyComplete(Headers, text)
  BY <1>2, <1>3, <1>4 DEF ContentRead
<1>6. PICK more \in Seq(Alphabet) : more = text \o <<NUL>>
  <2>1. <<NUL>> \in Seq(Alphabet)
    BY AlphabetHas
  <2>2. text \o <<NUL>> \in Seq(Alphabet)
    BY <2>1, JoinOfTwo
  <2>. QED BY <2>2
<1>7. Read = head \o more
  <2>1. <<NUL>> \in Seq(Alphabet)
    BY AlphabetHas
  <2>2. (head \o text) \o <<NUL>> = head \o (text \o <<NUL>>)
    BY <2>1, JoinOfThree
  <2>. QED BY <1>5, <1>6, <2>2
<1>8. 1 <= from /\ from <= Consumed
  <2>1. PICK a \in Nat, b \in Nat : a = from /\ b = Consumed /\ 1 <= a /\ a <= b + 1 /\ b <= Consumed
    BY <1>1 DEF FrameBegun, ReaderTyped, StreamTyped
  <2>2. Len(Read) = (b - a) + 1
    BY <1>1, <2>1, ConsumedPart DEF Read
  <2>3. Len(Read) >= 1
    <3>1. <<NUL>> \in Seq(Alphabet) /\ Len(<<NUL>>) = 1 /\ head \o text \in Seq(Alphabet)
      BY AlphabetHas, JoinOfTwo
    <3>2. Len((head \o text) \o <<NUL>>) = Len(head \o text) + Len(<<NUL>>)
          /\ Len(head \o text) \in Nat
      BY <3>1, JoinOfTwo
    <3>. QED BY <1>5, <3>1, <3>2
  <2>. QED BY <2>1, <2>2, <2>3
<1>9. /\ HeaderEnds(Read) # {}
      /\ Command = LineTo(Read, Min(CommandEnds(Read)))
      /\ DecodedLines(Read, session.version) = input.lines
      /\ BodyText(Read) = more
  <2>1. input.lines \in Seq(Seq(Alphabet) \X Seq(Alphabet))
    BY <1>1 DEF ReaderTyped, Lines
  <2>2. HeaderWhole(head, Command, input.lines, session.version)
    BY <1>3 DEF HeadRead
  <2>. QED BY <1>7, <2>1, <2>2, HeaderParses
<1>10. /\ Entry.command = Command /\ Entry.lines = Headers.lines /\ Entry.text = text
       /\ Entry.version = session.version
  BY <1>4 DEF Entry
<1>11. Parses(Read, Entry)
  BY <1>5, <1>6, <1>9, <1>10 DEF Parses, Headers
<1>. QED BY <1>8, <1>11

\* With the body, the frame is added to those that were read.
LEMMA EndBodyParsed ==
  ASSUME PipeTyped, Parsed, PipeTyped', EndBody
  PROVE  Parsed'
<1>1. /\ UNCHANGED <<bytes, wire, buffer>> /\ loop' \in {"idle", "closed"}
      /\ loop = "body" /\ chunk.status = "done" /\ received' = Append(received, Entry)
  BY DEF EndBody, inputVars, peerVars, LoopAfterBody
<1>2. EntriesParsed /\ StreamTyped /\ StreamTyped' /\ received \in Seq(Entries)
  BY DEF Parsed, PipeTyped, ReaderTyped
<1>3. Consumed' = Consumed
  BY <1>1 DEF Consumed
<1>4. /\ Entry \in Entries /\ Entry.from = from /\ Entry.to = Consumed
      /\ 1 <= from /\ from <= Consumed /\ Parses(Read, Entry)
  BY <1>1, EntryType, EntryParses
<1>5. PICK n \in Nat, e \in Entries, a \in Nat, b \in Nat :
        n = Len(received) /\ e = Entry /\ a = from /\ b = Consumed
  BY <1>2, <1>4 DEF PipeTyped, StreamTyped, ReaderTyped
<1>6. /\ Len(received') = n + 1 /\ received'[n + 1] = e
      /\ \A k \in 1..n : received'[k] = received[k]
  BY <1>1, <1>2, <1>5
<1>7. Consumed \in Nat
  BY <1>2 DEF StreamTyped
<1>8. ASSUME NEW k \in 1..(n + 1)
      PROVE  /\ 1 <= received'[k].from /\ received'[k].from <= received'[k].to
             /\ received'[k].to <= b
             /\ Parses(SubSeq(bytes, received'[k].from, received'[k].to), received'[k])
  <2>1. CASE k = n + 1
    <3>1. received'[k] = e /\ e.from = a /\ e.to = b /\ 1 <= a /\ a <= b /\ b <= b
      BY <1>4, <1>5, <1>6, <1>7, <2>1
    <3>2. Parses(SubSeq(bytes, a, b), e)
      BY <1>4, <1>5 DEF Read
    <3>. QED BY <3>1, <3>2
  <2>2. CASE k # n + 1
    <3>1. k \in 1..n
      BY <2>2
    <3>. QED BY <1>2, <1>5, <1>6, <3>1 DEF EntriesParsed
  <2>. QED BY <2>1, <2>2
<1>9. EntriesParsed'
  BY <1>1, <1>3, <1>5, <1>6, <1>8 DEF EntriesParsed
<1>10. reading' = "none"
  BY <1>1 DEF PipeTyped, Stages
<1>. QED BY <1>1, <1>9, <1>10 DEF Parsed, FrameBegun, HeaderParsed, BodyParsed, FrameReady

\* The reader has read nothing yet.
LEMMA InitParsed ==
  ASSUME Init
  PROVE  Parsed
<1>1. loop = "idle" /\ reading = "none" /\ received = <<>>
  BY DEF Init
<1>. QED BY <1>1 DEF Parsed, FrameBegun, HeaderParsed, BodyParsed, EntriesParsed, FrameReady

\* Every step keeps what has been parsed.
LEMMA NextParsed ==
  ASSUME PipeInv, Parsed, [Next]_vars
  PROVE  Parsed'
<1>1. PipeTyped /\ Bounds /\ PipeTyped'
  BY NextPipeInv DEF PipeInv
<1>2. CASE PeerStep \/ ConnectionLost
  <2>1. Consumed' = Consumed /\ UNCHANGED <<reading, input, body, chunk, readerVars>>
    BY <1>1, <1>2, PeerKeeps
  <2>2. UNCHANGED <<session, loop, consumer, received, from>>
    BY <2>1 DEF readerVars
  <2>. QED BY <1>1, <1>2, <2>1, <2>2, QuietParsed
<1>3. CASE InputProgress
  <2>1. /\ UNCHANGED <<bytes, session, loop, consumer, received, from>>
        /\ InputStep(session.started, session.version)
    BY <1>3 DEF InputProgress, peerVars, readerVars
  <2>2. CASE ReceiveChunk
    <3>1. PICK n \in DOMAIN wire :
            /\ buffer' = buffer \o SubSeq(wire, 1, n)
            /\ wire' = SubSeq(wire, n + 1, Len(wire))
      BY <2>2 DEF ReceiveChunk
    <3>2. n \in 1..Len(wire) /\ StreamTyped
      BY <1>1 DEF PipeTyped, StreamTyped
    <3>3. Consumed' = Consumed
      BY <2>1, <3>1, <3>2, ReceiveKeeps
    <3>4. UNCHANGED <<reading, input, body, chunk>>
      BY <2>2 DEF ReceiveChunk
    <3>. QED BY <1>1, <2>1, <3>3, <3>4, QuietParsed
  <2>3. CASE ReadFixed \/ ReadEnd \/ ReadDynamic
    BY <1>1, <2>1, <2>3, BodyStepParsed
  <2>4. CASE \/ SkipEmptyLine(session.started) \/ ReadCommand
             \/ ReadHeaderLine(session.version) \/ EndHeader
    BY <1>1, <2>1, <2>4, HeaderStepParsed
  <2>5. CASE ReadFails
    BY <1>1, <2>1, <2>5, ReadFailsParsed
  <2>. QED BY <2>1, <2>2, <2>3, <2>4, <2>5 DEF InputStep
<1>4. CASE ReadNextFrame
  BY <1>1, <1>4, ReadNextFrameParsed
<1>5. CASE TakeMessage \/ TakeReceipt \/ TakeError \/ TakeConnected \/ ServeFrame
  BY <1>1, <1>5, GivenParsed
<1>6. CASE FrameFails \/ SkipFrame \/ RefuseFrame \/ StopReading \/ EndFailedBody
  BY <1>1, <1>6, StopParsed
<1>7. CASE TakeChunk
  BY <1>1, <1>7, TakeChunkParsed
<1>8. CASE EndBody
  BY <1>1, <1>8, EndBodyParsed
<1>9. CASE UNCHANGED vars
  <2>1. UNCHANGED <<bytes, wire, buffer, reading, input, body, chunk>>
        /\ UNCHANGED <<session, loop, consumer, received, from>>
    BY <1>9 DEF vars, inputVars, peerVars, readerVars
  <2>2. Consumed' = Consumed
    BY <2>1 DEF Consumed
  <2>. QED BY <1>1, <2>1, <2>2, QuietParsed
<1>. QED BY <1>2, <1>3, <1>4, <1>5, <1>6, <1>7, <1>8, <1>9 DEF Next, ReaderStep, Rest

\* What has been read of a frame is always the header and the body that stand on the
\* wire, as far as they have come: the inductive invariant of the parser.
THEOREM ParsedCorrect == Spec => [](PipeInv /\ Parsed)
<1>1. Init => PipeInv /\ Parsed
  BY InitPipeInv, InitParsed
<1>2. PipeInv /\ Parsed /\ [Next]_vars => (PipeInv /\ Parsed)'
  BY NextPipeInv, NextParsed
<1>. QED BY <1>1, <1>2, PTL DEF Spec

\* A frame that was read is what stands on the wire from its first byte to its null
\* byte, however the stream cut its bytes and whatever the peer sent: the first line
\* that is not empty is its command, the lines up to the next empty one are its
\* headers, split at LF or CR LF and decoded, and its body is as long as its
\* content-length, or goes up to the first null byte (input.ts:31-242, reader.ts:36-153).
THEOREM FramesParsedCorrect == Spec => []FramesParsed
<1>1. Parsed /\ PipeInv => FramesParsed
  <2>. SUFFICES ASSUME Parsed, PipeInv PROVE FramesParsed
    OBVIOUS
  <2>1. received \in Seq(Entries) /\ EntriesParsed
    BY DEF Parsed, PipeInv, PipeTyped, ReaderTyped
  <2>. QED BY <2>1 DEF FramesParsed, EntriesParsed
<1>. QED BY <1>1, ParsedCorrect, PTL

-----------------------------------------------------------------------------
(* The limits of a header, of a text and of a longer one.                   *)

\* The greatest of some numbers up to n.
LEMMA MaxOfNumbers ==
  ASSUME NEW n \in Nat, NEW s \in SUBSET (0..n), s # {}
  PROVE  Max(s) \in s /\ Max(s) \in 0..n /\ \A i \in s : i <= Max(s)
<1>. DEFINE behind == {i \in Nat : n - i \in s}
<1>1. \A i \in 0..n : n - i \in Nat /\ n - (n - i) = i
  OBVIOUS
<1>2. PICK j \in behind : \A i \in behind : j <= i
  <2>1. behind \in SUBSET Nat
    OBVIOUS
  <2>2. behind # {}
    <3>1. PICK i \in s : i \in 0..n
      OBVIOUS
    <3>2. n - i \in behind
      BY <1>1, <3>1
    <3>. QED BY <3>2
  <2>. HIDE DEF behind
  <2>. QED BY <2>1, <2>2, LeastNumber
<1>3. ASSUME NEW i \in s PROVE i <= n - j
  <2>1. i \in 0..n /\ n - i \in behind
    BY <1>1
  <2>2. j \in Nat /\ j <= n - i
    BY <1>2, <2>1
  <2>. QED BY <2>1, <2>2
<1>4. n - j \in s /\ s \in SUBSET Nat /\ n - j \in 0..n
  BY <1>2
<1>5. Max(s) = n - j
  BY <1>3, <1>4, MaxIs
<1>. QED BY <1>3, <1>4, <1>5

\* No line of what has been read is too long.
Short(text) ==
  \A i \in 1..Len(text) : \E j \in {0} \cup Ends(text) : j < i /\ i - j <= MaxLineLength

FirstFull(text) == Ends(text) # {} /\ LineTo(text, Min(Ends(text))) # <<>>

\* Every line after the command has a colon.
Colons(text) ==
  \A i, j \in CommandEnds(text) : j < i => Separators(LineTo(text, i)) # {}

\* A line that is short enough is added to short lines.
LEMMA ShortGrows ==
  ASSUME NEW A, NEW text \in Seq(A), Lined(text), Short(text),
         NEW piece \in Seq(A), OneLine(piece), Len(piece) <= MaxLineLength
  PROVE  Short(text \o piece)
<1>1. PICK all \in Seq(A) : all = text \o piece
  <2>1. text \o piece \in Seq(A)
    OBVIOUS
  <2>. QED BY <2>1
<1>2. PICK n \in Nat, m \in Nat : n = Len(text) /\ m = Len(piece)
  <2>1. Len(text) \in Nat /\ Len(piece) \in Nat
    OBVIOUS
  <2>. QED BY <2>1
<1>3. Len(all) = n + m /\ \A i \in 1..n : all[i] = text[i]
  BY <1>1, <1>2, JoinOfTwo, SMT
<1>4. Ends(text) = {i \in Ends(all) : i <= n}
  BY <1>1, <1>2, LineStays
<1>5. n = 0 \/ n \in Ends(all)
  <2>1. CASE n # 0
    <3>1. n \in 1..n /\ text # <<>>
      BY <1>2, <2>1
    <3>2. text[n] = LF
      BY <1>2, <3>1 DEF Lined
    <3>3. n \in Ends(text)
      BY <1>2, <3>1, <3>2, EndsType
    <3>. QED BY <1>4, <3>3
  <2>. QED BY <2>1
<1>6. MaxLineLength \in Nat
  BY FrameInputAssumption
<1>7. ASSUME NEW i \in 1..(n + m)
      PROVE  \E j \in {0} \cup Ends(all) : j < i /\ i - j <= MaxLineLength
  <2>1. CASE i <= n
    <3>1. i \in 1..n
      BY <2>1
    <3>2. PICK j \in {0} \cup Ends(text) : j < i /\ i - j <= MaxLineLength
      BY <1>2, <3>1 DEF Short
    <3>3. j \in {0} \cup Ends(all)
      BY <1>4
    <3>. QED BY <3>2, <3>3
  <2>2. CASE i > n
    <3>1. n < i /\ i - n <= m /\ i - n \in Nat
      BY <2>2
    <3>2. i - n <= MaxLineLength
      BY <1>2, <1>6, <3>1
    <3>. QED BY <1>5, <3>1, <3>2
  <2>. QED BY <2>1, <2>2
<1>. QED BY <1>1, <1>3, <1>7 DEF Short

\* The first line stays as it is when more bytes follow.
LEMMA FirstStays ==
  ASSUME NEW A, NEW text \in Seq(A), NEW more \in Seq(A), Ends(text) # {}
  PROVE  /\ Ends(text \o more) # {}
         /\ LineTo(text \o more, Min(Ends(text \o more))) = LineTo(text, Min(Ends(text)))
<1>1. PICK all \in Seq(A), n \in Nat : all = text \o more /\ n = Len(text)
  <2>1. text \o more \in Seq(A) /\ Len(text) \in Nat
    OBVIOUS
  <2>. QED BY <2>1
<1>2. /\ Ends(text) = {i \in Ends(all) : i <= n}
      /\ \A i \in Ends(text) : LineTo(all, i) = LineTo(text, i)
  BY <1>1, LineStays
<1>3. Ends(text) \in SUBSET Nat /\ Ends(all) \in SUBSET Nat
  BY EndsType
<1>4. PICK first \in Nat : /\ first = Min(Ends(text)) /\ first \in Ends(text)
                          /\ \A i \in Ends(text) : first <= i
  BY <1>3, MinIsLeast
<1>5. first \in Ends(all) /\ first <= n
  BY <1>2, <1>4
<1>6. ASSUME NEW i \in Ends(all) PROVE first <= i
  <2>1. i \in Nat
    BY <1>3
  <2>2. CASE i <= n
    BY <1>2, <1>4, <2>2
  <2>3. CASE i > n
    BY <1>5, <2>1, <2>3
  <2>. QED BY <2>1, <2>2, <2>3
<1>7. Min(Ends(all)) = first
  BY <1>3, <1>5, <1>6, MinIs
<1>. QED BY <1>1, <1>2, <1>4, <1>5, <1>7

\* A command, a line with a colon or an empty line is added.
LEMMA ColonsGrow ==
  ASSUME NEW A, NEW text \in Seq(A), Lined(text), Colons(text),
         NEW piece \in Seq(A), OneLine(piece),
         NEW line, line = Stripped(SubSeq(piece, 1, Len(piece) - 1)),
         line = <<>> \/ Separators(line) # {} \/ CommandEnds(text) = {}
  PROVE  Colons(text \o piece)
<1>1. PICK all \in Seq(A), end \in Nat : all = text \o piece /\ end = Len(all)
  <2>1. text \o piece \in Seq(A) /\ Len(text \o piece) \in Nat
    OBVIOUS
  <2>. QED BY <2>1
<1>2. /\ \A i \in Ends(text) : i < end /\ LineTo(all, i) = LineTo(text, i)
      /\ LineTo(all, end) = line
      /\ CommandEnds(all) =
           IF line = <<>> THEN CommandEnds(text) ELSE CommandEnds(text) \cup {end}
  BY <1>1, LineAdded
<1>3. CommandEnds(text) \subseteq Ends(text) /\ Ends(text) \in SUBSET Nat
  BY EndsType
<1>4. ASSUME NEW i \in CommandEnds(all), NEW j \in CommandEnds(all), j < i
      PROVE  Separators(LineTo(all, i)) # {}
  <2>1. CASE i \in CommandEnds(text)
    <3>1. j \in CommandEnds(text)
      <4>1. i < end /\ i \in Nat
        BY <1>2, <1>3, <2>1
      <4>2. j # end
        BY <1>4, <4>1
      <4>. QED BY <1>2, <4>2
    <3>2. Separators(LineTo(text, i)) # {}
      BY <1>4, <2>1, <3>1 DEF Colons
    <3>. QED BY <1>2, <1>3, <2>1, <3>2
  <2>2. CASE i \notin CommandEnds(text)
    <3>1. i = end /\ line # <<>>
      BY <1>2, <2>2
    <3>2. j \in CommandEnds(text)
      BY <1>1, <1>2, <1>4, <3>1
    <3>. QED BY <1>2, <3>1, <3>2
  <2>. QED BY <2>1, <2>2
<1>. QED BY <1>1, <1>4 DEF Colons

\* A line that never ends within the limit.
LEMMA Overlong ==
  ASSUME NEW A, NEW text \in Seq(A), HeaderEnds(text) = {},
         NEW more \in Seq(A), Len(more) > MaxLineLength,
         \A i \in 1..MaxLineLength : more[i] # LF
  PROVE  \E length \in LineLengths(text \o more) : length > MaxLineLength
<1>1. PICK all \in Seq(A), n \in Nat, m \in Nat, k \in Nat :
        /\ all = text \o more /\ n = Len(text) /\ m = Len(more) /\ k = MaxLineLength
        /\ k < m
  <2>1. text \o more \in Seq(A) /\ Len(text) \in Nat /\ Len(more) \in Nat /\ MaxLineLength \in Nat
    BY FrameInputAssumption
  <2>2. MaxLineLength < Len(more)
    BY <2>1
  <2>. QED BY <2>1, <2>2
<1>2. Len(all) = n + m /\ \A i \in 1..m : all[n + i] = more[i]
  BY <1>1, JoinOfTwo, SMT
<1>3. /\ Ends(all) \in SUBSET (1..(n + m)) /\ HeaderEnds(all) \subseteq Ends(all)
      /\ \A i \in 1..(n + m) : i \in Ends(all) <=> all[i] = LF
  BY <1>2, EndsType
<1>4. ASSUME NEW i \in Ends(all), i <= n + k PROVE i <= n
  <2>1. SUFFICES ASSUME i > n PROVE FALSE
    BY <1>3
  <2>2. i - n \in 1..k /\ i - n \in 1..m /\ i = n + (i - n)
    BY <1>1, <1>3, <1>4, <2>1
  <2>3. all[i] = more[i - n] /\ more[i - n] # LF
    BY <1>1, <1>2, <2>2
  <2>. QED BY <1>3, <2>3
<1>5. HeaderEnds(text) = {i \in HeaderEnds(all) : i <= n}
  BY <1>1, LineStays
<1>6. \A i \in HeaderEnds(all) : i > n + k
  <2>1. ASSUME NEW i \in HeaderEnds(all) PROVE i > n + k
    <3>1. i \in 1..(n + m) /\ i \in Ends(all) /\ ~(i <= n)
      BY <1>3, <1>5
    <3>. QED BY <1>4, <3>1
  <2>. QED BY <2>1
<1>. DEFINE last == IF HeaderEnds(all) = {} THEN Len(all) ELSE Min(HeaderEnds(all))
            start(i) == {0} \cup {j \in Ends(all) : j < i}
            place == (n + k) + 1
<1>7. last \in Nat /\ place <= last
  <2>1. CASE HeaderEnds(all) = {}
    BY <1>1, <1>2, <2>1
  <2>2. CASE HeaderEnds(all) # {}
    <3>1. HeaderEnds(all) \in SUBSET Nat
      BY <1>3
    <3>2. PICK p \in Nat : p = Min(HeaderEnds(all)) /\ p \in HeaderEnds(all)
      BY <2>2, <3>1, MinIsLeast
    <3>. QED BY <1>6, <2>2, <3>2
  <2>. QED BY <2>1, <2>2
<1>8. PICK s \in Nat : s = Max(start(place)) /\ s <= n
  <2>1. start(place) \in SUBSET (0..n) /\ start(place) # {}
    <3>1. \A j \in Ends(all) : j < place => j <= n /\ j \in Nat
      BY <1>3, <1>4
    <3>. QED BY <3>1
  <2>. HIDE DEF start
  <2>. QED BY <2>1, MaxOfNumbers
<1>9. place - s \in LineLengths(all) /\ place - s > k
  <2>1. place \in 1..last
    BY <1>7
  <2>2. LineLengths(all) = {i - Max(start(i)) : i \in 1..last}
    BY DEF LineLengths
  <2>. HIDE DEF last, start, place
  <2>3. place - s \in LineLengths(all)
    BY <1>8, <2>1, <2>2
  <2>4. place - s > k
    BY <1>8 DEF place
  <2>. QED BY <2>3, <2>4
<1>. QED BY <1>1, <1>9

-----------------------------------------------------------------------------
(* What has been read, and what follows it.                                 *)

\* What follows is the buffer and the wire.
LEMMA TextIs ==
  ASSUME StreamTyped, from \in Nat, 1 <= from, from <= Consumed + 1
  PROVE  /\ Read \in Seq(Alphabet) /\ buffer \o wire \in Seq(Alphabet)
         /\ Text = Read \o (buffer \o wire)
<1>1. PICK c \in Nat, u \in Nat, w \in Nat :
        /\ c = Consumed /\ u = Len(buffer) /\ w = Len(wire)
        /\ Len(bytes) = (c + u) + w
        /\ Stands(buffer, bytes, c) /\ Stands(wire, bytes, c + u)
  BY StreamSizes
<1>2. bytes \in Seq(Alphabet) /\ buffer \in Seq(Alphabet) /\ wire \in Seq(Alphabet)
  BY StreamTypes
<1>3. PICK f \in Nat, m \in Nat : f = from /\ f >= 1 /\ f + m = c + 1 /\ m = (c - f) + 1
  <2>1. (c - from) + 1 \in Nat /\ from + ((c - from) + 1) = c + 1
    BY <1>1
  <2>. QED BY <2>1
<1>4. PICK a \in Seq(Alphabet) :
        a = Read /\ Len(a) = m /\ \A i \in 1..m : a[i] = bytes[(f + i) - 1]
  <2>1. /\ SubSeq(bytes, f, c) \in Seq(Alphabet) /\ Len(SubSeq(bytes, f, c)) = (c - f) + 1
        /\ \A i \in 1..((c - f) + 1) : SubSeq(bytes, f, c)[i] = bytes[(f + i) - 1]
    <3>1. f >= 1 /\ c <= Len(bytes) /\ f <= c + 1
      BY <1>1, <1>3
    <3>. QED BY <1>2, <3>1, PartOf
  <2>. QED BY <1>1, <1>3, <2>1 DEF Read
<1>5. PICK b \in Seq(Alphabet) :
        /\ b = buffer \o wire /\ Len(b) = u + w
        /\ \A i \in 1..u : b[i] = buffer[i]
        /\ \A i \in 1..w : b[u + i] = wire[i]
  <2>1. buffer \o wire \in Seq(Alphabet)
    BY <1>2
  <2>2. /\ Len(buffer \o wire) = Len(buffer) + Len(wire)
        /\ \A i \in 1..Len(buffer) : (buffer \o wire)[i] = buffer[i]
        /\ \A i \in 1..Len(wire) : (buffer \o wire)[Len(buffer) + i] = wire[i]
    BY <1>2, JoinOfTwo, SMT
  <2>. QED BY <1>1, <2>1, <2>2
<1>6. PICK d \in Seq(Alphabet) :
        /\ d = Text /\ Len(d) = m + (u + w)
        /\ \A i \in 1..(m + (u + w)) : d[i] = bytes[(f + i) - 1]
  <2>1. PICK n \in Nat : n = Len(bytes) /\ n = (c + u) + w
    BY <1>1
  <2>2. /\ SubSeq(bytes, f, n) \in Seq(Alphabet) /\ Len(SubSeq(bytes, f, n)) = (n - f) + 1
        /\ \A i \in 1..((n - f) + 1) : SubSeq(bytes, f, n)[i] = bytes[(f + i) - 1]
    <3>1. f >= 1 /\ n <= Len(bytes) /\ f <= n + 1
      BY <1>3, <2>1
    <3>. QED BY <1>2, <3>1, PartOf
  <2>3. (n - f) + 1 = m + (u + w)
    BY <1>3, <2>1
  <2>4. SubSeq(bytes, f, n) = Text
    BY <1>3, <2>1 DEF Text
  <2>. QED BY <2>2, <2>3, <2>4
<1>7. PICK e \in Seq(Alphabet) :
        /\ e = a \o b /\ Len(e) = m + (u + w)
        /\ \A i \in 1..m : e[i] = a[i]
        /\ \A i \in 1..(u + w) : e[m + i] = b[i]
  <2>1. a \o b \in Seq(Alphabet)
    OBVIOUS
  <2>2. /\ Len(a \o b) = Len(a) + Len(b)
        /\ \A i \in 1..Len(a) : (a \o b)[i] = a[i]
        /\ \A i \in 1..Len(b) : (a \o b)[Len(a) + i] = b[i]
    BY JoinOfTwo, SMT
  <2>. QED BY <1>4, <1>5, <2>1, <2>2
<1>8. /\ \A i \in 1..u : bytes[c + i] = buffer[i]
      /\ \A i \in 1..w : bytes[(c + u) + i] = wire[i]
  BY <1>1 DEF Stands
<1>9. ASSUME NEW i \in 1..(u + w) PROVE bytes[c + i] = b[i]
  <2>1. CASE i <= u
    <3>1. i \in 1..u
      BY <2>1
    <3>. QED BY <1>5, <1>8, <3>1
  <2>2. CASE i > u
    <3>1. PICK j \in 1..w : i = u + j
      <4>1. i - u \in 1..w /\ i = u + (i - u)
        BY <2>2
      <4>. QED BY <4>1
    <3>2. c + i = (c + u) + j
      BY <3>1
    <3>. QED BY <1>5, <1>8, <3>1, <3>2
  <2>. QED BY <2>1, <2>2
<1>10. ASSUME NEW i \in 1..(m + (u + w)) PROVE d[i] = e[i]
  <2>1. CASE i <= m
    <3>1. i \in 1..m
      BY <2>1
    <3>. QED BY <1>4, <1>6, <1>7, <3>1
  <2>2. CASE i > m
    <3>1. PICK j \in 1..(u + w) : i = m + j
      <4>1. i - m \in 1..(u + w) /\ i = m + (i - m)
        BY <2>2
      <4>. QED BY <4>1
    <3>2. (f + i) - 1 = c + j
      BY <1>3, <3>1
    <3>3. d[i] = bytes[c + j]
      BY <1>6, <3>2
    <3>. QED BY <1>7, <1>9, <3>1, <3>3
  <2>. QED BY <2>1, <2>2
<1>11. d = e
  BY <1>6, <1>7, <1>10, SeqEqual, Zenon
<1>. QED BY <1>4, <1>5, <1>6, <1>7, <1>11

\* The limits that a header has kept so far.
WithinLimits(text) ==
  /\ Short(text) /\ Colons(text) /\ Len(input.lines) <= MaxHeaderLines
  /\ ~session.started => FirstFull(text)

\* A bad line among these.
BadLine(text) ==
  \E n \in Nat : \E ends \in [0..n -> Nat] :
    /\ LinesEnd(text, n, ends)
    /\ n > MaxHeaderLines \/ \E k \in 1..n : Separators(LineTo(text, ends[k])) = {}

\* Why a header was refused, or will never be complete.
HeaderRefused ==
  \/ /\ HeaderEnds(Read) = {} /\ Found(LF, buffer, MaxLineLength) = {}
     /\ Len(buffer) > MaxLineLength
  \/ ~session.started /\ Ends(Read) # {} /\ ~FirstFull(Read)
  \/ HeaderEnds(Read) = {} /\ BadLine(Read)
  \/ /\ ended /\ wire = <<>> /\ HeaderEnds(Read) = {}
     /\ \A i \in 1..Len(buffer) : buffer[i] # LF

\* A header that was refused breaks a limit or the grammar, or will never be complete.
LEMMA RefusedFaulty ==
  ASSUME PipeTyped, Parsed, loop = "frame", HeaderRefused
  PROVE  HeaderFaulty(Text) \/ (ended /\ HeaderEnds(Text) = {})
<1>1. StreamTyped /\ from \in Nat /\ 1 <= from /\ from <= Consumed + 1
  BY DEF PipeTyped, ReaderTyped, Parsed, FrameBegun
<1>2. PICK text \in Seq(Alphabet), more \in Seq(Alphabet) :
        text = Read /\ more = buffer \o wire /\ Text = text \o more
  BY <1>1, TextIs
<1>3. buffer \in Seq(Alphabet) /\ wire \in Seq(Alphabet)
  BY <1>1, StreamTypes
<1>4. CASE /\ HeaderEnds(Read) = {} /\ Found(LF, buffer, MaxLineLength) = {}
           /\ Len(buffer) > MaxLineLength
  <2>1. PICK k \in Nat, u \in Nat, w \in Nat :
          k = MaxLineLength /\ u = Len(buffer) /\ k < u /\ w = Len(wire)
    <3>1. MaxLineLength \in Nat /\ Len(buffer) \in Nat /\ Len(wire) \in Nat
      BY <1>3, FrameInputAssumption
    <3>2. MaxLineLength < Len(buffer)
      BY <1>4, <3>1
    <3>. QED BY <3>1, <3>2
  <2>2. \A i \in 1..k : i \in 1..u /\ buffer[i] # LF
    <3>1. \A i \in 1..k : i \in 1..Smaller(u, k) /\ i \in 1..u
      BY <2>1 DEF Smaller
    <3>. QED BY <1>4, <2>1, <3>1 DEF Found
  <2>3. /\ Len(buffer \o wire) = Len(buffer) + Len(wire)
        /\ \A i \in 1..Len(buffer) : (buffer \o wire)[i] = buffer[i]
    BY <1>3, JoinOfTwo, SMT
  <2>4. Len(more) = u + w /\ \A i \in 1..u : more[i] = buffer[i]
    BY <1>2, <2>1, <2>3
  <2>5. Len(more) > MaxLineLength /\ \A i \in 1..MaxLineLength : more[i] # LF
    BY <2>1, <2>2, <2>4
  <2>6. HeaderEnds(text) = {}
    BY <1>2, <1>4
  <2>7. \E length \in LineLengths(text \o more) : length > MaxLineLength
    BY <2>5, <2>6, Overlong
  <2>. QED BY <1>2, <2>7 DEF HeaderFaulty
<1>5. CASE ~session.started /\ Ends(Read) # {} /\ ~FirstFull(Read)
  <2>1. Ends(text) # {} /\ LineTo(text, Min(Ends(text))) = <<>>
    BY <1>2, <1>5 DEF FirstFull
  <2>2. Ends(Text) # {} /\ LineTo(Text, Min(Ends(Text))) = <<>>
    BY <1>2, <2>1, FirstStays
  <2>. QED BY <1>5, <2>2 DEF HeaderFaulty
<1>6. CASE HeaderEnds(Read) = {} /\ BadLine(Read)
  <2>0. PICK n \in Nat : \E ends \in [0..n -> Nat] :
          /\ LinesEnd(text, n, ends)
          /\ n > MaxHeaderLines \/ \E k \in 1..n : Separators(LineTo(text, ends[k])) = {}
    <3>1. BadLine(text)
      BY <1>2, <1>6
    <3>. QED BY <3>1 DEF BadLine
  <2>1. PICK ends \in [0..n -> Nat] :
          /\ LinesEnd(text, n, ends)
          /\ n > MaxHeaderLines \/ \E k \in 1..n : Separators(LineTo(text, ends[k])) = {}
    BY <2>0
  <2>2. HeaderEnds(text) \subseteq {Len(text)}
    BY <1>2, <1>6
  <2>3. PICK size \in Nat : LinesOf(text, n, ends, text \o more, size)
    BY <2>1, <2>2, LinesRemain
  <2>4. /\ DOMAIN HeaderLines(Text) = 1..size /\ Len(HeaderLines(Text)) = size /\ n <= size
        /\ \A k \in 1..n : HeaderLines(Text)[k] = LineTo(text, ends[k])
    BY <1>2, <2>3 DEF LinesOf
  <2>5. CASE n > MaxHeaderLines
    <3>1. size > MaxHeaderLines
      BY <2>4, <2>5, FrameInputAssumption
    <3>. QED BY <2>4, <3>1 DEF HeaderFaulty
  <2>6. CASE \E k \in 1..n : Separators(LineTo(text, ends[k])) = {}
    <3>1. PICK k \in 1..n : Separators(LineTo(text, ends[k])) = {}
      BY <2>6
    <3>2. k \in 1..size
      BY <2>4
    <3>3. k \in DOMAIN HeaderLines(Text) /\ Separators(HeaderLines(Text)[k]) = {}
      BY <2>4, <3>1, <3>2
    <3>. QED BY <3>3 DEF HeaderFaulty
  <2>. QED BY <2>1, <2>5, <2>6
<1>7. CASE /\ ended /\ wire = <<>> /\ HeaderEnds(Read) = {}
           /\ \A i \in 1..Len(buffer) : buffer[i] # LF
  <2>1. more = buffer
    <3>1. buffer \o <<>> = buffer
      BY <1>3, JoinOfThree
    <3>. QED BY <1>2, <1>7, <3>1
  <2>2. PICK all \in Seq(Alphabet), n \in Nat, m \in Nat :
          all = Text /\ all = text \o more /\ n = Len(text) /\ m = Len(more)
    <3>1. text \o more \in Seq(Alphabet) /\ Len(text) \in Nat /\ Len(more) \in Nat
      OBVIOUS
    <3>. QED BY <1>2, <3>1
  <2>3. Len(all) = n + m /\ \A i \in 1..m : all[n + i] = more[i]
    BY <2>2, JoinOfTwo, SMT
  <2>4. /\ HeaderEnds(all) \subseteq Ends(all) /\ Ends(all) \in SUBSET (1..(n + m))
        /\ \A i \in 1..(n + m) : i \in Ends(all) <=> all[i] = LF
    BY <2>2, <2>3, EndsType
  <2>5. HeaderEnds(text) = {i \in HeaderEnds(all) : i <= n}
    BY <2>2, LineStays
  <2>6. ASSUME NEW i \in HeaderEnds(all) PROVE FALSE
    <3>1. i \in 1..(n + m) /\ all[i] = LF /\ ~(i <= n)
      BY <1>2, <1>7, <2>4, <2>5
    <3>2. i - n \in 1..m /\ i = n + (i - n)
      BY <3>1
    <3>3. all[i] = more[i - n] /\ more[i - n] # LF
      BY <1>7, <2>1, <2>2, <2>3, <3>2
    <3>. QED BY <3>1, <3>3
  <2>7. HeaderEnds(Text) = {}
    BY <2>2, <2>6
  <2>. QED BY <1>7, <2>7
<1>. QED BY <1>4, <1>5, <1>6, <1>7 DEF HeaderRefused

\* A header that was accepted breaks none.
LEMMA AcceptedGood ==
  ASSUME PipeTyped, Parsed, FrameReady, WithinLimits(Read)
  PROVE  HeaderEnds(Text) # {} /\ ~HeaderFaulty(Text)
<1>1. StreamTyped /\ from \in Nat /\ 1 <= from /\ from <= Consumed + 1 /\ ReaderTyped
  BY DEF PipeTyped, ReaderTyped, Parsed, FrameBegun, FrameReady
<1>2. PICK text \in Seq(Alphabet), more \in Seq(Alphabet) :
        text = Read /\ Text = text \o more
  BY <1>1, TextIs
<1>3. PICK all \in Seq(Alphabet), h \in Nat, n \in Nat :
        all = Text /\ all = text \o more /\ h = Len(text) /\ n = Len(input.lines)
  <2>1. text \o more \in Seq(Alphabet) /\ Len(text) \in Nat
    OBVIOUS
  <2>2. Len(input.lines) \in Nat
    BY <1>1 DEF ReaderTyped, Lines
  <2>. QED BY <1>2, <2>1, <2>2
<1>4. HeaderEnds(text) = {h} /\ HasLines(text, Command, input.lines, session.version)
  BY <1>2, <1>3 DEF Parsed, HeaderParsed, HeadRead, HeaderWhole
<1>5. PICK ends \in [0..n -> Nat] :
        LinesAt(text, ends, Command, input.lines, session.version)
  BY <1>3, <1>4 DEF HasLines
<1>6. LinesEnd(text, n, ends)
  BY <1>3, <1>5 DEF LinesAt, LinesEnd
<1>7. /\ Ends(text) = {i \in Ends(all) : i <= h}
      /\ HeaderEnds(text) = {i \in HeaderEnds(all) : i <= h}
  BY <1>3, LineStays
<1>8. /\ Ends(all) \in SUBSET Nat /\ HeaderEnds(all) \subseteq Ends(all)
      /\ HeaderEnds(text) \subseteq Ends(text) /\ CommandEnds(text) \subseteq Ends(text)
  BY EndsType
<1>9. h \in HeaderEnds(all) /\ Min(HeaderEnds(all)) = h
  <2>1. h \in HeaderEnds(all) /\ HeaderEnds(all) \in SUBSET Nat
    BY <1>4, <1>7, <1>8
  <2>2. \A i \in HeaderEnds(all) : h <= i
    <3>1. ASSUME NEW i \in HeaderEnds(all) PROVE h <= i
      <4>1. i \in Nat /\ (i <= h => i = h)
        BY <1>4, <1>7, <1>8
      <4>. QED BY <4>1
    <3>. QED BY <3>1
  <2>. QED BY <2>1, <2>2, MinIs
<1>10. WithinLimits(text)
  BY <1>2
\* No line is too long.
<1>11. ASSUME NEW length \in LineLengths(all) PROVE ~(length > MaxLineLength)
  <2>. DEFINE start(i) == {0} \cup {j \in Ends(all) : j < i}
  <2>1. LineLengths(all) = {i - Max(start(i)) : i \in 1..h}
    BY <1>9 DEF LineLengths
  <2>2. PICK i \in 1..h : length = i - Max(start(i))
    BY <2>1
  <2>3. PICK j \in {0} \cup Ends(text) : j < i /\ i - j <= MaxLineLength
    BY <1>3, <1>10 DEF WithinLimits, Short
  <2>4. j \in start(i) /\ j \in Nat
    BY <1>7, <1>8, <2>3
  <2>5. start(i) \in SUBSET (0..i) /\ start(i) # {}
    BY <1>8
  <2>. HIDE DEF start
  <2>6. PICK s \in Nat : s = Max(start(i)) /\ j <= s
    <3>1. i \in Nat
      BY <2>2
    <3>2. Max(start(i)) \in 0..i /\ \A x \in start(i) : x <= Max(start(i))
      BY <2>5, <3>1, MaxOfNumbers
    <3>. QED BY <2>4, <3>2
  <2>7. i - s <= i - j
    BY <2>4, <2>6
  <2>. QED BY <2>2, <2>3, <2>4, <2>6, <2>7, FrameInputAssumption
\* The first one is not empty, if it must not be.
<1>12. ASSUME ~session.started PROVE LineTo(all, Min(Ends(all))) # <<>>
  <2>1. Ends(text) # {} /\ LineTo(text, Min(Ends(text))) # <<>>
    BY <1>10, <1>12 DEF WithinLimits, FirstFull
  <2>. QED BY <1>3, <2>1, FirstStays
\* Each header line has its colon, and there are not too many.
<1>13. /\ DOMAIN HeaderLines(all) = 1..n /\ Len(HeaderLines(all)) = n
       /\ \A k \in 1..n : HeaderLines(all)[k] = LineTo(text, ends[k])
  <2>1. HeaderEnds(text) \subseteq {Len(text)} /\ HeaderEnds(text) # {}
    BY <1>3, <1>4
  <2>2. PICK size \in Nat : LinesOf(text, n, ends, text \o more, size)
    BY <1>6, <2>1, LinesRemain
  <2>. QED BY <1>3, <2>1, <2>2 DEF LinesOf
<1>14. ASSUME NEW k \in 1..n PROVE Separators(HeaderLines(all)[k]) # {}
  <2>1. 0 \in 0..n /\ k \in 0..n /\ 0 < k
    BY <1>3
  <2>2. ends[0] \in CommandEnds(text) /\ ends[k] \in CommandEnds(text) /\ ends[0] < ends[k]
    BY <1>6, <2>1 DEF LinesEnd
  <2>3. Separators(LineTo(text, ends[k])) # {}
    BY <1>10, <2>2 DEF WithinLimits, Colons
  <2>. QED BY <1>13, <2>3
<1>15. ~(n > MaxHeaderLines)
  BY <1>3, <1>10, FrameInputAssumption DEF WithinLimits
<1>16. ~HeaderFaulty(all)
  BY <1>11, <1>12, <1>13, <1>14, <1>15 DEF HeaderFaulty
<1>. QED BY <1>3, <1>9, <1>16

\* Why a body failed: its length, the byte behind it, or an end that comes too soon.
BodyWrong(tail) ==
  IF IsSet(Headers, ContentLength)
    THEN \/ BodyLength(Headers) > MaxBodyLength
         \/ BodyLength(Headers) < Len(tail) /\ tail[BodyLength(Headers) + 1] # NUL
         \/ ended /\ wire = <<>> /\ Len(tail) + Len(buffer) <= BodyLength(Headers)
    ELSE \/ Len(tail) > MaxBodyLength /\ \A i \in 1..(MaxBodyLength + 1) : tail[i] # NUL
         \/ /\ ended /\ wire = <<>>
            /\ \A i \in 1..Len(tail) : tail[i] # NUL
            /\ \A i \in 1..Len(buffer) : buffer[i] # NUL

BodyRefused ==
  \E head, tail \in Seq(Alphabet) : HeadRead(head) /\ Read = head \o tail /\ BodyWrong(tail)

\* The length is a number.
LEMMA BodyLengthType ==
  ASSUME ReaderTyped, IsSet(Headers, ContentLength)
  PROVE  BodyLength(Headers) \in Nat
<1>. DEFINE all == ParseInt(Get(Headers, ContentLength))
            lengths == {n \in all : n >= 0} \cup {0}
<1>1. all \in SUBSET Int /\ \A m, n \in all : m = n
  <2>1. Headers.map \in Tables(Alphabet)
    BY AlphabetHas, NewHeadersType DEF ReaderTyped, Headers, HeaderTables
  <2>2. Get(Headers, ContentLength) \in Seq(Alphabet)
    BY <2>1 DEF Tables, IsSet, Get
  <2>3. all \in SUBSET Int
    BY <2>2, ParseIntType
  <2>. QED BY <2>3, LengthOnce
<1>. HIDE DEF all
<1>2. PICK n \in Nat : lengths \in SUBSET (0..n)
  <2>1. CASE all \cap Nat = {}
    <3>1. ASSUME NEW i \in lengths PROVE i \in 0..0
      <4>1. CASE i \in all /\ i >= 0
        <5>1. i \in Nat
          BY <1>1, <4>1
        <5>. QED BY <2>1, <4>1, <5>1
      <4>. QED BY <4>1
    <3>2. lengths \in SUBSET (0..0)
      BY <3>1
    <3>. QED BY <3>2
  <2>2. CASE all \cap Nat # {}
    <3>1. PICK m \in Nat : m \in all
      BY <2>2
    <3>2. \A i \in all : i = m
      BY <1>1, <3>1
    <3>3. ASSUME NEW i \in lengths PROVE i \in 0..m
      <4>1. i = m \/ i = 0
        BY <3>2
      <4>. QED BY <4>1
    <3>4. lengths \in SUBSET (0..m)
      BY <3>3
    <3>. QED BY <3>4
  <2>. QED BY <2>1, <2>2
<1>3. lengths # {} /\ BodyLength(Headers) = Max(lengths)
  BY DEF BodyLength, all
<1>. HIDE DEF lengths
<1>4. Max(lengths) \in 0..n
  BY <1>2, <1>3, MaxOfNumbers
<1>. QED BY <1>3, <1>4

\* A body that failed breaks a limit, lacks its null byte, or will never be complete.
LEMMA BodyRefusedFaulty ==
  ASSUME PipeTyped, Parsed, loop = "body", BodyRefused
  PROVE  BodyFaulty(BodyText(Text))
<1>1. StreamTyped /\ from \in Nat /\ 1 <= from /\ from <= Consumed + 1 /\ ReaderTyped
  BY DEF PipeTyped, ReaderTyped, Parsed, FrameBegun
<1>2. PICK head \in Seq(Alphabet), tail \in Seq(Alphabet) :
        HeadRead(head) /\ Read = head \o tail /\ BodyWrong(tail)
  BY DEF BodyRefused
<1>3. buffer \in Seq(Alphabet) /\ wire \in Seq(Alphabet)
  BY <1>1, StreamTypes
<1>4. PICK more \in Seq(Alphabet) : more = buffer \o wire /\ Text = Read \o more
  BY <1>1, TextIs
<1>5. PICK rest \in Seq(Alphabet) : rest = tail \o more
  <2>1. tail \o more \in Seq(Alphabet)
    OBVIOUS
  <2>. QED BY <2>1
<1>6. Text = head \o rest
  <2>1. (head \o tail) \o more = head \o (tail \o more)
    BY JoinOfThree
  <2>. QED BY <1>2, <1>4, <1>5, <2>1
<1>7. BodyText(Text) = rest
  <2>1. input.lines \in Seq(Seq(Alphabet) \X Seq(Alphabet))
    BY <1>1 DEF ReaderTyped, Lines
  <2>2. HeaderWhole(head, Command, input.lines, session.version)
    BY <1>2 DEF HeadRead
  <2>. QED BY <1>6, <2>1, <2>2, HeaderParses
<1>8. PICK t \in Nat, m \in Nat, u \in Nat, max \in Nat :
        t = Len(tail) /\ m = Len(more) /\ u = Len(buffer) /\ max = MaxBodyLength
  <2>1. Len(tail) \in Nat /\ Len(more) \in Nat /\ Len(buffer) \in Nat /\ MaxBodyLength \in Nat
    BY <1>3, FrameInputAssumption
  <2>. QED BY <2>1
<1>9. /\ Len(rest) = t + m
      /\ \A i \in 1..t : rest[i] = tail[i]
      /\ \A i \in 1..m : rest[t + i] = more[i]
  BY <1>5, <1>8, JoinOfTwo, SMT
<1>10. wire = <<>> => more = buffer /\ m = u
  <2>1. buffer \o <<>> = buffer
    BY <1>3, JoinOfThree
  <2>. QED BY <1>4, <1>8, <2>1
<1>11. CASE IsSet(Headers, ContentLength)
  <2>1. PICK length \in Nat : length = BodyLength(Headers)
    BY <1>1, <1>11, BodyLengthType
  <2>2. \/ length > max
        \/ length < t /\ tail[length + 1] # NUL
        \/ ended /\ wire = <<>> /\ t + u <= length
    BY <1>2, <1>8, <1>11, <2>1 DEF BodyWrong
  <2>3. \/ length > max
        \/ length < Len(rest) /\ rest[length + 1] # NUL
        \/ length >= Len(rest) /\ ended
    <3>1. CASE length < t /\ tail[length + 1] # NUL
      <4>1. length + 1 \in 1..t /\ length < t + m
        BY <3>1
      <4>. QED BY <1>9, <3>1, <4>1
    <3>2. CASE ended /\ wire = <<>> /\ t + u <= length
      BY <1>9, <1>10, <3>2
    <3>. QED BY <2>2, <3>1, <3>2
  <2>. QED BY <1>7, <1>8, <1>11, <2>1, <2>3 DEF BodyFaulty
<1>12. CASE ~IsSet(Headers, ContentLength)
  <2>1. \/ t > max /\ \A i \in 1..(max + 1) : tail[i] # NUL
        \/ /\ ended /\ wire = <<>>
           /\ \A i \in 1..t : tail[i] # NUL
           /\ \A i \in 1..u : buffer[i] # NUL
    BY <1>2, <1>8, <1>12 DEF BodyWrong
  <2>2. /\ \A i \in 1..(t + m) : rest[i] = NUL => i > max + 1
        /\ t + m > max \/ ended
    <3>1. CASE t > max /\ \A i \in 1..(max + 1) : tail[i] # NUL
      <4>1. ASSUME NEW i \in 1..(t + m), ~(i > max + 1) PROVE rest[i] # NUL
        <5>1. i \in 1..(max + 1) /\ i \in 1..t
          BY <3>1, <4>1
        <5>. QED BY <1>9, <3>1, <5>1
      <4>2. t + m > max
        BY <3>1
      <4>. QED BY <4>1, <4>2
    <3>2. CASE /\ ended /\ wire = <<>>
               /\ \A i \in 1..t : tail[i] # NUL
               /\ \A i \in 1..u : buffer[i] # NUL
      <4>1. ASSUME NEW i \in 1..(t + m) PROVE rest[i] # NUL
        <5>1. CASE i <= t
          <6>1. i \in 1..t
            BY <5>1
          <6>. QED BY <1>9, <3>2, <6>1
        <5>2. CASE i > t
          <6>1. i - t \in 1..m /\ i = t + (i - t)
            BY <5>2
          <6>2. rest[i] = more[i - t] /\ more[i - t] # NUL
            BY <1>9, <1>10, <3>2, <6>1
          <6>. QED BY <6>2
        <5>. QED BY <5>1, <5>2
      <4>. QED BY <3>2, <4>1
    <3>. QED BY <2>1, <3>1, <3>2
  <2>3. {i \in DOMAIN rest : rest[i] = NUL} = {i \in 1..(t + m) : rest[i] = NUL}
    BY <1>9
  <2>4. BodyFaulty(rest) <=>
          /\ \A i \in {j \in DOMAIN rest : rest[j] = NUL} : i > MaxBodyLength + 1
          /\ Len(rest) > MaxBodyLength \/ ended
    BY <1>12 DEF BodyFaulty
  <2>. QED BY <1>7, <1>8, <1>9, <2>2, <2>3, <2>4
<1>. QED BY <1>11, <1>12

-----------------------------------------------------------------------------
(* The limits of what is being read.                                        *)

\* The inductive invariant.
HeaderLimited ==
  /\ loop = "frame" /\ reading = "command" => Short(Read) /\ (~session.started => Read = <<>>)
  /\ reading = "header" \/ FrameReady => WithinLimits(Read)
  /\ loop = "frame" /\ input.status = "failed" => HeaderRefused

BodyLimited == loop = "body" /\ chunk.status = "failed" => BodyRefused

Limited == HeaderLimited /\ BodyLimited

\* A step that leaves the parser alone: what was read stays, and so does the end.
LEMMA QuietLimited ==
  ASSUME PipeTyped, Parsed, Limited, StreamTyped',
         PeerStep \/ ConnectionLost \/ UNCHANGED bytes, Consumed' = Consumed,
         UNCHANGED buffer \/ reading # "none",
         ended /\ wire = <<>> => ended' /\ wire' = <<>>,
         UNCHANGED <<reading, input, chunk, session, loop, from>>
  PROVE  Limited'
<1>1. StreamTyped /\ Consumed \in Nat /\ Stages /\ ReaderTyped
  BY DEF PipeTyped, StreamTyped
<1>2. ASSUME loop \in {"frame", "body"} PROVE Read' = Read
  <2>1. PICK a \in Nat, b \in Nat : a = from /\ b = Consumed /\ 1 <= a /\ a <= b + 1 /\ b <= Consumed
    BY <1>1, <1>2 DEF Parsed, FrameBegun, ReaderTyped
  <2>2. Consumed' >= Consumed
    BY <1>1
  <2>3. SubSeq(bytes', a, b) = SubSeq(bytes, a, b)
    BY <1>1, <2>1, <2>2, ConsumedStays
  <2>. QED BY <2>1, <2>3 DEF Read
<1>3. /\ reading \in {"command", "header"} => loop = "frame"
      /\ FrameReady => loop = "frame"
  BY <1>1 DEF Stages, ReaderTyped, FrameReady
<1>4. UNCHANGED <<Headers, Command, FrameReady>>
  BY DEF Headers, Command, FrameReady
<1>5. /\ loop = "frame" /\ input.status = "failed" => UNCHANGED buffer
      /\ loop = "body" /\ chunk.status = "failed" => UNCHANGED buffer
  BY <1>1 DEF Stages, ReaderTyped
<1>6. HeaderLimited'
  <2>1. loop' = "frame" /\ reading' = "command" =>
          Short(Read') /\ (~session'.started => Read' = <<>>)
    BY <1>2 DEF Limited, HeaderLimited
  <2>2. reading' = "header" \/ FrameReady' => WithinLimits(Read)'
    BY <1>2, <1>3, <1>4 DEF Limited, HeaderLimited, WithinLimits
  <2>3. ASSUME loop' = "frame", input'.status = "failed" PROVE HeaderRefused'
    <3>1. Read' = Read /\ UNCHANGED <<buffer, session>> /\ HeaderRefused
      BY <1>2, <1>5, <2>3 DEF Limited, HeaderLimited
    <3>2. UNCHANGED <<HeaderEnds(Read), Ends(Read), FirstFull(Read), BadLine(Read)>>
      BY <3>1
    <3>3. Found(LF, buffer', MaxLineLength) = Found(LF, buffer, MaxLineLength)
      BY <3>1
    <3>. QED BY <3>1, <3>2, <3>3 DEF HeaderRefused
  <2>. QED BY <2>1, <2>2, <2>3 DEF HeaderLimited
<1>7. BodyLimited'
  <2>. SUFFICES ASSUME loop' = "body", chunk'.status = "failed" PROVE BodyRefused'
    BY DEF BodyLimited
  <2>1. Read' = Read /\ UNCHANGED <<buffer, session, input>> /\ BodyRefused
    BY <1>2, <1>5 DEF Limited, BodyLimited
  <2>2. PICK head \in Seq(Alphabet), tail \in Seq(Alphabet) :
          HeadRead(head) /\ Read = head \o tail /\ BodyWrong(tail)
    BY <2>1 DEF BodyRefused
  <2>3. HeadRead(head)' /\ Read' = head \o tail
    BY <1>4, <2>1, <2>2 DEF HeadRead
  <2>4. BodyWrong(tail)'
    BY <1>4, <2>1, <2>2 DEF BodyWrong
  <2>. QED BY <2>3, <2>4 DEF BodyRefused
<1>. QED BY <1>6, <1>7 DEF Limited

\* The first line of a text.
LEMMA FirstLine ==
  ASSUME NEW A, NEW piece \in Seq(A), OneLine(piece),
         NEW line, line = Stripped(SubSeq(piece, 1, Len(piece) - 1))
  PROVE  /\ Ends(<<>> \o piece) # {}
         /\ LineTo(<<>> \o piece, Min(Ends(<<>> \o piece))) = line
<1>1. PICK empty \in Seq(A) : empty = <<>>
  <2>1. <<>> \in Seq(A)
    OBVIOUS
  <2>. QED BY <2>1
<1>2. PICK all \in Seq(A), end \in Nat : all = empty \o piece /\ end = Len(all)
  <2>1. empty \o piece \in Seq(A) /\ Len(empty \o piece) \in Nat
    OBVIOUS
  <2>. QED BY <2>1
<1>3. Lined(empty) /\ Ends(empty) = {}
  BY <1>1 DEF Lined, Ends
<1>4. Ends(all) = {end} /\ LineTo(all, end) = line
  <2>1. Ends(all) = Ends(empty) \cup {end} /\ LineTo(all, end) = line
    BY <1>2, <1>3, LineAdded
  <2>. QED BY <1>3, <2>1
<1>5. Min({end}) = end
  <2>1. {end} \in SUBSET Nat /\ end \in {end} /\ \A i \in {end} : end <= i
    OBVIOUS
  <2>. QED BY <2>1, MinIs
<1>6. all = <<>> \o piece
  BY <1>1, <1>2
<1>. QED BY <1>4, <1>5, <1>6

\* The steps of readFrame.
LEMMA HeaderStepLimited ==
  ASSUME PipeTyped, Parsed, Limited, UNCHANGED <<bytes, session, loop, consumer, received, from>>,
         \/ SkipEmptyLine(session.started) \/ ReadCommand
         \/ ReadHeaderLine(session.version) \/ EndHeader
  PROVE  Limited'
<1>1. PICK kind \in {"command", "header"} : Completes(kind)
  BY DEF SkipEmptyLine, ReadCommand, ReadHeaderLine, EndHeader
<1>2. loop = "frame" /\ reading = kind
  BY <1>1, LineParsed
<1>3. PICK piece \in Seq(Alphabet) :
        /\ OneLine(piece) /\ Bytes = Stripped(SubSeq(piece, 1, Len(piece) - 1))
        /\ Len(piece) <= MaxLineLength
        /\ Read \in Seq(Alphabet) /\ Read' = Read \o piece
  BY <1>1, LineParsed
<1>4. HeaderParsed /\ HeaderLimited
  BY DEF Parsed, Limited
<1>5. /\ input = [status |-> input.status, command |-> input.command, lines |-> input.lines]
      /\ input.lines \in Seq(Seq(Alphabet) \X Seq(Alphabet)) /\ input.status = "reading"
      /\ session.started \in BOOLEAN
  BY <1>2 DEF PipeTyped, ReaderTyped, Stages, Lines
<1>6. SUFFICES HeaderLimited'
  <2>1. loop' # "body"
    BY <1>2
  <2>. QED BY <2>1 DEF Limited, BodyLimited
<1>7. PICK line \in Seq(Alphabet) : line = Bytes
  BY <1>1, CompletesKeeps
<1>8. Lined(Read) /\ HeaderEnds(Read) = {}
  <2>1. CommandEnds(Read) = {} => HeaderEnds(Read) = {}
    BY DEF HeaderEnds
  <2>. QED BY <1>2, <1>4, <2>1 DEF HeaderParsed, HeaderOpen
<1>9. reading = "command" => CommandEnds(Read) = {} /\ Colons(Read)
  BY <1>4 DEF HeaderParsed, Colons
<1>10. reading = "header" => Colons(Read)
  BY <1>4 DEF HeaderLimited, WithinLimits
<1>11. Short(Read')
  <2>1. Short(Read)
    BY <1>2, <1>4 DEF HeaderLimited, WithinLimits
  <2>. QED BY <1>3, <1>8, <2>1, ShortGrows
<1>12. line = <<>> \/ Separators(line) # {} \/ CommandEnds(Read) = {} => Colons(Read')
  BY <1>2, <1>3, <1>7, <1>8, <1>9, <1>10, ColonsGrow
<1>13. reading = "command" /\ ~session.started =>
         Ends(Read') # {} /\ LineTo(Read', Min(Ends(Read'))) = line
  <2>. SUFFICES ASSUME reading = "command", ~session.started
                PROVE  Ends(Read') # {} /\ LineTo(Read', Min(Ends(Read'))) = line
    OBVIOUS
  <2>1. Read' = <<>> \o piece
    BY <1>2, <1>3, <1>4 DEF HeaderLimited
  <2>. QED BY <1>3, <1>7, <2>1, FirstLine
<1>14. reading = "header" /\ ~session.started => FirstFull(Read')
  <2>. SUFFICES ASSUME reading = "header", ~session.started PROVE FirstFull(Read')
    OBVIOUS
  <2>1. FirstFull(Read)
    BY <1>4 DEF HeaderLimited, WithinLimits
  <2>. QED BY <1>3, <2>1, FirstStays DEF FirstFull
<1>15. CASE SkipEmptyLine(session.started)
  <2>1. /\ line = <<>> /\ reading = "command"
        /\ IF session.started THEN UNCHANGED <<reading, input>> ELSE ReadFrameFails
    BY <1>7, <1>15 DEF SkipEmptyLine, Completes
  <2>2. CASE session.started
    <3>1. reading' = "command" /\ input'.status = "reading" /\ session'.started
      BY <1>5, <2>1, <2>2
    <3>. QED BY <1>11, <3>1 DEF HeaderLimited, FrameReady
  <2>3. CASE ~session.started
    <3>1. reading' = "none" /\ input'.status = "failed" /\ ~session'.started
      BY <1>5, <2>1, <2>3 DEF ReadFrameFails
    <3>2. HeaderRefused'
      BY <1>13, <2>1, <2>3, <3>1 DEF HeaderRefused, FirstFull
    <3>. QED BY <3>1, <3>2 DEF HeaderLimited, FrameReady
  <2>. QED BY <1>5, <2>2, <2>3
<1>16. CASE ReadCommand
  <2>1. /\ line # <<>> /\ reading = "command" /\ reading' = "header"
        /\ input' = [input EXCEPT !.command = Bytes]
    BY <1>7, <1>16 DEF ReadCommand, Completes
  <2>2. input'.status = "reading" /\ input'.lines = <<>> /\ Len(<<>>) = 0
    BY <1>4, <1>5, <2>1 DEF HeaderParsed
  <2>3. Len(input'.lines) <= MaxHeaderLines
    BY <2>2, FrameInputAssumption
  <2>4. ~session'.started => FirstFull(Read')
    BY <1>13, <2>1 DEF FirstFull
  <2>5. WithinLimits(Read)'
    BY <1>9, <1>11, <1>12, <2>1, <2>3, <2>4 DEF WithinLimits
  <2>. QED BY <2>1, <2>2, <2>5 DEF HeaderLimited, FrameReady
<1>17. CASE ReadHeaderLine(session.version)
  <2>. DEFINE new == HeaderLine(Bytes, session.version)
              lines == Append(input.lines, new)
  <2>1. /\ line # <<>> /\ reading = "header"
        /\ IF Separators(line) # {} /\ MayReadLine(lines)
             THEN input' = [input EXCEPT !.lines = lines] /\ UNCHANGED reading
             ELSE ReadFrameFails
    BY <1>7, <1>17 DEF ReadHeaderLine, Completes
  <2>2. PICK n \in Nat : n = Len(input.lines) /\ Len(lines) = n + 1
    BY <1>5
  <2>. HIDE DEF lines
  <2>3. CASE Separators(line) # {} /\ MayReadLine(lines)
    <3>1. input'.status = "reading" /\ input'.lines = lines /\ reading' = "header"
      BY <1>5, <2>1, <2>3
    <3>2. Len(input'.lines) <= MaxHeaderLines
      BY <2>3, <3>1 DEF MayReadLine
    <3>3. WithinLimits(Read)'
      BY <1>11, <1>12, <1>14, <2>1, <2>3, <3>2 DEF WithinLimits
    <3>. QED BY <3>1, <3>3 DEF HeaderLimited, FrameReady
  <2>4. CASE ~(Separators(line) # {} /\ MayReadLine(lines))
    <3>1. reading' = "none" /\ input'.status = "failed"
      BY <1>5, <2>1, <2>4 DEF ReadFrameFails
    <3>2. HasLines(Read, Command, input.lines, session.version)
      BY <1>4, <2>1 DEF HeaderParsed, HeaderOpen
    <3>3. PICK ends \in [0..n -> Nat] : LinesEnd(Read, n, ends)
      BY <2>2, <3>2 DEF HasLines, LinesAt, LinesEnd
    <3>4. PICK text \in Seq(Alphabet) : text = Read
      BY <1>3
    <3>5. /\ Lined(text) /\ HeaderEnds(text) = {} /\ LinesEnd(text, n, ends)
          /\ line = Stripped(SubSeq(piece, 1, Len(piece) - 1)) /\ line # <<>>
      BY <1>3, <1>7, <1>8, <2>1, <3>3, <3>4
    <3>6. PICK end \in Nat : end = Len(text \o piece)
      <4>1. Len(text \o piece) \in Nat
        OBVIOUS
      <4>. QED BY <4>1
    <3>7. PICK longer \in [0..(n + 1) -> Nat] : longer = Longer(ends, n, end) /\ longer[n + 1] = end
      <4>1. Longer(ends, n, end) \in [0..(n + 1) -> Nat] /\ Longer(ends, n, end)[n + 1] = end
        BY LongerType, Zenon
      <4>. QED BY <4>1
    <3>8. HeaderEnds(text \o piece) = {} /\ LinesEnd(text \o piece, n + 1, longer)
      BY <1>3, <3>5, <3>6, <3>7, LinesEndGrows
    <3>9. LineTo(text \o piece, Len(text \o piece)) = line
      BY <1>3, <3>5, LineAdded
    <3>10. /\ HeaderEnds(Read') = {}
          /\ LinesEnd(Read', n + 1, longer) /\ LineTo(Read', longer[n + 1]) = line
      BY <1>3, <3>4, <3>6, <3>8, <3>9, <3>7
    <3>11. n + 1 \in Nat /\ n + 1 \in 1..(n + 1)
      OBVIOUS
    <3>12. n + 1 > MaxHeaderLines \/ \E k \in 1..(n + 1) : Separators(LineTo(Read', longer[k])) = {}
      <4>1. CASE Separators(line) = {}
        BY <3>10, <3>11, <4>1
      <4>2. CASE ~MayReadLine(lines)
        BY <2>2, <4>2, FrameInputAssumption DEF MayReadLine
      <4>. QED BY <2>4, <4>1, <4>2
    <3>13. BadLine(Read')
      BY <3>10, <3>11, <3>12 DEF BadLine
    <3>14. HeaderRefused'
      BY <3>10, <3>13 DEF HeaderRefused
    <3>. QED BY <3>1, <3>14 DEF HeaderLimited, FrameReady
  <2>. QED BY <2>3, <2>4
<1>18. CASE EndHeader
  <2>1. /\ line = <<>> /\ reading = "header" /\ reading' = "none"
        /\ input' = [input EXCEPT !.status = "ready"]
    BY <1>7, <1>18 DEF EndHeader, Completes
  <2>2. input'.lines = input.lines /\ input'.status = "ready"
    BY <1>5, <2>1
  <2>3. WithinLimits(Read)'
    BY <1>4, <1>11, <1>12, <1>14, <2>1, <2>2 DEF WithinLimits, HeaderLimited
  <2>. QED BY <2>1, <2>2, <2>3 DEF HeaderLimited
<1>. QED BY <1>15, <1>16, <1>17, <1>18

\* A read fails: a line is too long, or the end has come too soon.
LEMMA ReadFailsLimited ==
  ASSUME PipeTyped, Parsed, Limited, ReadFails,
         UNCHANGED <<bytes, session, loop, consumer, received, from>>
  PROVE  Limited'
<1>1. StreamTyped /\ Stages /\ ReaderTyped /\ HeaderParsed /\ BodyParsed
  BY DEF PipeTyped, Parsed
<1>2. UNCHANGED <<wire, ended, buffer>> /\ reading # "none" /\ reading' = "none"
  BY DEF ReadFails, ReadFrameFails
<1>3. Read' = Read
  BY <1>2 DEF Consumed, Read
<1>4. Operation.status = "error" \/ (Operation.status = "continued" /\ wire = <<>> /\ ended)
  BY DEF ReadFails, Continues
<1>5. buffer \in Seq(Alphabet) /\ Len(buffer) \in Nat /\ MaxLineLength \in Nat
  BY <1>1, StreamTypes, FrameInputAssumption
<1>6. CASE reading \in {"command", "header"}
  <2>1. /\ loop = "frame" /\ input' = [input EXCEPT !.status = "failed"]
    BY <1>1, <1>6 DEF ReadFails, ReadFrameFails, Stages, ReaderTyped
  <2>2. input'.status = "failed"
    BY <1>1, <2>1 DEF ReaderTyped
  <2>3. HeaderEnds(Read) = {}
    <3>1. CommandEnds(Read) = {} => HeaderEnds(Read) = {}
      BY DEF HeaderEnds
    <3>. QED BY <1>1, <1>6, <3>1 DEF HeaderParsed, HeaderOpen
  <2>4. Operation = ReadLine(buffer, MaxLineLength)
    BY <1>6 DEF Operation
  <2>5. Found(LF, buffer, MaxLineLength) = {}
    BY <1>4, <2>4 DEF ReadLine, ReadCompleted
  <2>6. CASE Operation.status = "error"
    <3>1. ~LineFits(buffer, MaxLineLength)
      BY <2>4, <2>5, <2>6 DEF ReadLine, ReadContinued
    <3>2. Len(buffer) > MaxLineLength
      BY <1>5, <3>1 DEF LineFits
    <3>3. HeaderRefused'
      BY <1>2, <1>3, <2>3, <2>5, <3>2 DEF HeaderRefused
    <3>. QED BY <1>2, <2>1, <2>2, <3>3 DEF Limited, HeaderLimited, BodyLimited, FrameReady
  <2>7. CASE Operation.status = "continued" /\ wire = <<>> /\ ended
    <3>1. LineFits(buffer, MaxLineLength)
      BY <2>4, <2>5, <2>7 DEF ReadLine, ReadError
    <3>2. Smaller(Len(buffer), MaxLineLength) = Len(buffer)
      BY <3>1 DEF LineFits, Smaller
    <3>3. \A i \in 1..Len(buffer) : buffer[i] # LF
      BY <2>5, <3>2 DEF Found
    <3>4. HeaderRefused'
      BY <1>2, <1>3, <2>3, <2>7, <3>3 DEF HeaderRefused
    <3>. QED BY <1>2, <2>1, <2>2, <3>4 DEF Limited, HeaderLimited, BodyLimited, FrameReady
  <2>. QED BY <1>4, <2>6, <2>7
<1>7. CASE reading \notin {"command", "header"}
  <2>1. /\ reading \in {"fixed", "end", "dynamic"} /\ loop = "body"
        /\ chunk.status = "awaited" /\ body.kind # "over" /\ UNCHANGED input
    BY <1>1, <1>2, <1>7 DEF ReadFails, Stages, ReaderTyped
  <2>2. PICK head \in Seq(Alphabet), text \in Seq(Alphabet) :
          text = consumer.text /\ HeadRead(head) /\ Read = head \o text /\ Goes(text)
    <3>1. Content = consumer.text /\ consumer.text \in Seq(Alphabet)
      BY <1>1, <2>1 DEF Content, ReaderTyped
    <3>. QED BY <1>1, <2>1, <3>1 DEF BodyParsed, ContentRead
  <2>3. UNCHANGED Headers /\ HeadRead(head)'
    BY <2>1, <2>2 DEF Headers, Command, HeadRead
  <2>4. PICK n \in Nat, m \in Nat, u \in Nat, c \in Nat :
          /\ n = Len(text) /\ m = body.remaining /\ u = Len(buffer)
          /\ c = MaxBodyChunkLength
    <3>1. Len(text) \in Nat /\ body.remaining \in Nat /\ MaxBodyChunkLength \in Nat
      BY <1>1, FrameInputAssumption DEF ReaderTyped
    <3>. QED BY <1>5, <3>1
  <2>5. CASE reading \in {"fixed", "end"}
    <3>1. IsSet(Headers, ContentLength) /\ n + m = BodyLength(Headers)
      <4>1. body.kind = "fixed"
        BY <1>1, <2>5 DEF Stages
      <4>. QED BY <2>2, <2>4, <4>1 DEF Goes
    <3>2. wire = <<>> /\ ended /\ n + u <= n + m
      <4>1. CASE reading = "fixed"
        <5>1. PICK k \in Nat : k = Smaller(m, c) /\ k <= m
          BY <2>4 DEF Smaller
        <5>2. Operation = ReadRange(buffer, k, k)
          BY <2>4, <4>1, <5>1 DEF Operation
        <5>3. ~(Len(buffer) >= k) /\ wire = <<>> /\ ended
          BY <1>4, <5>2 DEF ReadRange, ReadCompleted, ReadContinued
        <5>. QED BY <2>4, <5>1, <5>3
      <4>2. CASE reading = "end"
        <5>1. Operation = ReadRange(buffer, 1, 1)
          BY <4>2 DEF Operation
        <5>2. ~(Len(buffer) >= 1) /\ wire = <<>> /\ ended
          BY <1>4, <5>1 DEF ReadRange, ReadCompleted, ReadContinued
        <5>. QED BY <2>4, <5>2
      <4>. QED BY <2>5, <4>1, <4>2
    <3>3. BodyWrong(text)
      BY <2>4, <3>1, <3>2 DEF BodyWrong
    <3>4. BodyWrong(text)'
      BY <1>2, <2>3, <3>3 DEF BodyWrong
    <3>5. BodyRefused'
      BY <1>3, <2>2, <2>3, <3>4 DEF BodyRefused
    <3>. QED BY <1>2, <2>1, <3>5 DEF Limited, HeaderLimited, BodyLimited, FrameReady
  <2>6. CASE reading = "dynamic"
    <3>1. ~IsSet(Headers, ContentLength) /\ NUL \notin ToSet(text)
      <4>1. body.kind = "dynamic"
        BY <1>1, <2>6 DEF Stages
      <4>. QED BY <2>2, <4>1 DEF Goes
    <3>2. Operation = ReadUntil(buffer, NUL, c)
      BY <2>4, <2>6 DEF Operation
    <3>3. Found(NUL, buffer, c) = {} /\ ~(Len(buffer) >= c) /\ wire = <<>> /\ ended
      BY <1>4, <3>2 DEF ReadUntil, ReadCompleted, ReadContinued
    <3>4. Smaller(Len(buffer), c) = Len(buffer)
      BY <2>4, <3>3 DEF Smaller
    <3>5. \A i \in 1..Len(buffer) : buffer[i] # NUL
      BY <3>3, <3>4 DEF Found
    <3>6. \A i \in 1..Len(text) : text[i] # NUL
      BY <3>1 DEF ToSet
    <3>7. BodyWrong(text)
      BY <3>1, <3>3, <3>5, <3>6 DEF BodyWrong
    <3>8. BodyWrong(text)'
      BY <1>2, <2>3, <3>7 DEF BodyWrong
    <3>9. BodyRefused'
      BY <1>3, <2>2, <2>3, <3>8 DEF BodyRefused
    <3>. QED BY <1>2, <2>1, <3>9 DEF Limited, HeaderLimited, BodyLimited, FrameReady
  <2>. QED BY <2>1, <2>5, <2>6
<1>. QED BY <1>6, <1>7

\* A body that has been given goes on, is over or has failed.
LEMMA BodyStepLimited ==
  ASSUME PipeTyped, Bounds, Parsed, Limited, ReadFixed \/ ReadEnd \/ ReadDynamic,
         UNCHANGED <<bytes, session, loop, consumer, received, from>>
  PROVE  Limited'
<1>1. PICK kind \in {"fixed", "end", "dynamic"} : Completes(kind)
  BY DEF ReadFixed, ReadEnd, ReadDynamic
<1>2. /\ loop = "body" /\ reading = kind
      /\ kind \in {"fixed", "end"} => body.kind = "fixed"
      /\ kind = "end" => body.remaining = 0
      /\ kind = "dynamic" => body.kind = "dynamic"
      /\ Bytes \in Seq(Alphabet)
      /\ kind = "end" => Len(Bytes) = 1
      /\ kind = "dynamic" => Bytes # <<>> /\ \A i \in 1..(Len(Bytes) - 1) : Bytes[i] # NUL
  BY <1>1, PieceParsed
<1>3. PICK head \in Seq(Alphabet) :
        /\ HeadRead(head) /\ Goes(consumer.text)
        /\ Read' = (head \o consumer.text) \o Bytes
  BY <1>1, PieceParsed
<1>4. PICK text \in Seq(Alphabet), piece \in Seq(Alphabet) :
        text = consumer.text /\ piece = Bytes
  BY <1>2 DEF PipeTyped, ReaderTyped
<1>5. PICK tail \in Seq(Alphabet) : tail = text \o piece /\ Read' = head \o tail
  <2>1. (head \o text) \o piece = head \o (text \o piece) /\ text \o piece \in Seq(Alphabet)
    BY JoinOfThree
  <2>. QED BY <1>3, <1>4, <2>1
<1>6. UNCHANGED <<input, ended, wire, buffer>> \/ UNCHANGED input
  BY DEF ReadFixed, ReadEnd, ReadDynamic
<1>7. UNCHANGED Headers /\ HeadRead(head)'
  BY <1>3, <1>6 DEF Headers, Command, HeadRead
<1>8. HeaderLimited'
  <2>1. reading' = "none"
    BY DEF ReadFixed, ReadEnd, ReadDynamic
  <2>. QED BY <1>2, <2>1 DEF HeaderLimited, FrameReady
<1>9. SUFFICES ASSUME chunk'.status = "failed" PROVE BodyWrong(tail)'
  BY <1>5, <1>7, <1>8 DEF Limited, BodyLimited, BodyRefused
<1>10. PICK t \in Nat, n \in Nat, max \in Nat :
         t = Len(text) /\ n = Len(piece) /\ max = MaxBodyLength
  <2>1. Len(text) \in Nat /\ Len(piece) \in Nat /\ MaxBodyLength \in Nat
    BY FrameInputAssumption
  <2>. QED BY <2>1
<1>11. /\ Len(tail) = t + n
       /\ \A i \in 1..t : tail[i] = text[i]
       /\ \A i \in 1..n : tail[t + i] = piece[i]
  BY <1>5, <1>10, JoinOfTwo, SMT
<1>12. CASE ReadFixed
  BY <1>9, <1>12 DEF ReadFixed, Yields
<1>13. CASE ReadEnd
  <2>1. kind = "end" /\ ~IsEnd(Bytes)
    BY <1>2, <1>9, <1>13 DEF ReadEnd, Completes, Yields
  <2>2. n = 1 /\ piece[1] # NUL
    <3>1. n = 1
      BY <1>2, <1>4, <1>10, <2>1
    <3>2. piece[1] = NUL => piece = <<NUL>>
      <4>1. PICK one \in Seq(Alphabet) : one = <<NUL>> /\ Len(one) = 1 /\ one[1] = NUL
        <5>1. <<NUL>> \in Seq(Alphabet) /\ Len(<<NUL>>) = 1 /\ <<NUL>>[1] = NUL
          BY AlphabetHas
        <5>. QED BY <5>1
      <4>2. ASSUME piece[1] = NUL PROVE \A i \in 1..Len(piece) : piece[i] = one[i]
        BY <1>10, <3>1, <4>1, <4>2
      <4>3. Len(piece) = Len(one)
        BY <1>10, <3>1, <4>1
      <4>. QED BY <4>1, <4>2, <4>3, SeqEqual, Zenon
    <3>. QED BY <1>4, <2>1, <3>1, <3>2 DEF IsEnd
  <2>3. IsSet(Headers, ContentLength) /\ t = BodyLength(Headers)
    <3>1. IsSet(Headers, ContentLength) /\ t + 0 = BodyLength(Headers)
      BY <1>2, <1>3, <1>4, <1>10, <2>1 DEF Goes
    <3>. QED BY <3>1
  <2>4. t < Len(tail) /\ tail[t + 1] # NUL
    BY <1>11, <2>2
  <2>. QED BY <1>7, <2>3, <2>4 DEF BodyWrong
<1>14. CASE ReadDynamic
  <2>. DEFINE last == Last(Bytes) = NUL
              given == IF last THEN Front(Bytes) ELSE Bytes
  <2>1. kind = "dynamic" /\ TooLarge(body.total + Len(given))
    BY <1>2, <1>9, <1>14 DEF ReadDynamic, Completes, Yields
  <2>2. ~IsSet(Headers, ContentLength) /\ \A i \in 1..t : text[i] # NUL
    <3>1. ~IsSet(Headers, ContentLength) /\ NUL \notin ToSet(text)
      BY <1>2, <1>3, <1>4, <2>1 DEF Goes
    <3>. QED BY <1>10, <3>1 DEF ToSet
  <2>3. body.total = t
    <3>1. chunk.status = "awaited"
      BY <1>2 DEF PipeTyped, Stages
    <3>. QED BY <1>2, <1>4, <1>10, <3>1 DEF Bounds
  <2>4. n >= 1 /\ \A i \in 1..(n - 1) : piece[i] # NUL
    BY <1>2, <1>4, <1>10, <2>1, EmptyOrNot
  <2>5. PICK m \in Nat : /\ m <= n /\ t + m > max
                         /\ \A i \in 1..n : piece[i] = NUL => i > m
    <3>1. CASE last
      <4>1. Front(Bytes) = SubSeq(piece, 1, n - 1) /\ n - 1 \in 0..n
        BY <1>4, <1>10, <2>4 DEF Front
      <4>2. Len(SubSeq(piece, 1, n - 1)) = n - 1
        BY <1>10, <4>1, CutInTwo
      <4>3. Len(given) = n - 1
        BY <3>1, <4>1, <4>2
      <4>4. t + (n - 1) > max
        BY <1>10, <2>1, <2>3, <4>3 DEF TooLarge
      <4>5. \A i \in 1..n : piece[i] = NUL => i > n - 1
        <5>1. \A i \in 1..n : i \in 1..(n - 1) \/ i > n - 1
          OBVIOUS
        <5>. QED BY <2>4, <5>1
      <4>6. n - 1 \in Nat /\ n - 1 <= n
        BY <2>4
      <4>. QED BY <4>4, <4>5, <4>6
    <3>2. CASE ~last
      <4>1. Len(given) = n /\ Last(Bytes) = piece[n] /\ piece[n] # NUL
        BY <1>4, <1>10, <3>2 DEF Last
      <4>2. t + n > max
        BY <1>10, <2>1, <2>3, <4>1 DEF TooLarge
      <4>3. \A i \in 1..n : piece[i] # NUL
        <5>1. \A i \in 1..n : i \in 1..(n - 1) \/ i = n
          OBVIOUS
        <5>. QED BY <2>4, <4>1, <5>1
      <4>. QED BY <4>2, <4>3
    <3>. QED BY <3>1, <3>2
  <2>6. Len(tail) > max
    BY <1>11, <2>5
  <2>7. ASSUME NEW i \in 1..(max + 1) PROVE tail[i] # NUL
    <3>1. CASE i <= t
      <4>1. i \in 1..t
        BY <3>1
      <4>. QED BY <1>11, <2>2, <4>1
    <3>2. CASE i > t
      <4>1. i - t \in 1..n /\ i = t + (i - t) /\ i - t <= m
        BY <2>5, <3>2
      <4>2. tail[i] = piece[i - t] /\ piece[i - t] # NUL
        BY <1>11, <2>5, <4>1
      <4>. QED BY <4>2
    <3>. QED BY <3>1, <3>2
  <2>. QED BY <1>7, <1>10, <2>2, <2>6, <2>7 DEF BodyWrong
<1>. QED BY <1>12, <1>13, <1>14

\* The generator refuses a body that is too large.
LEMMA PullLimited ==
  ASSUME ReaderTyped, PullBody, NEW head \in Seq(Alphabet), NEW content \in Seq(Alphabet),
         HeadRead(head), ContentRead(head, content), Read' = Read,
         UNCHANGED <<input, session.version>>, chunk'.status = "failed"
  PROVE  BodyRefused'
<1>1. UNCHANGED Headers /\ HeadRead(head)'
  BY DEF Headers, Command, HeadRead
<1>2. body.kind = "fixed" /\ body.remaining > MaxBodyLength
  BY DEF PullBody, TooLarge, Done, Awaited
<1>3. Read' = head \o content /\ Goes(content)
  BY <1>2 DEF ContentRead
<1>4. IsSet(Headers, ContentLength) /\ Len(content) + body.remaining = BodyLength(Headers)
  BY <1>2, <1>3 DEF Goes
<1>5. PICK n \in Nat, m \in Nat, max \in Nat :
        n = Len(content) /\ m = body.remaining /\ max = MaxBodyLength /\ m > max
  <2>1. Len(content) \in Nat /\ body.remaining \in Nat /\ MaxBodyLength \in Nat
    BY FrameInputAssumption DEF ReaderTyped
  <2>. QED BY <1>2, <2>1
<1>6. BodyLength(Headers) > MaxBodyLength
  BY <1>4, <1>5
<1>7. BodyWrong(content)'
  BY <1>1, <1>4, <1>6 DEF BodyWrong
<1>. QED BY <1>1, <1>3, <1>7 DEF BodyRefused

\* A body is given to a reader.
LEMMA GivenLimited ==
  ASSUME PipeTyped, Parsed, PipeTyped', Limited,
         TakeMessage \/ TakeReceipt \/ TakeError \/ TakeConnected \/ ServeFrame
  PROVE  Limited'
<1>1. \E reader : FrameReady /\ GiveBody(reader) /\ session'.version = session.version
  <2>1. TakeConnected => session'.version = session.version
    BY DEF TakeConnected, PipeTyped, ReaderTyped
  <2>. QED BY <2>1 DEF TakeMessage, TakeReceipt, TakeError, TakeConnected, ServeFrame
<1>2. PICK reader : FrameReady /\ GiveBody(reader) /\ session'.version = session.version
  BY <1>1
<1>3. /\ UNCHANGED <<bytes, wire, buffer, input, from>>
      /\ PullBody /\ loop' = "body" /\ loop = "frame"
  BY <1>2 DEF GiveBody, peerVars, FrameReady
<1>4. FrameBegun /\ HeaderParsed /\ ReaderTyped /\ StreamTyped /\ Read' = Read
  BY <1>3 DEF Parsed, PipeTyped, Consumed, Read
<1>5. HeaderLimited'
  <2>1. reading' \notin {"command", "header"}
    BY <1>3 DEF PipeTyped, Stages
  <2>. QED BY <1>3, <2>1 DEF HeaderLimited, FrameReady
<1>6. Read \in Seq(Alphabet)
  <2>1. PICK a \in Nat, b \in Nat : a = from /\ b = Consumed /\ 1 <= a /\ a <= b + 1 /\ b <= Consumed
    BY <1>3, <1>4 DEF FrameBegun, ReaderTyped, StreamTyped
  <2>. QED BY <1>4, <2>1, ConsumedPart DEF Read
<1>7. PICK head \in Seq(Alphabet) : head = Read /\ HeadRead(head) /\ head \o <<>> = head
  BY <1>2, <1>4, <1>6, JoinOfThree DEF HeaderParsed
<1>8. ContentRead(head, <<>>)
  <2>1. body.kind # "over" /\ Goes(<<>>)
    BY <1>2, <1>4, BodyBegins DEF HeaderParsed
  <2>. QED BY <1>7, <2>1 DEF ContentRead
<1>9. BodyLimited'
  <2>1. <<>> \in Seq(Alphabet)
    OBVIOUS
  <2>. QED BY <1>2, <1>3, <1>4, <1>7, <1>8, <2>1, PullLimited DEF BodyLimited
<1>. QED BY <1>5, <1>9 DEF Limited

\* A reader takes a chunk and asks for the next.
LEMMA TakeChunkLimited ==
  ASSUME PipeTyped, Parsed, PipeTyped', Limited, TakeChunk
  PROVE  Limited'
<1>1. /\ UNCHANGED <<bytes, wire, buffer, input, session, from, loop>>
      /\ PullBody /\ loop = "body" /\ chunk.status = "ok"
  BY DEF TakeChunk, peerVars
<1>2. BodyParsed /\ ReaderTyped /\ Read' = Read
  BY <1>1 DEF Parsed, PipeTyped, Consumed, Read
<1>3. HeaderLimited'
  <2>1. reading' \notin {"command", "header"}
    BY <1>1 DEF PipeTyped, Stages
  <2>. QED BY <1>1, <2>1 DEF HeaderLimited, FrameReady
<1>4. PICK content \in Seq(Alphabet) : content = Content
  <2>1. consumer.text \in Seq(Alphabet) /\ chunk.bytes \in Seq(Alphabet)
    BY <1>2 DEF ReaderTyped
  <2>2. consumer.text \o chunk.bytes \in Seq(Alphabet)
    BY <2>1, JoinOfTwo
  <2>. QED BY <1>1, <2>2 DEF Content
<1>5. PICK head \in Seq(Alphabet) : HeadRead(head) /\ ContentRead(head, content)
  BY <1>1, <1>2, <1>4 DEF BodyParsed
<1>6. BodyLimited'
  BY <1>1, <1>2, <1>5, PullLimited DEF BodyLimited
<1>. QED BY <1>3, <1>6 DEF Limited

\* readFrame is called.
LEMMA ReadNextFrameLimited ==
  ASSUME PipeTyped, ReadNextFrame
  PROVE  Limited'
<1>1. /\ UNCHANGED <<bytes, wire, buffer>>
      /\ loop' = "frame" /\ from' = Consumed + 1 /\ reading' = "command"
      /\ input' = [NoInput EXCEPT !.status = "reading"]
  BY DEF ReadNextFrame, ReadFrame, peerVars
<1>2. StreamTyped /\ Consumed' = Consumed
  BY <1>1 DEF PipeTyped, Consumed
<1>3. Read' = <<>>
  <2>1. PICK k \in Nat : k = Consumed
    BY <1>2 DEF StreamTyped
  <2>2. SubSeq(bytes, k + 1, k) = <<>>
    <3>1. bytes \in Seq(Alphabet)
      BY <1>2, StreamTypes
    <3>. QED BY <3>1
  <2>3. Read' = SubSeq(bytes, k + 1, k)
    BY <1>1, <1>2, <2>1 DEF Read
  <2>. QED BY <2>2, <2>3
<1>4. Short(<<>>)
  BY DEF Short
<1>5. input'.status = "reading"
  BY <1>1 DEF NoInput
<1>. QED BY <1>1, <1>3, <1>4, <1>5 DEF Limited, HeaderLimited, BodyLimited, FrameReady

\* Every step keeps to the limits.
LEMMA NextLimited ==
  ASSUME PipeInv, Parsed, Limited, [Next]_vars
  PROVE  Limited'
<1>1. PipeTyped /\ Bounds /\ PipeTyped' /\ StreamTyped'
  BY NextPipeInv DEF PipeInv, PipeTyped
<1>2. CASE PeerStep \/ ConnectionLost
  <2>1. /\ Consumed' = Consumed /\ ~ended
        /\ UNCHANGED <<buffer, reading, input, body, chunk, readerVars>>
    BY <1>1, <1>2, PeerKeeps DEF PeerStep, Sends, SendBytes, BeginFrame, Write, EndFrame,
      EndStream, PeerUnchanged, ConnectionLost
  <2>2. UNCHANGED <<session, loop, from>>
    BY <2>1 DEF readerVars
  <2>. QED BY <1>1, <1>2, <2>1, <2>2, QuietLimited
<1>3. CASE InputProgress
  <2>1. /\ UNCHANGED <<bytes, session, loop, consumer, received, from>>
        /\ InputStep(session.started, session.version)
    BY <1>3 DEF InputProgress, peerVars, readerVars
  <2>2. CASE ReceiveChunk
    <3>1. PICK n \in DOMAIN wire :
            /\ buffer' = buffer \o SubSeq(wire, 1, n)
            /\ wire' = SubSeq(wire, n + 1, Len(wire))
      BY <2>2 DEF ReceiveChunk
    <3>2. n \in 1..Len(wire) /\ wire # <<>> /\ StreamTyped
      BY <1>1 DEF PipeTyped, StreamTyped
    <3>3. Consumed' = Consumed
      BY <2>1, <3>1, <3>2, ReceiveKeeps
    <3>4. UNCHANGED <<reading, input, body, chunk>> /\ reading # "none"
      BY <2>2 DEF ReceiveChunk, Continues
    <3>. QED BY <1>1, <2>1, <3>2, <3>3, <3>4, QuietLimited
  <2>3. CASE ReadFixed \/ ReadEnd \/ ReadDynamic
    BY <1>1, <2>1, <2>3, BodyStepLimited
  <2>4. CASE \/ SkipEmptyLine(session.started) \/ ReadCommand
             \/ ReadHeaderLine(session.version) \/ EndHeader
    BY <1>1, <2>1, <2>4, HeaderStepLimited
  <2>5. CASE ReadFails
    BY <1>1, <2>1, <2>5, ReadFailsLimited
  <2>. QED BY <2>1, <2>2, <2>3, <2>4, <2>5 DEF InputStep
<1>4. CASE ReadNextFrame
  BY <1>1, <1>4, ReadNextFrameLimited
<1>5. CASE TakeMessage \/ TakeReceipt \/ TakeError \/ TakeConnected \/ ServeFrame
  BY <1>1, <1>5, GivenLimited
<1>6. CASE FrameFails \/ SkipFrame \/ RefuseFrame \/ StopReading \/ EndFailedBody \/ EndBody
  <2>1. loop' \in {"idle", "closed", "abandoned"}
    BY <1>1, <1>6, StopKeeps DEF EndBody, LoopAfterBody
  <2>2. reading' = "none"
    BY <1>1, <2>1 DEF PipeTyped, Stages
  <2>. QED BY <2>1, <2>2 DEF Limited, HeaderLimited, BodyLimited, FrameReady
<1>7. CASE TakeChunk
  BY <1>1, <1>7, TakeChunkLimited
<1>8. CASE UNCHANGED vars
  <2>1. UNCHANGED <<bytes, wire, ended, buffer, reading, input, chunk, session, loop, from>>
    BY <1>8 DEF vars, inputVars, peerVars, readerVars
  <2>2. Consumed' = Consumed
    BY <2>1 DEF Consumed
  <2>. QED BY <1>1, <2>1, <2>2, QuietLimited
<1>. QED BY <1>2, <1>3, <1>4, <1>5, <1>6, <1>7, <1>8 DEF Next, ReaderStep, Rest

\* A header that is refused has a line that is too long or has no colon, or too many
\* lines, or nothing where its command must stand, or will never be complete; one that
\* is accepted is complete and has none of these.  A body that fails is longer than
\* maxBodyLength, lacks its null byte, or will never be complete; and what its reader is
\* given keeps to the limits (input.ts:31-242, reader.ts:36-153, transport.ts:200).
THEOREM LimitsExactCorrect == Spec => []LimitsExact
<1>1. Init => Limited
  <2>1. Init => reading = "none" /\ loop = "idle"
    BY DEF Init
  <2>. QED BY <2>1 DEF Limited, HeaderLimited, BodyLimited, FrameReady
<1>2. PipeInv /\ Parsed /\ Limited /\ [Next]_vars => (PipeInv /\ Parsed /\ Limited)'
  BY NextPipeInv, NextParsed, NextLimited
<1>3. Init => PipeInv /\ Parsed
  BY InitPipeInv, InitParsed
<1>4. PipeInv /\ Parsed /\ Limited /\ BodyBounded => LimitsExact
  <2>. SUFFICES ASSUME PipeInv, Parsed, Limited, BodyBounded PROVE LimitsExact
    OBVIOUS
  <2>1. PipeTyped /\ HeaderLimited /\ BodyLimited
    BY DEF PipeInv, Limited
  <2>2. loop = "frame" /\ input.status = "failed" =>
          HeaderFaulty(Text) \/ (ended /\ HeaderEnds(Text) = {})
    BY <2>1, RefusedFaulty DEF HeaderLimited
  <2>3. loop = "frame" /\ input.status = "ready" => HeaderEnds(Text) # {} /\ ~HeaderFaulty(Text)
    BY <2>1, AcceptedGood DEF HeaderLimited, FrameReady
  <2>4. loop = "body" /\ chunk.status = "failed" => BodyFaulty(BodyText(Text))
    BY <2>1, BodyRefusedFaulty DEF BodyLimited
  <2>. QED BY <2>2, <2>3, <2>4 DEF LimitsExact
<1>. QED BY <1>1, <1>2, <1>3, <1>4, BodyBoundedCorrect, PTL DEF Spec

-----------------------------------------------------------------------------
(* A frame that is written, on the wire.                                    *)

\* Line feeds alone: the end of line behind a frame, and heart-beats.
LEMMA OnlyLineFeeds ==
  ASSUME NEW A, NEW gap \in Seq(A), \A i \in 1..Len(gap) : gap[i] = LF
  PROVE  Lined(gap) /\ CommandEnds(gap) = {}
<1>1. PICK n \in Nat : n = Len(gap)
  OBVIOUS
<1>2. Lined(gap)
  <2>1. CASE gap = <<>>
    BY <2>1 DEF Lined
  <2>2. CASE gap # <<>>
    <3>1. n \in 1..n
      BY <1>1, <2>2
    <3>. QED BY <1>1, <3>1 DEF Lined
  <2>. QED BY <2>1, <2>2
<1>3. Ends(gap) = 1..n
  BY <1>1 DEF Ends
<1>4. ASSUME NEW end \in 1..n PROVE LineTo(gap, end) = <<>>
  <2>. DEFINE before == {j \in Ends(gap) : j < end}
              first == IF before = {} THEN 1 ELSE Max(before) + 1
  <2>1. first = end
    <3>1. before = 1..(end - 1)
      BY <1>3
    <3>2. CASE end = 1
      <4>1. before = {}
        BY <3>1, <3>2
      <4>. QED BY <3>2, <4>1
    <3>3. CASE end # 1
      <4>1. before \in SUBSET Nat /\ end - 1 \in before /\ \A i \in before : i <= end - 1
        BY <3>1, <3>3
      <4>2. Max(before) = end - 1 /\ before # {}
        BY <4>1, MaxIs
      <4>. QED BY <4>2
    <3>. QED BY <3>2, <3>3
  <2>2. SubSeq(gap, end, end - 1) = <<>>
    <3>1. end \in Nat /\ end - 1 \in Nat /\ end >= 1 /\ end - 1 <= Len(gap)
          /\ end <= (end - 1) + 1 /\ ((end - 1) - end) + 1 = 0
      BY <1>1
    <3>2. SubSeq(gap, end, end - 1) \in Seq(A) /\ Len(SubSeq(gap, end, end - 1)) = 0
      BY <3>1, PartOf
    <3>. QED BY <3>2
  <2>3. ~EndsInCR(<<>>)
    BY DEF EndsInCR
  <2>. QED BY <2>1, <2>2, <2>3 DEF LineTo, first
<1>5. CommandEnds(gap) = {}
  BY <1>3, <1>4 DEF CommandEnds
<1>. QED BY <1>2, <1>5

\* Joining is associative.
Regroups(a, b, c) == (a \o b) \o c = a \o (b \o c)

\* Joining regroups whatever sequences it joins.
LEMMA Regrouped ==
  ASSUME NEW A, NEW a \in Seq(A), NEW b \in Seq(A), NEW c \in Seq(A)
  PROVE  Regroups(a, b, c)
BY JoinOfThree DEF Regroups

\* A line and its end.
LEMMA LineIsOne ==
  ASSUME NEW A, LF \in A, NEW line \in Seq(A \ {LF}), line # <<>> => line[Len(line)] # CR
  PROVE  LET piece == line \o <<LF>>
         IN /\ piece \in Seq(A) /\ OneLine(piece)
            /\ Stripped(SubSeq(piece, 1, Len(piece) - 1)) = line
<1>1. line \in Seq(A) /\ <<LF>> \in Seq(A) /\ \A i \in 1..Len(line) : line[i] # LF
  OBVIOUS
<1>2. PICK n \in Nat, piece \in Seq(A) : n = Len(line) /\ piece = line \o <<LF>>
  <2>1. line \o <<LF>> \in Seq(A) /\ Len(line) \in Nat
    BY <1>1, JoinOfTwo
  <2>. QED BY <2>1
<1>3. /\ Len(piece) = n + 1 /\ piece[n + 1] = LF
      /\ \A i \in 1..n : piece[i] = line[i]
  BY <1>1, <1>2
<1>4. OneLine(piece)
  <2>1. \A i \in 1..(n + 1) : i = n + 1 \/ (i \in 1..n /\ i # n + 1)
    OBVIOUS
  <2>2. piece # <<>>
    BY <1>3
  <2>. QED BY <1>1, <1>2, <1>3, <2>1, <2>2 DEF OneLine
<1>5. SubSeq(piece, 1, n) = line
  <2>1. 1 \in Nat /\ 1 >= 1 /\ n <= Len(piece) /\ 1 <= n + 1 /\ (n - 1) + 1 = n
    BY <1>3
  <2>2. /\ SubSeq(piece, 1, n) \in Seq(A) /\ Len(SubSeq(piece, 1, n)) = n
        /\ \A i \in 1..n : SubSeq(piece, 1, n)[i] = piece[(1 + i) - 1]
    BY <2>1, PartOf
  <2>3. \A i \in 1..n : SubSeq(piece, 1, n)[i] = line[i]
    <3>1. \A i \in 1..n : (1 + i) - 1 = i
      OBVIOUS
    <3>. QED BY <1>3, <2>2, <3>1
  <2>. QED BY <1>1, <1>2, <2>2, <2>3, SeqEqual, Zenon
<1>6. ~EndsInCR(line)
  BY DEF EndsInCR, Last
<1>7. Len(piece) - 1 = n
  BY <1>3
<1>. QED BY <1>2, <1>4, <1>5, <1>6, <1>7 DEF Stripped

\* A header line that the protocol can carry is written as one line.
LEMMA CarriedLine ==
  ASSUME NEW version \in Versions, NEW header \in Seq(Alphabet) \X Seq(Alphabet),
         CarriesLine(version, header)
  PROVE  \E line \in Seq(Alphabet \ {LF}) :
           /\ EncodedLine(header, version) = line \o <<LF>>
           /\ line # <<>> /\ line[Len(line)] # CR
           /\ HeaderLine(line, version) = header
<1>1. PICK name \in Seq(Alphabet), value \in Seq(Alphabet) : header = <<name, value>>
  OBVIOUS
<1>2. CarriesLine(version, <<name, value>>)
  BY <1>1
<1>3. Symbols \subseteq Alphabet
  BY AlphabetHas
<1>4. PICK line \in Seq(Alphabet \ {LF}) :
        /\ EncodedLine(<<name, value>>, version) = line \o <<LF>>
        /\ Len(line) >= 1 /\ line[Len(line)] # CR
        /\ HeaderLine(line, version) = <<name, value>>
        /\ MaxLineLength \in Nat /\ Len(line) + 1 <= MaxLineLength
  BY <1>2, <1>3, LineWritten, Zenon
<1>5. line # <<>>
  BY <1>4
<1>. QED BY <1>1, <1>4, <1>5

\* One line more of a header.
LEMMA OneLineMore ==
  ASSUME NEW X, NEW lines \in Seq(X), NEW k \in Nat, k + 1 <= Len(lines)
  PROVE  /\ SubSeq(lines, 1, k) \in Seq(X) /\ lines[k + 1] \in X
         /\ SubSeq(lines, 1, k + 1) = Append(SubSeq(lines, 1, k), lines[k + 1])
<1>1. PICK n \in Nat : n = Len(lines) /\ k + 1 <= n /\ k <= n
  OBVIOUS
<1>2. /\ SubSeq(lines, 1, k) \in Seq(X) /\ Len(SubSeq(lines, 1, k)) = k
      /\ \A i \in 1..k : SubSeq(lines, 1, k)[i] = lines[i]
  <2>1. /\ SubSeq(lines, 1, k) \in Seq(X) /\ Len(SubSeq(lines, 1, k)) = (k - 1) + 1
        /\ \A i \in 1..((k - 1) + 1) : SubSeq(lines, 1, k)[i] = lines[(1 + i) - 1]
    BY <1>1, PartOf
  <2>2. (k - 1) + 1 = k /\ \A i \in 1..k : (1 + i) - 1 = i
    OBVIOUS
  <2>. QED BY <2>1, <2>2
<1>3. /\ SubSeq(lines, 1, k + 1) \in Seq(X) /\ Len(SubSeq(lines, 1, k + 1)) = k + 1
      /\ \A i \in 1..(k + 1) : SubSeq(lines, 1, k + 1)[i] = lines[i]
  <2>1. /\ SubSeq(lines, 1, k + 1) \in Seq(X)
        /\ Len(SubSeq(lines, 1, k + 1)) = ((k + 1) - 1) + 1
        /\ \A i \in 1..(((k + 1) - 1) + 1) : SubSeq(lines, 1, k + 1)[i] = lines[(1 + i) - 1]
    BY <1>1, PartOf
  <2>2. ((k + 1) - 1) + 1 = k + 1 /\ \A i \in 1..(k + 1) : (1 + i) - 1 = i
    OBVIOUS
  <2>. QED BY <2>1, <2>2
<1>4. lines[k + 1] \in X
  BY <1>1
<1>5. PICK a \in Seq(X), b \in Seq(X), e \in X :
        a = SubSeq(lines, 1, k) /\ b = SubSeq(lines, 1, k + 1) /\ e = lines[k + 1]
  BY <1>2, <1>3, <1>4
<1>6. /\ Append(a, e) \in Seq(X) /\ Len(Append(a, e)) = k + 1 /\ Append(a, e)[k + 1] = e
      /\ \A i \in 1..k : Append(a, e)[i] = a[i]
  BY <1>2, <1>5
<1>7. ASSUME NEW i \in 1..(k + 1) PROVE b[i] = Append(a, e)[i]
  <2>1. CASE i = k + 1
    BY <1>3, <1>5, <1>6, <2>1
  <2>2. CASE i # k + 1
    <3>1. i \in 1..k
      BY <2>2
    <3>. QED BY <1>2, <1>3, <1>5, <1>6, <3>1
  <2>. QED BY <2>1, <2>2
<1>8. b = Append(a, e)
  BY <1>3, <1>5, <1>6, <1>7, SeqEqual, Zenon
<1>. QED BY <1>2, <1>4, <1>5, <1>8

\* What the protocol can carry: a command of one line, header lines as CarriesLine has
\* them, a table made by the constructor, and a body as the header wants it.
CanCarry(version, frame) ==
  LET headers == frame.headers
  IN /\ frame.command # <<>> /\ LF \notin ToSet(frame.command) /\ ~EndsInCR(frame.command)
     /\ \A i \in DOMAIN headers.lines : CarriesLine(version, headers.lines[i])
     /\ headers = NewHeaders(headers.lines)
     /\ BodyComplete(headers, FlattenSeq(frame.body))

\* Its bytes, up to the null byte.
OnWire(frame, version) ==
  (HeaderBytes(frame, version) \o FlattenSeq(frame.body)) \o <<NUL>>

\* The header that is written is read as a whole header: whatever heart-beats stand
\* before it, these are its command and its lines.
LEMMA HeaderWritten ==
  ASSUME NEW frame, TypedFrame(frame), NEW version \in Versions, CanCarry(version, frame),
         NEW gap \in Seq(Alphabet), \A i \in 1..Len(gap) : gap[i] = LF
  PROVE  HeaderWhole(gap \o HeaderBytes(frame, version), frame.command, frame.headers.lines,
                     version)
<1>. DEFINE X == Seq(Alphabet) \X Seq(Alphabet)
            each == [i \in DOMAIN frame.headers.lines |->
                       EncodedLine(frame.headers.lines[i], version)]
<1>1. PICK command \in Seq(Alphabet), lines \in Seq(X), n \in Nat :
        command = frame.command /\ lines = frame.headers.lines /\ n = Len(lines)
  BY DEF TypedFrame, HeaderTables, Lines
<1>2. LF \in Alphabet /\ <<LF>> \in Seq(Alphabet) /\ Symbols \subseteq Alphabet
  BY AlphabetHas DEF Symbols
<1>3. /\ command # <<>> /\ command \in Seq(Alphabet \ {LF}) /\ command[Len(command)] # CR
      /\ \A i \in 1..n : CarriesLine(version, lines[i])
  <2>1. /\ command # <<>> /\ LF \notin ToSet(command) /\ ~EndsInCR(command)
        /\ \A i \in 1..n : CarriesLine(version, lines[i])
    BY <1>1 DEF CanCarry
  <2>2. \A i \in 1..Len(command) : command[i] \in Alphabet \ {LF}
    BY <2>1 DEF ToSet
  <2>. QED BY <2>1, <2>2 DEF EndsInCR, Last
<1>4. ASSUME NEW i \in 1..n
      PROVE  \E line \in Seq(Alphabet \ {LF}) :
               /\ EncodedLine(lines[i], version) = line \o <<LF>>
               /\ line # <<>> /\ line[Len(line)] # CR
               /\ HeaderLine(line, version) = lines[i]
  <2>1. lines[i] \in X /\ CarriesLine(version, lines[i])
    BY <1>1, <1>3
  <2>. QED BY <2>1, CarriedLine
<1>5. each \in Seq(Seq(Alphabet)) /\ Len(each) = n
      /\ \A i \in 1..n : each[i] = EncodedLine(lines[i], version)
  <2>1. \A i \in 1..n : EncodedLine(lines[i], version) \in Seq(Alphabet)
    <3>1. ASSUME NEW i \in 1..n PROVE EncodedLine(lines[i], version) \in Seq(Alphabet)
      <4>1. PICK line \in Seq(Alphabet \ {LF}) : EncodedLine(lines[i], version) = line \o <<LF>>
        BY <1>4
      <4>. QED BY <1>2, <4>1
    <3>. QED BY <3>1
  <2>2. DOMAIN lines = 1..n
    BY <1>1
  <2>3. each \in [1..n -> Seq(Alphabet)] /\ \A i \in 1..n : each[i] = EncodedLine(lines[i], version)
    BY <1>1, <2>1, <2>2
  <2>. HIDE DEF each
  <2>. QED BY <2>3
<1>6. HeaderBytes(frame, version) = ((command \o <<LF>>) \o FlattenSeq(each)) \o <<LF>>
  BY <1>1 DEF HeaderBytes
<1>. HIDE DEF each
<1>7. PICK f : Joins(f, each, Alphabet, Len(each))
  BY <1>5, JoinsExist
<1>8. /\ FlattenSeq(each) = f[n] /\ f[0] = <<>>
      /\ \A k \in 0..n : f[k] \in Seq(Alphabet)
  BY <1>5, <1>7, FlattenIsJoin DEF Joins
<1>9. /\ command \o <<LF>> \in Seq(Alphabet) /\ OneLine(command \o <<LF>>)
      /\ Stripped(SubSeq(command \o <<LF>>, 1, Len(command \o <<LF>>) - 1)) = command
  BY <1>2, <1>3, LineIsOne
<1>10. PICK base \in Seq(Alphabet) :
         base = gap \o (command \o <<LF>>) /\ HeaderOpen(base, command, <<>>, version)
  <2>1. Lined(gap) /\ CommandEnds(gap) = {}
    BY OnlyLineFeeds
  <2>2. HeaderOpen(gap \o (command \o <<LF>>), command, <<>>, version)
    BY <1>3, <1>9, <2>1, CommandRead
  <2>3. gap \o (command \o <<LF>>) \in Seq(Alphabet)
    BY <1>9, JoinOfTwo
  <2>. QED BY <2>2, <2>3
<1>. DEFINE P == {k \in Nat : k <= n =>
                    HeaderOpen(base \o f[k], command, SubSeq(lines, 1, k), version)}
<1>11. 0 \in P
  <2>1. base \o f[0] = base /\ SubSeq(lines, 1, 0) = <<>>
    BY <1>1, <1>8, ConcatEmptySeq
  <2>. QED BY <1>10, <2>1
<1>12. ASSUME NEW k \in Nat, k \in P PROVE k + 1 \in P
  <2>1. SUFFICES ASSUME k + 1 <= n
                 PROVE  HeaderOpen(base \o f[k + 1], command, SubSeq(lines, 1, k + 1), version)
    OBVIOUS
  <2>2. HeaderOpen(base \o f[k], command, SubSeq(lines, 1, k), version)
    BY <1>12, <2>1
  <2>3. /\ f[k] \in Seq(Alphabet) /\ each[k + 1] \in Seq(Alphabet)
        /\ f[k + 1] = f[k] \o each[k + 1]
    <3>1. k + 1 <= Len(each)
      BY <1>5, <2>1
    <3>. QED BY <1>5, <1>7, <3>1, JoinsStep, Zenon
  <2>4. k + 1 \in 1..n
    BY <2>1
  <2>5. PICK line \in Seq(Alphabet \ {LF}) :
          /\ each[k + 1] = line \o <<LF>>
          /\ line # <<>> /\ line[Len(line)] # CR
          /\ HeaderLine(line, version) = lines[k + 1]
    BY <1>4, <1>5, <2>4
  <2>6. /\ each[k + 1] \in Seq(Alphabet) /\ OneLine(each[k + 1])
        /\ Stripped(SubSeq(each[k + 1], 1, Len(each[k + 1]) - 1)) = line
    BY <1>2, <2>5, LineIsOne
  <2>7. /\ SubSeq(lines, 1, k) \in Seq(X) /\ lines[k + 1] \in X
        /\ SubSeq(lines, 1, k + 1) = Append(SubSeq(lines, 1, k), lines[k + 1])
    <3>1. lines \in Seq(X) /\ k + 1 <= Len(lines)
      BY <1>1, <2>1
    <3>. HIDE DEF X
    <3>. QED BY <3>1, OneLineMore, Zenon
  <2>8. PICK text \in Seq(Alphabet) : text = base \o f[k]
    BY <2>3, JoinOfTwo
  <2>9. HeaderOpen(text \o each[k + 1], command, Append(SubSeq(lines, 1, k), lines[k + 1]), version)
    <3>1. HeaderOpen(text, command, SubSeq(lines, 1, k), version)
      BY <2>2, <2>8, Zenon
    <3>2. PICK piece \in Seq(Alphabet) : piece = each[k + 1]
      BY <2>3
    <3>3. OneLine(piece) /\ line = Stripped(SubSeq(piece, 1, Len(piece) - 1))
      BY <2>6, <3>2, Zenon
    <3>4. HeaderLine(line, version) \in X
      BY <2>5, <2>7, Zenon
    <3>. HIDE DEF X
    <3>5. HeaderOpen(text \o piece, command, Append(SubSeq(lines, 1, k), HeaderLine(line, version)), version)
      BY <2>5, <2>7, <2>8, <3>1, <3>3, <3>4, HeaderLineRead
    <3>. QED BY <2>5, <3>2, <3>5, Zenon
  <2>10. base \o f[k + 1] = text \o each[k + 1]
    <3>1. PICK u \in Seq(Alphabet), v \in Seq(Alphabet) : u = f[k] /\ v = each[k + 1]
      BY <2>3
    <3>2. Regroups(base, u, v)
      BY <1>10, <3>1, Regrouped, Zenon
    <3>. QED BY <2>3, <2>8, <3>1, <3>2, Zenon DEF Regroups
  <2>. QED BY <2>7, <2>9, <2>10
<1>. HIDE DEF P
<1>13. n \in P
  BY <1>11, <1>12, Induct
<1>14. HeaderOpen(base \o f[n], command, lines, version)
  <2>1. SubSeq(lines, 1, n) = lines
    BY <1>1
  <2>2. HeaderOpen(base \o f[n], command, SubSeq(lines, 1, n), version)
    BY <1>1, <1>13 DEF P
  <2>. QED BY <2>1, <2>2
<1>15. PICK text \in Seq(Alphabet) : text = base \o f[n]
  <2>1. f[n] \in Seq(Alphabet)
    BY <1>8
  <2>. QED BY <2>1, JoinOfTwo
<1>16. HeaderWhole(text \o <<LF>>, command, lines, version)
  <2>1. <<>> \in Seq(Alphabet \ {LF}) /\ <<>> \o <<LF>> = <<LF>>
    OBVIOUS
  <2>2. OneLine(<<LF>>) /\ Stripped(SubSeq(<<LF>>, 1, Len(<<LF>>) - 1)) = <<>>
    BY <1>2, <2>1, LineIsOne
  <2>. QED BY <1>1, <1>2, <1>14, <1>15, <2>2, HeaderLineRead
<1>17. gap \o HeaderBytes(frame, version) = text \o <<LF>>
  <2>1. PICK start \in Seq(Alphabet), all \in Seq(Alphabet) :
          start = command \o <<LF>> /\ all = f[n]
    <3>1. f[n] \in Seq(Alphabet)
      BY <1>8
    <3>. QED BY <1>9, <3>1, Zenon
  <2>2. start \o all \in Seq(Alphabet)
    BY <2>1, JoinOfTwo
  <2>3. Regroups(gap, start \o all, <<LF>>)
    BY <1>2, <2>2, Regrouped, Zenon
  <2>4. Regroups(gap, start, all)
    BY <2>1, Regrouped, Zenon
  <2>. QED BY <1>6, <1>8, <1>10, <1>15, <2>1, <2>3, <2>4, Zenon DEF Regroups
<1>. QED BY <1>1, <1>16, <1>17

\* Two joined.
LEMMA Joined ==
  \A a, b \in Seq(Alphabet) : a \o b \in Seq(Alphabet)
OBVIOUS

\* Four sequences joined from either end.
LEMMA JoinOfFour ==
  ASSUME NEW a \in Seq(Alphabet), NEW b \in Seq(Alphabet), NEW c \in Seq(Alphabet),
         NEW d \in Seq(Alphabet)
  PROVE  a \o ((b \o c) \o d) = (a \o b) \o (c \o d)
<1>1. PICK last \in Seq(Alphabet) : last = c \o d
  BY Joined, Zenon
<1>2. Regroups(b, c, d)
  BY Regrouped, Zenon
<1>3. Regroups(a, b, last)
  BY <1>1, Regrouped, Zenon
<1>. QED BY <1>1, <1>2, <1>3, Zenon DEF Regroups

\* The same bytes, cut in two ways.
SameText(text, tail, head, more) == text \o tail = head \o more

\* A text that begins with a head goes on with a piece of what follows it.
GoesOn(text, head, more, piece) ==
  /\ text = head \o piece /\ Len(piece) <= Len(more)
  /\ \A i \in 1..Len(piece) : piece[i] = more[i]

\* The parts of a frame on the wire, before and behind which other bytes may stand.
PartsStand(text, tail, gap, header, content, null, rest) ==
  text \o tail = (gap \o ((header \o content) \o null)) \o rest

\* They, cut at the end of the header.
CutThere(text, tail, gap, header, content, null, rest, head, last, more) ==
  /\ head = gap \o header /\ last = content \o null /\ more = last \o rest
  /\ gap \o ((header \o content) \o null) = head \o last
  /\ SameText(text, tail, head, more)

\* A command and header lines that are read where a text goes on behind its header.
ReadThere(text, head, more, piece, command, lines, version) ==
  /\ GoesOn(text, head, more, piece)
  /\ command = LineTo(text, Min(CommandEnds(text)))
  /\ DecodedLines(text, version) = lines /\ BodyText(text) = piece

\* Two ways to cut the same bytes: the longer first part begins with the shorter one.
LEMMA LongerFirst ==
  ASSUME NEW A, NEW text \in Seq(A), NEW tail \in Seq(A), NEW head \in Seq(A),
         NEW more \in Seq(A), SameText(text, tail, head, more), Len(head) <= Len(text)
  PROVE  \E piece \in Seq(A) : GoesOn(text, head, more, piece)
<1>1. PICK h \in Nat, l \in Nat, m \in Nat, u \in Nat :
        h = Len(head) /\ l = Len(text) /\ m = Len(more) /\ u = Len(tail)
  OBVIOUS
<1>2. PICK all \in Seq(A) : all = text \o tail /\ all = head \o more
  <2>1. text \o tail \in Seq(A)
    BY JoinOfTwo
  <2>. QED BY <2>1 DEF SameText
<1>3. Len(all) = l + u /\ \A i \in 1..l : all[i] = text[i]
  <2>1. /\ Len(text \o tail) = Len(text) + Len(tail)
        /\ \A i \in 1..Len(text) : (text \o tail)[i] = text[i]
    BY JoinOfTwo
  <2>. QED BY <1>1, <1>2, <2>1, Zenon
<1>4. /\ Len(all) = h + m /\ \A i \in 1..h : all[i] = head[i]
      /\ \A i \in 1..m : all[h + i] = more[i]
  BY <1>1, <1>2, JoinOfTwo
<1>5. h <= l /\ l <= h + m
  BY <1>1, <1>3, <1>4
<1>6. PICK first \in Seq(A), piece \in Seq(A) :
        first = SubSeq(text, 1, h) /\ piece = SubSeq(text, h + 1, l)
        /\ Len(first) = h /\ Len(piece) = l - h /\ text = first \o piece
  <2>1. h \in 0..Len(text)
    BY <1>1, <1>5
  <2>2. /\ SubSeq(text, 1, h) \in Seq(A) /\ SubSeq(text, h + 1, Len(text)) \in Seq(A)
        /\ Len(SubSeq(text, 1, h)) = h /\ Len(SubSeq(text, h + 1, Len(text))) = Len(text) - h
        /\ text = SubSeq(text, 1, h) \o SubSeq(text, h + 1, Len(text))
    BY <2>1, CutInTwo, Zenon
  <2>. QED BY <1>1, <2>2
<1>7. PICK p \in Nat : p = Len(piece) /\ l = h + p /\ p <= m
  <2>1. l - h \in Nat /\ l = h + (l - h) /\ l - h <= m
    BY <1>5
  <2>. QED BY <1>6, <2>1
<1>8. /\ \A i \in 1..h : text[i] = first[i]
      /\ \A i \in 1..p : text[h + i] = piece[i]
  <2>1. /\ \A i \in 1..Len(first) : (first \o piece)[i] = first[i]
        /\ \A i \in 1..Len(piece) : (first \o piece)[Len(first) + i] = piece[i]
    BY JoinOfTwo
  <2>. QED BY <1>6, <1>7, <2>1
<1>9. first = head
  <2>1. \A i \in 1..h : i \in 1..l
    BY <1>5
  <2>2. \A i \in 1..h : first[i] = head[i]
    BY <1>3, <1>4, <1>8, <2>1
  <2>. QED BY <1>1, <1>6, <2>2, SeqEqual
<1>10. \A i \in 1..p : piece[i] = more[i]
  <2>1. \A i \in 1..p : i \in 1..m /\ h + i \in 1..l
    BY <1>7
  <2>. QED BY <1>3, <1>4, <1>8, <2>1
<1>. QED BY <1>1, <1>6, <1>7, <1>9, <1>10 DEF GoesOn

\* A symbol that a sequence does not have.
LEMMA HasNot ==
  ASSUME NEW A, NEW s \in Seq(A), NEW symbol, symbol \notin ToSet(s)
  PROVE  \A i \in 1..Len(s) : s[i] # symbol
BY DEF ToSet

\* Two contents that are complete, of which each ends where a null byte stands, are the
\* same.
LEMMA ContentUnique ==
  ASSUME NEW headers, NEW a \in Seq(Alphabet), NEW b \in Seq(Alphabet),
         NEW rest \in Seq(Alphabet), NEW piece \in Seq(Alphabet), NEW more \in Seq(Alphabet),
         piece = a \o <<NUL>>, more = (b \o <<NUL>>) \o rest,
         Len(piece) <= Len(more), \A i \in 1..Len(piece) : piece[i] = more[i],
         BodyComplete(headers, a), BodyComplete(headers, b)
  PROVE  a = b
<1>1. PICK m \in Nat, n \in Nat, r \in Nat : m = Len(a) /\ n = Len(b) /\ r = Len(rest)
  OBVIOUS
<1>2. <<NUL>> \in Seq(Alphabet) /\ Len(<<NUL>>) = 1 /\ <<NUL>>[1] = NUL
  BY AlphabetHas
<1>3. PICK all \in Seq(Alphabet) : all = b \o <<NUL>>
  <2>1. b \o <<NUL>> \in Seq(Alphabet)
    BY <1>2, JoinOfTwo
  <2>. QED BY <2>1
<1>4. /\ Len(all) = n + 1 /\ \A i \in 1..n : all[i] = b[i]
      /\ all[n + 1] = NUL
  <2>1. 1 \in 1..1
    OBVIOUS
  <2>. QED BY <1>1, <1>2, <1>3, <2>1, JoinOfTwo
<1>5. \A i \in 1..(n + 1) : more[i] = all[i]
  <2>1. \A i \in 1..Len(all) : (all \o rest)[i] = all[i]
    BY <1>3, JoinOfTwo
  <2>. QED BY <1>3, <1>4, <2>1, Zenon
<1>6. /\ Len(piece) = m + 1 /\ \A i \in 1..m : piece[i] = a[i]
      /\ piece[m + 1] = NUL
  <2>1. 1 \in 1..1
    OBVIOUS
  <2>. QED BY <1>1, <1>2, <2>1, JoinOfTwo
<1>7. \A i \in 1..(m + 1) : piece[i] = more[i]
  BY <1>6
<1>8. \A i \in 1..m : i <= n => a[i] = b[i]
  <2>1. \A i \in 1..m : i \in 1..(m + 1) /\ (i <= n => i \in 1..n /\ i \in 1..(n + 1))
    OBVIOUS
  <2>. QED BY <1>4, <1>5, <1>6, <1>7, <2>1
<1>9. m = n
  <2>1. CASE IsSet(headers, ContentLength)
    BY <1>1, <2>1 DEF BodyComplete
  <2>2. CASE ~IsSet(headers, ContentLength)
    <3>1. /\ \A i \in 1..m : a[i] # NUL
          /\ \A i \in 1..n : b[i] # NUL
      <4>1. NUL \notin ToSet(a) /\ NUL \notin ToSet(b)
        BY <2>2 DEF BodyComplete
      <4>. QED BY <1>1, <4>1, HasNot
    <3>2. ASSUME m < n PROVE FALSE
      <4>1. m + 1 \in 1..(m + 1) /\ m + 1 \in 1..n /\ m + 1 \in 1..(n + 1)
        BY <3>2
      <4>. QED BY <1>4, <1>5, <1>6, <1>7, <3>1, <4>1
    <3>3. ASSUME n < m PROVE FALSE
      <4>1. n + 1 \in 1..m /\ n + 1 \in 1..(m + 1) /\ n + 1 \in 1..(n + 1)
        BY <3>3
      <4>. QED BY <1>4, <1>5, <1>6, <1>7, <3>1, <4>1
    <3>. QED BY <3>2, <3>3
  <2>. QED BY <2>1, <2>2
<1>10. \A i \in 1..m : a[i] = b[i]
  BY <1>8, <1>9
<1>. QED BY <1>1, <1>9, <1>10, SeqEqual

\* The bytes of a frame, between what is before and what is behind it, cut at the end of
\* its header.
LEMMA CutAtHeader ==
  ASSUME NEW gap \in Seq(Alphabet), NEW header \in Seq(Alphabet), NEW content \in Seq(Alphabet),
         NEW null \in Seq(Alphabet), NEW rest \in Seq(Alphabet),
         NEW text, NEW tail, PartsStand(text, tail, gap, header, content, null, rest)
  PROVE  \E head, last, more \in Seq(Alphabet) :
           CutThere(text, tail, gap, header, content, null, rest, head, last, more)
<1>1. /\ gap \o header \in Seq(Alphabet) /\ content \o null \in Seq(Alphabet)
      /\ (content \o null) \o rest \in Seq(Alphabet)
  OBVIOUS
<1>2. gap \o ((header \o content) \o null) = (gap \o header) \o (content \o null)
  <2>1. \A b, c, d \in Seq(Alphabet) : gap \o ((b \o c) \o d) = (gap \o b) \o (c \o d)
    BY JoinOfFour, Zenon
  <2>2. \A c, d \in Seq(Alphabet) :
          gap \o ((header \o c) \o d) = (gap \o header) \o (c \o d)
    BY <2>1, Zenon
  <2>3. \A d \in Seq(Alphabet) :
          gap \o ((header \o content) \o d) = (gap \o header) \o (content \o d)
    BY <2>2, Zenon
  <2>. QED BY <2>3, Zenon
<1>3. PICK head \in Seq(Alphabet), last \in Seq(Alphabet) :
        head = gap \o header /\ last = content \o null
  BY <1>1, Zenon
<1>4. Regroups(head, last, rest)
  BY <1>3, Regrouped, Zenon
<1>5. PICK more \in Seq(Alphabet) : more = last \o rest
  BY <1>1, <1>3, Zenon
<1>6. SameText(text, tail, head, more)
  BY <1>2, <1>3, <1>4, <1>5, Zenon DEF SameText, PartsStand, Regroups
<1>. QED BY <1>2, <1>3, <1>5, <1>6, Zenon DEF CutThere

\* A text that holds the end of a header holds the whole header it begins with.
LEMMA HeaderFits ==
  ASSUME NEW head \in Seq(Alphabet), NEW more \in Seq(Alphabet), NEW X, NEW lines \in Seq(X),
         NEW command, NEW version, HeaderWhole(head, command, lines, version),
         NEW text \in Seq(Alphabet), NEW tail \in Seq(Alphabet),
         SameText(text, tail, head, more), HeaderEnds(text) # {}
  PROVE  Len(head) <= Len(text)
<1>1. HeaderEnds(head \o more) # {} /\ Min(HeaderEnds(head \o more)) = Len(head)
  BY HeaderParses
<1>2. HeaderEnds(text) = {i \in HeaderEnds(text \o tail) : i <= Len(text)}
  BY LineStays
<1>3. text \o tail \in Seq(Alphabet)
  OBVIOUS
<1>4. HeaderEnds(text \o tail) \in SUBSET Nat
  BY <1>3, EndsType
<1>5. PICK all \in SUBSET Nat, h \in Nat, l \in Nat :
        all = HeaderEnds(text \o tail) /\ h = Len(head) /\ l = Len(text)
  <2>1. Len(head) \in Nat /\ Len(text) \in Nat
    OBVIOUS
  <2>. QED BY <1>4, <2>1, Zenon
<1>6. PICK i \in all : i <= l
  BY <1>2, <1>5
<1>7. all # {} /\ Min(all) = h
  BY <1>1, <1>5 DEF SameText
<1>8. h <= i
  BY <1>5, <1>6, <1>7, MinIsLeast
<1>. QED BY <1>5, <1>6, <1>8

\* Such a text is the header and a piece of what follows it: its command and its lines are
\* the header's, and the piece is what is left for the body.
LEMMA HeaderCut ==
  ASSUME NEW head \in Seq(Alphabet), NEW more \in Seq(Alphabet), NEW X, NEW lines \in Seq(X),
         NEW command, NEW version, HeaderWhole(head, command, lines, version),
         NEW text \in Seq(Alphabet), NEW tail \in Seq(Alphabet),
         SameText(text, tail, head, more), HeaderEnds(text) # {}
  PROVE  \E piece \in Seq(Alphabet) :
           ReadThere(text, head, more, piece, command, lines, version)
<1>1. Len(head) <= Len(text)
  BY HeaderFits
<1>2. PICK piece \in Seq(Alphabet) : GoesOn(text, head, more, piece)
  BY <1>1, LongerFirst, Zenon
<1>3. /\ command = LineTo(head \o piece, Min(CommandEnds(head \o piece)))
      /\ DecodedLines(head \o piece, version) = lines /\ BodyText(head \o piece) = piece
  BY HeaderParses
<1>4. text = head \o piece
  BY <1>2, Zenon DEF GoesOn
<1>. QED BY <1>2, <1>3, <1>4, Zenon DEF ReadThere

\* A sequence of one sequence.
LEMMA FlattenOne ==
  ASSUME NEW S, NEW s \in Seq(S)
  PROVE  FlattenSeq(<<s>>) = s
<1>1. PICK ss \in Seq(Seq(S)) : ss = <<s>>
  <2>1. PICK T : T = Seq(S)
    OBVIOUS
  <2>2. <<s>> \in Seq(T)
    BY <2>1
  <2>. QED BY <2>1, <2>2, Zenon
<1>2. Len(ss) = 1 /\ ss[1] = s
  BY <1>1
<1>3. PICK f : Joins(f, ss, S, Len(ss))
  BY JoinsExist
<1>4. f[0] = <<>> /\ f[1] = f[0] \o ss[1]
  <2>1. f[0] = <<>> /\ \A i \in 0..0 : f[i + 1] = f[i] \o ss[i + 1]
    BY <1>2, <1>3 DEF Joins
  <2>2. 0 \in 0..0 /\ 0 + 1 = 1
    OBVIOUS
  <2>. QED BY <2>1, <2>2
<1>5. <<>> \o s = s
  BY JoinOfThree
<1>6. FlattenSeq(ss) = f[1]
  BY <1>2, <1>3, FlattenIsJoin
<1>. QED BY <1>1, <1>2, <1>4, <1>5, <1>6

\* A sequence before and a sequence behind others.
Between(first, ss, final) == (<<first>> \o ss) \o <<final>>

\* They are joined to its parts joined.
LEMMA FlattenBetween ==
  ASSUME NEW S, NEW first \in Seq(S), NEW ss \in Seq(Seq(S)), NEW final \in Seq(S)
  PROVE  FlattenSeq(Between(first, ss, final)) = (first \o FlattenSeq(ss)) \o final
<1>1. PICK all \in Seq(Seq(S)), n \in Nat :
        all = (<<first>> \o ss) \o <<final>> /\ n = Len(ss)
  <2>1. PICK T : T = Seq(S)
    OBVIOUS
  <2>2. first \in T /\ ss \in Seq(T) /\ final \in T
    BY <2>1
  <2>3. (<<first>> \o ss) \o <<final>> \in Seq(T) /\ Len(ss) \in Nat
    BY <2>2
  <2>. QED BY <2>1, <2>3, Zenon
<1>2. /\ Len(all) = n + 2 /\ all[1] = first /\ all[n + 2] = final
      /\ \A k \in 1..n : all[k + 1] = ss[k]
  BY <1>1
<1>3. PICK f, g : Joins(f, ss, S, Len(ss)) /\ Joins(g, all, S, Len(all))
  BY JoinsExist
<1>4. ASSUME NEW k \in Nat, k + 1 <= n
      PROVE  /\ f[k] \in Seq(S) /\ ss[k + 1] \in Seq(S) /\ f[k + 1] \in Seq(S)
             /\ f[k + 1] = f[k] \o ss[k + 1]
  BY <1>1, <1>3, <1>4, JoinsStep
<1>5. ASSUME NEW k \in Nat, k + 1 <= n + 2
      PROVE  g[k] \in Seq(S) /\ g[k + 1] = g[k] \o all[k + 1]
  <2>1. k + 1 <= Len(all)
    BY <1>2, <1>5
  <2>. QED BY <1>1, <1>3, <2>1, JoinsStep, Zenon
<1>6. f[0] = <<>> /\ g[0] = <<>> /\ f[n] \in Seq(S)
  <2>1. /\ f \in [0..n -> Seq(S)] /\ f[0] = <<>>
        /\ g[0] = <<>>
    BY <1>1, <1>3, Zenon DEF Joins
  <2>2. n \in 0..n
    OBVIOUS
  <2>. QED BY <2>1, <2>2
<1>. DEFINE P == {k \in Nat : k <= n => g[k + 1] = first \o f[k]}
<1>7. 0 \in P
  <2>1. g[0 + 1] = g[0] \o all[0 + 1] /\ 0 + 1 = 1
    <3>1. 0 \in Nat /\ 0 + 1 <= n + 2 /\ 0 + 1 = 1
      OBVIOUS
    <3>. QED BY <1>5, <3>1, Zenon
  <2>2. <<>> \o first = first /\ first \o <<>> = first
    BY JoinOfThree
  <2>. QED BY <1>2, <1>6, <2>1, <2>2
<1>8. ASSUME NEW k \in Nat, k \in P PROVE k + 1 \in P
  <2>1. SUFFICES ASSUME k + 1 <= n PROVE g[(k + 1) + 1] = first \o f[k + 1]
    OBVIOUS
  <2>2. g[k + 1] = first \o f[k]
    BY <1>8, <2>1
  <2>3. k + 1 \in Nat /\ (k + 1) + 1 <= n + 2 /\ k + 1 \in 1..n
    BY <2>1
  <2>4. PICK a \in Seq(S), b \in Seq(S) :
          a = f[k] /\ b = ss[k + 1] /\ f[k + 1] = a \o b
    BY <1>4, <2>1
  <2>5. g[(k + 1) + 1] = g[k + 1] \o b
    BY <1>2, <1>5, <2>3, <2>4
  <2>6. Regroups(first, a, b)
    BY <2>4, Regrouped, Zenon
  <2>. QED BY <2>2, <2>4, <2>5, <2>6, Zenon DEF Regroups
<1>. HIDE DEF P
<1>9. n \in P
  BY <1>7, <1>8, Induct
<1>10. g[n + 1] = first \o f[n]
  BY <1>9 DEF P
<1>11. g[n + 2] = g[n + 1] \o final
  <2>1. n + 1 \in Nat /\ (n + 1) + 1 <= n + 2 /\ (n + 1) + 1 = n + 2
    OBVIOUS
  <2>. QED BY <1>2, <1>5, <2>1
<1>12. FlattenSeq(ss) = f[n] /\ FlattenSeq(all) = g[n + 2]
  BY <1>1, <1>2, <1>3, FlattenIsJoin
<1>. QED BY <1>1, <1>10, <1>11, <1>12, Zenon DEF Between

\* The same of the alphabet.
LEMMA BetweenWrites ==
  ASSUME NEW first \in Seq(Alphabet), NEW ss \in Seq(Seq(Alphabet)), NEW final \in Seq(Alphabet)
  PROVE  FlattenSeq(Between(first, ss, final)) = (first \o FlattenSeq(ss)) \o final
BY FlattenBetween

\* What writeFrame writes of a frame, when it does not fail: its bytes on the wire and a
\* line feed, in however many writes (output.ts:52-128).
THEOREM WrittenOnWire ==
  ASSUME NEW frame, TypedFrame(frame), NEW version \in Versions,
         WriteFrame(frame, version).ok
  PROVE  FlattenSeq(WriteFrame(frame, version).writes) = OnWire(frame, version) \o <<LF>>
<1>1. PICK header \in Seq(Alphabet), content \in Seq(Alphabet) :
        header = HeaderBytes(frame, version) /\ content = FlattenSeq(frame.body)
  <2>1. HeaderBytes(frame, version) \in Seq(Alphabet)
    BY HeaderBytesType
  <2>2. FlattenSeq(frame.body) \in Seq(Alphabet)
    BY FlattenType DEF TypedFrame
  <2>. QED BY <2>1, <2>2
<1>2. /\ <<NUL>> \in Seq(Alphabet) /\ <<LF>> \in Seq(Alphabet) /\ Trailer \in Seq(Alphabet)
      /\ Trailer = <<NUL>> \o <<LF>>
  BY AlphabetHas DEF Trailer
<1>3. (header \o content) \o Trailer = OnWire(frame, version) \o <<LF>>
  <2>1. PICK both \in Seq(Alphabet), null \in Seq(Alphabet), feed \in Seq(Alphabet) :
          both = header \o content /\ null = <<NUL>> /\ feed = <<LF>>
    <3>1. header \o content \in Seq(Alphabet)
      OBVIOUS
    <3>. QED BY <1>2, <3>1, Zenon
  <2>2. Regroups(both, null, feed)
    BY <2>1, Regrouped, Zenon
  <2>. QED BY <1>1, <1>2, <2>1, <2>2, Zenon DEF OnWire, Regroups
<1>4. ~InvalidLength(frame)
  BY DEF WriteFrame
<1>5. CASE FitsBuffer(frame, version)
  <2>1. WriteFrame(frame, version).writes = <<(header \o content) \o Trailer>>
    BY <1>1, <1>4, <1>5 DEF WriteFrame
  <2>2. PICK all \in Seq(Alphabet) : all = (header \o content) \o Trailer
    <3>1. header \o content \in Seq(Alphabet)
      OBVIOUS
    <3>. QED BY <1>2, <3>1, JoinOfTwo
  <2>3. FlattenSeq(<<all>>) = all
    BY FlattenOne
  <2>. QED BY <1>3, <2>1, <2>2, <2>3, Zenon
<1>6. CASE ~FitsBuffer(frame, version)
  <2>1. /\ WriteFrame(frame, version).writes = (<<header>> \o frame.body) \o <<Trailer>>
    BY <1>1, <1>4, <1>6 DEF WriteFrame, TrailerOf
  <2>2. PICK chunks \in Seq(Seq(Alphabet)) : chunks = frame.body
    BY DEF TypedFrame
  <2>3. FlattenSeq(Between(header, chunks, Trailer)) = (header \o FlattenSeq(chunks)) \o Trailer
    <3>1. PICK trailer \in Seq(Alphabet) : trailer = Trailer
      BY <1>2
    <3>2. FlattenSeq(Between(header, chunks, trailer)) = (header \o FlattenSeq(chunks)) \o trailer
      <4>1. header \in Seq(Alphabet) /\ chunks \in Seq(Seq(Alphabet)) /\ trailer \in Seq(Alphabet)
        OBVIOUS
      <4>. QED BY <4>1, BetweenWrites
    <3>. QED BY <3>1, <3>2, Zenon
  <2>. QED BY <1>1, <1>3, <2>1, <2>2, <2>3, Zenon DEF Between
<1>. QED BY <1>5, <1>6

\* A frame that the protocol can carry comes through: when its bytes stand on the wire,
\* behind line feeds at most, and the reader takes a frame there under the same version, it
\* is this one, command, header lines and body, and the reader stops behind its null byte,
\* whatever follows (output.ts:52-207 writes it, input.ts:31-278 reads it).
THEOREM FrameRoundTrip ==
  ASSUME NEW frame, TypedFrame(frame), NEW version \in Versions, CanCarry(version, frame),
         NEW gap \in Seq(Alphabet), \A i \in 1..Len(gap) : gap[i] = LF,
         NEW text \in Seq(Alphabet), NEW tail \in Seq(Alphabet), NEW rest \in Seq(Alphabet),
         text \o tail = (gap \o OnWire(frame, version)) \o rest,
         NEW entry \in Entries, entry.version = version, Parses(text, entry)
  PROVE  /\ entry.command = frame.command /\ entry.lines = frame.headers.lines
         /\ entry.text = FlattenSeq(frame.body)
         /\ text = gap \o OnWire(frame, version)
<1>. DEFINE X == Seq(Alphabet) \X Seq(Alphabet)
<1>1. PICK header \in Seq(Alphabet), content \in Seq(Alphabet), end \in Seq(Alphabet),
           lines \in Seq(X), t \in Seq(Alphabet) :
        /\ header = HeaderBytes(frame, version) /\ content = FlattenSeq(frame.body)
        /\ end = <<NUL>> /\ lines = frame.headers.lines /\ t = entry.text
  <2>1. HeaderBytes(frame, version) \in Seq(Alphabet)
    BY HeaderBytesType
  <2>2. FlattenSeq(frame.body) \in Seq(Alphabet)
    BY FlattenType DEF TypedFrame
  <2>3. <<NUL>> \in Seq(Alphabet) /\ frame.headers.lines \in Seq(X) /\ entry.text \in Seq(Alphabet)
    BY AlphabetHas DEF TypedFrame, HeaderTables, Lines, Entries
  <2>. QED BY <2>1, <2>2, <2>3
<1>. HIDE DEF X
<1>2. PICK head \in Seq(Alphabet), last \in Seq(Alphabet), more \in Seq(Alphabet) :
        /\ head = gap \o header /\ last = content \o end /\ more = last \o rest
        /\ gap \o OnWire(frame, version) = head \o last
        /\ SameText(text, tail, head, more)
  <2>1. OnWire(frame, version) = (header \o content) \o end
    BY <1>1 DEF OnWire
  <2>2. PartsStand(text, tail, gap, header, content, end, rest)
    BY <2>1, Zenon DEF PartsStand
  <2>3. PICK head \in Seq(Alphabet), last \in Seq(Alphabet), more \in Seq(Alphabet) :
          CutThere(text, tail, gap, header, content, end, rest, head, last, more)
    BY <1>1, <2>2, CutAtHeader
  <2>. QED BY <2>1, <2>3, Zenon DEF CutThere
<1>3. HeaderWhole(head, frame.command, lines, version)
  BY <1>1, <1>2, HeaderWritten
<1>4. HeaderEnds(text) # {}
  BY DEF Parses
<1>5. PICK piece \in Seq(Alphabet) :
        ReadThere(text, head, more, piece, frame.command, lines, version)
  BY <1>1, <1>2, <1>3, <1>4, HeaderCut
<1>6. frame.headers = NewHeaders(lines) /\ BodyComplete(frame.headers, content)
  BY <1>1 DEF CanCarry
<1>7. /\ entry.command = frame.command /\ entry.lines = lines /\ piece = t \o end
       /\ BodyComplete(frame.headers, t)
  BY <1>1, <1>5, <1>6 DEF Parses, ReadThere
<1>8. t = content
  <2>1. piece = t \o <<NUL>> /\ more = (content \o <<NUL>>) \o rest
    BY <1>1, <1>2, <1>7
  <2>2. Len(piece) <= Len(more) /\ \A i \in 1..Len(piece) : piece[i] = more[i]
    BY <1>5, Zenon DEF GoesOn, ReadThere
  <2>3. BodyComplete(frame.headers, t) /\ BodyComplete(frame.headers, content)
    BY <1>6, <1>7
  <2>. QED BY <1>1, <1>2, <1>5, <2>1, <2>2, <2>3, ContentUnique, Zenon
<1>9. text = gap \o OnWire(frame, version)
  <2>1. piece = last
    BY <1>2, <1>7, <1>8
  <2>. QED BY <1>2, <1>5, <2>1 DEF GoesOn, ReadThere
<1>. QED BY <1>1, <1>7, <1>8, <1>9
=============================================================================
