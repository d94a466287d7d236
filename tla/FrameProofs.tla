----------------------------- MODULE FrameProofs ----------------------------
(***************************************************************************)
(* Theorems about the operators that frames are read and written with: the *)
(* reader's operations, the encodings of header lines, and header tables.  *)
(***************************************************************************)
EXTENDS FrameInput, FrameOutput, WellFoundedInduction, SequenceTheorems, TLAPS

-----------------------------------------------------------------------------
(* The reader.                                                              *)

\* A nonempty set of numbers has a least one.  The inductions over numbers below
\* are taken from it.
LEMMA LeastNumber ==
  ASSUME NEW T \in SUBSET Nat, T # {}
  PROVE  \E n \in T : \A m \in T : n <= m
<1>1. PICK n \in T : \A m \in T : ~ (<<m, n>> \in OpToRel(<, Nat))
  BY WFMin, NatLessThanWellFounded
<1>2. ASSUME NEW m \in T, m < n PROVE FALSE
  <2>1. <<m, n>> \in {pair \in Nat \X Nat : pair[1] < pair[2]}
    BY <1>2
  <2>2. <<m, n>> \in OpToRel(<, Nat)
    BY <2>1, Zenon DEF OpToRel
  <2>. QED BY <2>2, <1>1
<1>. QED BY <1>2

\* Min is that number.
LEMMA MinIsLeast ==
  ASSUME NEW T \in SUBSET Nat, T # {}
  PROVE  Min(T) \in T /\ \A m \in T : Min(T) <= m
BY LeastNumber DEF Min

\* Min is known by being the least.
LEMMA MinIs ==
  ASSUME NEW T \in SUBSET Nat, NEW n \in T, \A m \in T : n <= m
  PROVE  Min(T) = n
<1>1. PICK m \in T : m = Min(T) /\ m <= n
  BY MinIsLeast
<1>. QED BY <1>1

\* A set with 0 and with the successors of its numbers has all numbers.
LEMMA Induct ==
  ASSUME NEW P, 0 \in P, \A n \in Nat : n \in P => n + 1 \in P
  PROVE  Nat \subseteq P
<1>1. SUFFICES ASSUME Nat \ P # {} PROVE FALSE
  OBVIOUS
<1>2. PICK n \in Nat \ P : \A m \in Nat \ P : n <= m
  BY <1>1, LeastNumber
<1>3. n - 1 \in Nat /\ n - 1 \notin P
  BY <1>2
<1>. QED BY <1>2, <1>3

\* The positions at which a byte is found are numbers.
LEMMA FoundType ==
  ASSUME NEW Byte, NEW s \in Seq(Byte), NEW byte, NEW limit \in Nat
  PROVE  Found(byte, s, limit) \in SUBSET Nat
BY DEF Found, Smaller

\* A byte that is found is found where it was when more bytes have come.
LEMMA FoundEarly ==
  ASSUME NEW Byte, NEW early \in Seq(Byte), NEW late \in Seq(Byte), NEW byte,
         NEW limit \in Nat, Found(byte, early, limit) # {}
  PROVE  /\ Found(byte, early \o late, limit) # {}
         /\ Min(Found(byte, early \o late, limit)) = Min(Found(byte, early, limit))
         /\ Min(Found(byte, early, limit)) \in 1..Len(early)
         /\ Min(Found(byte, early, limit)) <= limit
<1>. DEFINE all == early \o late
            end == Min(Found(byte, early, limit))
<1>1. /\ all \in Seq(Byte) /\ Len(all) = Len(early) + Len(late)
      /\ \A i \in 1..Len(early) : all[i] = early[i]
  OBVIOUS
<1>2. end \in Found(byte, early, limit) /\ \A i \in Found(byte, early, limit) : end <= i
  BY FoundType, MinIsLeast
<1>3. end \in 1..Len(early) /\ end <= limit
  BY <1>2 DEF Found, Smaller
<1>4. end \in Found(byte, all, limit)
  BY <1>1, <1>2, <1>3 DEF Found, Smaller
<1>5. ASSUME NEW i \in Found(byte, all, limit) PROVE end <= i
  <2>1. CASE i <= Len(early)
    <3>1. i \in Found(byte, early, limit)
      BY <1>1, <2>1 DEF Found, Smaller
    <3>. QED BY <3>1, <1>2
  <2>2. CASE ~(i <= Len(early))
    BY <1>1, <1>3, <2>2 DEF Found, Smaller
  <2>. QED BY <2>1, <2>2
<1>6. Min(Found(byte, all, limit)) = end
  BY <1>1, <1>4, <1>5, FoundType, MinIs
<1>. QED BY <1>3, <1>4, <1>6

\* A byte that is not within the limit stays out of it when more bytes come.
LEMMA FoundNone ==
  ASSUME NEW Byte, NEW early \in Seq(Byte), NEW late \in Seq(Byte), NEW byte,
         NEW limit \in Nat, Found(byte, early, limit) = {}, Len(early) >= limit
  PROVE  Found(byte, early \o late, limit) = {}
<1>1. /\ Len(early \o late) = Len(early) + Len(late)
      /\ \A i \in 1..Len(early) : (early \o late)[i] = early[i]
  OBVIOUS
<1>2. Found(byte, early \o late, limit) \subseteq Found(byte, early, limit)
  BY <1>1 DEF Found, Smaller
<1>. QED BY <1>2

\* What the reader finds does not depend on where the stream cuts its bytes: a
\* result of readLine, readUntil or readRange other than "continued" is the result
\* on any longer buffer.  (reader.ts:36-153: the operations run again on the whole
\* buffer after every chunk.)
THEOREM CutsDoNotMatter ==
  ASSUME NEW Byte, NEW early \in Seq(Byte), NEW late \in Seq(Byte), NEW byte,
         NEW limit \in Nat
  PROVE  /\ ReadLine(early, limit).status # "continued" =>
              ReadLine(early \o late, limit) = ReadLine(early, limit)
         /\ ReadUntil(early, byte, limit).status # "continued" =>
              ReadUntil(early \o late, byte, limit) = ReadUntil(early, byte, limit)
         /\ ReadRange(early, limit, limit).status # "continued" =>
              ReadRange(early \o late, limit, limit) = ReadRange(early, limit, limit)
<1>. DEFINE all == early \o late
<1>1. /\ all \in Seq(Byte) /\ Len(all) = Len(early) + Len(late)
      /\ Len(early) \in Nat /\ Len(late) \in Nat
      /\ \A i \in 1..Len(early) : all[i] = early[i]
  OBVIOUS
<1>2. ASSUME ReadLine(early, limit).status # "continued"
      PROVE  ReadLine(all, limit) = ReadLine(early, limit)
  <2>1. CASE Found(LF, early, limit) # {}
    <3>1. PICK end \in 1..Len(early) : end = Min(Found(LF, early, limit))
      BY <2>1, FoundEarly
    <3>2. /\ Found(LF, all, limit) # {}
          /\ Min(Found(LF, all, limit)) = end
      BY <2>1, <3>1, FoundEarly
    <3>3. CRBefore(all, end) = CRBefore(early, end)
      BY <1>1, <3>1 DEF CRBefore
    <3>. QED BY <2>1, <3>1, <3>2, <3>3 DEF ReadLine
  <2>2. CASE Found(LF, early, limit) = {}
    <3>1. ~LineFits(early, limit)
      BY <1>2, <2>2 DEF ReadLine, ReadContinued
    <3>2. Len(early) > limit /\ Len(all) > limit
      BY <1>1, <3>1 DEF LineFits
    <3>3. Found(LF, all, limit) = {}
      BY <2>2, <3>2, <1>1, FoundNone
    <3>. QED BY <2>2, <3>2, <3>3, <1>1 DEF ReadLine, LineFits
  <2>. QED BY <2>1, <2>2
<1>3. ASSUME ReadUntil(early, byte, limit).status # "continued"
      PROVE  ReadUntil(all, byte, limit) = ReadUntil(early, byte, limit)
  <2>1. CASE Found(byte, early, limit) # {}
    <3>1. /\ Found(byte, all, limit) # {}
          /\ Min(Found(byte, all, limit)) = Min(Found(byte, early, limit))
      BY <2>1, FoundEarly
    <3>. QED BY <2>1, <3>1 DEF ReadUntil
  <2>2. CASE Found(byte, early, limit) = {}
    <3>1. Len(early) >= limit
      BY <1>3, <2>2 DEF ReadUntil, ReadContinued
    <3>2. Found(byte, all, limit) = {} /\ Len(all) >= limit
      BY <2>2, <3>1, <1>1, FoundNone
    <3>. QED BY <2>2, <3>1, <3>2 DEF ReadUntil
  <2>. QED BY <2>1, <2>2
<1>4. ASSUME ReadRange(early, limit, limit).status # "continued"
      PROVE  ReadRange(all, limit, limit) = ReadRange(early, limit, limit)
  <2>1. Len(early) >= limit
    BY <1>4 DEF ReadRange, ReadContinued
  <2>. QED BY <2>1, <1>1 DEF ReadRange, Smaller, ReadCompleted
<1>. QED BY <1>2, <1>3, <1>4

-----------------------------------------------------------------------------
(* Sequences that are joined, and cut.                                      *)

\* f holds the concatenations of the first 0, 1, ..., k sequences of ss.
Joins(f, ss, S, k) ==
  /\ f \in [0..k -> Seq(S)]
  /\ f[0] = <<>>
  /\ \A i \in 0..(k - 1) : f[i + 1] = f[i] \o ss[i + 1]

\* There are such concatenations.
LEMMA JoinsExist ==
  ASSUME NEW S, NEW ss \in Seq(Seq(S))
  PROVE  \E f : Joins(f, ss, S, Len(ss))
<1>. DEFINE P == {k \in Nat : k <= Len(ss) => \E f : Joins(f, ss, S, k)}
<1>1. 0 \in P
  <2>1. Joins([i \in 0..0 |-> <<>>], ss, S, 0)
    BY DEF Joins
  <2>. QED BY <2>1
<1>2. ASSUME NEW k \in Nat, k \in P PROVE k + 1 \in P
  <2>1. SUFFICES ASSUME k + 1 <= Len(ss) PROVE \E f : Joins(f, ss, S, k + 1)
    BY <1>2
  <2>2. PICK f : Joins(f, ss, S, k)
    BY <1>2, <2>1
  <2>3. f[k] \in Seq(S) /\ ss[k + 1] \in Seq(S)
    BY <2>1, <2>2 DEF Joins
  <2>. DEFINE g == [i \in 0..(k + 1) |-> IF i = k + 1 THEN f[k] \o ss[k + 1] ELSE f[i]]
  <2>4. g \in [0..(k + 1) -> Seq(S)] /\ g[0] = <<>>
    BY <2>2, <2>3 DEF Joins
  <2>5. ASSUME NEW i \in 0..k PROVE g[i + 1] = g[i] \o ss[i + 1]
    <3>1. CASE i = k
      <4>1. k + 1 \in 0..(k + 1) /\ k \in 0..(k + 1) /\ k # k + 1
        OBVIOUS
      <4>2. g[k + 1] = f[k] \o ss[k + 1] /\ g[k] = f[k]
        BY <4>1, Zenon
      <4>. QED BY <3>1, <4>2
    <3>2. CASE i # k
      <4>1. i \in 0..(k - 1) /\ i + 1 # k + 1 /\ i # k + 1 /\ i + 1 \in 0..(k + 1)
            /\ i \in 0..(k + 1)
        BY <3>2
      <4>2. g[i + 1] = f[i + 1] /\ g[i] = f[i]
        BY <4>1
      <4>. QED BY <4>1, <4>2, <2>2 DEF Joins
    <3>. QED BY <3>1, <3>2
  <2>6. (k + 1) - 1 = k
    OBVIOUS
  <2>. HIDE DEF g
  <2>7. Joins(g, ss, S, k + 1)
    BY <2>4, <2>5, <2>6 DEF Joins
  <2>. QED BY <2>7
<1>3. Len(ss) \in Nat
  OBVIOUS
<1>. HIDE DEF P
<1>4. Len(ss) \in P
  BY <1>1, <1>2, <1>3, Induct
<1>. QED BY <1>3, <1>4 DEF P

\* One more sequence is joined.
LEMMA JoinsStep ==
  ASSUME NEW S, NEW ss \in Seq(Seq(S)), NEW f, Joins(f, ss, S, Len(ss)),
         NEW k \in Nat, k + 1 <= Len(ss)
  PROVE  /\ f[k] \in Seq(S) /\ ss[k + 1] \in Seq(S) /\ f[k + 1] \in Seq(S)
         /\ f[k + 1] = f[k] \o ss[k + 1]
<1>1. /\ k \in 0..(Len(ss) - 1) /\ k \in 0..Len(ss)
      /\ k + 1 \in 0..Len(ss) /\ k + 1 \in 1..Len(ss)
  OBVIOUS
<1>2. f \in [0..Len(ss) -> Seq(S)]
  BY DEF Joins
<1>3. f[k] \in Seq(S) /\ f[k + 1] \in Seq(S)
  BY <1>1, <1>2
<1>4. ss[k + 1] \in Seq(S)
  BY <1>1
<1>5. f[k + 1] = f[k] \o ss[k + 1]
  BY <1>1, Zenon DEF Joins
<1>. QED BY <1>3, <1>4, <1>5

\* FlattenSeq, a recursive function of the library, is the last of them.
LEMMA FlattenIsJoin ==
  ASSUME NEW S, NEW ss \in Seq(Seq(S)), NEW f, Joins(f, ss, S, Len(ss))
  PROVE  FlattenSeq(ss) = f[Len(ss)]
<1>. DEFINE n == Len(ss)
            Is(g) == g = [i \in 1..n |-> IF i = 1 THEN ss[i] ELSE g[i - 1] \o ss[i]]
<1>0. n \in Nat
  OBVIOUS
<1>1. CASE n = 0
  BY <1>1 DEF FlattenSeq, Joins
<1>2. CASE n > 0
  <2>0. f[1] = ss[1]
    <3>1. 0 \in Nat /\ 0 + 1 <= Len(ss)
      BY <1>0, <1>2
    <3>2. ss[0 + 1] \in Seq(S) /\ f[0 + 1] = f[0] \o ss[0 + 1]
      BY <3>1, JoinsStep, Zenon
    <3>3. f[0] = <<>> /\ 0 + 1 = 1
      BY DEF Joins
    <3>. QED BY <3>2, <3>3
  <2>1. Is([i \in 1..n |-> f[i]])
    <3>2. ASSUME NEW i \in 1..n, i # 1 PROVE f[i] = f[i - 1] \o ss[i]
      <4>1. i - 1 \in Nat /\ (i - 1) + 1 = i /\ (i - 1) + 1 <= n
        BY <1>0, <3>2
      <4>. QED BY <4>1, JoinsStep
    <3>3. \A i \in 1..n : i # 1 => i - 1 \in 1..n
      BY <1>0
    <3>. QED BY <2>0, <3>2, <3>3
  <2>. DEFINE g == CHOOSE g : Is(g)
  <2>2. Is(g)
    BY <2>1, Zenon
  <2>. HIDE DEF g
  <2>. DEFINE P == {k \in Nat : k \in 1..n => g[k] = f[k]}
  <2>3. 0 \in P
    OBVIOUS
  <2>4. ASSUME NEW k \in Nat, k \in P PROVE k + 1 \in P
    <3>1. SUFFICES ASSUME k + 1 \in 1..n PROVE g[k + 1] = f[k + 1]
      OBVIOUS
    <3>2. CASE k = 0
      BY <3>1, <3>2, <2>0, <2>2
    <3>3. CASE k > 0
      <4>1. k + 1 # 1 /\ (k + 1) - 1 = k /\ k \in 1..n
        BY <3>1, <3>3
      <4>2. g[k + 1] = g[k] \o ss[k + 1]
        BY <3>1, <4>1, <2>2
      <4>3. k + 1 <= Len(ss)
        BY <3>1
      <4>4. f[k + 1] = f[k] \o ss[k + 1]
        BY <4>3, JoinsStep, Zenon
      <4>. QED BY <4>1, <4>2, <4>4, <2>4
    <3>. QED BY <3>2, <3>3
  <2>. HIDE DEF P
  <2>5. n \in P
    BY <2>3, <2>4, <1>0, Induct
  <2>6. g[n] = f[n]
    BY <2>5, <1>0, <1>2 DEF P
  <2>7. FlattenSeq(ss) = g[n]
    BY <1>2 DEF FlattenSeq, g
  <2>. QED BY <2>6, <2>7
<1>. QED BY <1>0, <1>1, <1>2

\* What is flattened has the elements of its parts.
LEMMA FlattenType ==
  ASSUME NEW S, NEW ss \in Seq(Seq(S))
  PROVE  FlattenSeq(ss) \in Seq(S)
<1>1. PICK f : Joins(f, ss, S, Len(ss))
  BY JoinsExist
<1>2. f \in [0..Len(ss) -> Seq(S)] /\ Len(ss) \in 0..Len(ss)
  BY <1>1 DEF Joins
<1>3. FlattenSeq(ss) = f[Len(ss)]
  BY <1>1, FlattenIsJoin
<1>. QED BY <1>2, <1>3

\* A join begins with every shorter one.
LEMMA JoinsPrefix ==
  ASSUME NEW S, NEW ss \in Seq(Seq(S)), NEW f, Joins(f, ss, S, Len(ss)),
         NEW k \in 0..Len(ss)
  PROVE  /\ Len(f[k]) <= Len(f[Len(ss)])
         /\ \A i \in 1..Len(f[k]) : f[Len(ss)][i] = f[k][i]
<1>. DEFINE n == Len(ss)
            Begins(m) == /\ Len(f[k]) <= Len(f[m])
                         /\ \A i \in 1..Len(f[k]) : f[m][i] = f[k][i]
            P == {m \in Nat : m \in k..n => Begins(m)}
<1>0. n \in Nat /\ k \in Nat /\ k <= n /\ f[k] \in Seq(S)
  BY DEF Joins
<1>1. 0 \in P
  BY <1>0
<1>2. ASSUME NEW m \in Nat, m \in P PROVE m + 1 \in P
  <2>1. SUFFICES ASSUME m + 1 \in k..n PROVE Begins(m + 1)
    OBVIOUS
  <2>2. CASE m + 1 = k
    BY <2>2, <1>0
  <2>3. CASE m + 1 # k
    <3>1. Begins(m)
      BY <2>1, <2>3, <1>0, <1>2
    <3>2. m + 1 <= Len(ss)
      BY <2>1, <1>0
    <3>3. f[m + 1] = f[m] \o ss[m + 1] /\ f[m] \in Seq(S) /\ ss[m + 1] \in Seq(S)
      BY <3>2, JoinsStep, Zenon
    <3>4. PICK short, long, one \in Seq(S) :
            short = f[k] /\ long = f[m] /\ one = ss[m + 1]
      BY <3>3, <1>0
    <3>5. /\ Len(long) \in Nat /\ Len(one) \in Nat /\ Len(short) \in Nat
          /\ Len(long \o one) = Len(long) + Len(one)
          /\ \A i \in 1..Len(long) : (long \o one)[i] = long[i]
      OBVIOUS
    <3>6. Len(short) <= Len(long) /\ \A i \in 1..Len(short) : long[i] = short[i]
      BY <3>1, <3>4
    <3>7. /\ Len(short) <= Len(long \o one)
          /\ \A i \in 1..Len(short) : (long \o one)[i] = short[i]
      BY <3>5, <3>6
    <3>. QED BY <3>3, <3>4, <3>7
  <2>. QED BY <2>2, <2>3
<1>. HIDE DEF P
<1>3. n \in P
  BY <1>0, <1>1, <1>2, Induct
<1>. QED BY <1>0, <1>3 DEF P

\* Sequences joined, and cut in two.
LEMMA JoinOfTwo ==
  ASSUME NEW S, NEW a \in Seq(S), NEW b \in Seq(S)
  PROVE  /\ a \o b \in Seq(S) /\ Len(a) \in Nat /\ Len(b) \in Nat
         /\ Len(a \o b) = Len(a) + Len(b)
         /\ \A i \in 1..Len(a) : (a \o b)[i] = a[i]
         /\ \A i \in 1..Len(b) : (a \o b)[Len(a) + i] = b[i]
<1>1. PICK m \in Nat, n \in Nat : m = Len(a) /\ n = Len(b)
  OBVIOUS
<1>2. /\ a \o b \in Seq(S) /\ Len(a \o b) = Len(a) + Len(b)
      /\ \A i \in 1..(Len(a) + Len(b)) :
           (a \o b)[i] = IF i <= Len(a) THEN a[i] ELSE b[i - Len(a)]
  BY ConcatProperties, Zenon
<1>3. \A i \in 1..m : i \in 1..(m + n) /\ i <= m
  OBVIOUS
<1>4. \A i \in 1..n : m + i \in 1..(m + n) /\ ~(m + i <= m) /\ (m + i) - m = i
  OBVIOUS
<1>5. \A i \in 1..m : (a \o b)[i] = a[i]
  BY <1>1, <1>2, <1>3
<1>6. \A i \in 1..n : (a \o b)[m + i] = b[i]
  BY <1>1, <1>2, <1>4
<1>. QED BY <1>1, <1>2, <1>5, <1>6

\* A part of a sequence.
LEMMA PartOf ==
  ASSUME NEW S, NEW s \in Seq(S), NEW first \in Nat, NEW last \in Nat,
         first >= 1, last <= Len(s), first <= last + 1
  PROVE  /\ SubSeq(s, first, last) \in Seq(S)
         /\ Len(SubSeq(s, first, last)) = (last - first) + 1
         /\ \A i \in 1..((last - first) + 1) :
              SubSeq(s, first, last)[i] = s[(first + i) - 1]
<1>1. PICK n \in Nat : n = Len(s)
  OBVIOUS
<1>2. \A i \in first..last : s[i] \in S
  <2>1. \A i \in first..last : i \in 1..n
    BY <1>1
  <2>. QED BY <1>1, <2>1, ElementOfSeq
<1>3. /\ SubSeq(s, first, last) \in Seq(S)
      /\ Len(SubSeq(s, first, last)) = IF first <= last THEN last - first + 1 ELSE 0
      /\ \A i \in 1..(last - first + 1) : SubSeq(s, first, last)[i] = s[first + i - 1]
  BY <1>2, SubSeqProperties, SMT
<1>. QED BY <1>3

\* A sequence is its two halves.
LEMMA CutInTwo ==
  ASSUME NEW S, NEW s \in Seq(S), NEW k \in 0..Len(s)
  PROVE  /\ SubSeq(s, 1, k) \in Seq(S) /\ SubSeq(s, k + 1, Len(s)) \in Seq(S)
         /\ Len(SubSeq(s, 1, k)) = k /\ Len(SubSeq(s, k + 1, Len(s))) = Len(s) - k
         /\ s = SubSeq(s, 1, k) \o SubSeq(s, k + 1, Len(s))
<1>1. PICK n \in Nat : n = Len(s)
  OBVIOUS
<1>2. k \in Nat /\ k <= n
  BY <1>1
<1>3. /\ SubSeq(s, 1, k) \in Seq(S) /\ Len(SubSeq(s, 1, k)) = k
      /\ \A i \in 1..k : SubSeq(s, 1, k)[i] = s[i]
  <2>1. /\ SubSeq(s, 1, k) \in Seq(S) /\ Len(SubSeq(s, 1, k)) = (k - 1) + 1
        /\ \A i \in 1..((k - 1) + 1) : SubSeq(s, 1, k)[i] = s[(1 + i) - 1]
    <3>1. 1 \in Nat /\ 1 >= 1 /\ k <= Len(s) /\ 1 <= k + 1
      BY <1>1, <1>2
    <3>. QED BY <1>2, <3>1, PartOf
  <2>2. (k - 1) + 1 = k /\ \A i \in 1..k : (1 + i) - 1 = i
    BY <1>2
  <2>. QED BY <2>1, <2>2
<1>4. /\ SubSeq(s, k + 1, n) \in Seq(S) /\ Len(SubSeq(s, k + 1, n)) = n - k
      /\ \A i \in 1..(n - k) : SubSeq(s, k + 1, n)[i] = s[k + i]
  <2>1. /\ SubSeq(s, k + 1, n) \in Seq(S) /\ Len(SubSeq(s, k + 1, n)) = (n - (k + 1)) + 1
        /\ \A i \in 1..((n - (k + 1)) + 1) : SubSeq(s, k + 1, n)[i] = s[((k + 1) + i) - 1]
    <3>1. k + 1 \in Nat /\ k + 1 >= 1 /\ n <= Len(s) /\ k + 1 <= n + 1
      BY <1>1, <1>2
    <3>. QED BY <1>1, <3>1, PartOf
  <2>2. (n - (k + 1)) + 1 = n - k /\ \A i \in 1..(n - k) : ((k + 1) + i) - 1 = k + i
    BY <1>1, <1>2
  <2>. QED BY <2>1, <2>2
<1>5. PICK a \in Seq(S), b \in Seq(S) : a = SubSeq(s, 1, k) /\ b = SubSeq(s, k + 1, n)
  BY <1>3, <1>4
<1>6. /\ a \o b \in Seq(S) /\ Len(a \o b) = n
      /\ \A i \in 1..k : (a \o b)[i] = s[i]
      /\ \A i \in 1..(n - k) : (a \o b)[k + i] = s[k + i]
  <2>1. Len(a) = k /\ Len(b) = n - k /\ k + (n - k) = n
    BY <1>1, <1>2, <1>3, <1>4, <1>5
  <2>2. /\ a \o b \in Seq(S) /\ Len(a \o b) = Len(a) + Len(b)
        /\ \A i \in 1..Len(a) : (a \o b)[i] = a[i]
        /\ \A i \in 1..Len(b) : (a \o b)[Len(a) + i] = b[i]
    BY JoinOfTwo, SMT
  <2>. QED BY <1>3, <1>4, <1>5, <2>1, <2>2
<1>7. ASSUME NEW i \in 1..n PROVE (a \o b)[i] = s[i]
  <2>1. CASE i <= k
    BY <1>2, <1>6, <2>1
  <2>2. CASE i > k
    <3>1. i - k \in 1..(n - k) /\ k + (i - k) = i
      BY <1>1, <1>2, <2>2
    <3>. QED BY <1>6, <3>1
  <2>3. i <= k \/ i > k
    BY <1>2
  <2>. QED BY <2>1, <2>2, <2>3
<1>8. a \o b = s
  <2>1. Len(a \o b) = Len(s) /\ \A i \in 1..Len(a \o b) : (a \o b)[i] = s[i]
    BY <1>1, <1>6, <1>7
  <2>. QED BY <1>6, <2>1, SeqEqual, Zenon
<1>. QED BY <1>1, <1>3, <1>4, <1>5, <1>8

\* What follows the first k elements of a sequence is known by its elements.
LEMMA EndOfSequence ==
  ASSUME NEW S, NEW t \in Seq(S), NEW s \in Seq(S), NEW k \in Nat,
         Len(t) = k + Len(s), \A i \in 1..Len(s) : t[k + i] = s[i]
  PROVE  SubSeq(t, k + 1, Len(t)) = s
<1>1. PICK n \in Nat : n = Len(t)
  OBVIOUS
<1>2. PICK m \in Nat : m = Len(s) /\ n = k + m
  BY <1>1
<1>3. k \in 0..Len(t) /\ n - k = m
  BY <1>1, <1>2
<1>4. PICK b \in Seq(S) : b = SubSeq(t, k + 1, Len(t)) /\ Len(b) = m
  BY <1>1, <1>3, CutInTwo
<1>5. \A i \in 1..m : b[i] = t[k + i]
  BY <1>1, <1>2, <1>4
<1>. QED BY <1>2, <1>4, <1>5, SeqEqual

\* s stands in t from the position after k on.
Stands(s, t, k) ==
  /\ k \in Nat /\ k + Len(s) <= Len(t)
  /\ \A i \in 1..Len(s) : s[i] = t[k + i]

\* What stands in a sequence stands in a longer one; at its end, both may grow.
LEMMA StandsInLonger ==
  ASSUME NEW S, NEW s \in Seq(S), NEW t \in Seq(S), NEW d \in Seq(S), NEW k,
         Stands(s, t, k)
  PROVE  /\ Stands(s, t \o d, k)
         /\ k + Len(s) = Len(t) => Stands(s \o d, t \o d, k)
<1>1. PICK m \in Nat, n \in Nat, e \in Nat : m = Len(s) /\ n = Len(t) /\ e = Len(d)
  OBVIOUS
<1>2. k \in Nat /\ k + m <= n /\ \A i \in 1..m : s[i] = t[k + i]
  BY <1>1 DEF Stands
<1>3. /\ Len(t \o d) = n + e /\ \A i \in 1..n : (t \o d)[i] = t[i]
      /\ \A i \in 1..e : (t \o d)[n + i] = d[i]
  BY <1>1, JoinOfTwo
<1>4. /\ Len(s \o d) = m + e /\ \A i \in 1..m : (s \o d)[i] = s[i]
      /\ \A i \in 1..e : (s \o d)[m + i] = d[i]
  BY <1>1, JoinOfTwo
<1>5. \A i \in 1..m : k + i \in 1..n
  BY <1>2
<1>6. k + m <= n + e
  BY <1>2
<1>7. Stands(s, t \o d, k)
  BY <1>1, <1>2, <1>3, <1>5, <1>6 DEF Stands
<1>8. ASSUME k + m = n PROVE Stands(s \o d, t \o d, k)
  <2>1. ASSUME NEW i \in 1..(m + e) PROVE (s \o d)[i] = (t \o d)[k + i]
    <3>1. CASE i <= m
      <4>1. i \in 1..m
        BY <3>1
      <4>. QED BY <1>2, <1>3, <1>4, <1>5, <4>1
    <3>2. CASE i > m
      <4>1. PICK j \in 1..e : i = m + j /\ k + i = n + j
        <5>1. i - m \in 1..e /\ i = m + (i - m) /\ k + i = n + (i - m)
          BY <1>2, <1>8, <3>2
        <5>. QED BY <5>1
      <4>. QED BY <1>3, <1>4, <4>1
    <3>3. i <= m \/ i > m
      OBVIOUS
    <3>. QED BY <3>1, <3>2, <3>3
  <2>2. k + (m + e) <= n + e
    BY <1>2, <1>8
  <2>. QED BY <1>2, <1>3, <1>4, <2>1, <2>2 DEF Stands
<1>. QED BY <1>1, <1>7, <1>8

\* It stands in each part that reaches behind it.
LEMMA StandsInPart ==
  ASSUME NEW S, NEW s \in Seq(S), NEW t \in Seq(S), NEW k, Stands(s, t, k),
         NEW n \in Nat, k + Len(s) <= n, n <= Len(t)
  PROVE  Stands(s, SubSeq(t, 1, n), k)
<1>1. PICK m \in Nat : m = Len(s)
  OBVIOUS
<1>2. k \in Nat /\ k + m <= n /\ \A i \in 1..m : s[i] = t[k + i]
  BY <1>1 DEF Stands
<1>3. Len(SubSeq(t, 1, n)) = n /\ \A i \in 1..n : SubSeq(t, 1, n)[i] = t[i]
  <2>1. 1 \in Nat /\ 1 >= 1 /\ 1 <= n + 1
    OBVIOUS
  <2>2. /\ Len(SubSeq(t, 1, n)) = (n - 1) + 1
        /\ \A i \in 1..((n - 1) + 1) : SubSeq(t, 1, n)[i] = t[(1 + i) - 1]
    BY <2>1, PartOf
  <2>3. (n - 1) + 1 = n /\ \A i \in 1..n : (1 + i) - 1 = i
    OBVIOUS
  <2>. QED BY <2>2, <2>3
<1>4. \A i \in 1..m : k + i \in 1..n
  BY <1>2
<1>. QED BY <1>1, <1>2, <1>3, <1>4 DEF Stands

\* A part of it stands at its own place.
LEMMA PartStands ==
  ASSUME NEW S, NEW s \in Seq(S), NEW t \in Seq(S), NEW k, Stands(s, t, k),
         NEW a \in Nat, NEW b \in Nat, a <= b, b <= Len(s)
  PROVE  /\ Stands(SubSeq(s, a + 1, b), t, k + a)
         /\ SubSeq(s, a + 1, b) \in Seq(S) /\ Len(SubSeq(s, a + 1, b)) = b - a
<1>1. PICK m \in Nat, n \in Nat : m = Len(s) /\ n = Len(t)
  OBVIOUS
<1>2. k \in Nat /\ k + m <= n /\ \A i \in 1..m : s[i] = t[k + i]
  BY <1>1 DEF Stands
<1>3. /\ SubSeq(s, a + 1, b) \in Seq(S) /\ Len(SubSeq(s, a + 1, b)) = b - a
      /\ \A i \in 1..(b - a) : SubSeq(s, a + 1, b)[i] = s[a + i]
  <2>1. a + 1 \in Nat /\ a + 1 >= 1 /\ a + 1 <= b + 1
    OBVIOUS
  <2>2. /\ SubSeq(s, a + 1, b) \in Seq(S) /\ Len(SubSeq(s, a + 1, b)) = (b - (a + 1)) + 1
        /\ \A i \in 1..((b - (a + 1)) + 1) : SubSeq(s, a + 1, b)[i] = s[((a + 1) + i) - 1]
    BY <2>1, PartOf
  <2>3. (b - (a + 1)) + 1 = b - a /\ \A i \in 1..(b - a) : ((a + 1) + i) - 1 = a + i
    OBVIOUS
  <2>. QED BY <2>2, <2>3
<1>4. \A i \in 1..(b - a) : a + i \in 1..m /\ (k + a) + i = k + (a + i)
  BY <1>1, <1>2
<1>5. k + a \in Nat /\ (k + a) + (b - a) <= n
  BY <1>1, <1>2
<1>. QED BY <1>1, <1>2, <1>3, <1>4, <1>5 DEF Stands

\* So does its beginning.
LEMMA FirstStands ==
  ASSUME NEW S, NEW s \in Seq(S), NEW t \in Seq(S), NEW k, Stands(s, t, k),
         NEW n \in Nat, n <= Len(s)
  PROVE  /\ Stands(SubSeq(s, 1, n), t, k)
         /\ SubSeq(s, 1, n) \in Seq(S) /\ Len(SubSeq(s, 1, n)) = n
<1>1. /\ Stands(SubSeq(s, 0 + 1, n), t, k + 0)
      /\ SubSeq(s, 0 + 1, n) \in Seq(S) /\ Len(SubSeq(s, 0 + 1, n)) = n - 0
  <2>1. 0 \in Nat /\ 0 <= n
    OBVIOUS
  <2>. QED BY <2>1, PartStands
<1>2. 0 + 1 = 1 /\ k + 0 = k /\ n - 0 = n
  BY DEF Stands
<1>. QED BY <1>1, <1>2

\* Two that stand side by side stand there as one.
LEMMA JoinStands ==
  ASSUME NEW S, NEW s \in Seq(S), NEW u \in Seq(S), NEW t \in Seq(S), NEW k \in Nat,
         Stands(s, t, k), Stands(u, t, k + Len(s))
  PROVE  Stands(s \o u, t, k)
<1>1. PICK m \in Nat, n \in Nat, e \in Nat : m = Len(s) /\ n = Len(t) /\ e = Len(u)
  OBVIOUS
<1>2. /\ \A i \in 1..m : s[i] = t[k + i]
      /\ (k + m) + e <= n /\ \A i \in 1..e : u[i] = t[(k + m) + i]
  BY <1>1 DEF Stands
<1>3. /\ Len(s \o u) = m + e /\ \A i \in 1..m : (s \o u)[i] = s[i]
      /\ \A i \in 1..e : (s \o u)[m + i] = u[i]
  BY <1>1, JoinOfTwo
<1>4. ASSUME NEW i \in 1..(m + e) PROVE (s \o u)[i] = t[k + i]
  <2>1. CASE i <= m
    <3>1. i \in 1..m
      BY <2>1
    <3>. QED BY <1>2, <1>3, <3>1
  <2>2. CASE i > m
    <3>1. PICK j \in 1..e : i = m + j /\ k + i = (k + m) + j
      <4>1. i - m \in 1..e /\ i = m + (i - m) /\ k + i = (k + m) + (i - m)
        BY <2>2
      <4>. QED BY <4>1
    <3>. QED BY <1>2, <1>3, <3>1
  <2>3. i <= m \/ i > m
    OBVIOUS
  <2>. QED BY <2>1, <2>2, <2>3
<1>5. k + (m + e) <= n
  BY <1>2
<1>. QED BY <1>1, <1>3, <1>4, <1>5 DEF Stands

\* A sequence ends with what stands in it to its end.
LEMMA EndsWith ==
  ASSUME NEW S, NEW s \in Seq(S), NEW t \in Seq(S), NEW k, Stands(s, t, k),
         k + Len(s) = Len(t)
  PROVE  t = SubSeq(t, 1, k) \o s
<1>1. PICK m \in Nat, n \in Nat : m = Len(s) /\ n = Len(t)
  OBVIOUS
<1>2. k \in 0..Len(t) /\ k + m = n /\ \A i \in 1..m : s[i] = t[k + i]
  BY <1>1 DEF Stands
<1>3. /\ SubSeq(t, k + 1, Len(t)) \in Seq(S) /\ Len(SubSeq(t, k + 1, Len(t))) = Len(t) - k
      /\ t = SubSeq(t, 1, k) \o SubSeq(t, k + 1, Len(t))
  BY <1>2, CutInTwo
<1>4. PICK b \in Seq(S) : b = SubSeq(t, k + 1, n) /\ Len(b) = m
  <2>1. n - k = m
    BY <1>1, <1>2
  <2>. QED BY <1>1, <1>3, <2>1
<1>5. \A i \in 1..m : b[i] = t[k + i]
  BY <1>1, <1>2, <1>4
<1>6. b = s
  BY <1>1, <1>2, <1>4, <1>5, SeqEqual
<1>. QED BY <1>1, <1>3, <1>4, <1>6

-----------------------------------------------------------------------------
(* The encodings.                                                           *)

\* The characters that the encodings give a meaning.
Symbols == {CR, LF, NUL, ":", Backslash, "r", "n", "c"}

\* What the encoder escapes, the decoder of the same version knows.
LEMMA EscapesAreUndone ==
  ASSUME NEW version \in Versions, NEW c \in Escaped(version)
  PROVE  /\ EscapeLetter(c) \in EscapeLetters(version)
         /\ Unescaped(EscapeLetter(c)) = c
BY DEF Versions, Escaped, EscapeLetter, EscapeLetters, Unescaped, CR, LF, Backslash

\* A version that does not escape the backslash decodes no escape.
LEMMA BackslashEscaped ==
  ASSUME NEW version \in Versions, Backslash \notin Escaped(version)
  PROVE  EscapeLetters(version) = {}
BY DEF Versions, Escaped, EscapeLetters

\* Escapes are made of symbols.
LEMMA SymbolTypes ==
  ASSUME NEW Byte, Symbols \subseteq Byte
  PROVE  /\ \A version \in Versions : \A c \in Escaped(version) : EscapeLetter(c) \in Byte
         /\ \A version \in Versions : \A c \in EscapeLetters(version) : Unescaped(c) \in Byte
BY DEF Symbols, Versions, Escaped, EscapeLetter, EscapeLetters, Unescaped, CR, LF, Backslash

\* The characters that stand for one.
Encoding(c, version) ==
  IF c \in Escaped(version) THEN <<Backslash, EscapeLetter(c)>> ELSE <<c>>

\* encodeValue, character by character.
Encodings(value, version) == [i \in DOMAIN value |-> Encoding(value[i], version)]

\* EncodeValue flattens the encodings.
LEMMA EncodingsType ==
  ASSUME NEW Byte, Symbols \subseteq Byte, NEW version \in Versions, NEW value \in Seq(Byte)
  PROVE  /\ Encodings(value, version) \in Seq(Seq(Byte))
         /\ Len(Encodings(value, version)) = Len(value)
         /\ \A i \in 1..Len(value) : Encodings(value, version)[i] = Encoding(value[i], version)
         /\ EncodeValue(value, version) = FlattenSeq(Encodings(value, version))
<1>1. Backslash \in Byte
  BY DEF Symbols
<1>2. ASSUME NEW c \in Byte PROVE Encoding(c, version) \in Seq(Byte)
  <2>1. CASE c \in Escaped(version)
    <3>1. EscapeLetter(c) \in Byte
      BY <2>1, SymbolTypes
    <3>2. <<Backslash, EscapeLetter(c)>> \in Seq(Byte)
      BY <1>1, <3>1
    <3>. QED BY <2>1, <3>2 DEF Encoding
  <2>2. CASE c \notin Escaped(version)
    BY <2>2 DEF Encoding
  <2>. QED BY <2>1, <2>2
<1>3. EncodeValue(value, version) = FlattenSeq(Encodings(value, version))
  BY DEF EncodeValue, Encodings, Encoding
<1>4. \A i \in 1..Len(value) : value[i] \in Byte
  OBVIOUS
<1>5. Encodings(value, version) = [i \in 1..Len(value) |-> Encoding(value[i], version)]
  BY DEF Encodings
<1>6. Encodings(value, version) \in [1..Len(value) -> Seq(Byte)] /\ Len(value) \in Nat
  BY <1>2, <1>4, <1>5
<1>. QED BY <1>3, <1>5, <1>6

\* An encoded value is made of the bytes of its value and of symbols.
LEMMA EncodeType ==
  ASSUME NEW Byte, Symbols \subseteq Byte, NEW version \in Versions, NEW value \in Seq(Byte)
  PROVE  EncodeValue(value, version) \in Seq(Byte)
BY EncodingsType, FlattenType

\* The value that stands at a character, given those behind it.
EscapeAt(encoded, version, i) ==
  /\ i < Len(encoded) /\ encoded[i] = Backslash
  /\ encoded[i + 1] \in EscapeLetters(version)

\* decodeValue from the i-th character on, if d says what it is behind it.
DecodesTo(d, encoded, version, i) ==
  CASE i > Len(encoded) -> <<>>
    [] i <= Len(encoded) /\ EscapeAt(encoded, version, i) ->
         <<Unescaped(encoded[i + 1])>> \o d[i + 2]
    [] OTHER -> <<encoded[i]>> \o d[i + 1]

\* d says what decodeValue is from each character on.
Decodes(d, encoded, version, first) ==
  d = [i \in first..(Len(encoded) + 2) |-> DecodesTo(d, encoded, version, i)]

\* It looks two characters ahead.
LEMMA DecodesLocal ==
  ASSUME NEW Byte, NEW encoded \in Seq(Byte), NEW version, NEW i \in Nat, NEW d, NEW e,
         i <= Len(encoded) => d[i + 1] = e[i + 1] /\ d[i + 2] = e[i + 2]
  PROVE  DecodesTo(d, encoded, version, i) = DecodesTo(e, encoded, version, i)
BY DEF DecodesTo

\* There is such a d.
LEMMA DecodesExist ==
  ASSUME NEW Byte, NEW encoded \in Seq(Byte), NEW version
  PROVE  \E d : Decodes(d, encoded, version, 1)
<1>. DEFINE n == Len(encoded)
            P == {k \in Nat : k <= n => \E d : Decodes(d, encoded, version, n + 1 - k)}
<1>0. n \in Nat
  OBVIOUS
<1>1. 0 \in P
  <2>1. ASSUME NEW i \in (n + 1)..(n + 2), NEW d PROVE DecodesTo(d, encoded, version, i) = <<>>
    <3>1. i > n /\ ~(i <= n)
      BY <1>0
    <3>. QED BY <3>1 DEF DecodesTo
  <2>2. Decodes([i \in (n + 1)..(n + 2) |-> <<>>], encoded, version, n + 1)
    BY <2>1 DEF Decodes
  <2>3. n + 1 - 0 = n + 1
    BY <1>0
  <2>. QED BY <2>2, <2>3
<1>2. ASSUME NEW k \in Nat, k \in P PROVE k + 1 \in P
  <2>1. SUFFICES ASSUME k + 1 <= n PROVE \E d : Decodes(d, encoded, version, n + 1 - (k + 1))
    OBVIOUS
  <2>2. PICK d : Decodes(d, encoded, version, n + 1 - k)
    BY <2>1, <1>0, <1>2
  <2>3. PICK m \in Nat : m = n + 1 - (k + 1) /\ m + 1 = n + 1 - k /\ m <= n
    BY <2>1, <1>0
  <2>. DEFINE e == [i \in m..(n + 2) |-> IF i = m THEN DecodesTo(d, encoded, version, m) ELSE d[i]]
  <2>4. \A i \in (m + 1)..(n + 2) : e[i] = d[i]
    BY <2>3, <1>0
  <2>5. \A i \in (m + 1)..(n + 2) : d[i] = DecodesTo(d, encoded, version, i)
    BY <2>2, <2>3 DEF Decodes
  <2>6. ASSUME NEW i \in m..(n + 2)
        PROVE  DecodesTo(d, encoded, version, i) = DecodesTo(e, encoded, version, i)
    <3>1. i \in Nat
      BY <2>3, <1>0
    <3>2. i <= n => i + 1 \in (m + 1)..(n + 2) /\ i + 2 \in (m + 1)..(n + 2)
      BY <2>3, <1>0
    <3>. HIDE DEF e
    <3>3. i <= Len(encoded) => d[i + 1] = e[i + 1] /\ d[i + 2] = e[i + 2]
      BY <3>2, <2>4
    <3>. QED BY <3>1, <3>3, DecodesLocal
  <2>7. \A i \in m..(n + 2) : i # m => i \in (m + 1)..(n + 2)
    BY <2>3, <1>0
  <2>8. m \in m..(n + 2)
    BY <2>3, <1>0
  <2>9. \A i \in m..(n + 2) : e[i] = DecodesTo(d, encoded, version, i)
    BY <2>5, <2>7
  <2>10. e = [i \in m..(n + 2) |-> DecodesTo(e, encoded, version, i)]
    BY <2>6, <2>9
  <2>. QED BY <2>3, <2>10 DEF Decodes
<1>. HIDE DEF P
<1>3. n \in P
  BY <1>0, <1>1, <1>2, Induct
<1>4. n + 1 - n = 1
  BY <1>0
<1>. QED BY <1>0, <1>3, <1>4 DEF P

\* DecodeValue is its first value.
LEMMA DecodeIs ==
  ASSUME NEW Byte, NEW encoded \in Seq(Byte), NEW version
  PROVE  \E d : Decodes(d, encoded, version, 1) /\ DecodeValue(encoded, version) = d[1]
<1>. DEFINE d == CHOOSE d : Decodes(d, encoded, version, 1)
<1>1. Decodes(d, encoded, version, 1)
  BY DecodesExist
<1>2. DecodeValue(encoded, version) = d[1]
  BY DEF DecodeValue, Decodes, DecodesTo, EscapeAt
<1>. QED BY <1>1, <1>2

\* The recursion, unfolded once.
LEMMA DecodesAt ==
  ASSUME NEW Byte, NEW encoded \in Seq(Byte), NEW version, NEW d,
         Decodes(d, encoded, version, 1), NEW i \in 1..(Len(encoded) + 2)
  PROVE  d[i] = DecodesTo(d, encoded, version, i)
BY DEF Decodes

\* An escape is taken as a whole, any other character by itself.
LEMMA DecodeCases ==
  ASSUME NEW Byte, NEW encoded \in Seq(Byte), NEW version, NEW d,
         Decodes(d, encoded, version, 1), NEW i \in 1..Len(encoded)
  PROVE  d[i] = IF EscapeAt(encoded, version, i)
                  THEN <<Unescaped(encoded[i + 1])>> \o d[i + 2]
                  ELSE <<encoded[i]>> \o d[i + 1]
<1>1. i \in 1..(Len(encoded) + 2) /\ i <= Len(encoded) /\ ~(i > Len(encoded))
  OBVIOUS
<1>2. d[i] = DecodesTo(d, encoded, version, i)
  BY <1>1, DecodesAt
<1>. QED BY <1>1, <1>2, Zenon DEF DecodesTo

\* A decoded value is made of the bytes of its encoding and of symbols.
LEMMA DecodeType ==
  ASSUME NEW Byte, Symbols \subseteq Byte, NEW version \in Versions,
         NEW encoded \in Seq(Byte)
  PROVE  DecodeValue(encoded, version) \in Seq(Byte)
<1>0. PICK n \in Nat : n = Len(encoded)
  OBVIOUS
<1>1. PICK d : Decodes(d, encoded, version, 1) /\ DecodeValue(encoded, version) = d[1]
  BY DecodeIs
<1>. DEFINE P == {k \in Nat : \A i \in 1..(n + 2) : i + k >= n + 1 => d[i] \in Seq(Byte)}
<1>2. 0 \in P
  <2>1. ASSUME NEW i \in 1..(n + 2), i + 0 >= n + 1 PROVE d[i] \in Seq(Byte)
    <3>1. i > Len(encoded) /\ ~(i <= Len(encoded))
      BY <1>0, <2>1
    <3>2. d[i] = <<>>
      BY <1>0, <1>1, <3>1, DecodesAt DEF DecodesTo
    <3>. QED BY <3>2
  <2>. QED BY <2>1
<1>3. ASSUME NEW k \in Nat, k \in P PROVE k + 1 \in P
  <2>1. ASSUME NEW i \in 1..(n + 2), i + (k + 1) >= n + 1 PROVE d[i] \in Seq(Byte)
    <3>1. CASE i > n
      <4>1. i + 0 >= n + 1
        BY <3>1
      <4>. QED BY <4>1, <1>3
    <3>2. CASE i <= n
      <4>1. /\ i + 1 \in 1..(n + 2) /\ i + 2 \in 1..(n + 2)
            /\ (i + 1) + k >= n + 1 /\ (i + 2) + k >= n + 1
        BY <3>2, <2>1
      <4>2. d[i + 1] \in Seq(Byte) /\ d[i + 2] \in Seq(Byte)
        BY <4>1, <1>3
      <4>3. encoded[i] \in Byte
        BY <3>2, <1>0
      <4>4. d[i] = IF EscapeAt(encoded, version, i)
                     THEN <<Unescaped(encoded[i + 1])>> \o d[i + 2]
                     ELSE <<encoded[i]>> \o d[i + 1]
        BY <3>2, <1>0, <1>1, DecodeCases
      <4>5. CASE EscapeAt(encoded, version, i)
        <5>1. Unescaped(encoded[i + 1]) \in Byte
          BY <4>5, SymbolTypes DEF EscapeAt
        <5>. QED BY <4>2, <4>4, <4>5, <5>1
      <4>6. CASE ~EscapeAt(encoded, version, i)
        BY <4>2, <4>3, <4>4, <4>6
      <4>. QED BY <4>5, <4>6
    <3>. QED BY <3>1, <3>2
  <2>. QED BY <2>1
<1>. HIDE DEF P
<1>4. n \in P
  BY <1>2, <1>3, Induct
<1>5. 1 \in 1..(n + 2) /\ 1 + n >= n + 1
  OBVIOUS
<1>. QED BY <1>1, <1>4, <1>5 DEF P

\* The rest of a sequence begins with its next element.
LEMMA SubSeqFirst ==
  ASSUME NEW S, NEW s \in Seq(S), NEW k \in 1..Len(s)
  PROVE  SubSeq(s, k, Len(s)) = <<s[k]>> \o SubSeq(s, k + 1, Len(s))
BY SubSeqRecursiveFirst

\* Every value survives its encoding: under each version decodeValue gives back what
\* encodeValue was given, whatever the characters are.  (output.ts:196-207 escapes,
\* input.ts:249-278 unescapes; 1.0 does neither.)
THEOREM DecodeUndoesEncode ==
  ASSUME NEW Byte, Symbols \subseteq Byte, NEW version \in Versions, NEW value \in Seq(Byte)
  PROVE  DecodeValue(EncodeValue(value, version), version) = value
<1>. DEFINE ss == Encodings(value, version)
            n == Len(value)
<1>0. n \in Nat /\ n = Len(value) /\ \A i \in 1..n : value[i] \in Byte
  OBVIOUS
<1>1. /\ ss \in Seq(Seq(Byte)) /\ Len(ss) = n
      /\ \A i \in 1..n : ss[i] = Encoding(value[i], version)
  BY EncodingsType
<1>. HIDE DEF ss, n
<1>2. PICK f : Joins(f, ss, Byte, Len(ss))
  BY <1>1, JoinsExist
<1>3. PICK e \in Seq(Byte) : e = EncodeValue(value, version) /\ e = f[n]
  <2>1. f[n] = FlattenSeq(ss) /\ EncodeValue(value, version) = FlattenSeq(ss)
    BY <1>1, <1>2, FlattenIsJoin, EncodingsType DEF ss, n
  <2>. QED BY <2>1, EncodeType
<1>4. PICK d : Decodes(d, e, version, 1) /\ DecodeValue(e, version) = d[1]
  BY DecodeIs
<1>. DEFINE Rest(m) == SubSeq(value, m + 1, n)
            P == {k \in Nat : k <= n => d[Len(f[n - k]) + 1] = Rest(n - k)}
<1>5. 0 \in P
  <2>1. PICK i \in 1..(Len(e) + 2) : i = Len(f[n]) + 1 /\ i = Len(e) + 1
    BY <1>3
  <2>2. d[i] = <<>>
    <3>1. i > Len(e) /\ ~(i <= Len(e))
      BY <2>1
    <3>2. d[i] = DecodesTo(d, e, version, i)
      BY <1>4, DecodesAt
    <3>. QED BY <3>1, <3>2 DEF DecodesTo
  <2>3. Rest(n) = <<>> /\ n - 0 = n
    BY <1>0
  <2>. QED BY <2>1, <2>2, <2>3
<1>6. ASSUME NEW k \in Nat, k \in P PROVE k + 1 \in P
  <2>1. SUFFICES ASSUME k + 1 <= n
                 PROVE  d[Len(f[n - (k + 1)]) + 1] = Rest(n - (k + 1))
    OBVIOUS
  <2>2. PICK m \in Nat : m = n - (k + 1) /\ m + 1 = n - k /\ m + 1 <= n /\ m + 1 \in 1..n
    BY <1>0, <2>1
  <2>3. PICK c \in Byte : c = value[m + 1] /\ ss[m + 1] = Encoding(c, version)
    BY <2>2, <1>0, <1>1
  <2>4. /\ f[m] \in Seq(Byte) /\ f[m + 1] \in Seq(Byte)
        /\ f[m + 1] = f[m] \o Encoding(c, version)
    <3>1. m \in Nat /\ m + 1 <= Len(ss)
      BY <2>2, <1>1
    <3>2. /\ f[m] \in Seq(Byte) /\ f[m + 1] \in Seq(Byte)
          /\ f[m + 1] = f[m] \o ss[m + 1]
      BY <3>1, <1>1, <1>2, JoinsStep, ZenonT(30)
    <3>. QED BY <2>3, <3>2
  <2>5. PICK p \in Nat : p = Len(f[m])
    BY <2>4
  <2>6. Len(f[m + 1]) <= Len(e) /\ \A i \in 1..Len(f[m + 1]) : e[i] = f[m + 1][i]
    <3>1. m + 1 \in 0..Len(ss)
      BY <2>2, <1>1
    <3>. QED BY <3>1, <1>1, <1>2, <1>3, JoinsPrefix
  <2>7. d[Len(f[m + 1]) + 1] = Rest(m + 1)
    BY <2>1, <2>2, <1>0, <1>6
  <2>8. Rest(m) = <<c>> \o Rest(m + 1)
    BY <2>2, <2>3, <1>0, SubSeqFirst
  <2>9. d[p + 1] = <<c>> \o d[Len(f[m + 1]) + 1]
    <3>1. CASE c \in Escaped(version)
      <4>1. PICK letter : letter = EscapeLetter(c) /\ letter \in Byte
        BY <3>1, SymbolTypes
      <4>2. Encoding(c, version) = <<Backslash, letter>> /\ Backslash \in Byte
        BY <3>1, <4>1 DEF Encoding, Symbols
      <4>3. /\ Len(f[m + 1]) = p + 2
            /\ f[m + 1][p + 1] = Backslash /\ f[m + 1][p + 2] = letter
        BY <2>4, <2>5, <4>1, <4>2
      <4>4. PICK i \in 1..Len(e) : i = p + 1 /\ i < Len(e)
        BY <2>6, <4>3
      <4>5. e[i] = Backslash /\ e[i + 1] = letter
        BY <2>6, <4>3, <4>4
      <4>6. EscapeAt(e, version, i) /\ Unescaped(e[i + 1]) = c
        BY <3>1, <4>1, <4>4, <4>5, EscapesAreUndone DEF EscapeAt
      <4>7. d[i] = <<c>> \o d[i + 2]
        BY <1>4, <4>6, DecodeCases
      <4>8. i + 2 = Len(f[m + 1]) + 1
        BY <4>3, <4>4
      <4>. QED BY <4>4, <4>7, <4>8
    <3>2. CASE c \notin Escaped(version)
      <4>1. Encoding(c, version) = <<c>>
        BY <3>2 DEF Encoding
      <4>2. Len(f[m + 1]) = p + 1 /\ f[m + 1][p + 1] = c
        BY <2>4, <2>5, <4>1
      <4>3. PICK i \in 1..Len(e) : i = p + 1
        BY <2>6, <4>2
      <4>4. e[i] = c
        BY <2>6, <4>2, <4>3
      <4>5. ~EscapeAt(e, version, i)
        BY <3>2, <4>4, BackslashEscaped DEF EscapeAt
      <4>6. d[i] = IF EscapeAt(e, version, i)
                     THEN <<Unescaped(e[i + 1])>> \o d[i + 2]
                     ELSE <<e[i]>> \o d[i + 1]
        BY <1>4, DecodeCases
      <4>7. d[i] = <<c>> \o d[i + 1]
        BY <4>4, <4>5, <4>6, Zenon
      <4>8. i + 1 = Len(f[m + 1]) + 1
        BY <4>2, <4>3
      <4>. QED BY <4>3, <4>7, <4>8
    <3>. QED BY <3>1, <3>2
  <2>. QED BY <2>2, <2>5, <2>7, <2>8, <2>9
<1>. HIDE DEF P
<1>7. n \in P
  BY <1>0, <1>5, <1>6, Induct
<1>8. n - n = 0 /\ f[0] = <<>> /\ Rest(0) = value
  BY <1>0, <1>2 DEF Joins
<1>9. d[1] = value
  <2>1. d[Len(f[n - n]) + 1] = Rest(n - n)
    BY <1>0, <1>7 DEF P
  <2>2. Len(<<>>) + 1 = 1
    OBVIOUS
  <2>. QED BY <1>8, <2>1, <2>2
<1>. QED BY <1>3, <1>4, <1>9

\* A byte that is escaped, or not in the value, is not in its encoding.
LEMMA EncodeAvoids ==
  ASSUME NEW Byte, Symbols \subseteq Byte, NEW version \in Versions,
         NEW value \in Seq(Byte), NEW byte \in {CR, LF, ":"},
         byte \in Escaped(version) \/ \A i \in DOMAIN value : value[i] # byte
  PROVE  EncodeValue(value, version) \in Seq(Byte \ {byte})
<1>. DEFINE Others == Byte \ {byte}
<1>1. Backslash \in Others /\ \A c \in Escaped(version) : EscapeLetter(c) \in Others
  BY DEF Symbols, Versions, Escaped, EscapeLetter, CR, LF, Backslash
<1>. HIDE DEF Others
<1>2. ASSUME NEW i \in 1..Len(value)
      PROVE  Encoding(value[i], version) \in Seq(Others)
  <2>1. value[i] \in Byte
    OBVIOUS
  <2>2. CASE value[i] \in Escaped(version)
    <3>1. PICK a, b \in Others : a = Backslash /\ b = EscapeLetter(value[i])
      BY <1>1, <2>2
    <3>2. Encoding(value[i], version) = <<a, b>>
      BY <2>2, <3>1 DEF Encoding
    <3>. QED BY <3>2
  <2>3. CASE value[i] \notin Escaped(version)
    <3>1. value[i] \in Others
      BY <2>1, <2>3 DEF Others
    <3>. QED BY <2>3, <3>1 DEF Encoding
  <2>. QED BY <2>2, <2>3
<1>3. Encodings(value, version) = [i \in 1..Len(value) |-> Encoding(value[i], version)]
      /\ Len(value) \in Nat
  BY DEF Encodings
<1>4. Encodings(value, version) \in Seq(Seq(Others))
  BY <1>2, <1>3
<1>. QED BY <1>4, FlattenType, EncodingsType DEF Others

\* readLine takes a line that fits, and leaves what follows it.
LEMMA ReadsLine ==
  ASSUME NEW Byte, LF \in Byte, NEW line \in Seq(Byte \ {LF}), NEW rest \in Seq(Byte),
         NEW limit \in Nat, Len(line) + 1 <= limit,
         line # <<>> => line[Len(line)] # CR
  PROVE  LET all == (line \o <<LF>>) \o rest
             result == ReadLine(all, limit)
         IN /\ result.status = "completed"
            /\ Taken(all, result) = line /\ Left(all, result) = rest
<1>. DEFINE all == (line \o <<LF>>) \o rest
<1>1. line \in Seq(Byte) /\ \A i \in 1..Len(line) : line[i] # LF
  OBVIOUS
<1>2. PICK n \in Nat : n = Len(line) /\ n + 1 <= limit
  OBVIOUS
<1>3. /\ all \in Seq(Byte) /\ Len(all) = n + 1 + Len(rest) /\ Len(rest) \in Nat
      /\ \A i \in 1..n : all[i] = line[i]
      /\ all[n + 1] = LF
      /\ \A i \in 1..Len(rest) : all[n + 1 + i] = rest[i]
  BY <1>1, <1>2
<1>. HIDE DEF all
<1>4. n + 1 \in Found(LF, all, limit)
  BY <1>2, <1>3 DEF Found, Smaller
<1>5. ASSUME NEW i \in Found(LF, all, limit) PROVE n + 1 <= i
  <2>1. i \in Nat /\ i > 0 /\ all[i] = LF
    BY <1>3 DEF Found, Smaller
  <2>2. i \notin 1..n
    BY <2>1, <1>1, <1>2, <1>3
  <2>. QED BY <2>1, <2>2
<1>6. Min(Found(LF, all, limit)) = n + 1
  BY <1>3, <1>4, <1>5, FoundType, MinIs
<1>7. ~CRBefore(all, n + 1)
  <2>1. SUFFICES ASSUME n + 1 > 1 PROVE all[n + 1 - 1] # CR
    BY DEF CRBefore
  <2>2. n + 1 - 1 = n /\ n \in 1..n /\ line # <<>>
    BY <1>2, <2>1
  <2>. QED BY <2>2, <1>2, <1>3
<1>8. ReadLine(all, limit) = ReadCompleted(n, 1)
  <2>1. (n + 1) - 1 = n /\ (n + 1) - n = 1
    OBVIOUS
  <2>. QED BY <1>4, <1>6, <1>7, <2>1 DEF ReadLine
<1>9. SubSeq(all, 1, n) = line
  BY <1>1, <1>2, <1>3
<1>10. SubSeq(all, n + 1 + 1, Len(all)) = rest
  <2>1. n + 1 \in Nat /\ Len(all) = (n + 1) + Len(rest) /\ all \in Seq(Byte)
    BY <1>2, <1>3
  <2>. QED BY <1>3, <2>1, EndOfSequence, ZenonT(30)
<1>11. ReadCompleted(n, 1).consume = n /\ ReadCompleted(n, 1).skip = 1
       /\ ReadCompleted(n, 1).status = "completed"
  BY DEF ReadCompleted
<1>. QED BY <1>8, <1>9, <1>10, <1>11 DEF Taken, Left, all

\* A line is split at the colon between its name and its value.
LEMMA SplitsLine ==
  ASSUME NEW Byte, ":" \in Byte, NEW name \in Seq(Byte \ {":"}), NEW value \in Seq(Byte)
  PROVE  LET line == (name \o <<":">>) \o value
             separator == Min(Separators(line))
         IN /\ SubSeq(line, 1, separator - 1) = name
            /\ SubSeq(line, separator + 1, Len(line)) = value
<1>. DEFINE line == (name \o <<":">>) \o value
<1>1. name \in Seq(Byte) /\ \A i \in 1..Len(name) : name[i] # ":"
  OBVIOUS
<1>2. PICK n \in Nat : n = Len(name)
  OBVIOUS
<1>3. /\ line \in Seq(Byte) /\ Len(line) = n + 1 + Len(value) /\ Len(value) \in Nat
      /\ \A i \in 1..n : line[i] = name[i]
      /\ line[n + 1] = ":"
      /\ \A i \in 1..Len(value) : line[n + 1 + i] = value[i]
  BY <1>1, <1>2
<1>. HIDE DEF line
<1>4. Separators(line) \in SUBSET Nat /\ n + 1 \in Separators(line)
  BY <1>3 DEF Separators
<1>5. ASSUME NEW i \in Separators(line) PROVE n + 1 <= i
  <2>1. i \in Nat /\ i > 0 /\ line[i] = ":"
    BY <1>3 DEF Separators
  <2>2. i \notin 1..n
    BY <2>1, <1>1, <1>2, <1>3
  <2>. QED BY <2>1, <2>2
<1>6. Min(Separators(line)) = n + 1
  BY <1>4, <1>5, MinIs
<1>7. SubSeq(line, 1, (n + 1) - 1) = name
  BY <1>1, <1>2, <1>3
<1>8. SubSeq(line, (n + 1) + 1, Len(line)) = value
  BY <1>2, <1>3, EndOfSequence
<1>. QED BY <1>6, <1>7, <1>8 DEF line

-----------------------------------------------------------------------------
(* Folds over lists, and header tables.                                     *)

\* Max is known by being the greatest.
LEMMA MaxIs ==
  ASSUME NEW s \in SUBSET Nat, NEW m \in s, \A i \in s : i <= m
  PROVE  Max(s) = m
<1>1. \A x \in s : (\A y \in s : x >= y) <=> x = m
  OBVIOUS
<1>. QED BY <1>1 DEF Max

\* The sets of positions, by their greatest element.
LEMMA PositionsInduct ==
  ASSUME NEW n \in Nat, NEW Good, {} \in Good,
         \A s \in SUBSET (1..n) :
           s # {} /\ Max(s) \in 1..n /\ s \ {Max(s)} \in SUBSET (1..n) /\ s \ {Max(s)} \in Good
             => s \in Good
  PROVE  SUBSET (1..n) \subseteq Good
<1>. DEFINE P == {k \in Nat : k <= n => SUBSET (1..k) \subseteq Good}
<1>1. 0 \in P
  <2>1. 1..0 = {}
    OBVIOUS
  <2>2. SUBSET (1..0) \subseteq Good
    BY <2>1
  <2>. QED BY <2>2
<1>2. ASSUME NEW k \in Nat, k \in P PROVE k + 1 \in P
  <2>1. ASSUME k + 1 <= n, NEW s \in SUBSET (1..(k + 1)) PROVE s \in Good
    <3>1. s \in SUBSET Nat /\ s \in SUBSET (1..n)
      BY <2>1
    <3>2. CASE k + 1 \in s
      <4>1. Max(s) = k + 1
        BY <3>1, <3>2, MaxIs
      <4>2. s \ {k + 1} \in SUBSET (1..k)
        OBVIOUS
      <4>3. s \ {k + 1} \in Good
        BY <4>2, <1>2, <2>1
      <4>. QED BY <2>1, <3>1, <3>2, <4>1, <4>3
    <3>3. CASE k + 1 \notin s
      <4>1. s \in SUBSET (1..k)
        BY <3>3
      <4>. QED BY <4>1, <1>2, <2>1
    <3>. QED BY <3>2, <3>3
  <2>. QED BY <2>1
<1>. HIDE DEF P
<1>3. n \in P
  BY <1>1, <1>2, Induct
<1>. QED BY <1>3 DEF P

\* iter folds step over the positions of each set of them.
Iterates(iter, step, base, n) ==
  \A s \in SUBSET (1..n) :
    iter[s] = IF s = {} THEN base ELSE step[<<iter[s \ {Max(s)}], Max(s)>>]

\* There is such a function.
HasIterate(step, base, S, n) ==
  \E iter \in [SUBSET (1..n) -> S] : Iterates(iter, step, base, n)

\* A step on S can be iterated.
LEMMA IterExists ==
  ASSUME NEW n \in Nat, NEW S, NEW base \in S, NEW step \in [S \X (1..n) -> S]
  PROVE  HasIterate(step, base, S, n)
<1>. DEFINE P == {k \in Nat : k <= n => HasIterate(step, base, S, k)}
<1>1. 0 \in P
  <2>1. 1..0 = {}
    OBVIOUS
  <2>2. Iterates([s \in SUBSET (1..0) |-> base], step, base, 0)
    BY <2>1 DEF Iterates
  <2>. QED BY <2>2 DEF HasIterate
<1>2. ASSUME NEW k \in Nat, k \in P PROVE k + 1 \in P
  <2>0. SUFFICES ASSUME k + 1 <= n
                 PROVE  HasIterate(step, base, S, k + 1)
    OBVIOUS
  <2>1. PICK iter \in [SUBSET (1..k) -> S] : Iterates(iter, step, base, k)
    <3>1. HasIterate(step, base, S, k)
      BY <1>2, <2>0
    <3>. QED BY <3>1 DEF HasIterate
  <2>. DEFINE more == [s \in SUBSET (1..(k + 1)) |->
                 IF k + 1 \in s THEN step[<<iter[s \ {k + 1}], k + 1>>] ELSE iter[s]]
  <2>2. ASSUME NEW s \in SUBSET (1..(k + 1)), k + 1 \in s
        PROVE  /\ s \ {k + 1} \in SUBSET (1..k) /\ s \ {k + 1} \in SUBSET (1..(k + 1))
               /\ Max(s) = k + 1 /\ s # {} /\ k + 1 \notin s \ {k + 1}
    BY <2>2, MaxIs
  <2>3. ASSUME NEW s \in SUBSET (1..(k + 1)), k + 1 \notin s
        PROVE  s \in SUBSET (1..k)
    BY <2>3
  <2>4. more \in [SUBSET (1..(k + 1)) -> S]
    <3>1. ASSUME NEW s \in SUBSET (1..(k + 1)), k + 1 \in s
          PROVE  step[<<iter[s \ {k + 1}], k + 1>>] \in S
      <4>1. <<iter[s \ {k + 1}], k + 1>> \in S \X (1..n)
        BY <2>0, <2>1, <2>2, <3>1
      <4>. QED BY <4>1
    <3>2. ASSUME NEW s \in SUBSET (1..(k + 1)), k + 1 \notin s PROVE iter[s] \in S
      BY <2>1, <2>3, <3>2
    <3>. QED BY <3>1, <3>2
  <2>5. ASSUME NEW s \in SUBSET (1..(k + 1))
        PROVE  more[s] = IF s = {} THEN base ELSE step[<<more[s \ {Max(s)}], Max(s)>>]
    <3>1. CASE k + 1 \in s
      <4>1. more[s] = step[<<iter[s \ {k + 1}], k + 1>>]
        BY <3>1
      <4>2. more[s \ {k + 1}] = iter[s \ {k + 1}]
        BY <3>1, <2>2
      <4>. HIDE DEF more
      <4>. QED BY <4>1, <4>2, <2>2, <3>1
    <3>2. CASE k + 1 \notin s
      <4>1. s \in SUBSET (1..k)
        BY <2>3, <3>2
      <4>2. iter[s] = IF s = {} THEN base ELSE step[<<iter[s \ {Max(s)}], Max(s)>>]
        BY <4>1, <2>1 DEF Iterates
      <4>3. s \ {Max(s)} \in SUBSET (1..(k + 1)) /\ k + 1 \notin s \ {Max(s)}
        BY <3>2
      <4>4. more[s] = iter[s] /\ more[s \ {Max(s)}] = iter[s \ {Max(s)}]
        BY <3>2, <4>3
      <4>. HIDE DEF more
      <4>. QED BY <4>2, <4>4
    <3>. QED BY <3>1, <3>2
  <2>. HIDE DEF more
  <2>6. Iterates(more, step, base, k + 1)
    BY <2>5 DEF Iterates
  <2>. QED BY <2>4, <2>6 DEF HasIterate
<1>. HIDE DEF P
<1>3. n \in P
  BY <1>1, <1>2, Induct
<1>. QED BY <1>3 DEF P

\* A nonempty set of positions has a greatest one.
LEMMA MaxOfPositions ==
  ASSUME NEW n \in Nat, NEW s \in SUBSET (1..n), s # {}
  PROVE  Max(s) \in s
<1>. DEFINE behind == {i \in Nat : n - i \in s}
<1>1. behind # {}
  <2>1. PICK i \in s : TRUE
    OBVIOUS
  <2>2. n - i \in behind
    <3>1. i \in 1..n /\ n - i \in Nat /\ n - (n - i) = i
      OBVIOUS
    <3>. QED BY <3>1
  <2>. QED BY <2>2
<1>2. PICK j \in behind : \A i \in behind : j <= i
  <2>1. behind \in SUBSET Nat
    OBVIOUS
  <2>. HIDE DEF behind
  <2>. QED BY <1>1, <2>1, LeastNumber
<1>3. \A i \in s : i <= n - j
  <2>1. ASSUME NEW i \in s PROVE i <= n - j
    <3>1. i \in 1..n /\ n - i \in Nat /\ n - (n - i) = i
      OBVIOUS
    <3>2. n - i \in behind
      BY <3>1
    <3>3. j \in Nat /\ j <= n - i
      BY <3>2, <1>2
    <3>. QED BY <3>1, <3>3
  <2>. QED BY <2>1
<1>4. n - j \in s /\ s \in SUBSET Nat
  BY <1>2
<1>5. Max(s) = n - j
  BY <1>3, <1>4, MaxIs
<1>. QED BY <1>4, <1>5

\* An operator and the same as a function, on S.
LEMMA IterateType ==
  ASSUME NEW n \in Nat, NEW S, NEW base \in S, NEW step \in [S \X (1..n) -> S], NEW g,
         g[{}] = base,
         \A s \in SUBSET (1..n) :
           s # {} /\ g[s \ {Max(s)}] \in S => g[s] = step[<<g[s \ {Max(s)}], Max(s)>>]
  PROVE  g[1..n] \in S
<1>. DEFINE Good == {s \in SUBSET (1..n) : g[s] \in S}
<1>1. {} \in Good
  OBVIOUS
<1>2. ASSUME NEW s \in SUBSET (1..n), s # {}, Max(s) \in 1..n, s \ {Max(s)} \in Good
      PROVE  s \in Good
  <2>1. g[s \ {Max(s)}] \in S
    BY <1>2
  <2>2. g[s] = step[<<g[s \ {Max(s)}], Max(s)>>]
    BY <1>2, <2>1
  <2>3. <<g[s \ {Max(s)}], Max(s)>> \in S \X (1..n)
    BY <1>2, <2>1
  <2>. QED BY <2>2, <2>3
<1>. HIDE DEF Good
<1>3. SUBSET (1..n) \subseteq Good
  BY <1>1, <1>2, PositionsInduct
<1>. QED BY <1>3 DEF Good

\* Header lines and the tables of first values.
Lines(Byte) == Seq(Seq(Byte) \X Seq(Byte))
Tables(Byte) == UNION {[names -> Seq(Byte)] : names \in SUBSET Seq(Byte)}

\* The table of a header's lines.
HeaderTables(Byte) ==
  {h \in [lines : Lines(Byte), map : Tables(Byte)] :
     \A i \in DOMAIN h.lines : h.lines[i][1] \in DOMAIN h.map}

\* Of two tables the second gives what the first does not.
LEMMA PreferType ==
  ASSUME NEW Byte, NEW first \in Tables(Byte), NEW second \in Tables(Byte)
  PROVE  /\ Prefer(first, second) \in Tables(Byte)
         /\ DOMAIN Prefer(first, second) = DOMAIN first \cup DOMAIN second
<1>1. PICK A \in SUBSET Seq(Byte) : first \in [A -> Seq(Byte)]
  BY DEF Tables
<1>2. PICK B \in SUBSET Seq(Byte) : second \in [B -> Seq(Byte)]
  BY DEF Tables
<1>3. Prefer(first, second) \in [A \cup B -> Seq(Byte)]
  BY <1>1, <1>2 DEF Prefer
<1>4. A \cup B \in SUBSET Seq(Byte)
  OBVIOUS
<1>. QED BY <1>1, <1>2, <1>3, <1>4 DEF Tables

\* A name in lower case is made of the same bytes, and x.
LEMMA LowerCaseType ==
  ASSUME NEW Byte, "x" \in Byte, NEW name \in Seq(Byte)
  PROVE  LowerCase(name) \in Seq(Byte)
BY DEF LowerCase

\* One more line keeps a header table well formed.
LEMMA AppendLineType ==
  ASSUME NEW Byte, "x" \in Byte, NEW h \in HeaderTables(Byte),
         NEW line \in Seq(Byte) \X Seq(Byte)
  PROVE  AppendLine(h, line) \in HeaderTables(Byte)
<1>. DEFINE name == LowerCase(line[1])
            map == FirstCounts(h.map, name, line[2])
            lines == Append(h.lines, <<name, line[2]>>)
<1>1. name \in Seq(Byte) /\ line[2] \in Seq(Byte)
  BY LowerCaseType
<1>. HIDE DEF name
<1>2. h.map \in Tables(Byte) /\ h.lines \in Lines(Byte)
      /\ \A i \in DOMAIN h.lines : h.lines[i][1] \in DOMAIN h.map
  BY DEF HeaderTables
<1>3. [n \in {name} |-> line[2]] \in Tables(Byte)
  <2>1. {name} \in SUBSET Seq(Byte) /\ [n \in {name} |-> line[2]] \in [{name} -> Seq(Byte)]
    BY <1>1
  <2>. QED BY <2>1 DEF Tables
<1>4. map \in Tables(Byte) /\ DOMAIN map = DOMAIN h.map \cup {name}
  <2>1. PICK one \in Tables(Byte) : one = [n \in {name} |-> line[2]] /\ DOMAIN one = {name}
    BY <1>3
  <2>2. map = Prefer(h.map, one)
    BY <2>1 DEF FirstCounts
  <2>. HIDE DEF map
  <2>3. PICK old \in Tables(Byte) : old = h.map
    BY <1>2
  <2>4. /\ Prefer(old, one) \in Tables(Byte)
        /\ DOMAIN Prefer(old, one) = DOMAIN old \cup DOMAIN one
    BY PreferType, ZenonT(30)
  <2>. QED BY <2>1, <2>2, <2>3, <2>4
<1>5. <<name, line[2]>> \in Seq(Byte) \X Seq(Byte)
  BY <1>1
<1>6. lines \in Lines(Byte)
  BY <1>2, <1>5 DEF Lines
<1>7. \A i \in DOMAIN lines : lines[i][1] \in DOMAIN map
  <2>1. PICK old \in Seq(Seq(Byte) \X Seq(Byte)) : old = h.lines
    BY <1>2 DEF Lines
  <2>2. PICK new \in Seq(Byte) \X Seq(Byte) : new = <<name, line[2]>> /\ new[1] = name
    BY <1>5
  <2>3. lines = Append(old, new)
    BY <2>1, <2>2
  <2>4. ASSUME NEW i \in DOMAIN Append(old, new) 
        PROVE  Append(old, new)[i] = new \/ (i \in DOMAIN old /\ Append(old, new)[i] = old[i])
    OBVIOUS
  <2>. HIDE DEF lines, map
  <2>. QED BY <1>2, <1>4, <2>1, <2>2, <2>3, <2>4
<1>8. AppendLine(h, line) = [lines |-> lines, map |-> map]
  BY DEF AppendLine, name
<1>. HIDE DEF lines, map
<1>. QED BY <1>4, <1>6, <1>7, <1>8 DEF HeaderTables

\* The empty header table is well formed.
LEMMA NoHeadersType ==
  ASSUME NEW Byte
  PROVE  NoHeaders \in HeaderTables(Byte)
<1>1. <<>> \in Lines(Byte)
  BY DEF Lines
<1>2. <<>> \in Tables(Byte)
  <2>1. {} \in SUBSET Seq(Byte) /\ <<>> \in [{} -> Seq(Byte)]
    OBVIOUS
  <2>. QED BY <2>1 DEF Tables
<1>. QED BY <1>1, <1>2 DEF NoHeaders, HeaderTables

\* So is the one FrameHeaders.fromEntries makes.
LEMMA NewHeadersType ==
  ASSUME NEW Byte, "x" \in Byte, NEW lines \in Lines(Byte)
  PROVE  NewHeaders(lines) \in HeaderTables(Byte)
<1>. DEFINE S == HeaderTables(Byte)
            n == Len(lines)
            step == [p \in S \X (1..n) |-> AppendLine(p[1], lines[p[2]])]
            Is(iter) == iter = [s \in SUBSET (1..n) |->
               IF s = {} THEN NoHeaders ELSE AppendLine(iter[s \ {Max(s)}], lines[Max(s)])]
<1>0. n \in Nat /\ DOMAIN lines = 1..n /\ \A i \in 1..n : lines[i] \in Seq(Byte) \X Seq(Byte)
  BY DEF Lines
<1>1. step \in [S \X (1..n) -> S] /\ NoHeaders \in S
  BY <1>0, AppendLineType, NoHeadersType
<1>2. \A v \in S : \A i \in 1..n : step[<<v, i>>] = AppendLine(v, lines[i])
  OBVIOUS
<1>3. \A s \in SUBSET (1..n) : s # {} => Max(s) \in 1..n
  BY <1>0, MaxOfPositions
<1>. HIDE DEF S, step, n
<1>4. \E iter : Is(iter)
  <2>1. PICK iter \in [SUBSET (1..n) -> S] : Iterates(iter, step, NoHeaders, n)
    BY <1>0, <1>1, IterExists DEF HasIterate
  <2>2. ASSUME NEW s \in SUBSET (1..n), s # {}
        PROVE  iter[s] = AppendLine(iter[s \ {Max(s)}], lines[Max(s)])
    <3>1. iter[s \ {Max(s)}] \in S
      BY <2>1
    <3>. QED BY <2>1, <2>2, <3>1, <1>2, <1>3 DEF Iterates
  <2>3. {} \in SUBSET (1..n) /\ iter[{}] = NoHeaders
    BY <2>1 DEF Iterates
  <2>4. Is(iter)
    BY <2>1, <2>2, <2>3
  <2>. QED BY <2>4
<1>. DEFINE g == CHOOSE g : Is(g)
<1>5. Is(g)
  BY <1>4
<1>6. NewHeaders(lines) = g[1..n]
  BY <1>0 DEF NewHeaders, FoldLeft, MapThenFoldSet
<1>. HIDE DEF g
<1>7. g[{}] = NoHeaders
  BY <1>5
<1>8. ASSUME NEW s \in SUBSET (1..n), s # {}, g[s \ {Max(s)}] \in S
      PROVE  g[s] = step[<<g[s \ {Max(s)}], Max(s)>>]
  BY <1>2, <1>3, <1>5, <1>8
<1>9. g[1..n] \in S
  BY <1>0, <1>1, <1>7, <1>8, IterateType, ZenonT(30)
<1>. QED BY <1>6, <1>9 DEF S

\* So is what filter keeps.
LEMMA FilterHeadersType ==
  ASSUME NEW Byte, "x" \in Byte, NEW headers \in HeaderTables(Byte), NEW kept
  PROVE  FilterHeaders(headers, kept) \in HeaderTables(Byte)
<1>. DEFINE S == HeaderTables(Byte)
            lines == headers.lines
            n == Len(lines)
            step == [p \in S \X (1..n) |-> AppendKept(p[1], lines[p[2]], kept)]
            Is(iter) == iter = [s \in SUBSET (1..n) |->
               IF s = {} THEN NoHeaders
               ELSE AppendKept(iter[s \ {Max(s)}], lines[Max(s)], kept)]
<1>0. n \in Nat /\ DOMAIN lines = 1..n /\ \A i \in 1..n : lines[i] \in Seq(Byte) \X Seq(Byte)
  <2>1. lines \in Lines(Byte)
    BY DEF HeaderTables
  <2>. QED BY <2>1 DEF Lines
<1>1. step \in [S \X (1..n) -> S] /\ NoHeaders \in S
  <2>1. ASSUME NEW h \in S, NEW i \in 1..n PROVE AppendKept(h, lines[i], kept) \in S
    BY <1>0, AppendLineType DEF AppendKept
  <2>. HIDE DEF S, n
  <2>. QED BY <2>1, NoHeadersType DEF S
<1>2. \A v \in S : \A i \in 1..n : step[<<v, i>>] = AppendKept(v, lines[i], kept)
  OBVIOUS
<1>3. \A s \in SUBSET (1..n) : s # {} => Max(s) \in 1..n
  BY <1>0, MaxOfPositions
<1>. HIDE DEF S, step, n
<1>4. \E iter : Is(iter)
  <2>1. PICK iter \in [SUBSET (1..n) -> S] : Iterates(iter, step, NoHeaders, n)
    BY <1>0, <1>1, IterExists DEF HasIterate
  <2>2. ASSUME NEW s \in SUBSET (1..n), s # {}
        PROVE  iter[s] = AppendKept(iter[s \ {Max(s)}], lines[Max(s)], kept)
    <3>1. iter[s \ {Max(s)}] \in S
      BY <2>1
    <3>. QED BY <2>1, <2>2, <3>1, <1>2, <1>3 DEF Iterates
  <2>3. {} \in SUBSET (1..n) /\ iter[{}] = NoHeaders
    BY <2>1 DEF Iterates
  <2>4. Is(iter)
    BY <2>1, <2>2, <2>3
  <2>. QED BY <2>4
<1>. DEFINE g == CHOOSE g : Is(g)
<1>5. Is(g)
  BY <1>4
<1>6. FilterHeaders(headers, kept) = g[1..n]
  BY <1>0 DEF FilterHeaders, FoldLeft, MapThenFoldSet
<1>. HIDE DEF g
<1>7. g[{}] = NoHeaders
  BY <1>5
<1>8. ASSUME NEW s \in SUBSET (1..n), s # {}, g[s \ {Max(s)}] \in S
      PROVE  g[s] = step[<<g[s \ {Max(s)}], Max(s)>>]
  BY <1>2, <1>3, <1>5, <1>8
<1>9. g[1..n] \in S
  BY <1>0, <1>1, <1>7, <1>8, IterateType, ZenonT(30)
<1>. QED BY <1>6, <1>9 DEF S

\* The first lines of their names are lines.
LEMMA FirstLinesType ==
  ASSUME NEW Line, NEW lines \in Seq(Line)
  PROVE  FirstLines(lines) \in Seq(Line)
<1>. DEFINE S == Seq(Line)
            n == Len(lines)
            positions == [i \in DOMAIN lines |-> i]
            More(firsts, i) ==
              IF \A j \in 1..(i - 1) : lines[j][1] # lines[i][1]
                THEN Append(firsts, lines[i]) ELSE firsts
            step == [p \in S \X (1..n) |-> More(p[1], p[2])]
            Is(iter) == iter = [s \in SUBSET DOMAIN positions |->
               IF s = {} THEN <<>> ELSE More(iter[s \ {Max(s)}], positions[Max(s)])]
<1>0. n \in Nat /\ DOMAIN lines = 1..n /\ \A i \in 1..n : lines[i] \in Line
  OBVIOUS
<1>1. step \in [S \X (1..n) -> S] /\ <<>> \in S
  <2>1. ASSUME NEW h \in S, NEW i \in 1..n PROVE More(h, i) \in S
    BY <1>0
  <2>. HIDE DEF n, More
  <2>. QED BY <2>1
<1>2. \A v \in S : \A i \in 1..n : step[<<v, i>>] = More(v, i)
  <2>. HIDE DEF n, More
  <2>. QED OBVIOUS
<1>3. \A s \in SUBSET (1..n) : s # {} => Max(s) \in 1..n
  BY <1>0, MaxOfPositions
<1>4. DOMAIN positions = 1..n /\ \A i \in 1..n : positions[i] = i
  BY <1>0
<1>5. FirstLines(lines) = (CHOOSE iter : Is(iter))[DOMAIN positions]
  BY DEF FirstLines, FoldLeftDomain, FoldLeft, MapThenFoldSet
<1>. HIDE DEF S, step, n, positions, More
<1>6. \E iter : Is(iter)
  <2>1. PICK iter \in [SUBSET (1..n) -> S] : Iterates(iter, step, <<>>, n)
    BY <1>0, <1>1, IterExists DEF HasIterate
  <2>2. ASSUME NEW s \in SUBSET (1..n), s # {}
        PROVE  iter[s] = More(iter[s \ {Max(s)}], positions[Max(s)])
    <3>1. iter[s \ {Max(s)}] \in S
      BY <2>1
    <3>. QED BY <2>1, <2>2, <3>1, <1>2, <1>3, <1>4 DEF Iterates
  <2>3. {} \in SUBSET (1..n) /\ iter[{}] = <<>>
    BY <2>1 DEF Iterates
  <2>4. Is(iter)
    BY <2>1, <2>2, <2>3, <1>4
  <2>. QED BY <2>4
<1>. DEFINE g == CHOOSE g : Is(g)
<1>7. Is(g)
  BY <1>6
<1>8. FirstLines(lines) = g[1..n]
  BY <1>4, <1>5
<1>. HIDE DEF g
<1>9. g[{}] = <<>>
  BY <1>4, <1>7
<1>10. ASSUME NEW s \in SUBSET (1..n), s # {}, g[s \ {Max(s)}] \in S
       PROVE  g[s] = step[<<g[s \ {Max(s)}], Max(s)>>]
  <2>1. g[s] = More(g[s \ {Max(s)}], Max(s))
    BY <1>3, <1>4, <1>7, <1>10
  <2>. QED BY <2>1, <1>2, <1>3, <1>10
<1>11. g[1..n] \in S
  BY <1>0, <1>1, <1>9, <1>10, IterateType
<1>. QED BY <1>8, <1>11 DEF S

\* So is what merge makes of two.
LEMMA MergeHeadersType ==
  ASSUME NEW Byte, NEW older \in HeaderTables(Byte), NEW newer \in HeaderTables(Byte)
  PROVE  MergeHeaders(older, newer) \in HeaderTables(Byte)
<1>. DEFINE map == Prefer(newer.map, older.map)
            both == older.lines \o newer.lines
            names == FirstLines(both)
            lines == [i \in DOMAIN names |-> <<names[i][1], map[names[i][1]]>>]
            Line == {l \in Seq(Byte) \X Seq(Byte) : l[1] \in DOMAIN map}
<1>1. PICK a, b \in Tables(Byte) : a = newer.map /\ b = older.map
  BY DEF HeaderTables
<1>2. map \in Tables(Byte) /\ DOMAIN map = DOMAIN older.map \cup DOMAIN newer.map
  <2>1. Prefer(a, b) \in Tables(Byte) /\ DOMAIN Prefer(a, b) = DOMAIN a \cup DOMAIN b
    BY PreferType, ZenonT(30)
  <2>. QED BY <1>1, <2>1
<1>. HIDE DEF map
<1>3. both \in Seq(Line)
  <2>1. ASSUME NEW h \in HeaderTables(Byte), DOMAIN h.map \subseteq DOMAIN map
        PROVE  h.lines \in Seq(Line)
    <3>1. PICK ls \in Seq(Seq(Byte) \X Seq(Byte)) : ls = h.lines
      BY DEF HeaderTables, Lines
    <3>2. \A i \in 1..Len(ls) : ls[i] \in Line
      BY <2>1, <3>1 DEF HeaderTables
    <3>. HIDE DEF Line
    <3>3. ls \in [1..Len(ls) -> Line] /\ Len(ls) \in Nat
      BY <3>2
    <3>4. PICK k \in Nat : ls \in [1..k -> Line]
      BY <3>3
    <3>5. ls \in Seq(Line)
      BY <3>4
    <3>. QED BY <3>1, <3>5
  <2>2. older.lines \in Seq(Line) /\ newer.lines \in Seq(Line)
    BY <1>2, <2>1
  <2>. HIDE DEF Line
  <2>. QED BY <2>2
<1>. HIDE DEF Line, both
<1>4. names \in Seq(Line)
  BY <1>3, FirstLinesType
<1>. HIDE DEF names
<1>5. \A i \in DOMAIN names : names[i][1] \in Seq(Byte) /\ names[i][1] \in DOMAIN map
                              /\ map[names[i][1]] \in Seq(Byte)
  <2>1. \A i \in DOMAIN names : names[i] \in Line
    BY <1>4
  <2>2. PICK A \in SUBSET Seq(Byte) : map \in [A -> Seq(Byte)]
    BY <1>2 DEF Tables
  <2>. QED BY <2>1, <2>2 DEF Line
<1>6. lines \in Lines(Byte) /\ DOMAIN lines = DOMAIN names
  <2>1. PICK n \in Nat : DOMAIN names = 1..n
    BY <1>4
  <2>2. lines \in [1..n -> Seq(Byte) \X Seq(Byte)]
    BY <1>5, <2>1
  <2>3. lines \in Seq(Seq(Byte) \X Seq(Byte))
    BY <2>2
  <2>. QED BY <2>3 DEF Lines
<1>7. \A i \in DOMAIN lines : lines[i][1] \in DOMAIN map
  BY <1>5, <1>6
<1>8. MergeHeaders(older, newer) = [lines |-> lines, map |-> map]
  BY DEF MergeHeaders, map, names, both
<1>. HIDE DEF lines
<1>. QED BY <1>2, <1>6, <1>7, <1>8 DEF HeaderTables

\* The digits are digits.
LEMMA DigitsFromType ==
  ASSUME NEW Byte, NEW value \in Seq(Byte), NEW first \in Nat \ {0}
  PROVE  DigitsFrom(value, first) \in Seq(Digits)
<1>. DEFINE others == {i \in first..Len(value) : value[i] \notin Digits}
            last == IF others = {} THEN Len(value) ELSE Min(others) - 1
<1>1. PICK m \in Int : m = last /\ \A i \in first..m : value[i] \in Digits
  <2>1. CASE others = {}
    BY <2>1
  <2>2. CASE others # {}
    <3>1. others \in SUBSET Nat
      OBVIOUS
    <3>2. PICK k \in others : k = Min(others) /\ \A i \in others : k <= i
      BY <2>2, <3>1, MinIsLeast
    <3>3. k - 1 \in Int /\ last = k - 1
      BY <2>2, <3>1, <3>2
    <3>4. \A i \in first..(k - 1) : value[i] \in Digits
      BY <3>2
    <3>. QED BY <3>3, <3>4
  <2>. QED BY <2>1, <2>2
<1>2. DigitsFrom(value, first) = SubSeq(value, first, m)
  BY <1>1 DEF DigitsFrom
<1>3. SubSeq(value, first, m) \in Seq(Digits)
  BY <1>1, SubSeqProperties
<1>. QED BY <1>2, <1>3

\* parseInt gives an integer or NaN, the empty set.
LEMMA ParseIntType ==
  ASSUME NEW Byte, NEW value \in Seq(Byte)
  PROVE  ParseInt(value) = {} \/ \E k \in Int : ParseInt(value) = {k}
<1>. DEFINE negative == value # <<>> /\ Head(value) = "-"
            digits == DigitsFrom(value, IF negative THEN 2 ELSE 1)
            digit(c) == CHOOSE k \in 0..9 : ToString(k) = c
            n == Len(digits)
            step == [p \in Int \X (1..n) |-> 10 * p[1] + digit(digits[p[2]])]
            Is(iter) == iter = [s \in SUBSET DOMAIN digits |->
               IF s = {} THEN 0 ELSE 10 * iter[s \ {Max(s)}] + digit(digits[Max(s)])]
            number0 == (CHOOSE iter : Is(iter))[DOMAIN digits]
<1>0. digits \in Seq(Digits) /\ n \in Nat /\ DOMAIN digits = 1..n
      /\ \A i \in 1..n : digits[i] \in Digits
  <2>1. digits \in Seq(Digits)
    BY DigitsFromType
  <2>. HIDE DEF digits
  <2>. QED BY <2>1
<1>1. ParseInt(value) = IF digits = <<>> THEN {}
                        ELSE {IF negative THEN -number0 ELSE number0}
  BY DEF ParseInt, FoldLeft, MapThenFoldSet
<1>2. \A c \in Digits : digit(c) \in Int
  BY DEF Digits
<1>. HIDE DEF digits, negative, digit
<1>3. step \in [Int \X (1..n) -> Int]
  <2>1. ASSUME NEW k \in Int, NEW i \in 1..n PROVE 10 * k + digit(digits[i]) \in Int
    BY <1>0, <1>2
  <2>. HIDE DEF n
  <2>. QED BY <2>1
<1>4. \A v \in Int : \A i \in 1..n : step[<<v, i>>] = 10 * v + digit(digits[i])
  OBVIOUS
<1>5. \A s \in SUBSET (1..n) : s # {} => Max(s) \in 1..n
  BY <1>0, MaxOfPositions
<1>. HIDE DEF step, n
<1>6. \E iter : Is(iter)
  <2>1. PICK iter \in [SUBSET (1..n) -> Int] : Iterates(iter, step, 0, n)
    <3>1. 0 \in Int
      OBVIOUS
    <3>2. HasIterate(step, 0, Int, n)
      BY <1>0, <1>3, <3>1, IterExists, Zenon
    <3>. QED BY <3>2 DEF HasIterate
  <2>2. ASSUME NEW s \in SUBSET (1..n), s # {}
        PROVE  iter[s] = 10 * iter[s \ {Max(s)}] + digit(digits[Max(s)])
    <3>1. iter[s \ {Max(s)}] \in Int
      BY <2>1
    <3>2. iter[s] = step[<<iter[s \ {Max(s)}], Max(s)>>]
      BY <2>1, <2>2 DEF Iterates
    <3>. QED BY <2>2, <3>1, <3>2, <1>4, <1>5
  <2>3. {} \in SUBSET (1..n) /\ iter[{}] = 0
    BY <2>1 DEF Iterates
  <2>4. Is(iter)
    BY <2>1, <2>2, <2>3, <1>0
  <2>. QED BY <2>4
<1>. DEFINE g == CHOOSE g : Is(g)
<1>7. Is(g)
  BY <1>6
<1>8. number0 = g[1..n]
  BY <1>0
<1>. HIDE DEF g, number0
<1>9. g[{}] = 0
  BY <1>0, <1>7
<1>10. ASSUME NEW s \in SUBSET (1..n), s # {}, g[s \ {Max(s)}] \in Int
       PROVE  g[s] = step[<<g[s \ {Max(s)}], Max(s)>>]
  <2>1. g[s] = 10 * g[s \ {Max(s)}] + digit(digits[Max(s)])
    BY <1>0, <1>7, <1>10
  <2>. QED BY <2>1, <1>4, <1>5, <1>10
<1>11. g[1..n] \in Int
  <2>1. 0 \in Int
    OBVIOUS
  <2>2. \A s \in SUBSET (1..n) :
          s # {} /\ g[s \ {Max(s)}] \in Int => g[s] = step[<<g[s \ {Max(s)}], Max(s)>>]
    BY <1>10
  <2>3. PICK S : S = Int
    OBVIOUS
  <2>4. PICK base : base = 0
    OBVIOUS
  <2>5. base \in S /\ step \in [S \X (1..n) -> S] /\ g[{}] = base
    BY <1>3, <1>9, <2>1, <2>3, <2>4
  <2>6. \A s \in SUBSET (1..n) :
          s # {} /\ g[s \ {Max(s)}] \in S => g[s] = step[<<g[s \ {Max(s)}], Max(s)>>]
    BY <2>2, <2>3
  <2>7. g[1..n] \in S
    BY <1>0, <2>5, <2>6, IterateType, ZenonT(30)
  <2>. QED BY <2>3, <2>7
<1>12. number0 \in Int
  BY <1>8, <1>11
<1>. QED BY <1>1, <1>12
=============================================================================
