------------------------- MODULE FrameReaderProofs -------------------------
(***************************************************************************)
(* Proofs about FrameReader: for streams of every length over every set of *)
(* bytes, the frames returned are those of the byte-by-byte reference, and *)
(* what the relay writes reads back, also when it is cut short.            *)
(***************************************************************************)
EXTENDS FrameReader, TraceFormatProofs

-----------------------------------------------------------------------------
(* The reference, one byte at a time *)

Strings == Seq(Bytes)
Scan    == [frames : Seq(Strings), text : Strings, bad : BOOLEAN]
Start == Rec(<<>>, <<>>, FALSE)

\* Strings are named so that the provers need not unfold Seq(Seq(Bytes)).
LEMMA StringFacts ==
    /\ <<>> \in Strings
    /\ \A s \in Strings : s \in Seq(Bytes) /\ Joined(s, <<>>) = s /\ Joined(<<>>, s) = s
    /\ \A s, t \in Strings : Joined(s, t) \in Strings
    /\ \A s, t \in Strings : \A c \in Bytes :
         Append(s, c) \in Strings /\ Joined(s, Append(t, c)) = Append(Joined(s, t), c)
  BY DEF Strings, Joined

LEMMA StringInduction ==
    ASSUME NEW P, <<>> \in P, \A s \in Strings, c \in Bytes : s \in P => Append(s, c) \in P
    PROVE  Strings \subseteq P
  BY SeqSetInduction DEF Strings

Before(p, q) == Len(p) <= Len(q) /\ \A i \in 1 .. Len(p) : p[i] = q[i]

LEMMA GrowOne ==
    ASSUME NEW S, NEW p \in Seq(S), NEW q \in Seq(S), NEW w, Before(p, q),
           w = q \/ \E v \in S : w = Append(q, v)
    PROVE  Before(p, w)
  <1>1. CASE w = q
    BY <1>1
  <1>2. ASSUME NEW v \in S, w = Append(q, v) PROVE Before(p, w)
    <2>1. Len(w) = Len(q) + 1 /\ \A i \in 1 .. Len(q) : w[i] = q[i]
      BY <1>2
    <2> QED
      BY <2>1 DEF Before
  <1> QED
    BY <1>1, <1>2

IsScan(g, s, m) ==
    g = [n \in 0 .. m |-> IF n = 0 THEN Start ELSE ScanByte(g[n - 1], s[n])]

LEMMA ScanAt ==
    ASSUME NEW g, NEW s, NEW m, IsScan(g, s, m), NEW n \in 0 .. m
    PROVE  g[n] = IF n = 0 THEN Start ELSE ScanByte(g[n - 1], s[n])
  <1> DEFINE f == [i \in 0 .. m |-> IF i = 0 THEN Start ELSE ScanByte(g[i - 1], s[i])]
  <1>1. g = f
    BY DEF IsScan
  <1>2. f[n] = IF n = 0 THEN Start ELSE ScanByte(g[n - 1], s[n])
    OBVIOUS
  <1> HIDE DEF f
  <1> QED
    BY <1>1, <1>2

LEMMA ScanExists ==
    ASSUME NEW s, NEW m \in Nat
    PROVE  \E g : IsScan(g, s, m)
  <1> DEFINE G == {k \in Nat : \E g : IsScan(g, s, k)}
  <1>1. 0 \in G
    <2> DEFINE g0 == [n \in 0 .. 0 |-> Start]
    <2>1. IsScan(g0, s, 0)
      BY DEF IsScan
    <2> QED
      BY <2>1
  <1>2. ASSUME NEW k \in Nat, k \in G PROVE k + 1 \in G
    <2>1. PICK g : IsScan(g, s, k)
      BY <1>2
    <2> DEFINE h == [n \in 0 .. k + 1 |->
                      IF n <= k THEN g[n] ELSE ScanByte(g[n - 1], s[n])]
    <2>2. \A n \in 0 .. k + 1 : h[n] = IF n = 0 THEN Start ELSE ScanByte(h[n - 1], s[n])
      <3> SUFFICES ASSUME NEW n \in 0 .. k + 1
                   PROVE  h[n] = IF n = 0 THEN Start ELSE ScanByte(h[n - 1], s[n])
        OBVIOUS
      <3>1. n # 0 => n - 1 \in 0 .. k /\ h[n - 1] = g[n - 1]
        OBVIOUS
      <3>2. CASE n <= k
        <4>1. g[n] = IF n = 0 THEN Start ELSE ScanByte(g[n - 1], s[n])
          BY <2>1, <3>2, ScanAt
        <4> QED
          BY <3>1, <3>2, <4>1
      <3>3. CASE n = k + 1
        BY <3>1, <3>3
      <3> QED
        BY <3>2, <3>3
    <2>3. IsScan(h, s, k + 1)
      BY <2>2 DEF IsScan
    <2> QED
      BY <2>3
  <1>3. Nat \subseteq G
    <2> HIDE DEF G
    <2> QED
      BY <1>1, <1>2, SetInduction
  <1> QED
    BY <1>3

LEMMA ScannedIsScan ==
    ASSUME NEW S, NEW s \in Seq(S)
    PROVE  \E g : IsScan(g, s, Len(s)) /\ Scanned(s) = g[Len(s)]
  <1> DEFINE k == CHOOSE g : IsScan(g, s, Len(s))
  <1>1. IsScan(k, s, Len(s))
    BY ScanExists
  <1>2. Scanned(s) = k[Len(s)]
    BY DEF Scanned, IsScan, Start
  <1> QED
    BY <1>1, <1>2

LEMMA ScanSame ==
    ASSUME NEW g, NEW h, NEW s, NEW t, NEW m \in Nat, NEW n \in Nat, m <= n,
           IsScan(g, s, m), IsScan(h, t, n), \A i \in 1 .. m : s[i] = t[i]
    PROVE  \A i \in 0 .. m : g[i] = h[i]
  <1> DEFINE G == {i \in Nat : i <= m => g[i] = h[i]}
  <1>1. 0 \in G
    BY ScanAt
  <1>2. ASSUME NEW i \in Nat, i \in G PROVE i + 1 \in G
    <2> SUFFICES ASSUME i + 1 <= m PROVE g[i + 1] = h[i + 1]
      OBVIOUS
    <2>1. i + 1 \in 0 .. m /\ i + 1 \in 0 .. n /\ i + 1 # 0 /\ (i + 1) - 1 = i
      OBVIOUS
    <2>2. g[i + 1] = ScanByte(g[i], s[i + 1])
      BY <2>1, ScanAt
    <2>3. h[i + 1] = ScanByte(h[i], t[i + 1])
      BY <2>1, ScanAt
    <2>4. g[i] = h[i] /\ s[i + 1] = t[i + 1]
      BY <1>2, <2>1
    <2> QED
      BY <2>2, <2>3, <2>4
  <1>3. Nat \subseteq G
    <2> HIDE DEF G
    <2> QED
      BY <1>1, <1>2, SetInduction
  <1> QED
    BY <1>3

\* Nothing has been scanned of the empty stream, ...
LEMMA ScanEmpty == Scanned(<<>>) = Start
  <1>1. <<>> \in Seq({}) /\ Len(<<>>) = 0
    OBVIOUS
  <1>2. PICK g : IsScan(g, <<>>, 0) /\ Scanned(<<>>) = g[0]
    BY <1>1, ScannedIsScan
  <1> QED
    BY <1>2, ScanAt

\* ... and one more byte is one more ScanByte.
LEMMA ScanAppend ==
    ASSUME NEW S, NEW s \in Seq(S), NEW c \in S
    PROVE  Scanned(Append(s, c)) = ScanByte(Scanned(s), c)
  <1> DEFINE t == Append(s, c)
             n == Len(s)
  <1>1. /\ t \in Seq(S) /\ Len(t) = n + 1 /\ n \in Nat
        /\ t[n + 1] = c /\ \A i \in 1 .. n : s[i] = t[i]
    OBVIOUS
  <1> HIDE DEF t
  <1>2. PICK g : IsScan(g, s, n) /\ Scanned(s) = g[n]
    BY ScannedIsScan
  <1>3. PICK h : IsScan(h, t, n + 1) /\ Scanned(t) = h[n + 1]
    BY <1>1, ScannedIsScan
  <1>4. g[n] = h[n]
    BY <1>1, <1>2, <1>3, ScanSame
  <1>5. h[n + 1] = ScanByte(h[n], t[n + 1])
    <2>1. n + 1 \in 0 .. n + 1 /\ n + 1 # 0 /\ (n + 1) - 1 = n
      BY <1>1
    <2> QED
      BY <1>3, <2>1, ScanAt
  <1> QED
    BY <1>1, <1>2, <1>3, <1>4, <1>5 DEF t

\* How EndText and Chomp keep to their types, and what an ended text does to
\* the frames.
LEMMA ChompType ==
    ASSUME NEW t \in Strings
    PROVE  Chomp(t) \in Strings
  BY DEF Chomp, Front, Strings

LEMMA EndTextType ==
    ASSUME NEW r \in Scan, NEW t \in Strings
    PROVE  /\ EndText(r, t) \in Scan
           /\ EndText(r, t).frames = r.frames \/ EndText(r, t).frames = Append(r.frames, t)
           /\ r.bad => EndText(r, t).bad /\ EndText(r, t).frames = r.frames
  <1>1. /\ r.frames \in Seq(Strings) /\ r.bad \in BOOLEAN
        /\ Append(r.frames, t) \in Seq(Strings) /\ <<>> \in Strings
    BY DEF Scan, Strings
  <1>2. CASE r.bad \/ t = <<>>
    <2>1. EndText(r, t) = Rec(r.frames, <<>>, r.bad)
      BY <1>2 DEF EndText
    <2> QED
      BY <1>1, <2>1 DEF Scan, Rec
  <1>3. CASE ~(r.bad \/ t = <<>>) /\ ParsesBytes(t)
    <2>1. EndText(r, t) = Rec(Append(r.frames, t), <<>>, FALSE)
      BY <1>3 DEF EndText
    <2> QED
      BY <1>1, <1>3, <2>1 DEF Scan, Rec
  <1>4. CASE ~(r.bad \/ t = <<>>) /\ ~ParsesBytes(t)
    <2>1. EndText(r, t) = Rec(r.frames, <<>>, TRUE)
      BY <1>4 DEF EndText
    <2> QED
      BY <1>1, <1>4, <2>1 DEF Scan, Rec
  <1> QED
    BY <1>2, <1>3, <1>4

LEMMA EndTextOf ==
    ASSUME NEW fs \in Seq(Strings), NEW u, NEW t \in Strings
    PROVE  EndText(Rec(fs, u, FALSE), t) =
             IF t = <<>> THEN Rec(fs, <<>>, FALSE)
             ELSE IF ParsesBytes(t) THEN Rec(Append(fs, t), <<>>, FALSE)
             ELSE Rec(fs, <<>>, TRUE)
  BY DEF EndText, Rec

LEMMA ScanByteType ==
    ASSUME NEW r \in Scan, NEW c \in Bytes
    PROVE  /\ ScanByte(r, c) \in Scan
           /\ \/ ScanByte(r, c).frames = r.frames
              \/ \E t \in Strings : ScanByte(r, c).frames = Append(r.frames, t)
           /\ r.bad => ScanByte(r, c).bad /\ ScanByte(r, c).frames = r.frames
  <1>1. CASE c = LF
    <2>1. r.text \in Strings
      BY DEF Scan
    <2>2. Chomp(r.text) \in Strings
      BY <2>1, ChompType
    <2>3. ScanByte(r, c) = EndText(r, Chomp(r.text))
      BY <1>1 DEF ScanByte
    <2> QED
      BY <2>2, <2>3, EndTextType
  <1>2. CASE c # LF
    <2>1. ScanByte(r, c) = Rec(r.frames, Append(r.text, c), r.bad)
      BY <1>2 DEF ScanByte
    <2>2. Append(r.text, c) \in Strings
      BY DEF Scan, Strings
    <2> QED
      BY <2>1, <2>2 DEF Scan, Rec
  <1> QED
    BY <1>1, <1>2

LEMMA ScanType ==
    ASSUME NEW s \in Strings
    PROVE  Scanned(s) \in Scan
  <1> DEFINE P == {t \in Strings : Scanned(t) \in Scan}
  <1>1. <<>> \in P
    <2>1. <<>> \in Strings /\ <<>> \in Seq(Strings)
      BY DEF Strings
    <2>2. \A e, f : e \in Seq(Strings) /\ f \in Strings => Rec(e, f, FALSE) \in Scan
      BY DEF Rec, Scan
    <2> QED
      BY <2>1, <2>2, ScanEmpty, Zenon DEF Start
  <1>2. ASSUME NEW t \in Strings, NEW c \in Bytes, t \in P PROVE Append(t, c) \in P
    <2>1. Append(t, c) \in Strings
      BY StringFacts
    <2>2. Scanned(Append(t, c)) = ScanByte(Scanned(t), c)
      BY ScanAppend DEF Strings
    <2> QED
      BY <1>2, <2>1, <2>2, ScanByteType
  <1>3. Strings \subseteq P
    <2> HIDE DEF P
    <2> QED
      BY <1>1, <1>2, StringInduction
  <1> QED
    BY <1>3

NoLF(t) == \A k \in 1 .. Len(t) : t[k] # LF

\* Bytes that are no newline only make the text longer.
LEMMA ScanText ==
    ASSUME NEW s \in Strings, NEW fs, NEW u \in Strings, NEW b,
           Scanned(s) = Rec(fs, u, b)
    PROVE  \A t \in Strings : NoLF(t) => Scanned(Joined(s, t)) = Rec(fs, Joined(u, t), b)
  <1> DEFINE P == {t \in Strings :
                     NoLF(t) => Scanned(Joined(s, t)) = Rec(fs, Joined(u, t), b)}
  <1>1. <<>> \in P
    <2>1. Joined(s, <<>>) = s /\ Joined(u, <<>>) = u /\ <<>> \in Strings
      BY StringFacts
    <2> QED
      BY <2>1
  <1>2. ASSUME NEW t \in Strings, NEW c \in Bytes, t \in P PROVE Append(t, c) \in P
    <2> SUFFICES ASSUME NoLF(Append(t, c))
                 PROVE  Scanned(Joined(s, Append(t, c))) = Rec(fs, Joined(u, Append(t, c)), b)
      BY StringFacts
    <2>1. NoLF(t) /\ c # LF
      <3> DEFINE l == Append(t, c)
      <3>1. /\ Len(l) = Len(t) + 1 /\ l[Len(t) + 1] = c /\ Len(t) \in Nat
            /\ \A k \in 1 .. Len(t) : l[k] = t[k]
        BY DEF Strings
      <3>2. \A k \in 1 .. Len(l) : l[k] # LF
        BY DEF NoLF
      <3> HIDE DEF l
      <3>3. c # LF /\ \A k \in 1 .. Len(t) : t[k] # LF
        BY <3>1, <3>2
      <3> QED
        BY <3>3 DEF NoLF
    <2>2. /\ Joined(s, t) \in Strings /\ Joined(s, Append(t, c)) = Append(Joined(s, t), c)
          /\ Joined(u, Append(t, c)) = Append(Joined(u, t), c)
      BY StringFacts
    <2>3. Scanned(Append(Joined(s, t), c)) = ScanByte(Scanned(Joined(s, t)), c)
      BY <2>2, ScanAppend DEF Strings
    <2>4. ScanByte(Rec(fs, Joined(u, t), b), c) = Rec(fs, Append(Joined(u, t), c), b)
      BY <2>1 DEF ScanByte, Rec
    <2> QED
      BY <1>2, <2>1, <2>2, <2>3, <2>4
  <1>3. Strings \subseteq P
    <2> HIDE DEF P
    <2> QED
      BY <1>1, <1>2, StringInduction
  <1> QED
    BY <1>3

\* Frames found are never lost, and after a bad text none are found.
LEMMA ScanGrows ==
    ASSUME NEW s \in Strings
    PROVE  \A t \in Strings :
             /\ Before(Scanned(s).frames, Scanned(Joined(s, t)).frames)
             /\ Scanned(s).bad => /\ Scanned(Joined(s, t)).bad
                                  /\ Scanned(Joined(s, t)).frames = Scanned(s).frames
  <1> DEFINE Good(t) ==
               /\ Before(Scanned(s).frames, Scanned(Joined(s, t)).frames)
               /\ Scanned(s).bad => /\ Scanned(Joined(s, t)).bad
                                    /\ Scanned(Joined(s, t)).frames = Scanned(s).frames
             P == {t \in Strings : Good(t)}
  <1>1. <<>> \in P
    <2>1. Joined(s, <<>>) = s /\ <<>> \in Strings
      BY StringFacts
    <2>2. Scanned(s).frames \in Seq(Strings)
      BY ScanType DEF Scan
    <2> QED
      BY <2>1, <2>2 DEF Before
  <1>2. ASSUME NEW t \in Strings, NEW c \in Bytes, t \in P PROVE Append(t, c) \in P
    <2> DEFINE r == Scanned(Joined(s, t))
               q == Scanned(Joined(s, Append(t, c)))
    <2>1. /\ Joined(s, t) \in Strings /\ Joined(s, Append(t, c)) = Append(Joined(s, t), c)
          /\ Append(t, c) \in Strings
      BY StringFacts
    <2>2. q = ScanByte(r, c)
      BY <2>1, ScanAppend DEF Strings
    <2>3. r \in Scan /\ Scanned(s) \in Scan
      BY <2>1, ScanType
    <2>4. /\ q.frames = r.frames \/ \E v \in Strings : q.frames = Append(r.frames, v)
          /\ r.bad => q.bad /\ q.frames = r.frames
      BY <2>2, <2>3, ScanByteType
    <2>5. /\ Before(Scanned(s).frames, r.frames)
          /\ Scanned(s).bad => r.bad /\ r.frames = Scanned(s).frames
      BY <1>2
    <2>6. r.frames \in Seq(Strings) /\ Scanned(s).frames \in Seq(Strings)
      BY <2>3 DEF Scan
    <2> HIDE DEF q, r
    <2>7. Before(Scanned(s).frames, q.frames)
      BY <2>4, <2>5, <2>6, GrowOne, Zenon
    <2> QED
      BY <2>1, <2>4, <2>5, <2>7 DEF q, r
  <1>3. Strings \subseteq P
    <2> HIDE DEF P
    <2> QED
      BY <1>1, <1>2, StringInduction
  <1> QED
    BY <1>3

\* So the frames of a stream begin with those found in any part read so far,
\* and are those if a bad text was among them.
LEMMA FramesSoFar ==
    ASSUME NEW s \in Strings, NEW t \in Strings
    PROVE  /\ FramesOf(Joined(s, t)) \in Seq(Strings)
           /\ Before(Scanned(s).frames, FramesOf(Joined(s, t)))
           /\ Scanned(s).bad => FramesOf(Joined(s, t)) = Scanned(s).frames
  <1> DEFINE a == Scanned(s)
             r == Scanned(Joined(s, t))
  <1>1. Joined(s, t) \in Strings
    BY StringFacts
  <1>2. a \in Scan /\ r \in Scan
    BY <1>1, ScanType
  <1>3. Before(a.frames, r.frames) /\ (a.bad => r.bad /\ r.frames = a.frames)
    BY ScanGrows
  <1>4. FramesOf(Joined(s, t)) = EndText(r, r.text).frames
    BY DEF FramesOf
  <1> HIDE DEF a, r
  <1>5. r.text \in Strings /\ r.frames \in Seq(Strings) /\ a.frames \in Seq(Strings)
    BY <1>2 DEF Scan
  <1>6. /\ EndText(r, r.text) \in Scan
        /\ EndText(r, r.text).frames = r.frames
             \/ EndText(r, r.text).frames = Append(r.frames, r.text)
        /\ r.bad => EndText(r, r.text).frames = r.frames
    BY <1>2, <1>5, EndTextType
  <1>7. FramesOf(Joined(s, t)) \in Seq(Strings)
    BY <1>4, <1>6 DEF Scan
  <1>8. Before(a.frames, FramesOf(Joined(s, t)))
    BY <1>3, <1>4, <1>5, <1>6, GrowOne, Zenon
  <1> QED
    BY <1>3, <1>4, <1>6, <1>7, <1>8 DEF a

-----------------------------------------------------------------------------
(* Lines *)

\* A line is empty only at the end of the input; else it is a text without
\* newline, with a newline behind it or the end of the input.
LEMMA LineCut ==
    ASSUME input \in Strings, pos \in 0 .. Len(input)
    PROVE  /\ pos = Len(input) => NextLine = <<>>
           /\ pos # Len(input) =>
                /\ NextLine \in Strings /\ NextLine # <<>>
                /\ pos + Len(NextLine) \in 0 .. Len(input)
                /\ First(input, pos + Len(NextLine)) = Joined(First(input, pos), NextLine)
                /\ \E t \in Strings :
                     /\ NoLF(t)
                     /\ \/ NextLine = Append(t, LF)
                        \/ NextLine = t /\ pos + Len(NextLine) = Len(input)
  <1> DEFINE ends == {k \in pos + 1 .. Len(input) : input[k] = LF} \cup {Len(input)}
             m == Min(ends)
  <1>1. input \in Seq(Bytes) /\ Len(input) \in Nat /\ pos \in Nat
    BY DEF Strings
  <1>2. m \in ends /\ \A y \in ends : m <= y
    <2>1. ends \subseteq Nat /\ ends # {}
      BY <1>1
    <2> QED
      BY <2>1, LeastIsThere
  <1>3. NextLine = SubSeq(input, pos + 1, m)
    BY DEF NextLine
  <1> HIDE DEF m
  <1>4. CASE pos = Len(input)
    <2>1. m = Len(input)
      BY <1>1, <1>2, <1>4
    <2> QED
      BY <1>1, <1>3, <1>4, <2>1, SubSeqEmpty
  <1>5. CASE pos # Len(input)
    <2>1. m \in pos + 1 .. Len(input) /\ (m = Len(input) \/ input[m] = LF)
      BY <1>1, <1>2, <1>5
    <2>2. \A k \in pos + 1 .. m - 1 : input[k] # LF
      BY <1>1, <1>2, <2>1
    <2>3. /\ NextLine \in Seq(Bytes) /\ Len(NextLine) = m - pos
          /\ \A i \in 1 .. m - pos : NextLine[i] = input[pos + i]
      <3>1. \A i \in pos + 1 .. m : input[i] \in Bytes
        BY <1>1, <2>1
      <3> QED
        BY <1>1, <1>3, <2>1, <3>1, SubSeqProperties
    <2>4. First(input, m) = Joined(First(input, pos), NextLine)
      <3>1. SubSeq(input, 1, pos) \o SubSeq(input, pos + 1, m) = SubSeq(input, 1, m)
        BY <1>1, <2>1, ConcatAdjacentSubSeq
      <3> QED
        BY <1>3, <3>1, Zenon DEF First, Joined
    <2>5. /\ NextLine \in Strings /\ NextLine # <<>>
          /\ pos + Len(NextLine) = m /\ m \in 0 .. Len(input)
      BY <1>1, <2>1, <2>3 DEF Strings
    <2>6. CASE input[m] = LF
      <3> DEFINE t == SubSeq(input, pos + 1, m - 1)
      <3>1. t \in Seq(Bytes) /\ Len(t) = m - 1 - pos
            /\ \A i \in 1 .. m - 1 - pos : t[i] = input[pos + i]
        BY <1>1, <2>1
      <3>2. NextLine = Append(t, LF)
        <4>1. Append(t, LF) \in Seq(Bytes) /\ Len(Append(t, LF)) = m - pos
          BY <1>1, <2>1, <2>6, <3>1
        <4>2. \A i \in 1 .. m - pos : NextLine[i] = Append(t, LF)[i]
          BY <1>1, <2>1, <2>3, <2>6, <3>1
        <4> QED
          BY <2>3, <4>1, <4>2, SeqEqual
      <3>3. NoLF(t)
        BY <1>1, <2>1, <2>2, <3>1 DEF NoLF
      <3> QED
        BY <1>5, <2>4, <2>5, <3>1, <3>2, <3>3 DEF Strings
    <2>7. CASE input[m] # LF
      <3>1. m = Len(input) /\ pos + Len(NextLine) = Len(input)
        BY <2>1, <2>5, <2>7
      <3>2. NoLF(NextLine)
        <4> SUFFICES ASSUME NEW i \in 1 .. Len(NextLine) PROVE NextLine[i] # LF
          BY DEF NoLF
        <4>1. i \in 1 .. m - pos /\ NextLine[i] = input[pos + i]
          BY <2>3
        <4>2. pos + i \in pos + 1 .. m - 1 \/ pos + i = m
          BY <1>1, <2>1, <4>1
        <4> QED
          BY <2>2, <2>7, <4>1, <4>2
      <3> QED
        BY <1>5, <2>4, <2>5, <3>1, <3>2
    <2> QED
      BY <2>6, <2>7
  <1> QED
    BY <1>4, <1>5

\* What StripEol leaves of a line.
LEMMA StripEolOf ==
    ASSUME NEW t \in Strings, NoLF(t)
    PROVE  /\ StripEol(Append(t, LF)) = Chomp(t)
           /\ t # <<>> => StripEol(t) = t
           /\ Chomp(t) \in Strings /\ NoLF(Chomp(t))
           /\ Chomp(t) # t => t = Append(Chomp(t), CR)
  <1> DEFINE l == Append(t, LF)
             n == Len(t)
  <1>1. t \in Seq(Bytes) /\ n \in Nat /\ LF # CR /\ LF \in Bytes
    BY FrameReaderAssumption DEF Strings, LF, CR
  <1>2. l \in Seq(Bytes) /\ Len(l) = n + 1 /\ l[n + 1] = LF /\ \A i \in 1 .. n : l[i] = t[i]
    BY <1>1
  <1>3. t # <<>> => n >= 1 /\ t[n] # LF
    BY <1>1 DEF NoLF
  <1>4. Front(l) = t
    BY <1>1 DEF Front
  <1>5. CASE t # <<>> /\ t[n] = CR
    <2>1. Chomp(t) = SubSeq(t, 1, n - 1)
      BY <1>5 DEF Chomp, Last, Front
    <2>2. StripEol(l) = SubSeq(l, 1, n - 1)
      BY <1>1, <1>2, <1>3, <1>5 DEF StripEol, Last
    <2>3. SubSeq(l, 1, n - 1) = SubSeq(t, 1, n - 1)
      BY <1>1, <1>3, <1>5
    <2>4. SubSeq(t, 1, n - 1) \in Seq(Bytes) /\ t = Append(SubSeq(t, 1, n - 1), CR)
      BY <1>1, <1>3, <1>5
    <2>5. NoLF(SubSeq(t, 1, n - 1))
      BY <1>1, <1>3, <1>5 DEF NoLF
    <2> QED
      BY <1>3, <2>1, <2>2, <2>3, <2>4, <2>5 DEF StripEol, Last, Strings
  <1>6. CASE ~(t # <<>> /\ t[n] = CR)
    <2>1. Chomp(t) = t
      BY <1>6 DEF Chomp, Last
    <2>2. StripEol(l) = Front(l)
      BY <1>1, <1>2, <1>6 DEF StripEol, Last
    <2> QED
      BY <1>3, <1>4, <2>1, <2>2 DEF StripEol, Last
  <1> QED
    BY <1>5, <1>6

-----------------------------------------------------------------------------
(* What parses, and what is cut off a frame *)

TextOf(s) == Only(s, Bytes \ WhiteSpace)

LEMMA TextOfType ==
    ASSUME NEW s \in Strings
    PROVE  TextOf(s) \in Seq(Bytes)
  <1>1. Only(s, Bytes \ WhiteSpace) \in Seq(Bytes \cap (Bytes \ WhiteSpace))
    BY OnlyType DEF Strings
  <1>2. Bytes \cap (Bytes \ WhiteSpace) \subseteq Bytes
    OBVIOUS
  <1> QED
    BY <1>1, <1>2, SeqMonotonic DEF TextOf

\* Carriage returns are white space to the parser.
LEMMA ParsesWithCR ==
    ASSUME NEW s \in Strings
    PROVE  ParsesBytes(Append(s, CR)) <=> ParsesBytes(s)
  <1>1. CR \in Bytes /\ CR \in WhiteSpace
    BY FrameReaderAssumption DEF WhiteSpace
  <1>2. Only(Append(s, CR), Bytes \ WhiteSpace) = Only(s, Bytes \ WhiteSpace)
    BY <1>1, OnlyAppend DEF Strings
  <1> QED
    BY <1>2 DEF ParsesBytes

LEMMA ParsesChomped ==
    ASSUME NEW t \in Strings, NoLF(t)
    PROVE  ParsesBytes(Chomp(t)) <=> ParsesBytes(t)
  <1>1. CASE Chomp(t) = t
    BY <1>1
  <1>2. CASE Chomp(t) # t
    <2>1. Chomp(t) \in Strings /\ t = Append(Chomp(t), CR)
      BY <1>2, StripEolOf
    <2>2. ParsesBytes(Append(Chomp(t), CR)) <=> ParsesBytes(Chomp(t))
      BY <2>1, ParsesWithCR
    <2> QED
      BY <2>1, <2>2, Zenon
  <1> QED
    BY <1>1, <1>2

\* A text without a byte that is no white space does not parse, ...
LEMMA TextOfWhite ==
    \A s \in Strings : (\A k \in 1 .. Len(s) : s[k] \in WhiteSpace) <=> TextOf(s) = <<>>
  <1> DEFINE P == {s \in Strings : (\A k \in 1 .. Len(s) : s[k] \in WhiteSpace) <=> TextOf(s) = <<>>}
  <1>1. <<>> \in P
    BY OnlyEmpty, StringFacts DEF TextOf
  <1>2. ASSUME NEW s \in Strings, NEW c \in Bytes, s \in P PROVE Append(s, c) \in P
    <2>1. Append(s, c) \in Strings
      BY StringFacts
    <2>2. TextOf(Append(s, c)) =
            IF c \in Bytes \ WhiteSpace THEN Append(TextOf(s), c) ELSE TextOf(s)
      BY OnlyAppend DEF TextOf, Strings
    <2>3. /\ Len(Append(s, c)) = Len(s) + 1 /\ Append(s, c)[Len(s) + 1] = c
          /\ \A k \in 1 .. Len(s) : Append(s, c)[k] = s[k]
          /\ Len(s) \in Nat
      BY DEF Strings
    <2>4. Append(TextOf(s), c) # <<>>
      BY TextOfType
    <2>5. (\A k \in 1 .. Len(s) : s[k] \in WhiteSpace) <=> TextOf(s) = <<>>
      BY <1>2
    <2>6. (\A k \in 1 .. Len(Append(s, c)) : Append(s, c)[k] \in WhiteSpace)
            <=> c \in WhiteSpace /\ \A k \in 1 .. Len(s) : s[k] \in WhiteSpace
      <3> DEFINE l == Append(s, c)
      <3> HIDE DEF l
      <3>1. /\ Len(l) = Len(s) + 1 /\ l[Len(s) + 1] = c
            /\ \A k \in 1 .. Len(s) : l[k] = s[k]
            /\ Len(s) \in Nat
        BY <2>3 DEF l
      <3>2. (\A k \in 1 .. Len(l) : l[k] \in WhiteSpace)
              <=> c \in WhiteSpace /\ \A k \in 1 .. Len(s) : s[k] \in WhiteSpace
        BY <3>1
      <3> QED
        BY <3>2 DEF l
    <2>7. (\A k \in 1 .. Len(Append(s, c)) : Append(s, c)[k] \in WhiteSpace)
            <=> TextOf(Append(s, c)) = <<>>
      BY <2>2, <2>4, <2>5, <2>6
    <2> QED
      BY <2>1, <2>7
  <1>3. Strings \subseteq P
    <2> HIDE DEF P
    <2> QED
      BY <1>1, <1>2, StringInduction
  <1> QED
    BY <1>3

LEMMA ParsesHasText ==
    ASSUME NEW s \in Strings, ParsesBytes(s)
    PROVE  \E k \in 1 .. Len(s) : s[k] \notin WhiteSpace
  <1>1. Len(TextOf(s)) >= 2
    BY DEF ParsesBytes, TextOf
  <1>2. TextOf(s) # <<>>
    BY <1>1
  <1> QED
    BY <1>2, TextOfWhite

\* ... and of a frame no proper part does, save for what is white space
\* behind the part.
LEMMA NoPartParses ==
    ASSUME NEW p \in Strings, NEW r \in Strings, ParsesBytes(p), ParsesBytes(Joined(p, r))
    PROVE  \A k \in 1 .. Len(r) : r[k] \in WhiteSpace
  <1> DEFINE x == TextOf(p)
             y == TextOf(r)
             z == TextOf(Joined(p, r))
  <1>1. x \in Seq(Bytes) /\ y \in Seq(Bytes)
    BY TextOfType
  <1>2. z = Joined(x, y)
    BY OnlyJoined, Zenon DEF TextOf, Strings
  <1>3. Len(x) >= 2 /\ x[Len(x)] = "}"
    BY DEF ParsesBytes, TextOf, Last
  <1>4. \A k \in 2 .. Len(z) - 1 : z[k] # "}"
    BY DEF ParsesBytes, TextOf
  <1> HIDE DEF x, y, z
  <1>5. y = <<>>
    <2>1. PICK u \in Seq(Bytes) : u = x
      BY <1>1
    <2>2. PICK v \in Seq(Bytes) : v = y
      BY <1>1
    <2>3. z = u \o v
      BY <1>2, <2>1, <2>2, Zenon DEF Joined
    <2>4. Len(u) >= 2
      BY <1>3, <2>1, Zenon
    <2>5. u[Len(u)] = "}"
      BY <1>3, <2>1, Zenon
    <2>6. v = <<>>
      <3> SUFFICES ASSUME v # <<>> PROVE FALSE
        OBVIOUS
      <3>1. /\ Len(u) \in 2 .. Len(u \o v) - 1
            /\ (u \o v)[Len(u)] = u[Len(u)]
        BY <2>4
      <3>2. \A k \in 2 .. Len(u \o v) - 1 : (u \o v)[k] # "}"
        BY <1>4, <2>3, Zenon
      <3> QED
        BY <2>5, <3>1, <3>2, Zenon
    <2> QED
      BY <2>2, <2>6
  <1> QED
    BY <1>5, TextOfWhite DEF y

\* A bounded set of naturals with an element has a greatest one.
LEMMA GreatestIsThere ==
    ASSUME NEW n \in Nat, NEW S, S \subseteq 0 .. n, S # {}
    PROVE  Max(S) \in S /\ \A y \in S : y <= Max(S)
  <1> DEFINE T == {n - y : y \in S}
  <1>1. T \subseteq Nat /\ T # {}
    <2>1. \A y \in S : n - y \in Nat
      OBVIOUS
    <2>2. PICK y \in S : TRUE
      OBVIOUS
    <2> QED
      BY <2>1, <2>2
  <1> HIDE DEF T
  <1>2. Min(T) \in T /\ \A y \in T : Min(T) <= y
    BY <1>1, LeastIsThere
  <1>3. PICK x \in S : Min(T) = n - x
    BY <1>2 DEF T
  <1>4. \A y \in S : x >= y
    <2> SUFFICES ASSUME NEW y \in S PROVE x >= y
      OBVIOUS
    <2>1. n - y \in T
      BY DEF T
    <2>2. n - x <= n - y
      BY <1>2, <1>3, <2>1
    <2> QED
      BY <2>2
  <1> QED
    BY <1>4 DEF Max

\* White space at the end makes no difference to Trimmed.
LEMMA TrimmedPart ==
    ASSUME NEW p \in Strings, NEW r \in Strings, ParsesBytes(p),
           \A k \in 1 .. Len(r) : r[k] \in WhiteSpace
    PROVE  Trimmed(Joined(p, r)) = Trimmed(p)
  <1> DEFINE f == Joined(p, r)
             S == {k \in DOMAIN p : p[k] \notin WhiteSpace}
  <1>1. p \in Seq(Bytes) /\ r \in Seq(Bytes) /\ DOMAIN p = 1 .. Len(p) /\ Len(p) \in Nat
    BY DEF Strings
  <1>2. /\ f \in Seq(Bytes) /\ Len(f) = Len(p) + Len(r)
        /\ \A k \in 1 .. Len(p) : f[k] = p[k]
        /\ \A k \in Len(p) + 1 .. Len(f) : f[k] = r[k - Len(p)]
    BY <1>1 DEF Joined
  <1> HIDE DEF f
  <1>3. {k \in DOMAIN f : f[k] \notin WhiteSpace} = S
    <2>1. DOMAIN f = 1 .. Len(f)
      BY <1>2
    <2>2. \A k \in Len(p) + 1 .. Len(f) : f[k] \in WhiteSpace
      <3> SUFFICES ASSUME NEW k \in Len(p) + 1 .. Len(f) PROVE f[k] \in WhiteSpace
        OBVIOUS
      <3>1. k - Len(p) \in 1 .. Len(r)
        BY <1>1, <1>2
      <3> QED
        BY <1>2, <3>1
    <2> QED
      BY <1>1, <1>2, <2>1, <2>2
  <1>4. Max(S) \in 1 .. Len(p)
    <2>1. PICK k \in 1 .. Len(p) : p[k] \notin WhiteSpace
      BY ParsesHasText
    <2>2. S # {} /\ S \subseteq 0 .. Len(p)
      BY <1>1, <2>1
    <2>3. Max(S) \in S
      BY <1>1, <2>2, GreatestIsThere
    <2> QED
      BY <1>1, <2>3
  <1> HIDE DEF S
  <1>5. SubSeq(f, 1, Max(S)) = SubSeq(p, 1, Max(S))
    BY <1>1, <1>2, <1>4
  <1>6. Trimmed(f) = SubSeq(f, 1, Max(S))
    BY <1>3 DEF Trimmed
  <1>7. Trimmed(p) = SubSeq(p, 1, Max(S))
    BY DEF Trimmed, S
  <1> QED
    BY <1>5, <1>6, <1>7 DEF f

LEMMA TrimmedChomped ==
    ASSUME NEW t \in Strings, NoLF(t), ParsesBytes(t)
    PROVE  Trimmed(Chomp(t)) = Trimmed(t)
  <1>1. CASE Chomp(t) = t
    BY <1>1
  <1>2. CASE Chomp(t) # t
    <2>1. Chomp(t) \in Strings /\ t = Append(Chomp(t), CR) /\ ParsesBytes(Chomp(t))
      BY <1>2, StripEolOf, ParsesChomped
    <2>2. CR \in Bytes /\ CR \in WhiteSpace
      BY FrameReaderAssumption DEF WhiteSpace
    <2>3. <<CR>> \in Strings /\ \A k \in 1 .. Len(<<CR>>) : <<CR>>[k] \in WhiteSpace
      BY <2>2 DEF Strings
    <2>4. t = Joined(Chomp(t), <<CR>>)
      <3>1. Append(Chomp(t), CR) = Chomp(t) \o <<CR>>
        BY <2>1, <2>2, AppendIsConcat DEF Strings
      <3> QED
        BY <2>1, <3>1, Zenon DEF Joined
    <2>5. Trimmed(Joined(Chomp(t), <<CR>>)) = Trimmed(Chomp(t))
      BY <2>1, <2>3, TrimmedPart
    <2> QED
      BY <2>4, <2>5, Zenon
  <1> QED
    BY <1>1, <1>2

-----------------------------------------------------------------------------
(* The reader *)

\* Up to pos the reference has found the same frames, has no text pending and
\* met no bad one; unless the input ended inside a line.
ReadInv ==
    /\ rpc = "read" => \/ Scanned(First(input, pos)) = Rec(frames, <<>>, FALSE)
                       \/ pos = Len(input) /\ frames = FramesOf(input)
    /\ rpc # "read" => frames = FramesOf(input)

Types ==
    /\ input \in Strings /\ pos \in 0 .. Len(input)
    /\ frames \in Seq(Strings) /\ sink \in Strings
    /\ rpc \in {"read", "eof", "error"}

LEMMA TypesAreTypes == Types <=> ReaderTypeOK
  BY DEF Types, ReaderTypeOK, Strings

\* What is read and what is left is the input.
LEMMA InputSplit ==
    ASSUME NEW s \in Strings, NEW n \in 0 .. Len(s)
    PROVE  /\ First(s, n) \in Strings
           /\ \E t \in Strings : s = Joined(First(s, n), t)
           /\ First(s, Len(s)) = s
  <1>1. SubSeq(s, 1, n) \o SubSeq(s, n + 1, Len(s)) = s
    BY SplitSeq DEF Strings
  <1>2. SubSeq(s, 1, n) \in Strings /\ SubSeq(s, n + 1, Len(s)) \in Strings
    BY DEF Strings
  <1>3. SubSeq(s, 1, Len(s)) = s
    BY DEF Strings
  <1> QED
    BY <1>1, <1>2, <1>3, Zenon DEF First, Joined

\* One line, seen by the reference.
LEMMA ScanLine ==
    ASSUME Types, pos # Len(input), Scanned(First(input, pos)) = Rec(frames, <<>>, FALSE)
    PROVE  /\ NextLine \in Strings /\ NextLine # <<>>
           /\ StripEol(NextLine) \in Strings /\ NoLF(StripEol(NextLine))
           /\ pos + Len(NextLine) \in 0 .. Len(input)
           /\ \/ Scanned(First(input, pos + Len(NextLine)))
                   = EndText(Rec(frames, NextLine, FALSE), StripEol(NextLine))
              \/ \E t \in Strings :
                   Scanned(First(input, pos + Len(NextLine)))
                     = EndText(Rec(frames, t, FALSE), StripEol(NextLine))
              \/ /\ pos + Len(NextLine) = Len(input)
                 /\ StripEol(NextLine) # <<>>
                 /\ FramesOf(input)
                      = EndText(Rec(frames, NextLine, FALSE), StripEol(NextLine)).frames
  <1> DEFINE l == NextLine
             a == First(input, pos)
             n == pos + Len(l)
  <1>1. /\ input \in Strings /\ pos \in 0 .. Len(input) /\ frames \in Seq(Strings)
        /\ LF \in Bytes
    BY FrameReaderAssumption DEF Types
  <1>2. /\ l \in Strings /\ l # <<>> /\ n \in 0 .. Len(input)
        /\ First(input, n) = Joined(a, l)
        /\ \E t \in Strings : NoLF(t) /\ (l = Append(t, LF) \/ (l = t /\ n = Len(input)))
    BY <1>1, LineCut
  <1>3. PICK t \in Strings : NoLF(t) /\ (l = Append(t, LF) \/ (l = t /\ n = Len(input)))
    BY <1>2
  <1>4. a \in Strings /\ <<>> \in Strings /\ First(input, Len(input)) = input
    BY <1>1, InputSplit, StringFacts
  <1> HIDE DEF l, a, n
  <1>5. Scanned(Joined(a, t)) = Rec(frames, t, FALSE)
    <2>1. Scanned(a) = Rec(frames, <<>>, FALSE)
      BY DEF a
    <2>2. \A v \in Strings : NoLF(v) => Scanned(Joined(a, v)) = Rec(frames, Joined(<<>>, v), FALSE)
      <3>1. PICK b : b = FALSE
        OBVIOUS
      <3>2. Scanned(a) = Rec(frames, <<>>, b)
        BY <2>1, <3>1
      <3>3. \A v \in Strings : NoLF(v) => Scanned(Joined(a, v)) = Rec(frames, Joined(<<>>, v), b)
        BY <1>4, <3>2, ScanText, SMTT(30)
      <3> QED
        BY <3>1, <3>3
    <2>3. Scanned(Joined(a, t)) = Rec(frames, Joined(<<>>, t), FALSE)
      BY <1>3, <2>2, Zenon
    <2> QED
      BY <2>3, StringFacts
  <1>6. CASE l = Append(t, LF)
    <2>1. StripEol(l) = Chomp(t) /\ Chomp(t) \in Strings /\ NoLF(Chomp(t))
      BY <1>3, <1>6, StripEolOf
    <2>2. Joined(a, l) = Append(Joined(a, t), LF) /\ Joined(a, t) \in Strings
      BY <1>1, <1>4, <1>6, StringFacts
    <2>3. Scanned(Joined(a, l)) = ScanByte(Rec(frames, t, FALSE), LF)
      BY <1>1, <1>5, <2>2, ScanAppend DEF Strings
    <2>4. ScanByte(Rec(frames, t, FALSE), LF) = EndText(Rec(frames, t, FALSE), Chomp(t))
      BY DEF ScanByte, Rec
    <2> QED
      BY <1>2, <2>1, <2>3, <2>4 DEF l, n
  <1>7. CASE l = t /\ n = Len(input)
    <2>1. StripEol(l) = l /\ NoLF(l)
      BY <1>2, <1>3, <1>7, StripEolOf
    <2>2. Scanned(input) = Rec(frames, l, FALSE)
      BY <1>2, <1>4, <1>5, <1>7
    <2>3. FramesOf(input) = EndText(Rec(frames, l, FALSE), l).frames
      BY <2>2 DEF FramesOf, Rec
    <2> QED
      BY <1>2, <1>7, <2>1, <2>3 DEF l, n
  <1> QED
    BY <1>3, <1>6, <1>7

LEMMA ReadInvStart ==
    ASSUME ReaderInit
    PROVE  Types /\ ReadInv
  <1>1. input \in Strings
    <2>1. input \in SeqOf(Bytes, MaxInput)
      BY DEF ReaderInit, BoundedSeq
    <2>2. PICK m \in 0 .. MaxInput : input \in [1 .. m -> Bytes]
      BY <2>1 DEF SeqOf
    <2> QED
      BY <2>2, FrameReaderAssumption DEF Strings
  <1>2. First(input, 0) = <<>>
    BY <1>1, SubSeqEmpty DEF First
  <1>3. pos = 0 /\ frames = <<>> /\ sink = <<>> /\ rpc = "read"
    BY DEF ReaderInit
  <1>4. Scanned(First(input, pos)) = Rec(frames, <<>>, FALSE)
    BY <1>2, <1>3, ScanEmpty, Zenon DEF Start
  <1>5. Types
    BY <1>1, <1>3 DEF Types, Strings
  <1> QED
    BY <1>3, <1>4, <1>5 DEF ReadInv

\* No step but ReadEnd moves once the input has ended inside a line.
LEMMA NoLineAtEnd ==
    ASSUME Types, pos = Len(input)
    PROVE  NextLine = <<>>
  BY LineCut DEF Types

\* What the reference makes of the next line, and of all that follows it.
LEMMA LineRead ==
    ASSUME Types, ReadInv, rpc = "read", NextLine # <<>>
    PROVE  /\ StripEol(NextLine) \in Strings /\ NoLF(StripEol(NextLine))
           /\ pos + Len(NextLine) \in 0 .. Len(input)
           /\ StripEol(NextLine) = <<>> =>
                Scanned(First(input, pos + Len(NextLine))) = Rec(frames, <<>>, FALSE)
           /\ ParsesBytes(StripEol(NextLine)) =>
                \/ Scanned(First(input, pos + Len(NextLine)))
                     = Rec(Append(frames, StripEol(NextLine)), <<>>, FALSE)
                \/ /\ pos + Len(NextLine) = Len(input)
                   /\ FramesOf(input) = Append(frames, StripEol(NextLine))
           /\ StripEol(NextLine) # <<>> /\ ~ParsesBytes(StripEol(NextLine)) =>
                frames = FramesOf(input)
  <1> DEFINE f == StripEol(NextLine)
             n == pos + Len(NextLine)
             p == First(input, n)
  <1>1. pos # Len(input)
    BY NoLineAtEnd
  <1>2. Scanned(First(input, pos)) = Rec(frames, <<>>, FALSE)
    BY <1>1 DEF ReadInv
  <1>3. /\ NextLine \in Strings /\ f \in Strings /\ NoLF(f) /\ n \in 0 .. Len(input)
        /\ \/ Scanned(p) = EndText(Rec(frames, NextLine, FALSE), f)
           \/ \E t \in Strings : Scanned(p) = EndText(Rec(frames, t, FALSE), f)
           \/ /\ n = Len(input) /\ f # <<>>
              /\ FramesOf(input) = EndText(Rec(frames, NextLine, FALSE), f).frames
    BY <1>1, <1>2, ScanLine
  <1>4. input \in Strings /\ frames \in Seq(Strings)
    BY DEF Types
  <1> HIDE DEF f, n
  <1>5. ~ParsesBytes(<<>>)
    <2>1. <<>> \in Strings
      BY StringFacts
    <2> QED
      BY <2>1, ParsesHasText
  <1>6. \A t \in Strings :
          EndText(Rec(frames, t, FALSE), f) =
             IF f = <<>> THEN Rec(frames, <<>>, FALSE)
             ELSE IF ParsesBytes(f) THEN Rec(Append(frames, f), <<>>, FALSE)
             ELSE Rec(frames, <<>>, TRUE)
    BY <1>3, <1>4, EndTextOf
  <1>7. CASE n = Len(input) /\ f # <<>>
             /\ FramesOf(input) = EndText(Rec(frames, NextLine, FALSE), f).frames
    <2>1. /\ ParsesBytes(f) => FramesOf(input) = Append(frames, f)
          /\ ~ParsesBytes(f) => FramesOf(input) = frames
      BY <1>3, <1>6, <1>7 DEF Rec
    <2> QED
      BY <1>3, <1>7, <2>1 DEF f, n
  <1>8. ASSUME NEW t \in Strings, Scanned(p) = EndText(Rec(frames, t, FALSE), f)
        PROVE  /\ f = <<>> => Scanned(p) = Rec(frames, <<>>, FALSE)
               /\ ParsesBytes(f) => Scanned(p) = Rec(Append(frames, f), <<>>, FALSE)
               /\ f # <<>> /\ ~ParsesBytes(f) => frames = FramesOf(input)
    <2>1. Scanned(p) = IF f = <<>> THEN Rec(frames, <<>>, FALSE)
                       ELSE IF ParsesBytes(f) THEN Rec(Append(frames, f), <<>>, FALSE)
                       ELSE Rec(frames, <<>>, TRUE)
      BY <1>6, <1>8
    <2>2. ASSUME f # <<>>, ~ParsesBytes(f) PROVE frames = FramesOf(input)
      <3>1. Scanned(p) = Rec(frames, <<>>, TRUE)
        BY <2>1, <2>2
      <3>2. Scanned(p).bad /\ Scanned(p).frames = frames
        BY <3>1 DEF Rec
      <3>3. PICK r \in Strings : p \in Strings /\ input = Joined(p, r)
        BY <1>3, <1>4, InputSplit
      <3>4. FramesOf(Joined(p, r)) = Scanned(p).frames
        BY <3>2, <3>3, FramesSoFar
      <3> QED
        BY <3>2, <3>3, <3>4, Zenon
    <2> QED
      BY <1>5, <2>1, <2>2
  <1>9. CASE \E t \in Strings : Scanned(p) = EndText(Rec(frames, t, FALSE), f)
    BY <1>3, <1>8, <1>9 DEF f, n
  <1> QED
    BY <1>3, <1>7, <1>9

LEMMA ReadInvStep ==
    ASSUME Types, ReadInv, [ReaderNext]_readerVars
    PROVE  Types' /\ ReadInv'
  <1> DEFINE f == StripEol(NextLine)
             n == pos + Len(NextLine)
  <1> HIDE DEF f, n
  <1>1. CASE ReadEnd
    <2>1. pos = Len(input)
      BY <1>1, LineCut DEF ReadEnd, Types
    <2>2. UNCHANGED <<input, pos, frames, sink>> /\ rpc = "read" /\ rpc' = "eof"
      BY <1>1 DEF ReadEnd
    <2>3. Types'
      BY <2>2 DEF Types
    <2>4. frames = FramesOf(input)
      <3>1. CASE Scanned(First(input, pos)) = Rec(frames, <<>>, FALSE)
        <4>1. Scanned(input) = Rec(frames, <<>>, FALSE)
          BY <2>1, <3>1, InputSplit DEF Types
        <4> QED
          BY <4>1 DEF FramesOf, EndText, Rec
      <3> QED
        BY <2>2, <3>1 DEF ReadInv
    <2> QED
      BY <2>2, <2>3, <2>4 DEF ReadInv
  <1>2. CASE ReadEmptyLine
    <2>1. /\ rpc = "read" /\ NextLine # <<>> /\ f = <<>> /\ pos' = n
          /\ UNCHANGED <<input, frames, sink, rpc>>
      BY <1>2 DEF ReadEmptyLine, Consume, f, n
    <2>2. n \in 0 .. Len(input) /\ Scanned(First(input, n)) = Rec(frames, <<>>, FALSE)
      BY <2>1, LineRead DEF f, n
    <2> QED
      BY <2>1, <2>2 DEF Types, ReadInv
  <1>3. CASE ReadFrameLine
    <2>1. /\ rpc = "read" /\ NextLine # <<>> /\ ParsesBytes(f) /\ pos' = n
          /\ frames' = Append(frames, f) /\ sink' = write_frame(sink, f)
          /\ UNCHANGED <<input, rpc>>
      BY <1>3 DEF ReadFrameLine, Consume, f, n
    <2>2. /\ f \in Strings /\ NoLF(f) /\ n \in 0 .. Len(input)
          /\ \/ Scanned(First(input, n)) = Rec(Append(frames, f), <<>>, FALSE)
             \/ n = Len(input) /\ FramesOf(input) = Append(frames, f)
      BY <2>1, LineRead DEF f, n
    <2>3. write_frame(sink, f) \in Strings
      <3>1. sink \in Seq(Bytes) /\ f \in Seq(Bytes) /\ LF \in Bytes
        BY <2>2, FrameReaderAssumption DEF Types, Strings
      <3> QED
        BY <3>1 DEF write_frame, Strings
    <2>4. Append(frames, f) \in Seq(Strings)
      BY <2>2 DEF Types
    <2> QED
      BY <2>1, <2>2, <2>3, <2>4 DEF Types, ReadInv
  <1>4. CASE ReadBadLine
    <2>1. /\ rpc = "read" /\ NextLine # <<>> /\ f # <<>> /\ ~ParsesBytes(f) /\ pos' = n
          /\ rpc' = "error" /\ UNCHANGED <<input, frames, sink>>
      BY <1>4 DEF ReadBadLine, Consume, f, n
    <2>2. n \in 0 .. Len(input) /\ frames = FramesOf(input)
      BY <2>1, LineRead DEF f, n
    <2> QED
      BY <2>1, <2>2 DEF Types, ReadInv
  <1>5. CASE UNCHANGED readerVars
    BY <1>5 DEF readerVars, Types, ReadInv
  <1> QED
    BY <1>1, <1>2, <1>3, <1>4, <1>5 DEF ReaderNext

\* The reader and the relay are well typed in every reachable state.
THEOREM ReaderTypeCorrect == ReaderSpec => []ReaderTypeOK
  <1>1. ReaderInit => Types /\ ReadInv
    BY ReadInvStart
  <1>2. Types /\ ReadInv /\ [ReaderNext]_readerVars => (Types /\ ReadInv)'
    BY ReadInvStep
  <1>3. Types /\ ReadInv => ReaderTypeOK
    BY TypesAreTypes
  <1> QED
    BY <1>1, <1>2, <1>3, PTL DEF ReaderSpec

\* Whatever bytes arrive, read_frame returns the frames of the reference, in
\* order, and when it stops it has returned all of them.
THEOREM ReaderReadsEveryLine == ReaderSpec => []ReadsEveryLine
  <1>1. ReaderInit => Types /\ ReadInv
    BY ReadInvStart
  <1>2. Types /\ ReadInv /\ [ReaderNext]_readerVars => (Types /\ ReadInv)'
    BY ReadInvStep
  <1>3. Types /\ ReadInv => ReadsEveryLine
    <2> SUFFICES ASSUME Types, ReadInv PROVE ReadsEveryLine
      OBVIOUS
    <2>1. input \in Strings /\ pos \in 0 .. Len(input) /\ frames \in Seq(Strings)
      BY DEF Types
    <2>2. PICK t \in Strings : First(input, pos) \in Strings /\ input = Joined(First(input, pos), t)
      BY <2>1, InputSplit
    <2>3. /\ FramesOf(input) \in Seq(Strings)
          /\ Before(Scanned(First(input, pos)).frames, FramesOf(input))
      BY <2>2, FramesSoFar, Zenon
    <2>4. Before(frames, FramesOf(input))
      <3>1. CASE Scanned(First(input, pos)) = Rec(frames, <<>>, FALSE)
        BY <2>3, <3>1 DEF Rec
      <3>2. CASE frames = FramesOf(input)
        BY <2>1, <3>2 DEF Before
      <3> QED
        BY <3>1, <3>2 DEF ReadInv
    <2>5. IsPrefix(frames, FramesOf(input))
      BY <2>1, <2>3, <2>4, PrefixAt DEF Before
    <2> QED
      BY <2>5 DEF ReadInv, ReadsEveryLine
  <1> QED
    BY <1>1, <1>2, <1>3, PTL DEF ReaderSpec

-----------------------------------------------------------------------------
(* The relay *)

\* What is in the sink is, line by line, what was returned; every frame
\* parses and has no newline.
RelayInv ==
    /\ \A k \in 1 .. Len(frames) : ParsesBytes(frames[k]) /\ NoLF(frames[k])
    /\ Scanned(sink) = Rec(AllChomped(frames), <<>>, FALSE)
    /\ \A n \in 0 .. Len(sink) :
         IsPrefix(AllTrimmed(FramesOf(First(sink, n))), AllTrimmed(frames))

Cuts == {Trimmed(x) : x \in Strings}

LEMMA ListFacts ==
    ASSUME NEW fs \in Seq(Strings)
    PROVE  /\ AllChomped(fs) \in Seq(Strings) /\ Len(AllChomped(fs)) = Len(fs)
           /\ \A k \in 1 .. Len(fs) : AllChomped(fs)[k] = Chomp(fs[k])
           /\ AllTrimmed(fs) \in Seq(Cuts) /\ Len(AllTrimmed(fs)) = Len(fs)
           /\ \A k \in 1 .. Len(fs) : AllTrimmed(fs)[k] = Trimmed(fs[k])
  <1>1. DOMAIN fs = 1 .. Len(fs) /\ Len(fs) \in Nat /\ \A k \in 1 .. Len(fs) : fs[k] \in Strings
    OBVIOUS
  <1>2. \A x \in Strings : Chomp(x) \in Strings /\ Trimmed(x) \in Cuts
    BY ChompType DEF Cuts
  <1> QED
    BY <1>1, <1>2 DEF AllChomped, AllTrimmed

\* One more frame.
LEMMA ListAppend ==
    ASSUME NEW fs \in Seq(Strings), NEW f \in Strings
    PROVE  /\ AllChomped(Append(fs, f)) = Append(AllChomped(fs), Chomp(f))
           /\ AllTrimmed(Append(fs, f)) = Append(AllTrimmed(fs), Trimmed(f))
  <1> DEFINE gs == Append(fs, f)
  <1>1. /\ gs \in Seq(Strings) /\ Len(gs) = Len(fs) + 1 /\ gs[Len(fs) + 1] = f
        /\ \A k \in 1 .. Len(fs) : gs[k] = fs[k]
        /\ Len(fs) \in Nat
    OBVIOUS
  <1>2. Chomp(f) \in Strings /\ Trimmed(f) \in Cuts
    BY ChompType DEF Cuts
  <1> HIDE DEF gs
  <1>3. AllChomped(gs) = Append(AllChomped(fs), Chomp(f))
    <2> DEFINE u == AllChomped(gs)
               v == AllChomped(fs)
    <2>1. /\ u \in Seq(Strings) /\ Len(u) = Len(fs) + 1 /\ v \in Seq(Strings) /\ Len(v) = Len(fs)
          /\ u[Len(fs) + 1] = Chomp(f) /\ \A k \in 1 .. Len(fs) : u[k] = v[k]
      BY <1>1, ListFacts
    <2> HIDE DEF u, v
    <2>2. /\ Append(v, Chomp(f)) \in Seq(Strings) /\ Len(Append(v, Chomp(f))) = Len(u)
          /\ \A k \in 1 .. Len(u) : u[k] = Append(v, Chomp(f))[k]
      BY <1>1, <1>2, <2>1
    <2>3. u = Append(v, Chomp(f))
      BY <2>1, <2>2, SeqEqual
    <2> QED
      BY <2>3 DEF u, v
  <1>4. AllTrimmed(gs) = Append(AllTrimmed(fs), Trimmed(f))
    <2> DEFINE u == AllTrimmed(gs)
               v == AllTrimmed(fs)
    <2>1. /\ u \in Seq(Cuts) /\ Len(u) = Len(fs) + 1 /\ v \in Seq(Cuts) /\ Len(v) = Len(fs)
          /\ u[Len(fs) + 1] = Trimmed(f) /\ \A k \in 1 .. Len(fs) : u[k] = v[k]
      BY <1>1, ListFacts
    <2> HIDE DEF u, v
    <2>2. /\ Append(v, Trimmed(f)) \in Seq(Cuts) /\ Len(Append(v, Trimmed(f))) = Len(u)
          /\ \A k \in 1 .. Len(u) : u[k] = Append(v, Trimmed(f))[k]
      BY <1>1, <1>2, <2>1
    <2>3. u = Append(v, Trimmed(f))
      BY <2>1, <2>2, SeqEqual
    <2> QED
      BY <2>3 DEF u, v
  <1> QED
    BY <1>3, <1>4 DEF gs

\* A CR at the end of a frame is lost without a trace.
LEMMA TrimmedChomps ==
    ASSUME NEW fs \in Seq(Strings),
           \A k \in 1 .. Len(fs) : ParsesBytes(fs[k]) /\ NoLF(fs[k])
    PROVE  AllTrimmed(AllChomped(fs)) = AllTrimmed(fs)
  <1> DEFINE u == AllTrimmed(AllChomped(fs))
             v == AllTrimmed(fs)
  <1>1. /\ u \in Seq(Cuts) /\ Len(u) = Len(fs) /\ v \in Seq(Cuts) /\ Len(v) = Len(fs)
        /\ \A k \in 1 .. Len(fs) : u[k] = Trimmed(Chomp(fs[k])) /\ v[k] = Trimmed(fs[k])
    BY ListFacts
  <1>2. \A k \in 1 .. Len(fs) : Trimmed(Chomp(fs[k])) = Trimmed(fs[k])
    BY TrimmedChomped
  <1>3. \A k \in 1 .. Len(u) : u[k] = v[k]
    BY <1>1, <1>2
  <1> HIDE DEF u, v
  <1>4. u = v
    BY <1>1, <1>3, SeqEqual
  <1> QED
    BY <1>4 DEF u, v

LEMMA PrefixGrows ==
    ASSUME NEW S, NEW p \in Seq(S), NEW q \in Seq(S), NEW v \in S
    PROVE  /\ IsPrefix(p, q) => IsPrefix(p, Append(q, v))
           /\ IsPrefix(q, q)
           /\ IsPrefix(q, Append(q, v))
  <1>1. /\ Append(q, v) \in Seq(S) /\ Len(Append(q, v)) = Len(q) + 1
        /\ \A i \in 1 .. Len(q) : Append(q, v)[i] = q[i]
        /\ Len(p) \in Nat /\ Len(q) \in Nat
    OBVIOUS
  <1>2. ASSUME IsPrefix(p, q) PROVE IsPrefix(p, Append(q, v))
    <2>1. Len(p) <= Len(q) /\ \A i \in 1 .. Len(p) : p[i] = q[i]
      BY <1>2, PrefixAt
    <2>2. Len(p) <= Len(Append(q, v)) /\ \A i \in 1 .. Len(p) : p[i] = Append(q, v)[i]
      BY <1>1, <2>1
    <2> QED
      BY <1>1, <2>2, PrefixAt
  <1>3. IsPrefix(q, q)
    BY PrefixAt
  <1>4. IsPrefix(q, Append(q, v))
    <2>1. Len(q) <= Len(Append(q, v)) /\ \A i \in 1 .. Len(q) : q[i] = Append(q, v)[i]
      BY <1>1
    <2> QED
      BY <1>1, <2>1, PrefixAt
  <1> QED
    BY <1>2, <1>3, <1>4

\* The sink after one more frame, whole and cut short.
LEMMA SinkGrows ==
    ASSUME Types, RelayInv, NEW f \in Strings, NoLF(f), ParsesBytes(f),
           NEW out, out = write_frame(sink, f)
    PROVE  /\ out \in Strings
           /\ Scanned(out) = Rec(AllChomped(Append(frames, f)), <<>>, FALSE)
           /\ \A n \in 0 .. Len(out) :
                IsPrefix(AllTrimmed(FramesOf(First(out, n))), AllTrimmed(Append(frames, f)))
  <1> DEFINE ac == AllChomped(frames)
             at == AllTrimmed(frames)
             mid == Joined(sink, f)
  <1>1. /\ sink \in Strings /\ frames \in Seq(Strings) /\ LF \in Bytes
        /\ sink \in Seq(Bytes) /\ f \in Seq(Bytes) /\ mid \in Strings
    BY FrameReaderAssumption, StringFacts DEF Types, Strings
  <1>2. out = Append(mid, LF) /\ out \in Strings
    <2>1. ~Contains(f, LF)
      BY DEF Contains, NoLF
    <2>2. out = sink \o f \o <<LF>>
      BY <2>1 DEF write_frame
    <2>3. (sink \o f) \o <<LF>> = Append(sink \o f, LF)
      BY <1>1
    <2>4. out = Append(mid, LF)
      BY <2>2, <2>3, Zenon DEF Joined
    <2> HIDE DEF mid
    <2> QED
      BY <1>1, <2>4, StringFacts
  <1>3. ac \in Seq(Strings) /\ at \in Seq(Cuts) /\ Chomp(f) \in Strings /\ Trimmed(f) \in Cuts
    BY <1>1, ListFacts, ChompType DEF Cuts
  <1>4. \A p \in Strings : NoLF(p) => Scanned(Joined(sink, p)) = Rec(ac, p, FALSE)
    <2>1. Scanned(sink) = Rec(ac, <<>>, FALSE) /\ <<>> \in Strings
      BY StringFacts DEF RelayInv
    <2> HIDE DEF ac
    <2>2. PICK b : b = FALSE
      OBVIOUS
    <2>3. Scanned(sink) = Rec(ac, <<>>, b)
      BY <2>1, <2>2
    <2>4. \A p \in Strings : NoLF(p) => Scanned(Joined(sink, p)) = Rec(ac, Joined(<<>>, p), b)
      BY <1>1, <2>1, <2>3, ScanText, SMTT(30)
    <2> QED
      BY <2>2, <2>4, StringFacts
  <1>5. AllTrimmed(ac) = at
    BY <1>1, TrimmedChomps DEF RelayInv
  <1>6. /\ AllChomped(Append(frames, f)) = Append(ac, Chomp(f))
        /\ AllTrimmed(Append(frames, f)) = Append(at, Trimmed(f))
    BY <1>1, ListAppend
  <1> HIDE DEF ac, at, mid
  <1>7. Scanned(out) = Rec(Append(ac, Chomp(f)), <<>>, FALSE)
    <2>1. Scanned(out) = ScanByte(Rec(ac, f, FALSE), LF)
      BY <1>1, <1>2, <1>4, ScanAppend DEF mid, Strings
    <2>2. ScanByte(Rec(ac, f, FALSE), LF) = EndText(Rec(ac, f, FALSE), Chomp(f))
      BY DEF ScanByte, Rec
    <2>3. ParsesBytes(Chomp(f)) /\ Chomp(f) # <<>>
      BY <1>3, ParsesChomped, ParsesHasText, StringFacts
    <2> QED
      BY <1>3, <2>1, <2>2, <2>3, EndTextOf
  <1>8. ASSUME NEW n \in 0 .. Len(out)
        PROVE  IsPrefix(AllTrimmed(FramesOf(First(out, n))), Append(at, Trimmed(f)))
    <2>1. Len(out) = Len(sink) + Len(f) + 1 /\ Len(sink) \in Nat /\ Len(f) \in Nat
      BY <1>1, <1>2 DEF mid, Joined
    <2>2. CASE n <= Len(sink)
      <3>1. First(out, n) = First(sink, n)
        BY <1>1, <1>2, <2>1, <2>2 DEF First, mid, Joined
      <3>2. n \in 0 .. Len(sink)
        BY <2>1, <2>2
      <3>3. IsPrefix(AllTrimmed(FramesOf(First(sink, n))), at)
        BY <3>2 DEF RelayInv, at
      <3>4. First(sink, n) \in Strings
        BY <1>1, <3>2, InputSplit
      <3>5. FramesOf(First(sink, n)) \in Seq(Strings)
        <4>1. FramesOf(Joined(First(sink, n), <<>>)) \in Seq(Strings)
          BY <3>4, FramesSoFar, StringFacts
        <4> QED
          BY <3>4, <4>1, StringFacts
      <3>6. AllTrimmed(FramesOf(First(sink, n))) \in Seq(Cuts)
        BY <3>5, ListFacts
      <3> QED
        BY <1>3, <3>1, <3>3, <3>6, PrefixGrows
    <2>3. CASE n = Len(out)
      <3>1. First(out, n) = out
        BY <1>2, <2>3, InputSplit, <2>1
      <3>2. FramesOf(out) = Append(ac, Chomp(f))
        BY <1>7 DEF FramesOf, EndText, Rec
      <3>3. AllTrimmed(Append(ac, Chomp(f))) = Append(at, Trimmed(Chomp(f)))
        BY <1>3, <1>5, ListAppend
      <3>4. Trimmed(Chomp(f)) = Trimmed(f)
        BY TrimmedChomped
      <3>5. Append(at, Trimmed(f)) \in Seq(Cuts)
        BY <1>3
      <3> QED
        BY <1>3, <3>1, <3>2, <3>3, <3>4, <3>5, PrefixGrows
    <2>4. CASE n > Len(sink) /\ n # Len(out)
      <3> DEFINE m == n - Len(sink)
                 p == First(f, m)
      <3>1. m \in 1 .. Len(f)
        BY <2>1, <2>4
      <3>2. First(out, n) = Joined(sink, p)
        <4>1. SubSeq(Append(sink \o f, LF), 1, n) = sink \o SubSeq(f, 1, m)
          BY <1>1, <2>1, <3>1
        <4> QED
          BY <1>2, <4>1, Zenon DEF First, mid, Joined
      <3>3. p \in Seq(Bytes) /\ Len(p) = m /\ \A i \in 1 .. m : p[i] = f[i]
        BY <1>1, <3>1 DEF First
      <3>4. p \in Strings /\ p # <<>> /\ NoLF(p)
        <4>1. \A i \in 1 .. m : f[i] # LF
          BY <2>1, <3>1 DEF NoLF
        <4> HIDE DEF m, p
        <4>2. p \in Strings /\ p # <<>>
          BY <3>1, <3>3 DEF Strings
        <4>3. NoLF(p)
          BY <3>3, <4>1 DEF NoLF
        <4> QED
          BY <4>2, <4>3
      <3> HIDE DEF m, p
      <3>5. FramesOf(First(out, n)) =
              IF ParsesBytes(p) THEN Append(ac, p) ELSE ac
        <4>1. Scanned(First(out, n)) = Rec(ac, p, FALSE)
          BY <1>4, <3>2, <3>4
        <4>2. Rec(ac, p, FALSE).text = p
          BY DEF Rec
        <4>3. FramesOf(First(out, n)) = EndText(Rec(ac, p, FALSE), p).frames
          BY <4>1, <4>2, Zenon DEF FramesOf
        <4>4. EndText(Rec(ac, p, FALSE), p) =
                IF ParsesBytes(p) THEN Rec(Append(ac, p), <<>>, FALSE) ELSE Rec(ac, <<>>, TRUE)
          BY <1>3, <3>4, EndTextOf
        <4>5. \A x, y, z : Rec(x, y, z).frames = x
          BY DEF Rec
        <4>6. CASE ParsesBytes(p)
          BY <4>3, <4>4, <4>5, <4>6
        <4>7. CASE ~ParsesBytes(p)
          BY <4>3, <4>4, <4>5, <4>7
        <4> QED
          BY <4>6, <4>7
      <3>6. CASE ParsesBytes(p)
        <4>1. FramesOf(First(out, n)) = Append(ac, p)
          BY <3>5, <3>6
        <4>2. AllTrimmed(Append(ac, p)) = Append(at, Trimmed(p))
          BY <1>3, <1>5, <3>4, ListAppend
        <4>3. Trimmed(p) = Trimmed(f)
          <5>1. PICK r \in Strings : f = Joined(p, r)
            <6>1. m \in 0 .. Len(f)
              BY <3>1
            <6> QED
              BY <6>1, InputSplit DEF p
          <5>2. \A k \in 1 .. Len(r) : r[k] \in WhiteSpace
            BY <3>4, <3>6, <5>1, NoPartParses, Zenon
          <5>3. Trimmed(Joined(p, r)) = Trimmed(p)
            BY <3>4, <3>6, <5>2, TrimmedPart
          <5> QED
            BY <5>1, <5>3, Zenon
        <4>4. Append(at, Trimmed(f)) \in Seq(Cuts)
          BY <1>3
        <4> QED
          BY <1>3, <4>1, <4>2, <4>3, <4>4, PrefixGrows
      <3>7. CASE ~ParsesBytes(p)
        <4>1. FramesOf(First(out, n)) = ac
          BY <3>5, <3>7
        <4> QED
          BY <1>3, <1>5, <4>1, PrefixGrows
      <3> QED
        BY <3>6, <3>7
    <2> QED
      BY <2>1, <2>2, <2>3, <2>4
  <1> QED
    BY <1>2, <1>6, <1>7, <1>8

LEMMA RelayInvStart ==
    ASSUME ReaderInit
    PROVE  RelayInv
  <1>1. frames = <<>> /\ sink = <<>>
    BY DEF ReaderInit
  <1>2. Len(<<>>) = 0 /\ AllChomped(<<>>) = <<>> /\ AllTrimmed(<<>>) = <<>>
    BY DEF AllChomped, AllTrimmed
  <1>3. Scanned(<<>>) = Rec(<<>>, <<>>, FALSE) /\ FramesOf(<<>>) = <<>>
    BY ScanEmpty DEF Start, FramesOf, EndText, Rec
  <1>4. First(<<>>, 0) = <<>> /\ IsPrefix(<<>>, <<>>)
    BY DEF First, IsPrefix
  <1>5. \A n \in 0 .. Len(sink) :
          IsPrefix(AllTrimmed(FramesOf(First(sink, n))), AllTrimmed(frames))
    <2> SUFFICES ASSUME NEW n \in 0 .. Len(sink)
                 PROVE  IsPrefix(AllTrimmed(FramesOf(First(sink, n))), AllTrimmed(frames))
      OBVIOUS
    <2>1. n = 0
      BY <1>1, <1>2
    <2> QED
      BY <1>1, <1>2, <1>3, <1>4, <2>1
  <1>6. Scanned(sink) = Rec(AllChomped(frames), <<>>, FALSE)
    BY <1>1, <1>2, <1>3
  <1>7. \A k \in 1 .. Len(frames) : ParsesBytes(frames[k]) /\ NoLF(frames[k])
    BY <1>1, <1>2
  <1> QED
    BY <1>5, <1>6, <1>7 DEF RelayInv

LEMMA RelayInvStep ==
    ASSUME Types, ReadInv, RelayInv, [ReaderNext]_readerVars
    PROVE  RelayInv'
  <1>1. CASE ReadFrameLine
    <2> DEFINE f == StripEol(NextLine)
    <2>1. /\ rpc = "read" /\ NextLine # <<>> /\ ParsesBytes(f)
          /\ frames' = Append(frames, f) /\ sink' = write_frame(sink, f)
      BY <1>1 DEF ReadFrameLine
    <2>2. f \in Strings /\ NoLF(f)
      BY <2>1, LineRead
    <2> HIDE DEF f
    <2>3. /\ Scanned(sink') = Rec(AllChomped(frames'), <<>>, FALSE)
          /\ \A n \in 0 .. Len(sink') :
               IsPrefix(AllTrimmed(FramesOf(First(sink', n))), AllTrimmed(frames'))
      BY <2>1, <2>2, SinkGrows, Zenon
    <2>4. \A k \in 1 .. Len(frames') : ParsesBytes(frames'[k]) /\ NoLF(frames'[k])
      <3>1. /\ Len(frames') = Len(frames) + 1 /\ frames'[Len(frames) + 1] = f
            /\ \A k \in 1 .. Len(frames) : frames'[k] = frames[k]
            /\ Len(frames) \in Nat
        BY <2>1, <2>2 DEF Types
      <3> QED
        BY <2>1, <2>2, <3>1 DEF RelayInv
    <2> QED
      BY <2>3, <2>4 DEF RelayInv
  <1>2. CASE UNCHANGED <<frames, sink>>
    BY <1>2 DEF RelayInv
  <1> QED
    BY <1>1, <1>2 DEF ReaderNext, ReadEnd, ReadEmptyLine, ReadBadLine, readerVars

\* What write_frame has put on the next pipe is read back as the same frames,
\* and whatever part of it arrives reads as a prefix of those frames, the
\* last one perhaps without the white space at its end.
THEOREM RelayIsReadBack == ReaderSpec => []RelayReadsBack
  <1>1. ReaderInit => Types /\ ReadInv /\ RelayInv
    BY ReadInvStart, RelayInvStart
  <1>2. Types /\ ReadInv /\ RelayInv /\ [ReaderNext]_readerVars
          => (Types /\ ReadInv /\ RelayInv)'
    BY ReadInvStep, RelayInvStep
  <1>3. Types /\ RelayInv => RelayReadsBack
    <2> SUFFICES ASSUME Types, RelayInv PROVE RelayReadsBack
      OBVIOUS
    <2>1. FramesOf(sink) = AllChomped(frames)
      BY DEF RelayInv, FramesOf, EndText, Rec
    <2> QED
      BY <2>1 DEF RelayInv, RelayReadsBack, First
  <1> QED
    BY <1>1, <1>2, <1>3, PTL DEF ReaderSpec

=============================================================================
