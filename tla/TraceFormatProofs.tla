------------------------- MODULE TraceFormatProofs -------------------------
(***************************************************************************)
(* Lemmas that the other proof modules share: what EventRecord makes of a  *)
(* frame, and what Only keeps of a sequence.  The kept elements are        *)
(* elements of the sequence and of the set, one more element is kept or    *)
(* not, and what is kept of a prefix comes first.  Induction over data is  *)
(* done with sets, from the well-foundedness of < on Nat (SetInduction,    *)
(* SeqSetInduction).                                                       *)
(***************************************************************************)
EXTENDS TraceFormat, Projection, SequencesExt, Integers, WellFoundedInduction,
        SequenceTheorems, TLAPS

\* A frame that parses gives a well-formed row (record() never builds an
\* EventRecord outside the format) and a hash.
LEMMA EventRecordType ==
    ASSUME NEW n \in Nat, NEW d \in Directions, NEW r \in Frames
    PROVE  /\ EventRecord(n, d, r) \in Rows
           /\ payload_hash(r) \in Hashes
           /\ r \in Raws
           /\ EventRecord(n, d, r).hash = payload_hash(r)
           /\ EventRecord(n, d, r).seq = n
  <1>1. r \in Raws
    BY FramesAssumption
  <1>2. /\ r \in Lines /\ kind(r) # "unclassifiable"
    BY <1>1 DEF Raws, Parses
  <1>3. kind(r) \in {"request", "notification", "response"}
    BY <1>2 DEF kind
  <1>4. from_value(r.id) \in Ids \cup {None}
    BY DEF from_value
  <1>5. /\ r.method \in Methods \cup {None} /\ r.id \in Ids \cup {OddId, None}
        /\ r.outcome \in BOOLEAN /\ r.body \in Bodies
    BY <1>2 DEF Lines
  <1>6. payload_hash(r) \in Hashes
    BY <1>5 DEF payload_hash, Hashes
  <1> QED
    BY <1>1, <1>3, <1>4, <1>5, <1>6 DEF EventRecord, Rows

-----------------------------------------------------------------------------
(* Projections *)

\* Induction, said of sets.
LEMMA SetInduction ==
    ASSUME NEW S, 0 \in S, \A n \in Nat : n \in S => n + 1 \in S
    PROVE  Nat \subseteq S
  <1> DEFINE T == Nat \ S
             R == OpToRel(<, Nat)
  <1>1. \A x, y \in Nat : y < x => <<y, x>> \in R
    BY DEF OpToRel
  <1>2. IsWellFoundedOn(R, Nat)
    BY NatLessThanWellFounded
  <1>3. ASSUME T # {} PROVE FALSE
    <2>1. T \subseteq Nat
      OBVIOUS
    <2> HIDE DEF R, T
    <2>2. PICK x \in T : \A y \in T : ~(<<y, x>> \in R)
      BY <1>2, <1>3, <2>1, WFMin
    <2>3. x \in Nat /\ x \notin S
      BY <2>1 DEF T
    <2>4. x # 0 /\ x - 1 \in Nat /\ (x - 1) + 1 = x
      BY <2>3
    <2>5. x - 1 \in S
      <3>1. <<x - 1, x>> \in R
        BY <1>1, <2>3, <2>4
      <3>2. x - 1 \notin T
        BY <2>2, <3>1
      <3> QED
        BY <2>4, <3>2 DEF T
    <2>6. (x - 1) + 1 \in S
      BY <2>4, <2>5
    <2> QED
      BY <2>3, <2>4, <2>6
  <1> QED
    BY <1>3

\* A set of naturals with an element has a least one.
LEMMA LeastIsThere ==
    ASSUME NEW S, S \subseteq Nat, S # {}
    PROVE  Min(S) \in S /\ \A y \in S : Min(S) <= y
  <1> DEFINE R == OpToRel(<, Nat)
  <1>1. \A x, y \in Nat : y < x => <<y, x>> \in R
    BY DEF OpToRel
  <1>2. IsWellFoundedOn(R, Nat)
    BY NatLessThanWellFounded
  <1> HIDE DEF R
  <1>3. PICK x \in S : \A y \in S : ~(<<y, x>> \in R)
    BY <1>2, WFMin
  <1>4. \A y \in S : ~(y < x)
    BY <1>1, <1>3, Zenon
  <1>5. \A y \in S : x <= y
    BY <1>4
  <1> QED
    BY <1>3, <1>5 DEF Min

IsKept(g, s, T, m) ==
    g = [n \in 0 .. m |->
          IF n = 0 THEN <<>>
          ELSE IF s[n] \in T THEN Append(g[n - 1], s[n]) ELSE g[n - 1]]

LEMMA KeptAt ==
    ASSUME NEW g, NEW s, NEW T, NEW m, IsKept(g, s, T, m), NEW n \in 0 .. m
    PROVE  g[n] = IF n = 0 THEN <<>>
                  ELSE IF s[n] \in T THEN Append(g[n - 1], s[n]) ELSE g[n - 1]
  <1> DEFINE f == [i \in 0 .. m |->
                    IF i = 0 THEN <<>>
                    ELSE IF s[i] \in T THEN Append(g[i - 1], s[i]) ELSE g[i - 1]]
  <1>1. g = f
    BY DEF IsKept
  <1>2. f[n] = IF n = 0 THEN <<>>
               ELSE IF s[n] \in T THEN Append(g[n - 1], s[n]) ELSE g[n - 1]
    OBVIOUS
  <1> HIDE DEF f
  <1> QED
    BY <1>1, <1>2

LEMMA KeptExists ==
    ASSUME NEW s, NEW T, NEW m \in Nat
    PROVE  \E g : IsKept(g, s, T, m)
  <1> DEFINE G == {k \in Nat : \E g : IsKept(g, s, T, k)}
  <1>1. 0 \in G
    <2> DEFINE g0 == [n \in 0 .. 0 |-> <<>>]
    <2>1. IsKept(g0, s, T, 0)
      BY DEF IsKept
    <2> QED
      BY <2>1
  <1>2. ASSUME NEW k \in Nat, k \in G PROVE k + 1 \in G
    <2>1. PICK g : IsKept(g, s, T, k)
      BY <1>2
    <2> DEFINE h == [n \in 0 .. k + 1 |->
                      IF n <= k THEN g[n]
                      ELSE IF s[n] \in T THEN Append(g[n - 1], s[n]) ELSE g[n - 1]]
    <2>2. IsKept(h, s, T, k + 1)
      <3>1. \A n \in 0 .. k + 1 : h[n] = IF n = 0 THEN <<>>
                 ELSE IF s[n] \in T THEN Append(h[n - 1], s[n]) ELSE h[n - 1]
        <4> SUFFICES ASSUME NEW n \in 0 .. k + 1
                     PROVE  h[n] = IF n = 0 THEN <<>>
                              ELSE IF s[n] \in T THEN Append(h[n - 1], s[n]) ELSE h[n - 1]
          OBVIOUS
        <4>1. n # 0 => n - 1 \in 0 .. k /\ h[n - 1] = g[n - 1]
          OBVIOUS
        <4>2. CASE n <= k
          <5>1. g[n] = IF n = 0 THEN <<>>
                       ELSE IF s[n] \in T THEN Append(g[n - 1], s[n]) ELSE g[n - 1]
            BY <2>1, <4>2, KeptAt
          <5> QED
            BY <4>1, <4>2, <5>1
        <4>3. CASE n = k + 1
          BY <4>1, <4>3
        <4> QED
          BY <4>2, <4>3
      <3> QED
        BY <3>1 DEF IsKept
    <2> QED
      BY <2>2
  <1>3. Nat \subseteq G
    <2> HIDE DEF G
    <2> QED
      BY <1>1, <1>2, SetInduction
  <1> QED
    BY <1>3

LEMMA OnlyIsKept ==
    ASSUME NEW S, NEW s \in Seq(S), NEW T
    PROVE  \E g : IsKept(g, s, T, Len(s)) /\ Only(s, T) = g[Len(s)]
  <1> DEFINE k == CHOOSE g : IsKept(g, s, T, Len(s))
  <1>1. IsKept(k, s, T, Len(s))
    BY KeptExists
  <1>2. Only(s, T) = k[Len(s)]
    BY DEF Only, IsKept
  <1> QED
    BY <1>1, <1>2


\* Two computations agree as far as their sequences do.
LEMMA KeptSame ==
    ASSUME NEW g, NEW h, NEW s, NEW t, NEW T, NEW m \in Nat, NEW n \in Nat, m <= n,
           IsKept(g, s, T, m), IsKept(h, t, T, n), \A i \in 1 .. m : s[i] = t[i]
    PROVE  \A i \in 0 .. m : g[i] = h[i]
  <1> DEFINE G == {i \in Nat : i <= m => g[i] = h[i]}
  <1>1. 0 \in G
    BY KeptAt
  <1>2. ASSUME NEW i \in Nat, i \in G PROVE i + 1 \in G
    <2> SUFFICES ASSUME i + 1 <= m PROVE g[i + 1] = h[i + 1]
      OBVIOUS
    <2>1. i + 1 \in 0 .. m /\ i + 1 \in 0 .. n /\ i + 1 # 0 /\ (i + 1) - 1 = i
      OBVIOUS
    <2>2. g[i + 1] = IF s[i + 1] \in T THEN Append(g[i], s[i + 1]) ELSE g[i]
      BY <2>1, KeptAt
    <2>3. h[i + 1] = IF t[i + 1] \in T THEN Append(h[i], t[i + 1]) ELSE h[i]
      BY <2>1, KeptAt
    <2>4. g[i] = h[i] /\ s[i + 1] = t[i + 1]
      BY <1>2, <2>1
    <2> QED
      BY <2>2, <2>3, <2>4
  <1>3. Nat \subseteq G
    <2> HIDE DEF G
    <2> QED
      BY <1>1, <1>2, SetInduction
  <1> QED
    BY <1>3

\* Nothing is kept of nothing.
LEMMA OnlyEmpty == \A T : Only(<<>>, T) = <<>>
  <1> TAKE T
  <1>1. <<>> \in Seq({}) /\ Len(<<>>) = 0
    OBVIOUS
  <1>2. PICK g : IsKept(g, <<>>, T, 0) /\ Only(<<>>, T) = g[0]
    BY <1>1, OnlyIsKept
  <1> QED
    BY <1>2, KeptAt

\* One more element is kept if it is in T.
LEMMA OnlyAppend ==
    ASSUME NEW S, NEW s \in Seq(S), NEW e \in S, NEW T
    PROVE  Only(Append(s, e), T) = IF e \in T THEN Append(Only(s, T), e) ELSE Only(s, T)
  <1> DEFINE t == Append(s, e)
             n == Len(s)
  <1>1. /\ t \in Seq(S) /\ Len(t) = n + 1 /\ n \in Nat
        /\ t[n + 1] = e /\ \A i \in 1 .. n : s[i] = t[i]
    OBVIOUS
  <1> HIDE DEF t
  <1>2. PICK g : IsKept(g, s, T, n) /\ Only(s, T) = g[n]
    BY OnlyIsKept
  <1>3. PICK h : IsKept(h, t, T, n + 1) /\ Only(t, T) = h[n + 1]
    BY <1>1, OnlyIsKept
  <1>4. g[n] = h[n]
    BY <1>1, <1>2, <1>3, KeptSame
  <1>5. h[n + 1] = IF t[n + 1] \in T THEN Append(h[n], t[n + 1]) ELSE h[n]
    <2>1. n + 1 \in 0 .. n + 1 /\ n + 1 # 0 /\ (n + 1) - 1 = n
      BY <1>1
    <2> QED
      BY <1>3, <2>1, KeptAt
  <1> QED
    BY <1>1, <1>2, <1>3, <1>4, <1>5 DEF t

\* Induction on sequences, said of sets.
LEMMA SeqSetInduction ==
    ASSUME NEW S, NEW P, <<>> \in P,
           \A s \in Seq(S), e \in S : s \in P => Append(s, e) \in P
    PROVE  Seq(S) \subseteq P
  <1> DEFINE G == {n \in Nat : \A s \in Seq(S) : Len(s) = n => s \in P}
  <1>1. 0 \in G
    <2>1. \A s \in Seq(S) : Len(s) = 0 => s = <<>>
      BY EmptySeq
    <2> QED
      BY <2>1
  <1>2. ASSUME NEW n \in Nat, n \in G PROVE n + 1 \in G
    <2> SUFFICES ASSUME NEW s \in Seq(S), Len(s) = n + 1 PROVE s \in P
      OBVIOUS
    <2>1. PICK t \in Seq(S), e \in S : s = Append(t, e)
      <3>1. s # <<>>
        OBVIOUS
      <3> QED
        BY <3>1, SequenceEmptyOrAppend
    <2>2. Len(t) = n
      BY <2>1
    <2> QED
      BY <1>2, <2>1, <2>2
  <1>3. Nat \subseteq G
    <2> HIDE DEF G
    <2> QED
      BY <1>1, <1>2, SetInduction
  <1> QED
    <2> SUFFICES ASSUME NEW s \in Seq(S) PROVE s \in P
      OBVIOUS
    <2>1. Len(s) \in G
      BY <1>3
    <2> QED
      BY <2>1

\* What is kept are elements of s that are in T.
LEMMA OnlyType ==
    ASSUME NEW S, NEW s \in Seq(S), NEW T
    PROVE  Only(s, T) \in Seq(S \cap T)
  <1> DEFINE P == {t \in Seq(S) : Only(t, T) \in Seq(S \cap T)}
  <1>1. <<>> \in P
    <2>1. <<>> \in Seq(S) /\ <<>> \in Seq(S \cap T)
      OBVIOUS
    <2> QED
      BY <2>1, OnlyEmpty
  <1>2. ASSUME NEW t \in Seq(S), NEW e \in S, t \in P PROVE Append(t, e) \in P
    <2>1. Append(t, e) \in Seq(S)
      OBVIOUS
    <2>2. e \in T => Append(Only(t, T), e) \in Seq(S \cap T)
      BY <1>2
    <2> QED
      BY <1>2, <2>1, <2>2, OnlyAppend
  <1>3. Seq(S) \subseteq P
    <2> HIDE DEF P
    <2> QED
      BY <1>1, <1>2, SeqSetInduction
  <1> QED
    BY <1>3

\* Projection distributes over concatenation.
LEMMA OnlyConcat ==
    ASSUME NEW S, NEW s \in Seq(S), NEW t \in Seq(S), NEW T
    PROVE  Only(s \o t, T) = Only(s, T) \o Only(t, T)
  <1> DEFINE P == {u \in Seq(S) : Only(s \o u, T) = Only(s, T) \o Only(u, T)}
             R == S \cap T
  <1>1. Only(s, T) \in Seq(R)
    BY OnlyType
  <1> HIDE DEF R
  <1>2. <<>> \in P
    <2>1. <<>> \in Seq(S) /\ s \o <<>> = s /\ Only(s, T) \o <<>> = Only(s, T)
      BY <1>1, ConcatEmptySeq
    <2> QED
      BY <2>1, OnlyEmpty
  <1>3. ASSUME NEW u \in Seq(S), NEW e \in S, u \in P PROVE Append(u, e) \in P
    <2>1. s \o Append(u, e) = Append(s \o u, e) /\ s \o u \in Seq(S) /\ Append(u, e) \in Seq(S)
      OBVIOUS
    <2>2. Only(u, T) \in Seq(R)
      BY OnlyType DEF R
    <2>3. /\ Only(Append(u, e), T) = IF e \in T THEN Append(Only(u, T), e) ELSE Only(u, T)
          /\ Only(Append(s \o u, e), T)
               = IF e \in T THEN Append(Only(s \o u, T), e) ELSE Only(s \o u, T)
      BY <2>1, OnlyAppend
    <2>4. Only(s \o u, T) = Only(s, T) \o Only(u, T)
      BY <1>3
    <2>5. Only(s \o Append(u, e), T) = Only(s, T) \o Only(Append(u, e), T)
      <3>1. CASE e \in T
        <4>1. Only(s, T) \o Append(Only(u, T), e) = Append(Only(s, T) \o Only(u, T), e)
          <5>1. e \in R
            BY <3>1 DEF R
          <5> QED
            BY <1>1, <2>2, <5>1
        <4> QED
          BY <2>1, <2>3, <2>4, <3>1, <4>1, Zenon
      <3>2. CASE e \notin T
        BY <2>1, <2>3, <2>4, <3>2, Zenon
      <3> QED
        BY <3>1, <3>2
    <2> QED
      BY <2>1, <2>5
  <1>4. Seq(S) \subseteq P
    <2> HIDE DEF P
    <2> QED
      BY <1>2, <1>3, SeqSetInduction
  <1> QED
    BY <1>4

\* The first n elements and the others are the sequence.
LEMMA SplitSeq ==
    ASSUME NEW S, NEW s \in Seq(S), NEW n \in 0 .. Len(s)
    PROVE  SubSeq(s, 1, n) \o SubSeq(s, n + 1, Len(s)) = s
  <1>1. 1 \in 1 .. Len(s) + 1 /\ n \in 1 - 1 .. Len(s) /\ Len(s) \in n .. Len(s)
    OBVIOUS
  <1>2. SubSeq(s, 1, n) \o SubSeq(s, n + 1, Len(s)) = SubSeq(s, 1, Len(s))
    BY <1>1, ConcatAdjacentSubSeq
  <1>3. SubSeq(s, 1, Len(s)) = s
    BY SubSeqFull
  <1> QED
    BY <1>2, <1>3, Zenon

\* The provers unfold \o before they look for instances of a lemma, so the
\* lemma is cited with \o under a name.
Joined(s, t) == s \o t

LEMMA OnlyJoined ==
    \A S, T : \A s, t \in Seq(S) : Only(Joined(s, t), T) = Joined(Only(s, T), Only(t, T))
  <1> TAKE S, T
  <1> TAKE s, t \in Seq(S)
  <1> QED
    BY OnlyConcat DEF Joined

\* So is SubSeq.
First(s, n) == SubSeq(s, 1, n)

\* What is kept of the first n elements comes first.
LEMMA OnlyOfPrefix ==
    \A S, T : \A s \in Seq(S) : \A n \in 0 .. Len(s) :
        /\ Only(First(s, n), T) \in Seq(S \cap T)
        /\ \E r \in Seq(S \cap T) : Only(s, T) = Joined(Only(First(s, n), T), r)
  <1> TAKE S, T
  <1> TAKE s \in Seq(S)
  <1> TAKE n \in 0 .. Len(s)
  <1>1. PICK a \in Seq(S) : a = First(s, n)
    <2>1. SubSeq(s, 1, n) \in Seq(S)
      OBVIOUS
    <2> QED
      BY <2>1, Zenon DEF First
  <1>2. PICK b \in Seq(S) : b = SubSeq(s, n + 1, Len(s))
    <2>1. SubSeq(s, n + 1, Len(s)) \in Seq(S)
      OBVIOUS
    <2> QED
      BY <2>1, Zenon
  <1>3. Joined(a, b) = s
    <2>1. SubSeq(s, 1, n) \o SubSeq(s, n + 1, Len(s)) = s
      BY SplitSeq
    <2> QED
      BY <1>1, <1>2, <2>1, Zenon DEF First, Joined
  <1>4. Only(Joined(a, b), T) = Joined(Only(a, T), Only(b, T))
    BY OnlyJoined
  <1>5. Only(a, T) \in Seq(S \cap T) /\ Only(b, T) \in Seq(S \cap T)
    BY OnlyType, Zenon
  <1>6. Only(s, T) = Joined(Only(a, T), Only(b, T))
    BY <1>3, <1>4, Zenon
  <1> QED
    BY <1>1, <1>5, <1>6, Zenon

LEMMA OnlyBefore ==
    ASSUME NEW S, NEW s \in Seq(S), NEW n \in 0 .. Len(s), NEW T,
           NEW p, p = Only(SubSeq(s, 1, n), T), NEW q, q = Only(s, T)
    PROVE  /\ p \in Seq(S \cap T) /\ q \in Seq(S \cap T)
           /\ Len(p) <= Len(q)
           /\ \A i \in 1 .. Len(p) : p[i] = q[i]
  <1>1. p = Only(First(s, n), T)
    BY Zenon DEF First
  <1>2. /\ Only(First(s, n), T) \in Seq(S \cap T)
        /\ \E r \in Seq(S \cap T) : Only(s, T) = Joined(Only(First(s, n), T), r)
    BY OnlyOfPrefix, ZenonT(40)
  <1>3. PICK r \in Seq(S \cap T) : q = Joined(p, r)
    BY <1>1, <1>2, Zenon
  <1>4. p \in Seq(S \cap T)
    BY <1>1, <1>2, Zenon
  <1>5. q \in Seq(S \cap T)
    BY OnlyType, Zenon
  <1>6. PICK R : R = S \cap T
    OBVIOUS
  <1>7. p \in Seq(R) /\ r \in Seq(R)
    BY <1>3, <1>4, <1>6, Zenon
  <1>8. Len(p) <= Len(q) /\ \A i \in 1 .. Len(p) : p[i] = q[i]
    <2>1. q = p \o r
      BY <1>3, Zenon DEF Joined
    <2> QED
      BY <1>7, <2>1
  <1> QED
    BY <1>4, <1>5, <1>8, Zenon

\* The element behind the first n is the next one that is kept, if it is.
LEMMA OnlyNext ==
    ASSUME NEW S, NEW s \in Seq(S), NEW n \in 0 .. Len(s) - 1, NEW T
    PROVE  /\ Only(SubSeq(s, 1, n + 1), T) =
                IF s[n + 1] \in T THEN Append(Only(SubSeq(s, 1, n), T), s[n + 1])
                ELSE Only(SubSeq(s, 1, n), T)
           /\ s[n + 1] \in T =>
                /\ Len(Only(SubSeq(s, 1, n), T)) + 1 \in DOMAIN Only(s, T)
                /\ Only(s, T)[Len(Only(SubSeq(s, 1, n), T)) + 1] = s[n + 1]
  <1>1. PICK a \in Seq(S) : a = SubSeq(s, 1, n)
    <2>1. SubSeq(s, 1, n) \in Seq(S)
      OBVIOUS
    <2> QED
      BY <2>1, Zenon
  <1>2. PICK e \in S : e = s[n + 1]
    OBVIOUS
  <1>3. SubSeq(s, 1, n + 1) = Append(a, e)
    <2>1. SubSeq(s, 1, n + 1) = Append(SubSeq(s, 1, n), s[n + 1])
      OBVIOUS
    <2> QED
      BY <1>1, <1>2, <2>1, Zenon
  <1> DEFINE p == Only(a, T)
             q == Only(SubSeq(s, 1, n + 1), T)
             R == S \cap T
  <1>4. q = IF e \in T THEN Append(p, e) ELSE p
    <2>1. Only(Append(a, e), T) = IF e \in T THEN Append(p, e) ELSE p
      BY OnlyAppend, Zenon
    <2> QED
      BY <1>3, <2>1, Zenon
  <1>5. p \in Seq(R)
    BY OnlyType, Zenon
  <1>6. \E r \in Seq(R) : Only(s, T) = q \o r
    <2>1. PICK m \in 0 .. Len(s) : m = n + 1
      OBVIOUS
    <2>2. \E r \in Seq(S \cap T) : Only(s, T) = Joined(Only(First(s, m), T), r)
      BY OnlyOfPrefix, ZenonT(40)
    <2> QED
      BY <2>1, <2>2, Zenon DEF First, Joined
  <1>7. e \in T => Len(p) + 1 \in DOMAIN Only(s, T) /\ Only(s, T)[Len(p) + 1] = e
    <2> SUFFICES ASSUME e \in T
                 PROVE  Len(p) + 1 \in DOMAIN Only(s, T) /\ Only(s, T)[Len(p) + 1] = e
      OBVIOUS
    <2>1. e \in R
      OBVIOUS
    <2>2. PICK r \in Seq(R) : Only(s, T) = q \o r
      BY <1>6
    <2>3. q = Append(p, e)
      BY <1>4, Zenon
    <2> HIDE DEF p, q, R
    <2>4. Len(p) + 1 \in DOMAIN (Append(p, e) \o r) /\ (Append(p, e) \o r)[Len(p) + 1] = e
      BY <1>5, <2>1
    <2> QED
      BY <2>2, <2>3, <2>4, Zenon
  <1> HIDE DEF q
  <1> QED
    BY <1>1, <1>2, <1>4, <1>7, Zenon DEF q

-----------------------------------------------------------------------------
\* A prefix, element by element.
LEMMA PrefixAt ==
    ASSUME NEW S, NEW s \in Seq(S), NEW t \in Seq(S)
    PROVE  IsPrefix(s, t) <=> Len(s) <= Len(t) /\ \A i \in 1 .. Len(s) : s[i] = t[i]
  BY DEF IsPrefix

=============================================================================
