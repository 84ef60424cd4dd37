-------------------------- MODULE CanonicalProofs --------------------------
(***************************************************************************)
(* Proofs about Canonical: for values nested to any depth, with texts of   *)
(* any length, keys are in RFC 8785's order, canonical text has no control *)
(* character, and two values have one canonical text exactly when they     *)
(* mean the same.                                                          *)
(***************************************************************************)
EXTENDS Canonical, TraceFormatProofs, FiniteSetTheorems

-----------------------------------------------------------------------------
(* Concatenations *)

IsFlat(g, ts, m) ==
    g = [i \in 1 .. m |-> IF i = 1 THEN ts[i] ELSE g[i - 1] \o ts[i]]

LEMMA FlatAt ==
    ASSUME NEW g, NEW ts, NEW m, IsFlat(g, ts, m), NEW n \in 1 .. m
    PROVE  g[n] = IF n = 1 THEN ts[n] ELSE Joined(g[n - 1], ts[n])
  <1> DEFINE f == [i \in 1 .. m |-> IF i = 1 THEN ts[i] ELSE g[i - 1] \o ts[i]]
  <1>1. g = f
    BY DEF IsFlat
  <1>2. f[n] = IF n = 1 THEN ts[n] ELSE g[n - 1] \o ts[n]
    BY Zenon
  <1> HIDE DEF f
  <1> QED
    BY <1>1, <1>2, Zenon DEF Joined

LEMMA FlatExists ==
    ASSUME NEW ts, NEW m \in Nat
    PROVE  \E g : IsFlat(g, ts, m)
  <1> DEFINE G == {k \in Nat : \E g : IsFlat(g, ts, k)}
  <1>1. 0 \in G
    <2> DEFINE g0 == [n \in 1 .. 0 |-> <<>>]
    <2>1. 1 .. 0 = {}
      OBVIOUS
    <2>2. IsFlat(g0, ts, 0)
      BY <2>1, Zenon DEF IsFlat
    <2> QED
      BY <2>2
  <1>2. ASSUME NEW k \in Nat, k \in G PROVE k + 1 \in G
    <2>1. PICK g : IsFlat(g, ts, k)
      BY <1>2
    <2> DEFINE next == IF k = 0 THEN ts[1] ELSE Joined(g[k], ts[k + 1])
    <2>2. PICK v : v = next
      OBVIOUS
    <2> DEFINE h == [n \in 1 .. k + 1 |-> IF n <= k THEN g[n] ELSE v]
    <2>3. \A n \in 1 .. k + 1 : h[n] = IF n = 1 THEN ts[n] ELSE Joined(h[n - 1], ts[n])
      <3> SUFFICES ASSUME NEW n \in 1 .. k + 1
                   PROVE  h[n] = IF n = 1 THEN ts[n] ELSE Joined(h[n - 1], ts[n])
        OBVIOUS
      <3>1. n # 1 => n - 1 \in 1 .. k /\ h[n - 1] = g[n - 1]
        OBVIOUS
      <3>2. CASE n <= k
        <4>1. n \in 1 .. k /\ h[n] = g[n]
          BY <3>2
        <4>2. g[n] = IF n = 1 THEN ts[n] ELSE Joined(g[n - 1], ts[n])
          BY <2>1, <4>1, FlatAt
        <4> QED
          BY <3>1, <4>1, <4>2
      <3>3. CASE n = k + 1
        <4>1. h[n] = v /\ (n = 1 <=> k = 0) /\ n - 1 = k
          BY <3>3
        <4> QED
          BY <2>2, <3>1, <3>3, <4>1
      <3> QED
        BY <3>2, <3>3
    <2> HIDE DEF h
    <2>4. h = [i \in 1 .. k + 1 |-> h[i]]
      BY DEF h
    <2>5. h = [i \in 1 .. k + 1 |-> IF i = 1 THEN ts[i] ELSE Joined(h[i - 1], ts[i])]
      BY <2>3, <2>4
    <2>6. IsFlat(h, ts, k + 1)
      BY <2>5, Zenon DEF IsFlat, Joined
    <2> QED
      BY <2>6
  <1>3. Nat \subseteq G
    <2> HIDE DEF G
    <2> QED
      BY <1>1, <1>2, SetInduction
  <1> QED
    BY <1>3

LEMMA FlattenIsFlat ==
    ASSUME NEW S, NEW ts \in Seq(S), ts # <<>>
    PROVE  \E g : IsFlat(g, ts, Len(ts)) /\ FlattenSeq(ts) = g[Len(ts)]
  <1> DEFINE k == CHOOSE g : IsFlat(g, ts, Len(ts))
  <1>1. IsFlat(k, ts, Len(ts))
    <2>1. Len(ts) \in Nat
      OBVIOUS
    <2>2. \E g : IsFlat(g, ts, Len(ts))
      BY <2>1, FlatExists
    <2> QED
      BY <2>2, Zenon
  <1>2. Len(ts) # 0
    BY EmptySeq
  <1>3. FlattenSeq(ts) = k[Len(ts)]
    BY <1>2, Zenon DEF FlattenSeq, IsFlat
  <1> QED
    BY <1>1, <1>3, Zenon

LEMMA FlatSame ==
    ASSUME NEW g, NEW h, NEW s, NEW t, NEW m \in Nat, NEW n \in Nat, m <= n,
           IsFlat(g, s, m), IsFlat(h, t, n), \A i \in 1 .. m : s[i] = t[i]
    PROVE  \A i \in 1 .. m : g[i] = h[i]
  <1> DEFINE G == {i \in Nat : i \in 1 .. m => g[i] = h[i]}
  <1>1. 0 \in G
    OBVIOUS
  <1>2. ASSUME NEW i \in Nat, i \in G PROVE i + 1 \in G
    <2> SUFFICES ASSUME i + 1 \in 1 .. m PROVE g[i + 1] = h[i + 1]
      OBVIOUS
    <2>1. i + 1 \in 1 .. m /\ i + 1 \in 1 .. n /\ (i + 1) - 1 = i
      OBVIOUS
    <2>2. g[i + 1] = IF i + 1 = 1 THEN s[i + 1] ELSE Joined(g[i], s[i + 1])
      BY <2>1, FlatAt
    <2>3. h[i + 1] = IF i + 1 = 1 THEN t[i + 1] ELSE Joined(h[i], t[i + 1])
      BY <2>1, FlatAt
    <2>4. (i + 1 # 1 => g[i] = h[i]) /\ s[i + 1] = t[i + 1]
      BY <1>2, <2>1
    <2> QED
      BY <2>2, <2>3, <2>4, Zenon
  <1>3. Nat \subseteq G
    <2> HIDE DEF G
    <2> QED
      BY <1>1, <1>2, SetInduction
  <1> QED
    BY <1>3

LEMMA FlatEmpty == FlattenSeq(<<>>) = <<>>
  BY DEF FlattenSeq

\* One more text comes last.
LEMMA FlatAppend ==
    ASSUME NEW S, NEW ts \in Seq(Seq(S)), NEW t \in Seq(S)
    PROVE  FlattenSeq(Append(ts, t)) = Joined(FlattenSeq(ts), t)
  <1> DEFINE R == Seq(S)
  <1>r. ts \in Seq(R) /\ t \in R
    OBVIOUS
  <1>j. Joined(<<>>, t) = t
    BY DEF Joined
  <1> HIDE DEF R
  <1> DEFINE us == Append(ts, t)
             n  == Len(ts)
  <1>1. /\ us \in Seq(R) /\ Len(us) = n + 1 /\ n \in Nat
        /\ us[n + 1] = t /\ \A i \in 1 .. n : ts[i] = us[i]
    BY <1>r
  <1> HIDE DEF us
  <1>2. us # <<>>
    BY <1>1
  <1>3. PICK h : IsFlat(h, us, n + 1) /\ FlattenSeq(us) = h[n + 1]
    BY <1>1, <1>2, FlattenIsFlat
  <1>4. CASE ts = <<>>
    <2>1. n = 0
      BY <1>4
    <2>2. h[1] = us[1]
      BY <1>3, <2>1, FlatAt
    <2>3. FlattenSeq(us) = t
      BY <1>1, <1>3, <2>1, <2>2
    <2> QED
      BY <1>4, <1>j, <2>3, FlatEmpty, Zenon DEF us
  <1>5. CASE ts # <<>>
    <2>1. n # 0
      BY <1>5, <1>r, EmptySeq
    <2>2. PICK g : IsFlat(g, ts, n) /\ FlattenSeq(ts) = g[n]
      BY <1>5, <1>r, FlattenIsFlat
    <2>3. n \in 1 .. n /\ n <= n + 1 /\ n + 1 \in Nat
      BY <1>1, <2>1
    <2>4. g[n] = h[n]
      <3>1. IsFlat(g, ts, n) /\ IsFlat(h, us, n + 1)
        BY <1>3, <2>2
      <3>2. n \in Nat /\ \A i \in 1 .. n : ts[i] = us[i]
        BY <1>1
      <3> HIDE DEF n
      <3>3. \A i \in 1 .. n : g[i] = h[i]
        BY <2>3, <3>1, <3>2, FlatSame
      <3> QED
        BY <2>3, <3>3
    <2>5. n + 1 \in 1 .. n + 1 /\ n + 1 # 1 /\ (n + 1) - 1 = n
      BY <1>1, <2>1
    <2>6. h[n + 1] = Joined(h[n], us[n + 1])
      BY <1>3, <2>5, FlatAt
    <2> QED
      BY <1>1, <1>3, <2>2, <2>4, <2>6, Zenon DEF us
  <1> QED
    BY <1>4, <1>5

LEMMA JoinFacts ==
    \A S : \A s, t, u \in Seq(S) :
      /\ Joined(s, t) \in Seq(S)
      /\ Joined(s, <<>>) = s /\ Joined(<<>>, s) = s
      /\ Joined(Joined(s, t), u) = Joined(s, Joined(t, u))
  <1> TAKE S
  <1> TAKE s, t, u \in Seq(S)
  <1>1. /\ s \o t \in Seq(S) /\ s \o <<>> = s /\ <<>> \o s = s
        /\ (s \o t) \o u = s \o (t \o u)
    OBVIOUS
  <1> QED
    BY <1>1, Zenon DEF Joined

LEMMA JoinAssoc ==
    ASSUME NEW S, NEW s \in Seq(S), NEW t \in Seq(S), NEW u \in Seq(S)
    PROVE  Joined(Joined(s, t), u) = Joined(s, Joined(t, u))
  <1>1. (s \o t) \o u = s \o (t \o u)
    OBVIOUS
  <1> QED
    BY <1>1, Zenon DEF Joined

\* The first element, the others, and the cancellation of a common start.
LEMMA JoinCancel ==
    ASSUME NEW S, NEW p \in Seq(S), NEW s \in Seq(S), NEW t \in Seq(S),
           Joined(p, s) = Joined(p, t)
    PROVE  s = t
  <1>1. p \o s = p \o t
    BY DEF Joined
  <1> QED
    BY <1>1, ConcatSimplifications

LEMMA ConsFacts ==
    ASSUME NEW S, NEW x \in S, NEW s \in Seq(S)
    PROVE  /\ Cons(x, s) \in Seq(S) /\ Cons(x, s) # <<>>
           /\ Len(Cons(x, s)) = Len(s) + 1 /\ Cons(x, s)[1] = x
           /\ \A i \in 1 .. Len(s) : Cons(x, s)[i + 1] = s[i]
  BY DEF Cons

LEMMA ConsJoined ==
    ASSUME NEW S, NEW x \in S, NEW s \in Seq(S)
    PROVE  Cons(x, s) = Joined(<<x>>, s) /\ <<x>> \in Seq(S)
  BY DEF Cons, Joined

LEMMA ConsOf ==
    ASSUME NEW S, NEW s \in Seq(S), s # <<>>
    PROVE  \E x \in S, t \in Seq(S) : s = Cons(x, t)
  <1>1. Head(s) \in S /\ Tail(s) \in Seq(S)
    OBVIOUS
  <1>2. s = Cons(Head(s), Tail(s))
    BY DEF Cons
  <1> QED
    BY <1>1, <1>2

LEMMA ConsEqual ==
    ASSUME NEW S, NEW x \in S, NEW y \in S, NEW s \in Seq(S), NEW t \in Seq(S),
           Cons(x, s) = Cons(y, t)
    PROVE  x = y /\ s = t
  <1>1. x = y
    <2>1. Cons(x, s)[1] = x /\ Cons(y, t)[1] = y
      BY ConsFacts
    <2> QED
      BY <2>1, Zenon
  <1>2. Joined(<<x>>, s) = Joined(<<x>>, t) /\ <<x>> \in Seq(S)
    BY <1>1, ConsJoined
  <1> QED
    BY <1>1, <1>2, JoinCancel

\* Induction on sequences from their ends, said of sets.
LEMMA ConsInduction ==
    ASSUME NEW S, NEW P, <<>> \in P,
           \A s \in Seq(S), x \in S : s \in P => Cons(x, s) \in P
    PROVE  Seq(S) \subseteq P
  <1> DEFINE G == {n \in Nat : \A s \in Seq(S) : Len(s) = n => s \in P}
  <1>1. 0 \in G
    <2>1. \A s \in Seq(S) : Len(s) = 0 => s = <<>>
      BY EmptySeq
    <2> QED
      BY <2>1
  <1>2. ASSUME NEW n \in Nat, n \in G PROVE n + 1 \in G
    <2> SUFFICES ASSUME NEW s \in Seq(S), Len(s) = n + 1 PROVE s \in P
      OBVIOUS
    <2>1. PICK x \in S, t \in Seq(S) : s = Cons(x, t)
      <3>1. s # <<>>
        OBVIOUS
      <3> QED
        BY <3>1, ConsOf
    <2>2. Len(t) = n
      <3>1. Len(s) = Len(t) + 1
        BY <2>1, ConsFacts
      <3> QED
        BY <3>1
    <2> QED
      BY <1>2, <2>1, <2>2
  <1>3. Nat \subseteq G
    <2> HIDE DEF G
    <2> QED
      BY <1>1, <1>2, SetInduction
  <1> QED
    <2> SUFFICES ASSUME NEW s \in Seq(S) PROVE s \in P
      OBVIOUS
    <2>1. Len(s) \in G
      BY <1>3
    <2> QED
      BY <2>1

LEMMA FlatType ==
    ASSUME NEW S, NEW ts \in Seq(Seq(S))
    PROVE  FlattenSeq(ts) \in Seq(S)
  <1> DEFINE P == {us \in Seq(Seq(S)) : FlattenSeq(us) \in Seq(S)}
             R == Seq(S)
  <1>1. <<>> \in P
    <2>1. <<>> \in Seq(Seq(S)) /\ <<>> \in Seq(S)
      OBVIOUS
    <2> QED
      BY <2>1, FlatEmpty
  <1>2. ASSUME NEW us \in Seq(R), NEW t \in R, us \in P PROVE Append(us, t) \in P
    <2>1. Append(us, t) \in Seq(Seq(S))
      OBVIOUS
    <2>2. FlattenSeq(Append(us, t)) = Joined(FlattenSeq(us), t)
      BY FlatAppend
    <2>3. FlattenSeq(us) \in Seq(S)
      BY <1>2
    <2>4. Joined(FlattenSeq(us), t) \in Seq(S)
      BY <2>3, JoinFacts, Zenon
    <2> QED
      BY <2>1, <2>2, <2>4, Zenon
  <1>3. Seq(R) \subseteq P
    <2> HIDE DEF P, R
    <2> QED
      BY <1>1, <1>2, SeqSetInduction
  <1> QED
    BY <1>3

\* One more text comes first.
LEMMA FlatCons ==
    ASSUME NEW S, NEW t \in Seq(S), NEW ts \in Seq(Seq(S))
    PROVE  FlattenSeq(Cons(t, ts)) = Joined(t, FlattenSeq(ts))
  <1> DEFINE R == Seq(S)
             P == {us \in Seq(R) : FlattenSeq(Cons(t, us)) = Joined(t, FlattenSeq(us))}
  <1>1. <<>> \in P
    <2>1. <<>> \in Seq(R) /\ <<>> \in Seq(S)
      OBVIOUS
    <2>2. Cons(t, <<>>) = Append(<<>>, t)
      BY DEF Cons
    <2>3. FlattenSeq(Append(<<>>, t)) = Joined(FlattenSeq(<<>>), t)
      BY <2>1, FlatAppend
    <2>4. Joined(<<>>, t) = t /\ Joined(t, <<>>) = t
      BY JoinFacts, Zenon
    <2> QED
      BY <2>1, <2>2, <2>3, <2>4, FlatEmpty, Zenon
  <1>2. ASSUME NEW us \in Seq(R), NEW u \in R, us \in P PROVE Append(us, u) \in P
    <2>1. Append(us, u) \in Seq(R) /\ Cons(t, us) \in Seq(R) /\ u \in Seq(S)
      <3>1. t \in R /\ u \in Seq(S)
        OBVIOUS
      <3> HIDE DEF R
      <3>2. Append(us, u) \in Seq(R)
        OBVIOUS
      <3>3. Cons(t, us) \in Seq(R)
        BY <3>1, ConsFacts
      <3> QED
        BY <3>1, <3>2, <3>3
    <2>2. Cons(t, Append(us, u)) = Append(Cons(t, us), u)
      <3> HIDE DEF R
      <3>1. t \in R
        BY DEF R
      <3> QED
        BY <3>1 DEF Cons
    <2>3. /\ FlattenSeq(Append(Cons(t, us), u)) = Joined(FlattenSeq(Cons(t, us)), u)
          /\ FlattenSeq(Append(us, u)) = Joined(FlattenSeq(us), u)
      BY <2>1, FlatAppend
    <2>4. FlattenSeq(us) \in Seq(S)
      BY FlatType
    <2>5. Joined(Joined(t, FlattenSeq(us)), u) = Joined(t, Joined(FlattenSeq(us), u))
      <3> HIDE DEF P, R
      <3> QED
        BY <2>1, <2>4, JoinAssoc
    <2>6. FlattenSeq(Cons(t, us)) = Joined(t, FlattenSeq(us))
      BY <1>2, Zenon
    <2>7. FlattenSeq(Cons(t, Append(us, u))) = Joined(t, FlattenSeq(Append(us, u)))
      BY <2>2, <2>3, <2>5, <2>6, Zenon
    <2> QED
      BY <2>1, <2>7, Zenon
  <1>3. Seq(R) \subseteq P
    <2> HIDE DEF P, R
    <2> QED
      BY <1>1, <1>2, SeqSetInduction
  <1> QED
    BY <1>3

-----------------------------------------------------------------------------
(* Texts made element by element, and what can be read back from them *)

\* Named, so that the provers need not unfold it.
Maps(E, R) == [E -> R]

LEMMA MapsTo == \A E, R : \A f \in Maps(E, R) : \A x \in E : f[x] \in R
  BY DEF Maps

Mapped(f, s) == [n \in DOMAIN s |-> f[s[n]]]
Coded(f, s) == FlattenSeq(Mapped(f, s))

LEMMA MappedFacts ==
    ASSUME NEW E, NEW R, NEW f \in Maps(E, R), NEW s \in Seq(E)
    PROVE  /\ Mapped(f, s) \in Seq(R) /\ Len(Mapped(f, s)) = Len(s)
           /\ \A i \in 1 .. Len(s) : Mapped(f, s)[i] = f[s[i]]
  BY DEF Mapped, Maps

LEMMA MappedEmpty == \A f : Mapped(f, <<>>) = <<>>
  BY DEF Mapped

LEMMA MappedCons ==
    ASSUME NEW E, NEW R, NEW f \in Maps(E, R), NEW s \in Seq(E), NEW x \in E
    PROVE  Mapped(f, Cons(x, s)) = Cons(f[x], Mapped(f, s))
  <1> DEFINE a == Mapped(f, Cons(x, s))
             b == Cons(f[x], Mapped(f, s))
  <1>1. /\ Cons(x, s) \in Seq(E) /\ Len(Cons(x, s)) = Len(s) + 1
        /\ Cons(x, s)[1] = x /\ \A i \in 1 .. Len(s) : Cons(x, s)[i + 1] = s[i]
    BY ConsFacts
  <1>2. /\ a \in Seq(R) /\ Len(a) = Len(s) + 1
        /\ a[1] = f[x] /\ \A i \in 1 .. Len(s) : a[i + 1] = f[s[i]]
    <2>1. PICK c \in Seq(E) : c = Cons(x, s)
      BY <1>1
    <2> HIDE DEF a, b
    <2>2. /\ Mapped(f, c) \in Seq(R) /\ Len(Mapped(f, c)) = Len(c)
          /\ \A i \in 1 .. Len(c) : Mapped(f, c)[i] = f[c[i]]
      BY MappedFacts
    <2>3. Mapped(f, c) = a
      BY <2>1 DEF a
    <2>4. Len(c) = Len(s) + 1 /\ c[1] = x /\ \A i \in 1 .. Len(s) : c[i + 1] = s[i]
      BY <1>1, <2>1, Zenon
    <2>5. Len(s) \in Nat /\ 1 \in 1 .. Len(c) /\ \A i \in 1 .. Len(s) : i + 1 \in 1 .. Len(c)
      BY <2>4
    <2> QED
      BY <2>2, <2>3, <2>4, <2>5
  <1>3. /\ b \in Seq(R) /\ Len(b) = Len(s) + 1
        /\ b[1] = f[x] /\ \A i \in 1 .. Len(s) : b[i + 1] = f[s[i]]
    <2>1. /\ Mapped(f, s) \in Seq(R) /\ Len(Mapped(f, s)) = Len(s) /\ f[x] \in R
          /\ \A i \in 1 .. Len(s) : Mapped(f, s)[i] = f[s[i]]
      <3>1. f[x] \in R
        BY MapsTo
      <3> HIDE DEF a, b
      <3> QED
        BY <3>1, MappedFacts
    <2>2. PICK t \in Seq(R), y \in R : t = Mapped(f, s) /\ y = f[x]
      BY <2>1, Zenon
    <2> HIDE DEF a, b
    <2>3. /\ Cons(y, t) \in Seq(R) /\ Len(Cons(y, t)) = Len(t) + 1
          /\ Cons(y, t)[1] = y /\ \A i \in 1 .. Len(t) : Cons(y, t)[i + 1] = t[i]
      BY ConsFacts
    <2>4. Cons(y, t) = b
      BY <2>2, Zenon DEF b
    <2> QED
      BY <2>1, <2>2, <2>3, <2>4
  <1> HIDE DEF a, b
  <1>4. \A n \in 1 .. Len(s) + 1 : a[n] = b[n]
    <2> SUFFICES ASSUME NEW n \in 1 .. Len(s) + 1 PROVE a[n] = b[n]
      OBVIOUS
    <2>1. CASE n = 1
      BY <1>2, <1>3, <2>1
    <2>2. CASE n # 1
      <3>1. n - 1 \in 1 .. Len(s) /\ (n - 1) + 1 = n
        BY <2>2
      <3> QED
        BY <1>2, <1>3, <3>1
    <2> QED
      BY <2>1, <2>2
  <1>5. a = b
    BY <1>2, <1>3, <1>4, SeqEqual
  <1> QED
    BY <1>5 DEF a, b

LEMMA CodedFacts ==
    ASSUME NEW E, NEW S, NEW f \in Maps(E, Seq(S))
    PROVE  /\ Coded(f, <<>>) = <<>>
           /\ \A s \in Seq(E) : Coded(f, s) \in Seq(S)
           /\ \A s \in Seq(E), x \in E : Coded(f, Cons(x, s)) = Joined(f[x], Coded(f, s))
  <1>2. Coded(f, <<>>) = <<>>
    <2>1. Mapped(f, <<>>) = <<>>
      BY MappedEmpty
    <2> QED
      BY <2>1, FlatEmpty DEF Coded
  <1>3. \A s \in Seq(E) : Mapped(f, s) \in Seq(Seq(S))
    BY MappedFacts
  <1>4. \A s \in Seq(E) : Coded(f, s) \in Seq(S)
    BY <1>3, FlatType DEF Coded
  <1>5. ASSUME NEW s \in Seq(E), NEW x \in E
        PROVE  Coded(f, Cons(x, s)) = Joined(f[x], Coded(f, s))
    <2>1. Mapped(f, Cons(x, s)) = Cons(f[x], Mapped(f, s))
      BY MappedCons
    <2>2. f[x] \in Seq(S)
      BY MapsTo
    <2>3. FlattenSeq(Cons(f[x], Mapped(f, s))) = Joined(f[x], FlattenSeq(Mapped(f, s)))
      BY <1>3, <2>2, FlatCons
    <2> QED
      BY <2>1, <2>3, Zenon DEF Coded
  <1> QED
    BY <1>2, <1>4, <1>5

Same(m, s, t) == Len(s) = Len(t) /\ \A i \in 1 .. Len(s) : m[s[i]] = m[t[i]]

LEMMA SameCons ==
    ASSUME NEW E, NEW m, NEW s \in Seq(E), NEW t \in Seq(E), NEW x \in E, NEW y \in E,
           Same(m, s, t), m[x] = m[y]
    PROVE  Same(m, Cons(x, s), Cons(y, t))
  <1> DEFINE a == Cons(x, s)
             b == Cons(y, t)
  <1>1. /\ Len(a) = Len(s) + 1 /\ a[1] = x /\ \A i \in 1 .. Len(s) : a[i + 1] = s[i]
        /\ Len(b) = Len(t) + 1 /\ b[1] = y /\ \A i \in 1 .. Len(t) : b[i + 1] = t[i]
    <2>1. Len(a) = Len(s) + 1 /\ a[1] = x /\ \A i \in 1 .. Len(s) : a[i + 1] = s[i]
      BY ConsFacts
    <2>2. Len(b) = Len(t) + 1 /\ b[1] = y /\ \A i \in 1 .. Len(t) : b[i + 1] = t[i]
      BY ConsFacts
    <2> QED
      BY <2>1, <2>2, Zenon
  <1>2. Len(s) = Len(t) /\ Len(s) \in Nat /\ \A i \in 1 .. Len(s) : m[s[i]] = m[t[i]]
    BY DEF Same
  <1> HIDE DEF a, b
  <1>3. ASSUME NEW n \in 1 .. Len(a) PROVE m[a[n]] = m[b[n]]
    <2>1. CASE n = 1
      BY <1>1, <2>1
    <2>2. CASE n # 1
      <3>1. n - 1 \in 1 .. Len(s) /\ (n - 1) + 1 = n
        BY <1>1, <1>2, <2>2
      <3>2. a[n] = s[n - 1] /\ b[n] = t[n - 1]
        BY <1>1, <1>2, <3>1
      <3> QED
        BY <1>2, <3>1, <3>2
    <2> QED
      BY <2>1, <2>2
  <1>4. Same(m, a, b)
    BY <1>1, <1>2, <1>3 DEF Same
  <1> QED
    BY <1>4 DEF a, b

\* Elements whose texts f[x] can be told apart, and from what may end a list
\* of them (End), whatever follows (K), can be read back one by one, as far
\* as their texts tell m[x].
Keeps(E, f, K) == \A x \in E, a \in K : Joined(f[x], a) \in K
Tells(E, f, K, m) ==
    \A x, y \in E, a, b \in K :
      Joined(f[x], a) = Joined(f[y], b) => m[x] = m[y] /\ a = b
Separate(E, f, K, End) == \A x \in E, a \in K, b \in End : Joined(f[x], a) # b
ListsTell(E, f, End, m) ==
    \A s, t \in Seq(E), a, b \in End :
      Joined(Coded(f, s), a) = Joined(Coded(f, t), b) => Same(m, s, t) /\ a = b

LEMMA ReadBack ==
    ASSUME NEW E, NEW S, NEW f \in Maps(E, Seq(S)), NEW m,
           NEW K \in SUBSET Seq(S), NEW End \in SUBSET K,
           Keeps(E, f, K), Tells(E, f, K, m), Separate(E, f, K, End)
    PROVE  ListsTell(E, f, End, m)
  <1>k. \A x \in E, a \in K : Joined(f[x], a) \in K
    BY Zenon DEF Keeps
  <1>t. \A x, y \in E, a, b \in K :
          Joined(f[x], a) = Joined(f[y], b) => m[x] = m[y] /\ a = b
    BY Zenon DEF Tells
  <1>s. \A x \in E, a \in K, b \in End : Joined(f[x], a) # b
    BY Zenon DEF Separate
  <1> USE <1>k, <1>t, <1>s
  <1>1. /\ Coded(f, <<>>) = <<>>
        /\ \A s \in Seq(E) : Coded(f, s) \in Seq(S)
        /\ \A s \in Seq(E), x \in E : Coded(f, Cons(x, s)) = Joined(f[x], Coded(f, s))
    BY CodedFacts
  <1>2. /\ \A a \in K : a \in Seq(S) /\ Joined(<<>>, a) = a
        /\ \A a \in End : a \in K
        /\ \A x \in E : f[x] \in Seq(S)
    BY JoinFacts, MapsTo, Zenon
  <1>3. \A s \in Seq(E), x \in E, a \in K :
           Joined(Coded(f, Cons(x, s)), a) = Joined(f[x], Joined(Coded(f, s), a))
    <2> TAKE s \in Seq(E), x \in E, a \in K
    <2>1. f[x] \in Seq(S) /\ Coded(f, s) \in Seq(S) /\ a \in Seq(S)
      BY <1>1, <1>2, Zenon
    <2>2. Joined(Joined(f[x], Coded(f, s)), a) = Joined(f[x], Joined(Coded(f, s), a))
      BY <2>1, JoinAssoc
    <2> QED
      BY <1>1, <2>2, Zenon
  <1>4. \A s \in Seq(E) : \A a \in End : Joined(Coded(f, s), a) \in K
    <2> DEFINE P == {s \in Seq(E) : \A a \in End : Joined(Coded(f, s), a) \in K}
    <2>1. <<>> \in P
      <3>1. <<>> \in Seq(E)
        OBVIOUS
      <3> QED
        BY <1>1, <1>2, <3>1
    <2>2. ASSUME NEW s \in Seq(E), NEW x \in E, s \in P PROVE Cons(x, s) \in P
      <3>1. Cons(x, s) \in Seq(E)
        BY ConsFacts
      <3>2. \A a \in End : Joined(f[x], Joined(Coded(f, s), a)) \in K
        BY <2>2, Zenon
      <3> QED
        BY <1>2, <1>3, <3>1, <3>2
    <2>3. Seq(E) \subseteq P
      <3> HIDE DEF P
      <3> QED
        BY <2>1, <2>2, ConsInduction
    <2> QED
      BY <2>3, Zenon
  <1> DEFINE Q(s) == \A t \in Seq(E) : \A a, b \in End :
                       Joined(Coded(f, s), a) = Joined(Coded(f, t), b)
                         => Same(m, s, t) /\ a = b
             P == {s \in Seq(E) : Q(s)}
  <1>5. \A t \in Seq(E) : t = <<>> \/ \E y \in E, u \in Seq(E) : t = Cons(y, u)
    BY ConsOf
  <1>6. <<>> \in P
    <2>1. ASSUME NEW t \in Seq(E), NEW a \in End, NEW b \in End,
                 Joined(Coded(f, <<>>), a) = Joined(Coded(f, t), b)
          PROVE  Same(m, <<>>, t) /\ a = b
      <3>1. a = Joined(Coded(f, t), b)
        BY <1>1, <1>2, <2>1, Zenon
      <3>2. CASE t = <<>>
        <4>1. a = b
          BY <1>1, <1>2, <3>1, <3>2, Zenon
        <4> QED
          BY <3>2, <4>1 DEF Same
      <3>3. ASSUME NEW y \in E, NEW u \in Seq(E), t = Cons(y, u) PROVE FALSE
        <4>1. a = Joined(f[y], Joined(Coded(f, u), b))
          BY <1>2, <1>3, <3>1, <3>3
        <4>2. Joined(Coded(f, u), b) \in K
          BY <1>4, Zenon
        <4> QED
          BY <4>1, <4>2
      <3> QED
        BY <1>5, <3>2, <3>3, Zenon
    <2>2. <<>> \in Seq(E)
      OBVIOUS
    <2> QED
      BY <2>1, <2>2, Zenon
  <1>7. ASSUME NEW s \in Seq(E), NEW x \in E, s \in P PROVE Cons(x, s) \in P
    <2>1. ASSUME NEW t \in Seq(E), NEW a \in End, NEW b \in End,
                 Joined(Coded(f, Cons(x, s)), a) = Joined(Coded(f, t), b)
          PROVE  Same(m, Cons(x, s), t) /\ a = b
      <3>1. Joined(f[x], Joined(Coded(f, s), a)) = Joined(Coded(f, t), b)
        BY <1>2, <1>3, <2>1
      <3>2. Joined(Coded(f, s), a) \in K
        BY <1>4, Zenon
      <3>3. t # <<>>
        <4> SUFFICES ASSUME t = <<>> PROVE FALSE
          OBVIOUS
        <4>1. Joined(Coded(f, t), b) = b
          BY <1>1, <1>2, Zenon
        <4> QED
          BY <3>1, <3>2, <4>1
      <3>4. PICK y \in E, u \in Seq(E) : t = Cons(y, u)
        BY <1>5, <3>3, Zenon
      <3>5. Joined(f[x], Joined(Coded(f, s), a)) = Joined(f[y], Joined(Coded(f, u), b))
        BY <1>2, <1>3, <3>1, <3>4
      <3>6. Joined(Coded(f, u), b) \in K
        BY <1>4, Zenon
      <3>7. m[x] = m[y] /\ Joined(Coded(f, s), a) = Joined(Coded(f, u), b)
        BY <3>2, <3>5, <3>6
      <3>8. Same(m, s, u) /\ a = b
        BY <1>7, <3>7, Zenon
      <3>9. Same(m, Cons(x, s), Cons(y, u))
        BY <3>7, <3>8, SameCons
      <3> QED
        BY <3>4, <3>8, <3>9, Zenon
    <2>2. Cons(x, s) \in Seq(E)
      BY ConsFacts
    <2> QED
      BY <2>1, <2>2, Zenon
  <1>8. Seq(E) \subseteq P
    <2> HIDE DEF P
    <2> QED
      BY <1>6, <1>7, ConsInduction
  <1> QED
    BY <1>8, Zenon DEF ListsTell

LEMMA CodedJoined ==
    ASSUME NEW E, NEW S, NEW f \in Maps(E, Seq(S)), NEW t \in Seq(E)
    PROVE  \A s \in Seq(E) : Coded(f, Joined(s, t)) = Joined(Coded(f, s), Coded(f, t))
  <1> DEFINE P == {s \in Seq(E) : Coded(f, Joined(s, t)) = Joined(Coded(f, s), Coded(f, t))}
  <1>1. /\ Coded(f, <<>>) = <<>>
        /\ \A s \in Seq(E) : Coded(f, s) \in Seq(S)
        /\ \A s \in Seq(E), x \in E : Coded(f, Cons(x, s)) = Joined(f[x], Coded(f, s))
    BY CodedFacts
  <1>2. <<>> \in P
    <2>1. <<>> \in Seq(E)
      OBVIOUS
    <2>2. Joined(<<>>, t) = t /\ Joined(<<>>, Coded(f, t)) = Coded(f, t)
      BY <1>1, JoinFacts, Zenon
    <2> QED
      BY <1>1, <2>1, <2>2, Zenon
  <1>3. ASSUME NEW s \in Seq(E), NEW x \in E, s \in P PROVE Cons(x, s) \in P
    <2>1. Cons(x, s) \in Seq(E)
      BY ConsFacts
    <2>2. Joined(s, t) \in Seq(E) /\ <<x>> \in Seq(E)
      <3>1. Joined(s, t) \in Seq(E)
        BY JoinFacts, Zenon
      <3> QED
        BY <3>1, ConsJoined
    <2>3. Joined(Cons(x, s), t) = Cons(x, Joined(s, t))
      <3>1. PICK p \in Seq(E) : p = <<x>>
        BY <2>2
      <3>2. Cons(x, s) = Joined(p, s)
        BY <3>1, ConsJoined, Zenon
      <3>3. Cons(x, Joined(s, t)) = Joined(p, Joined(s, t))
        BY <2>2, <3>1, ConsJoined, Zenon
      <3>4. Joined(Joined(p, s), t) = Joined(p, Joined(s, t))
        BY JoinAssoc
      <3> QED
        BY <3>2, <3>3, <3>4, Zenon
    <2>4. Coded(f, Cons(x, Joined(s, t))) = Joined(f[x], Joined(Coded(f, s), Coded(f, t)))
      BY <1>1, <1>3, <2>2, Zenon
    <2>5. Joined(Coded(f, Cons(x, s)), Coded(f, t))
            = Joined(f[x], Joined(Coded(f, s), Coded(f, t)))
      <3>1. f[x] \in Seq(S) /\ Coded(f, s) \in Seq(S) /\ Coded(f, t) \in Seq(S)
        BY <1>1, MapsTo
      <3>2. Joined(Joined(f[x], Coded(f, s)), Coded(f, t))
              = Joined(f[x], Joined(Coded(f, s), Coded(f, t)))
        BY <3>1, JoinAssoc
      <3> QED
        BY <1>1, <3>2, Zenon
    <2> QED
      BY <2>1, <2>3, <2>4, <2>5, Zenon
  <1>4. Seq(E) \subseteq P
    <2> HIDE DEF P
    <2> QED
      BY <1>2, <1>3, ConsInduction
  <1> QED
    BY <1>4, Zenon

-----------------------------------------------------------------------------
(* The order of keys *)

Shorter(a, b) == Len(a) < Len(b) /\ \A i \in 1 .. Len(a) : a[i] = b[i]
DifferAt(a, b, n) ==
    /\ n \in 1 .. Len(a) /\ n \in 1 .. Len(b) /\ a[n] # b[n]
    /\ \A i \in 1 .. n - 1 : a[i] = b[i]

\* Two sequences are equal, or one continues the other, or they differ
\* somewhere for the first time.
LEMMA HowTheyDiffer ==
    ASSUME NEW S, NEW a \in Seq(S), NEW b \in Seq(S)
    PROVE  \/ a = b \/ Shorter(a, b) \/ Shorter(b, a)
           \/ \E n \in Nat : DifferAt(a, b, n)
  <1> DEFINE D == {n \in Nat : n \in 1 .. Len(a) /\ n \in 1 .. Len(b) /\ a[n] # b[n]}
  <1>1. CASE D = {}
    <2>1. \A i \in 1 .. Len(a) : i \in 1 .. Len(b) => a[i] = b[i]
      BY <1>1
    <2>2. CASE Len(a) = Len(b)
      BY <2>1, <2>2, SeqEqual
    <2>3. CASE Len(a) < Len(b)
      BY <2>1, <2>3 DEF Shorter
    <2>4. CASE Len(b) < Len(a)
      BY <2>1, <2>4 DEF Shorter
    <2> QED
      BY <2>2, <2>3, <2>4
  <1>2. CASE D # {}
    <2>1. PICK n \in D : \A y \in D : n <= y
      <3> HIDE DEF D
      <3>1. D \subseteq Nat
        BY DEF D
      <3> QED
        BY <1>2, <3>1, LeastIsThere
    <2>2. \A i \in 1 .. n - 1 : i \notin D
      BY <2>1
    <2>3. \A i \in 1 .. n - 1 : a[i] = b[i]
      BY <2>1, <2>2
    <2>4. DifferAt(a, b, n)
      BY <2>1, <2>3 DEF DifferAt
    <2> QED
      BY <2>1, <2>4
  <1> QED
    BY <1>1, <1>2

LEMMA MinOfTwo ==
    ASSUME NEW a \in Nat, NEW b \in Nat
    PROVE  Min({a, b}) = IF a <= b THEN a ELSE b
  <1>1. Min({a, b}) \in {a, b} /\ \A y \in {a, b} : Min({a, b}) <= y
    BY LeastIsThere
  <1> QED
    BY <1>1

\* What compare says in each of these cases.
LEMMA CompareCases ==
    ASSUME NEW x \in Seq(Nat), NEW y \in Seq(Nat)
    PROVE  /\ x = y => compare(x, y) = "equal"
           /\ Shorter(x, y) => compare(x, y) = "less"
           /\ Shorter(y, x) => compare(x, y) = "greater"
           /\ \A n \in Nat : DifferAt(x, y, n) =>
                compare(x, y) = IF x[n] < y[n] THEN "less" ELSE "greater"
  <1> DEFINE D == {n \in 1 .. Min({Len(x), Len(y)}) : x[n] # y[n]}
  <1>1. D = {n \in Nat : n \in 1 .. Len(x) /\ n \in 1 .. Len(y) /\ x[n] # y[n]}
    <2>1. Min({Len(x), Len(y)}) = IF Len(x) <= Len(y) THEN Len(x) ELSE Len(y)
      BY MinOfTwo
    <2> QED
      BY <2>1
  <1>2. compare(x, y) =
          IF D # {} THEN IF x[Min(D)] < y[Min(D)] THEN "less" ELSE "greater"
          ELSE IF Len(x) > Len(y) THEN "greater"
          ELSE IF Len(x) < Len(y) THEN "less" ELSE "equal"
    BY Zenon DEF compare
  <1> HIDE DEF D
  <1>3. x = y => compare(x, y) = "equal"
    <2>1. x = y => D = {} /\ ~(Len(x) > Len(y)) /\ ~(Len(x) < Len(y))
      BY <1>1
    <2> QED
      BY <1>2, <2>1, Zenon
  <1>4. Shorter(x, y) => compare(x, y) = "less"
    <2>1. Shorter(x, y) => D = {} /\ ~(Len(x) > Len(y)) /\ Len(x) < Len(y)
      BY <1>1 DEF Shorter
    <2> QED
      BY <1>2, <2>1, Zenon
  <1>5. Shorter(y, x) => compare(x, y) = "greater"
    <2>1. Shorter(y, x) => D = {} /\ Len(x) > Len(y)
      BY <1>1 DEF Shorter
    <2> QED
      BY <1>2, <2>1, Zenon
  <1>6. ASSUME NEW n \in Nat, DifferAt(x, y, n)
        PROVE  compare(x, y) = IF x[n] < y[n] THEN "less" ELSE "greater"
    <2>1. n \in D /\ \A i \in D : n <= i
      BY <1>1, <1>6 DEF DifferAt
    <2>2. D \subseteq Nat /\ D # {}
      BY <1>1, <2>1
    <2>3. Min(D) \in D /\ \A i \in D : Min(D) <= i
      BY <2>2, LeastIsThere
    <2>4. Min(D) = n
      <3>1. PICK k : k = Min(D)
        OBVIOUS
      <3>2. k \in Nat /\ k <= n /\ n <= k
        BY <2>1, <2>2, <2>3, <3>1
      <3> QED
        BY <3>1, <3>2
    <2> QED
      BY <1>2, <2>2, <2>4, Zenon
  <1> QED
    BY <1>3, <1>4, <1>5, <1>6

LEMMA StrictPrefixAt ==
    ASSUME NEW S, NEW a \in Seq(S), NEW b \in Seq(S)
    PROVE  IsStrictPrefix(a, b) <=> Shorter(a, b)
  <1>1. IsPrefix(a, b) <=> Len(a) <= Len(b) /\ \A i \in 1 .. Len(a) : a[i] = b[i]
    BY PrefixAt
  <1>2. ASSUME IsStrictPrefix(a, b) PROVE Shorter(a, b)
    <2>1. /\ Len(a) <= Len(b) /\ a # b
          /\ \A i \in 1 .. Len(a) : a[i] = b[i]
      BY <1>1, <1>2, Zenon DEF IsStrictPrefix
    <2>2. Len(a) # Len(b)
      BY <2>1, SeqEqual
    <2>3. Len(a) < Len(b)
      BY <2>1, <2>2
    <2> QED
      BY <2>1, <2>3, Zenon DEF Shorter
  <1>3. ASSUME Shorter(a, b) PROVE IsStrictPrefix(a, b)
    <2>1. /\ Len(a) <= Len(b) /\ Len(a) # Len(b)
          /\ \A i \in 1 .. Len(a) : a[i] = b[i]
      BY <1>3 DEF Shorter
    <2>2. a # b
      BY <2>1, Zenon
    <2> QED
      BY <1>1, <2>1, <2>2, Zenon DEF IsStrictPrefix
  <1> QED
    BY <1>2, <1>3

LEMMA CharFacts ==
    ASSUME NEW c \in Char
    PROVE  /\ c \in Nat /\ (c < 55296 \/ (57344 <= c /\ c <= 1114111))
           /\ Rank(c) \in Int
  <1>1. c \in Nat /\ (c < 55296 \/ (57344 <= c /\ c <= 1114111))
    BY DEF Char
  <1>2. Rank(c) \in Int
    BY <1>1 DEF Rank
  <1> QED
    BY <1>1, <1>2

\* And what the order told by scalar values is.
LEMMA KeyBeforeCases ==
    ASSUME NEW a \in Text, NEW b \in Text
    PROVE  /\ a = b => ~KeyBefore(a, b)
           /\ Shorter(a, b) => KeyBefore(a, b) /\ ~KeyBefore(b, a)
           /\ \A n \in Nat : DifferAt(a, b, n) =>
                (KeyBefore(a, b) <=> Rank(a[n]) < Rank(b[n]))
  <1>1. a \in Seq(Char) /\ b \in Seq(Char) /\ \A c \in Char : Rank(c) \in Int
    <2>1. a \in Seq(Char) /\ b \in Seq(Char)
      BY DEF Text
    <2>2. \A c \in Char : Rank(c) \in Int
      BY CharFacts
    <2> QED
      BY <2>1, <2>2
  <1>2. /\ DOMAIN a = 1 .. Len(a) /\ DOMAIN b = 1 .. Len(b)
        /\ Len(a) \in Nat /\ Len(b) \in Nat
        /\ \A i \in 1 .. Len(a) : a[i] \in Char
        /\ \A i \in 1 .. Len(b) : b[i] \in Char
    BY <1>1
  <1>3. \A n \in DOMAIN a \cap DOMAIN b :
          /\ SubSeq(a, 1, n - 1) = SubSeq(b, 1, n - 1) <=> \A i \in 1 .. n - 1 : a[i] = b[i]
          /\ SubSeq(b, 1, n - 1) = SubSeq(a, 1, n - 1) <=> \A i \in 1 .. n - 1 : a[i] = b[i]
    BY <1>1
  <1>4. /\ IsStrictPrefix(a, b) <=> Shorter(a, b)
        /\ IsStrictPrefix(b, a) <=> Shorter(b, a)
    BY <1>1, StrictPrefixAt
  <1>5. /\ KeyBefore(a, b) <=>
             \/ \E n \in 1 .. Len(a) : n \in 1 .. Len(b) /\ Rank(a[n]) < Rank(b[n])
                  /\ \A i \in 1 .. n - 1 : a[i] = b[i]
             \/ Shorter(a, b)
        /\ KeyBefore(b, a) <=>
             \/ \E n \in 1 .. Len(a) : n \in 1 .. Len(b) /\ Rank(b[n]) < Rank(a[n])
                  /\ \A i \in 1 .. n - 1 : a[i] = b[i]
             \/ Shorter(b, a)
    BY <1>2, <1>3, <1>4 DEF KeyBefore
  <1>6. a = b => ~KeyBefore(a, b)
    <2>1. a = b => \A n \in 1 .. Len(a) : Rank(a[n]) = Rank(b[n]) /\ Rank(a[n]) \in Int
      BY <1>1, <1>2
    <2> QED
      BY <1>2, <1>5, <2>1 DEF Shorter
  <1>7. Shorter(a, b) => KeyBefore(a, b) /\ ~KeyBefore(b, a)
    <2>1. Shorter(a, b) => /\ \A n \in 1 .. Len(a) : Rank(a[n]) = Rank(b[n]) /\ Rank(a[n]) \in Int
                           /\ ~Shorter(b, a)
      BY <1>1, <1>2 DEF Shorter
    <2>2. Shorter(a, b) => ~KeyBefore(b, a)
      BY <1>5, <2>1
    <2> QED
      BY <1>5, <2>2
  <1>8. ASSUME NEW n \in Nat, DifferAt(a, b, n)
        PROVE  KeyBefore(a, b) <=> Rank(a[n]) < Rank(b[n])
    <2>1. /\ n \in 1 .. Len(a) /\ n \in 1 .. Len(b) /\ a[n] # b[n]
          /\ \A i \in 1 .. n - 1 : a[i] = b[i]
      BY <1>8 DEF DifferAt
    <2>2. ~Shorter(a, b)
      BY <2>1 DEF Shorter
    <2>3. ASSUME NEW m \in 1 .. Len(a), m \in 1 .. Len(b), Rank(a[m]) < Rank(b[m]),
                 \A i \in 1 .. m - 1 : a[i] = b[i]
          PROVE  m = n
      <3>1. ~(m < n)
        <4>1. m < n => Rank(a[m]) = Rank(b[m])
          BY <1>2, <2>1
        <4>2. Rank(a[m]) \in Int
          BY <1>1, <1>2
        <4> QED
          BY <2>3, <4>1, <4>2
      <3>2. ~(n < m)
        BY <2>1, <2>3
      <3> QED
        BY <1>2, <3>1, <3>2
    <2> QED
      BY <1>5, <2>1, <2>2, <2>3
  <1> QED
    BY <1>6, <1>7, <1>8

\* Where two sequences differ, and how that survives what is put in front of
\* them and behind them.
LEMMA JoinedAt ==
    ASSUME NEW S, NEW p \in Seq(S), NEW q \in Seq(S)
    PROVE  /\ Joined(p, q) \in Seq(S) /\ Len(Joined(p, q)) = Len(p) + Len(q)
           /\ \A i \in 1 .. Len(p) : Joined(p, q)[i] = p[i]
           /\ \A i \in 1 .. Len(q) : Joined(p, q)[Len(p) + i] = q[i]
  BY DEF Joined

LEMMA SplitFrom ==
    ASSUME NEW S, NEW s \in Seq(S), NEW n \in 1 .. Len(s)
    PROVE  \E t \in Seq(S) : s = Joined(SubSeq(s, 1, n - 1), Cons(s[n], t))
  <1>1. n - 1 \in 0 .. Len(s) /\ (n - 1) + 1 = n
    OBVIOUS
  <1>2. SubSeq(s, 1, n - 1) \o SubSeq(s, n, Len(s)) = s
    BY <1>1, SplitSeq
  <1>3. PICK q \in Seq(S) : q = SubSeq(s, n, Len(s))
    <2>1. SubSeq(s, n, Len(s)) \in Seq(S)
      OBVIOUS
    <2> QED
      BY <2>1, Zenon
  <1>4. q # <<>> /\ q[1] = s[n]
    <2>1. Len(SubSeq(s, n, Len(s))) = Len(s) - n + 1 /\ SubSeq(s, n, Len(s))[1] = s[n]
      OBVIOUS
    <2>2. Len(s) - n + 1 # 0 /\ Len(<<>>) = 0
      OBVIOUS
    <2> QED
      BY <1>3, <2>1, <2>2, Zenon
  <1>5. PICK x \in S, t \in Seq(S) : q = Cons(x, t)
    BY <1>4, ConsOf
  <1>6. q[1] = x
    BY <1>5, ConsFacts
  <1>7. s = Joined(SubSeq(s, 1, n - 1), q)
    BY <1>2, <1>3, Zenon DEF Joined
  <1> QED
    BY <1>4, <1>5, <1>6, <1>7, Zenon

LEMMA SplitShorter ==
    ASSUME NEW S, NEW a \in Seq(S), NEW b \in Seq(S), Shorter(a, b)
    PROVE  \E y \in S, t \in Seq(S) : b = Joined(a, Cons(y, t))
  <1>1. PICK n \in 1 .. Len(b) : n = Len(a) + 1
    BY DEF Shorter
  <1>2. PICK t \in Seq(S) : b = Joined(SubSeq(b, 1, n - 1), Cons(b[n], t))
    BY SplitFrom
  <1>3. SubSeq(b, 1, n - 1) = a
    BY <1>1 DEF Shorter
  <1>4. b[n] \in S
    BY <1>1
  <1> QED
    BY <1>2, <1>3, <1>4, Zenon

LEMMA SplitDiffer ==
    ASSUME NEW S, NEW a \in Seq(S), NEW b \in Seq(S), NEW n \in Nat, DifferAt(a, b, n)
    PROVE  \E p, s, t \in Seq(S) :
             a = Joined(p, Cons(a[n], s)) /\ b = Joined(p, Cons(b[n], t))
  <1>1. n \in 1 .. Len(a) /\ n \in 1 .. Len(b) /\ \A i \in 1 .. n - 1 : a[i] = b[i]
    BY DEF DifferAt
  <1>2. PICK s \in Seq(S) : a = Joined(SubSeq(a, 1, n - 1), Cons(a[n], s))
    BY <1>1, SplitFrom
  <1>3. PICK t \in Seq(S) : b = Joined(SubSeq(b, 1, n - 1), Cons(b[n], t))
    BY <1>1, SplitFrom
  <1>4. SubSeq(a, 1, n - 1) = SubSeq(b, 1, n - 1) /\ SubSeq(a, 1, n - 1) \in Seq(S)
    BY <1>1
  <1> QED
    BY <1>2, <1>3, <1>4, Zenon

LEMMA ShorterJoined ==
    ASSUME NEW S, NEW p \in Seq(S), NEW q \in Seq(S), q # <<>>
    PROVE  Shorter(p, Joined(p, q))
  <1>1. Len(q) # 0 /\ Len(q) \in Nat /\ Len(p) \in Nat
    BY EmptySeq
  <1>2. PICK r : r = Joined(p, q)
    OBVIOUS
  <1>3. Len(r) = Len(p) + Len(q) /\ \A i \in 1 .. Len(p) : r[i] = p[i]
    BY <1>2, JoinedAt
  <1>4. Shorter(p, r)
    BY <1>1, <1>3 DEF Shorter
  <1> QED
    BY <1>2, <1>4

LEMMA DifferLonger ==
    ASSUME NEW S, NEW q \in Seq(S), NEW r \in Seq(S),
           NEW s \in Seq(S), NEW t \in Seq(S), NEW k \in Nat, DifferAt(q, r, k)
    PROVE  /\ DifferAt(Joined(q, s), Joined(r, t), k)
           /\ Joined(q, s)[k] = q[k] /\ Joined(r, t)[k] = r[k]
  <1>1. PICK u \in Seq(S) : u = Joined(q, s)
    BY JoinedAt
  <1>2. PICK v \in Seq(S) : v = Joined(r, t)
    BY JoinedAt
  <1>3. Len(u) = Len(q) + Len(s) /\ \A i \in 1 .. Len(q) : u[i] = q[i]
    BY <1>1, JoinedAt
  <1>4. Len(v) = Len(r) + Len(t) /\ \A i \in 1 .. Len(r) : v[i] = r[i]
    BY <1>2, JoinedAt
  <1>5. /\ k \in 1 .. Len(q) /\ k \in 1 .. Len(r) /\ q[k] # r[k]
        /\ \A i \in 1 .. k - 1 : q[i] = r[i]
    BY DEF DifferAt
  <1>6. k \in 1 .. Len(u) /\ k \in 1 .. Len(v)
    BY <1>3, <1>4, <1>5
  <1>7. \A i \in 1 .. k : u[i] = q[i] /\ v[i] = r[i]
    BY <1>3, <1>4, <1>5
  <1>8. DifferAt(u, v, k) /\ u[k] = q[k] /\ v[k] = r[k]
    BY <1>5, <1>6, <1>7 DEF DifferAt
  <1> QED
    BY <1>1, <1>2, <1>8, Zenon

LEMMA DifferLater ==
    ASSUME NEW S, NEW p \in Seq(S), NEW u \in Seq(S), NEW v \in Seq(S),
           NEW k \in Nat, DifferAt(u, v, k)
    PROVE  /\ DifferAt(Joined(p, u), Joined(p, v), Len(p) + k)
           /\ Joined(p, u)[Len(p) + k] = u[k] /\ Joined(p, v)[Len(p) + k] = v[k]
  <1>1. PICK a \in Seq(S) : a = Joined(p, u)
    BY JoinedAt
  <1>2. PICK b \in Seq(S) : b = Joined(p, v)
    BY JoinedAt
  <1>3. /\ Len(a) = Len(p) + Len(u)
        /\ \A i \in 1 .. Len(p) : a[i] = p[i]
        /\ \A i \in 1 .. Len(u) : a[Len(p) + i] = u[i]
    <2>1. /\ Len(Joined(p, u)) = Len(p) + Len(u)
          /\ \A i \in 1 .. Len(p) : Joined(p, u)[i] = p[i]
          /\ \A i \in 1 .. Len(u) : Joined(p, u)[Len(p) + i] = u[i]
      BY DEF Joined
    <2> QED
      BY <1>1, <2>1, Zenon
  <1>4. /\ Len(b) = Len(p) + Len(v)
        /\ \A i \in 1 .. Len(p) : b[i] = p[i]
        /\ \A i \in 1 .. Len(v) : b[Len(p) + i] = v[i]
    <2>1. /\ Len(Joined(p, v)) = Len(p) + Len(v)
          /\ \A i \in 1 .. Len(p) : Joined(p, v)[i] = p[i]
          /\ \A i \in 1 .. Len(v) : Joined(p, v)[Len(p) + i] = v[i]
      BY DEF Joined
    <2> QED
      BY <1>2, <2>1, Zenon
  <1>5. /\ k \in 1 .. Len(u) /\ k \in 1 .. Len(v) /\ u[k] # v[k]
        /\ \A i \in 1 .. k - 1 : u[i] = v[i]
    BY DEF DifferAt
  <1>6. PICK n \in Nat : n = Len(p) + k
    OBVIOUS
  <1>7. Len(p) \in Nat /\ n \in 1 .. Len(a) /\ n \in 1 .. Len(b) /\ a[n] = u[k] /\ b[n] = v[k]
    BY <1>3, <1>4, <1>5, <1>6
  <1>8. ASSUME NEW i \in 1 .. n - 1 PROVE a[i] = b[i]
    <2>1. CASE i <= Len(p)
      <3>1. i \in 1 .. Len(p)
        BY <1>7, <2>1
      <3> QED
        BY <1>3, <1>4, <3>1
    <2>2. CASE i > Len(p)
      <3>1. PICK j \in 1 .. k - 1 : i = Len(p) + j
        <4>1. i - Len(p) \in 1 .. k - 1 /\ i = Len(p) + (i - Len(p))
          BY <1>6, <1>7, <2>2
        <4> QED
          BY <4>1
      <3>2. j \in 1 .. Len(u) /\ j \in 1 .. Len(v)
        BY <1>5
      <3>3. a[i] = u[j] /\ b[i] = v[j]
        BY <1>3, <1>4, <3>1, <3>2
      <3> QED
        BY <1>5, <3>3
    <2> QED
      BY <1>7, <2>1, <2>2
  <1>9. DifferAt(a, b, n)
    BY <1>5, <1>7, <1>8 DEF DifferAt
  <1> QED
    BY <1>1, <1>2, <1>6, <1>7, <1>9, Zenon

\* UTF-16: different characters have code units that differ, in the order of
\* Rank.
UnitsOf == [c \in Char |-> code_units(c)]
Lead(c)  == 55296 + ((c - 65536) \div 1024)
Trail(c) == 56320 + ((c - 65536) % 1024)

LEMMA UnitsAre ==
    ASSUME NEW c \in Char
    PROVE  /\ UnitsOf[c] = code_units(c)
           /\ c < 65536 => UnitsOf[c] = <<c>>
           /\ ~(c < 65536) => UnitsOf[c] = <<Lead(c), Trail(c)>>
  <1>1. UnitsOf[c] = code_units(c)
    BY DEF UnitsOf
  <1> QED
    BY <1>1 DEF code_units, Lead, Trail

LEMMA SurrogateFacts ==
    ASSUME NEW c \in Char, ~(c < 65536)
    PROVE  /\ Lead(c) \in Nat /\ Trail(c) \in Nat
           /\ 55296 <= Lead(c) /\ Lead(c) < 56320
           /\ 56320 <= Trail(c) /\ Trail(c) < 57344
           /\ c - 65536 = 1024 * (Lead(c) - 55296) + (Trail(c) - 56320)
  <1>1. c \in Nat /\ c <= 1114111
    BY CharFacts
  <1>2. PICK m \in Nat : m = c - 65536
    BY <1>1
  <1>3. PICK q \in Int, r \in Int :
           q = m \div 1024 /\ r = m % 1024 /\ 0 <= r /\ r < 1024 /\ m = 1024 * q + r
    OBVIOUS
  <1>4. Lead(c) = 55296 + q /\ Trail(c) = 56320 + r
    BY <1>2, <1>3 DEF Lead, Trail
  <1>5. 0 <= q /\ q < 1024
    BY <1>1, <1>2, <1>3
  <1> QED
    BY <1>2, <1>3, <1>4, <1>5

LEMMA UnitsType ==
    /\ UnitsOf \in Maps(Char, Seq(Nat))
    /\ \A c \in Char : UnitsOf[c] # <<>>
  <1>1. ASSUME NEW c \in Char PROVE code_units(c) \in Seq(Nat) /\ code_units(c) # <<>>
    <2>1. CASE c < 65536
      <3>1. code_units(c) = <<c>> /\ c \in Nat
        BY <2>1, CharFacts, UnitsAre
      <3> QED
        BY <3>1
    <2>2. CASE ~(c < 65536)
      <3>1. PICK q \in Nat, r \in Nat : q = Lead(c) /\ r = Trail(c)
        BY <2>2, SurrogateFacts
      <3>2. code_units(c) = <<q, r>>
        BY <2>2, <3>1, UnitsAre
      <3> QED
        BY <3>2
    <2> QED
      BY <2>1, <2>2
  <1>2. \A c \in Char : UnitsOf[c] = code_units(c)
    BY UnitsAre
  <1>3. UnitsOf \in [Char -> Seq(Nat)]
    BY <1>1, Zenon DEF UnitsOf
  <1> QED
    BY <1>1, <1>2, <1>3, Zenon DEF Maps

LEMMA DifferFirst ==
    ASSUME NEW S, NEW x \in Seq(S), NEW y \in Seq(S), x # <<>>, y # <<>>, x[1] # y[1]
    PROVE  DifferAt(x, y, 1)
  <1>1. 1 \in 1 .. Len(x) /\ 1 \in 1 .. Len(y) /\ 1 .. 1 - 1 = {}
    BY EmptySeq
  <1> QED
    BY <1>1 DEF DifferAt

LEMMA DifferSecond ==
    ASSUME NEW a \in Nat, NEW b \in Nat, NEW c \in Nat, b # c
    PROVE  DifferAt(<<a, b>>, <<a, c>>, 2)
  BY DEF DifferAt

\* Rank orders surrogate pairs between what is below the surrogates and what
\* is above them.
LEMMA RankBelow ==
    ASSUME NEW c \in Char, c < 65536, NEW d \in Char, ~(d < 65536)
    PROVE  /\ c # Lead(d)
           /\ c < Lead(d) <=> Rank(c) < Rank(d)
           /\ Lead(d) < c <=> Rank(d) < Rank(c)
  <1>1. /\ c \in Nat /\ (c < 55296 \/ 57344 <= c)
        /\ d \in Nat /\ 65536 <= d /\ d <= 1114111
        /\ Lead(d) \in Nat /\ 55296 <= Lead(d) /\ Lead(d) < 56320
    BY CharFacts, SurrogateFacts
  <1>2. Rank(d) = d - 8192
    BY <1>1 DEF Rank
  <1>3. CASE c < 55296
    <2>1. Rank(c) = c
      BY <1>1, <1>3 DEF Rank
    <2> QED
      BY <1>1, <1>2, <1>3, <2>1
  <1>4. CASE 57344 <= c
    <2>1. Rank(c) = c + 1114112
      BY <1>1, <1>4 DEF Rank
    <2> QED
      BY <1>1, <1>2, <1>4, <2>1
  <1> QED
    BY <1>1, <1>3, <1>4

LEMMA RankAlike ==
    ASSUME NEW c \in Char, NEW d \in Char, c < 65536 <=> d < 65536
    PROVE  c < d <=> Rank(c) < Rank(d)
  <1>1. /\ c \in Nat /\ (c < 55296 \/ 57344 <= c)
        /\ d \in Nat /\ (d < 55296 \/ 57344 <= d)
    BY CharFacts
  <1> QED
    BY <1>1 DEF Rank

LEMMA RankInjective ==
    ASSUME NEW c \in Char, NEW d \in Char, Rank(c) = Rank(d)
    PROVE  c = d
  <1>1. /\ c \in Nat /\ (c < 55296 \/ (57344 <= c /\ c <= 1114111))
        /\ d \in Nat /\ (d < 55296 \/ (57344 <= d /\ d <= 1114111))
    BY CharFacts
  <1> QED
    BY <1>1 DEF Rank

LEMMA UnitsDiffer ==
    ASSUME NEW c \in Char, NEW d \in Char, c # d
    PROVE  \E k \in Nat :
             /\ DifferAt(UnitsOf[c], UnitsOf[d], k)
             /\ UnitsOf[c][k] < UnitsOf[d][k] <=> Rank(c) < Rank(d)
  <1>1. c \in Nat /\ d \in Nat
    BY CharFacts
  <1>2. /\ UnitsOf[c] \in Seq(Nat) /\ UnitsOf[d] \in Seq(Nat)
        /\ UnitsOf[c] # <<>> /\ UnitsOf[d] # <<>>
    BY UnitsType, MapsTo
  <1>3. PICK x \in Seq(Nat), y \in Seq(Nat) : x = UnitsOf[c] /\ y = UnitsOf[d]
    BY <1>2
  <1>4. ASSUME x[1] # y[1], x[1] < y[1] <=> Rank(c) < Rank(d)
        PROVE  \E k \in Nat : DifferAt(x, y, k) /\ (x[k] < y[k] <=> Rank(c) < Rank(d))
    <2>1. DifferAt(x, y, 1)
      BY <1>2, <1>3, <1>4, DifferFirst
    <2> QED
      BY <1>4, <2>1
  <1>5. \E k \in Nat : DifferAt(x, y, k) /\ (x[k] < y[k] <=> Rank(c) < Rank(d))
    <2>1. CASE c < 65536 /\ d < 65536
      <3>1. x = <<c>> /\ y = <<d>>
        BY <1>3, <2>1, UnitsAre
      <3>2. x[1] = c /\ y[1] = d
        BY <3>1
      <3>3. c < d <=> Rank(c) < Rank(d)
        BY <2>1, RankAlike
      <3> QED
        BY <1>4, <3>2, <3>3
    <2>2. CASE c < 65536 /\ ~(d < 65536)
      <3>1. x = <<c>> /\ y = <<Lead(d), Trail(d)>>
        BY <1>3, <2>2, UnitsAre
      <3>2. x[1] = c /\ y[1] = Lead(d)
        BY <3>1
      <3>3. c # Lead(d) /\ (c < Lead(d) <=> Rank(c) < Rank(d))
        BY <2>2, RankBelow
      <3> QED
        BY <1>4, <3>2, <3>3
    <2>3. CASE ~(c < 65536) /\ d < 65536
      <3>1. x = <<Lead(c), Trail(c)>> /\ y = <<d>>
        BY <1>3, <2>3, UnitsAre
      <3>2. x[1] = Lead(c) /\ y[1] = d
        BY <3>1
      <3>3. d # Lead(c) /\ (Lead(c) < d <=> Rank(c) < Rank(d))
        BY <2>3, RankBelow
      <3> QED
        BY <1>4, <3>2, <3>3
    <2>4. CASE ~(c < 65536) /\ ~(d < 65536)
      <3>1. PICK q \in Nat, r \in Nat, u \in Nat, v \in Nat :
               q = Lead(c) /\ r = Trail(c) /\ u = Lead(d) /\ v = Trail(d)
        <4>1. Lead(c) \in Nat /\ Trail(c) \in Nat
          BY <2>4, SurrogateFacts
        <4>2. Lead(d) \in Nat /\ Trail(d) \in Nat
          BY <2>4, SurrogateFacts
        <4> QED
          BY <4>1, <4>2, Zenon
      <3>2. x = <<q, r>> /\ y = <<u, v>>
        <4>1. x = <<Lead(c), Trail(c)>> /\ y = <<Lead(d), Trail(d)>>
          BY <1>3, <2>4, UnitsAre
        <4> QED
          BY <3>1, <4>1
      <3>3. c < d <=> Rank(c) < Rank(d)
        BY <2>4, RankAlike
      <3>4. /\ c - 65536 = 1024 * (q - 55296) + (r - 56320)
            /\ d - 65536 = 1024 * (u - 55296) + (v - 56320)
            /\ 56320 <= r /\ r < 57344 /\ 56320 <= v /\ v < 57344
        BY <2>4, <3>1, SurrogateFacts
      <3>5. CASE q # u
        <4>1. q < u <=> c < d
          BY <1>1, <3>4, <3>5
        <4>2. x[1] = q /\ y[1] = u
          BY <3>2
        <4> QED
          BY <1>4, <3>3, <3>5, <4>1, <4>2
      <3>6. CASE q = u
        <4>1. r # v /\ (r < v <=> c < d)
          BY <1>1, <3>4, <3>6
        <4>2. x = <<q, r>> /\ y = <<q, v>>
          BY <3>2, <3>6
        <4>3. DifferAt(x, y, 2)
          BY <4>1, <4>2, DifferSecond
        <4>4. x[2] = r /\ y[2] = v
          BY <4>2
        <4> QED
          BY <3>3, <4>1, <4>3, <4>4
      <3> QED
        BY <3>5, <3>6
    <2> QED
      BY <2>1, <2>2, <2>3, <2>4
  <1> QED
    BY <1>3, <1>5, Zenon

LEMMA EncodeIsCoded ==
    ASSUME NEW s \in Text
    PROVE  encode_utf16(s) = Coded(UnitsOf, s) /\ encode_utf16(s) \in Seq(Nat)
  <1>1. s \in Seq(Char)
    BY DEF Text
  <1>2. \A n \in DOMAIN s : s[n] \in Char
    BY <1>1
  <1>3. \A n \in DOMAIN s : code_units(s[n]) = UnitsOf[s[n]]
    BY <1>2, UnitsAre
  <1>4. [n \in DOMAIN s |-> code_units(s[n])] = Mapped(UnitsOf, s)
    BY <1>3, Zenon DEF Mapped
  <1>5. encode_utf16(s) = Coded(UnitsOf, s)
    BY <1>4, Zenon DEF encode_utf16, Coded
  <1>6. Coded(UnitsOf, s) \in Seq(Nat)
    <2>1. UnitsOf \in Maps(Char, Seq(Nat))
      BY UnitsType
    <2>2. \A r \in Seq(Char) : Coded(UnitsOf, r) \in Seq(Nat)
      BY <2>1, CodedFacts, Zenon
    <2> QED
      BY <1>1, <2>2, Zenon
  <1> QED
    BY <1>5, <1>6, Zenon

\* utf16_cmp in each of the cases.
LEMMA EncodedCases ==
    ASSUME NEW a \in Text, NEW b \in Text
    PROVE  /\ Shorter(a, b) => Shorter(encode_utf16(a), encode_utf16(b))
           /\ \A n \in Nat : DifferAt(a, b, n) =>
                \E k \in Nat :
                  /\ DifferAt(encode_utf16(a), encode_utf16(b), k)
                  /\ encode_utf16(a)[k] < encode_utf16(b)[k] <=> Rank(a[n]) < Rank(b[n])
  <1>1. a \in Seq(Char) /\ b \in Seq(Char)
    BY DEF Text
  <1> DEFINE enc(s) == Coded(UnitsOf, s)
  <1>2. UnitsOf \in Maps(Char, Seq(Nat))
    BY UnitsType
  <1>3. /\ \A s \in Seq(Char) : enc(s) \in Seq(Nat)
        /\ \A s \in Seq(Char), c \in Char : enc(Cons(c, s)) = Joined(UnitsOf[c], enc(s))
    BY <1>2, CodedFacts, Zenon
  <1>4. \A s, t \in Seq(Char) : enc(Joined(s, t)) = Joined(enc(s), enc(t))
    BY <1>2, CodedJoined, Zenon
  <1>5. encode_utf16(a) = enc(a) /\ encode_utf16(b) = enc(b)
    BY EncodeIsCoded
  <1>6. \A c \in Char : UnitsOf[c] \in Seq(Nat) /\ UnitsOf[c] # <<>>
    BY UnitsType, MapsTo
  <1>7. \A c \in Char, s \in Seq(Char) : Cons(c, s) \in Seq(Char)
    BY ConsFacts
  <1> HIDE DEF enc
  <1>8. ASSUME Shorter(a, b) PROVE Shorter(enc(a), enc(b))
    <2>1. PICK y \in Char, t \in Seq(Char) : b = Joined(a, Cons(y, t))
      BY <1>1, <1>8, SplitShorter
    <2>2. enc(b) = Joined(enc(a), Joined(UnitsOf[y], enc(t)))
      <3>1. Cons(y, t) \in Seq(Char)
        BY <1>7, Zenon
      <3>2. enc(Joined(a, Cons(y, t))) = Joined(enc(a), enc(Cons(y, t)))
        BY <1>1, <1>4, <3>1, Zenon
      <3>3. enc(Cons(y, t)) = Joined(UnitsOf[y], enc(t))
        BY <1>3, Zenon
      <3> QED
        BY <2>1, <3>2, <3>3, Zenon
    <2>3. PICK q \in Seq(Nat) : q = Joined(UnitsOf[y], enc(t))
      BY <1>3, <1>6, JoinedAt
    <2>4. q # <<>>
      <3>1. PICK u \in Seq(Nat), w \in Seq(Nat) : u = UnitsOf[y] /\ w = enc(t)
        BY <1>3, <1>6
      <3>2. Len(u) # 0 /\ Len(u) \in Nat /\ Len(w) \in Nat
        BY <1>6, <3>1, EmptySeq
      <3>3. Len(q) = Len(u) + Len(w)
        <4>1. q = Joined(u, w)
          BY <2>3, <3>1, Zenon
        <4>2. Len(Joined(u, w)) = Len(u) + Len(w)
          BY JoinedAt
        <4> QED
          BY <4>1, <4>2, Zenon
      <3> QED
        BY <3>2, <3>3
    <2>5. Shorter(enc(a), Joined(enc(a), q))
      BY <1>1, <1>3, <2>4, ShorterJoined
    <2> QED
      BY <2>2, <2>3, <2>5, Zenon
  <1>9. ASSUME NEW n \in Nat, DifferAt(a, b, n)
        PROVE  \E k \in Nat : /\ DifferAt(enc(a), enc(b), k)
                              /\ enc(a)[k] < enc(b)[k] <=> Rank(a[n]) < Rank(b[n])
    <2>1. PICK c \in Char, d \in Char : c = a[n] /\ d = b[n] /\ c # d
      BY <1>1, <1>9 DEF DifferAt
    <2>2. PICK p, s, t \in Seq(Char) : a = Joined(p, Cons(c, s)) /\ b = Joined(p, Cons(d, t))
      <3>1. \E p, s, t \in Seq(Char) :
               a = Joined(p, Cons(a[n], s)) /\ b = Joined(p, Cons(b[n], t))
        BY <1>1, <1>9, SplitDiffer
      <3> QED
        BY <2>1, <3>1, Zenon
    <2>3. /\ enc(a) = Joined(enc(p), Joined(UnitsOf[c], enc(s)))
          /\ enc(b) = Joined(enc(p), Joined(UnitsOf[d], enc(t)))
      <3>1. /\ enc(a) = Joined(enc(p), enc(Cons(c, s)))
            /\ enc(b) = Joined(enc(p), enc(Cons(d, t)))
        BY <1>4, <1>7, <2>2, Zenon
      <3> QED
        BY <1>3, <3>1, Zenon
    <2>4. PICK j \in Nat : /\ DifferAt(UnitsOf[c], UnitsOf[d], j)
                           /\ UnitsOf[c][j] < UnitsOf[d][j] <=> Rank(c) < Rank(d)
      BY <2>1, UnitsDiffer
    <2>5. PICK P \in Seq(Nat), q \in Seq(Nat), r \in Seq(Nat), S \in Seq(Nat), T \in Seq(Nat) :
             P = enc(p) /\ q = UnitsOf[c] /\ r = UnitsOf[d] /\ S = enc(s) /\ T = enc(t)
      BY <1>3, <1>6, Zenon
    <2>6. PICK u \in Seq(Nat), v \in Seq(Nat) : u = Joined(q, S) /\ v = Joined(r, T)
      BY JoinedAt
    <2>7. DifferAt(q, r, j)
      BY <2>4, <2>5, Zenon
    <2>8. DifferAt(u, v, j) /\ u[j] = q[j] /\ v[j] = r[j]
      <3>1. /\ DifferAt(Joined(q, S), Joined(r, T), j)
            /\ Joined(q, S)[j] = q[j] /\ Joined(r, T)[j] = r[j]
        BY <2>7, DifferLonger
      <3> QED
        BY <2>6, <3>1, Zenon
    <2>9. PICK k \in Nat : k = Len(P) + j
      OBVIOUS
    <2>10. /\ DifferAt(Joined(P, u), Joined(P, v), k)
           /\ Joined(P, u)[k] = u[j] /\ Joined(P, v)[k] = v[j]
      <3>1. /\ DifferAt(Joined(P, u), Joined(P, v), Len(P) + j)
            /\ Joined(P, u)[Len(P) + j] = u[j] /\ Joined(P, v)[Len(P) + j] = v[j]
        BY <2>8, DifferLater
      <3> QED
        BY <2>9, <3>1, Zenon
    <2>11. Joined(P, u) = enc(a) /\ Joined(P, v) = enc(b)
      BY <2>3, <2>5, <2>6, Zenon
    <2>12. DifferAt(enc(a), enc(b), k) /\ enc(a)[k] = q[j] /\ enc(b)[k] = r[j]
      BY <2>8, <2>10, <2>11, Zenon
    <2>13. q[j] < r[j] <=> Rank(a[n]) < Rank(b[n])
      BY <2>1, <2>4, <2>5, Zenon
    <2> QED
      BY <2>12, <2>13, Zenon
  <1> QED
    BY <1>5, <1>8, <1>9, Zenon

\* The order of keys is RFC 8785's.
LEMMA KeyOrder ==
    ASSUME NEW a \in Text, NEW b \in Text
    PROVE  utf16_cmp(a, b) = IF KeyBefore(a, b) THEN "less"
                             ELSE IF KeyBefore(b, a) THEN "greater" ELSE "equal"
  <1>1. PICK x \in Seq(Nat), y \in Seq(Nat) : x = encode_utf16(a) /\ y = encode_utf16(b)
    BY EncodeIsCoded
  <1>2. utf16_cmp(a, b) = compare(x, y)
    BY <1>1, Zenon DEF utf16_cmp
  <1>3. CASE a = b
    <2>1. x = y /\ compare(x, y) = "equal"
      BY <1>1, <1>3, CompareCases
    <2>2. ~KeyBefore(a, b) /\ ~KeyBefore(b, a)
      BY <1>3, KeyBeforeCases
    <2> QED
      BY <1>2, <2>1, <2>2, Zenon
  <1>4. CASE Shorter(a, b)
    <2>1. Shorter(x, y)
      BY <1>1, <1>4, EncodedCases, Zenon
    <2>2. compare(x, y) = "less"
      BY <2>1, CompareCases
    <2>3. KeyBefore(a, b)
      BY <1>4, KeyBeforeCases
    <2> QED
      BY <1>2, <2>2, <2>3, Zenon
  <1>5. CASE Shorter(b, a)
    <2>1. Shorter(y, x)
      BY <1>1, <1>5, EncodedCases, Zenon
    <2>2. compare(x, y) = "greater"
      BY <2>1, CompareCases
    <2>3. KeyBefore(b, a) /\ ~KeyBefore(a, b)
      BY <1>5, KeyBeforeCases
    <2> QED
      BY <1>2, <2>2, <2>3, Zenon
  <1>6. ASSUME NEW n \in Nat, DifferAt(a, b, n)
        PROVE  utf16_cmp(a, b) = IF KeyBefore(a, b) THEN "less"
                                 ELSE IF KeyBefore(b, a) THEN "greater" ELSE "equal"
    <2>1. PICK k \in Nat : DifferAt(x, y, k) /\ (x[k] < y[k] <=> Rank(a[n]) < Rank(b[n]))
      BY <1>1, <1>6, EncodedCases, Zenon
    <2>2. compare(x, y) = IF x[k] < y[k] THEN "less" ELSE "greater"
      BY <2>1, CompareCases
    <2>3. DifferAt(b, a, n)
      BY <1>6 DEF DifferAt
    <2>4. /\ KeyBefore(a, b) <=> Rank(a[n]) < Rank(b[n])
          /\ KeyBefore(b, a) <=> Rank(b[n]) < Rank(a[n])
      BY <1>6, <2>3, KeyBeforeCases
    <2>5. Rank(a[n]) < Rank(b[n]) \/ Rank(b[n]) < Rank(a[n])
      <3>1. a[n] \in Char /\ b[n] \in Char /\ a[n] # b[n]
        BY <1>6 DEF DifferAt, Text
      <3>2. Rank(a[n]) \in Int /\ Rank(b[n]) \in Int
        BY <3>1, CharFacts
      <3>3. Rank(a[n]) # Rank(b[n])
        BY <3>1, RankInjective
      <3> QED
        BY <3>2, <3>3
    <2> QED
      BY <1>2, <2>1, <2>2, <2>4, <2>5, Zenon
  <1>7. a \in Seq(Char) /\ b \in Seq(Char)
    BY DEF Text
  <1>8. a = b \/ Shorter(a, b) \/ Shorter(b, a) \/ \E n \in Nat : DifferAt(a, b, n)
    BY <1>7, HowTheyDiffer
  <1> QED
    BY <1>3, <1>4, <1>5, <1>6, <1>8, Zenon

-----------------------------------------------------------------------------
(* Functions of the depth, unfolded *)

IsNested(g, m) ==
    g = [d \in 0 .. m |-> Enclosing(IF d = 0 THEN {} ELSE g[d - 1])]

LEMMA NestedAt ==
    ASSUME NEW g, NEW m, IsNested(g, m), NEW d \in 0 .. m
    PROVE  g[d] = Enclosing(IF d = 0 THEN {} ELSE g[d - 1])
  <1> DEFINE f == [i \in 0 .. m |-> Enclosing(IF i = 0 THEN {} ELSE g[i - 1])]
  <1>1. g = f
    BY Zenon DEF IsNested
  <1>2. f[d] = Enclosing(IF d = 0 THEN {} ELSE g[d - 1])
    BY Zenon
  <1> HIDE DEF f
  <1> QED
    BY <1>1, <1>2, Zenon

LEMMA NestedExists == \A m \in Nat : \E g : IsNested(g, m)
  <1> DEFINE G == {k \in Nat : \E g : IsNested(g, k)}
  <1>1. 0 \in G
    <2> DEFINE g0 == [d \in 0 .. 0 |-> Enclosing({})]
    <2>1. \A d \in 0 .. 0 : Enclosing({}) = Enclosing(IF d = 0 THEN {} ELSE g0[d - 1])
      OBVIOUS
    <2>2. g0 = [d \in 0 .. 0 |-> Enclosing(IF d = 0 THEN {} ELSE g0[d - 1])]
      BY <2>1, Zenon
    <2>3. IsNested(g0, 0)
      BY <2>2, Zenon DEF IsNested
    <2> QED
      BY <2>3
  <1>2. ASSUME NEW k \in Nat, k \in G PROVE k + 1 \in G
    <2>1. PICK g : IsNested(g, k)
      BY <1>2
    <2> DEFINE h == [d \in 0 .. k + 1 |-> IF d <= k THEN g[d] ELSE Enclosing(IF d = 0 THEN {} ELSE g[d - 1])]
    <2>2. ASSUME NEW d \in 0 .. k + 1 PROVE h[d] = Enclosing(IF d = 0 THEN {} ELSE h[d - 1])
      <3>1. d # 0 => d - 1 \in 0 .. k + 1 /\ d - 1 <= k
        OBVIOUS
      <3>2. d # 0 => h[d - 1] = g[d - 1]
        BY <3>1, Zenon
      <3>3. Enclosing(IF d = 0 THEN {} ELSE h[d - 1]) = Enclosing(IF d = 0 THEN {} ELSE g[d - 1])
        BY <3>2, Zenon
      <3>4. CASE d <= k
        <4>1. d \in 0 .. k /\ h[d] = g[d]
          <5>1. d \in 0 .. k
            BY <3>4
          <5> QED
            BY <3>4, <5>1, Zenon
        <4>2. g[d] = Enclosing(IF d = 0 THEN {} ELSE g[d - 1])
          BY <2>1, <4>1, NestedAt, Zenon
        <4> QED
          BY <3>3, <4>1, <4>2, Zenon
      <3>5. CASE ~(d <= k)
        <4>1. h[d] = Enclosing(IF d = 0 THEN {} ELSE g[d - 1])
          BY <3>5, Zenon
        <4> QED
          BY <3>3, <4>1, Zenon
      <3> QED
        BY <3>4, <3>5
    <2> HIDE DEF h
    <2>3. h = [d \in 0 .. k + 1 |-> h[d]]
      BY Zenon DEF h
    <2>4. h = [d \in 0 .. k + 1 |-> Enclosing(IF d = 0 THEN {} ELSE h[d - 1])]
      BY <2>2, <2>3, Zenon
    <2>5. IsNested(h, k + 1)
      BY <2>4, Zenon DEF IsNested
    <2> QED
      BY <2>5
  <1>3. Nat \subseteq G
    <2> HIDE DEF G
    <2> QED
      BY <1>1, <1>2, SetInduction
  <1> QED
    BY <1>3

LEMMA NestedUnfold ==
    ASSUME NEW d \in 0 .. MaxDepth
    PROVE  Nested[d] = Enclosing(IF d = 0 THEN {} ELSE Nested[d - 1])
  <1>1. \E g : IsNested(g, MaxDepth)
    BY CanonicalAssumption, NestedExists, Zenon
  <1>2. Nested = CHOOSE g : IsNested(g, MaxDepth)
    BY Zenon DEF Nested, IsNested
  <1>3. IsNested(Nested, MaxDepth)
    BY <1>1, <1>2, Zenon
  <1> QED
    BY <1>3, NestedAt, Zenon

TextsAt(d, written) == [v \in Nested[d] |-> write_value(v, written)]

IsWritten(g, m) ==
    g = [d \in 0 .. m |-> TextsAt(d, IF d = 0 THEN <<>> ELSE g[d - 1])]

LEMMA WrittenAt ==
    ASSUME NEW g, NEW m, IsWritten(g, m), NEW d \in 0 .. m
    PROVE  g[d] = TextsAt(d, IF d = 0 THEN <<>> ELSE g[d - 1])
  <1> DEFINE f == [i \in 0 .. m |-> TextsAt(i, IF i = 0 THEN <<>> ELSE g[i - 1])]
  <1>1. g = f
    BY Zenon DEF IsWritten
  <1>2. f[d] = TextsAt(d, IF d = 0 THEN <<>> ELSE g[d - 1])
    BY Zenon
  <1> HIDE DEF f
  <1> QED
    BY <1>1, <1>2, Zenon

LEMMA WrittenExists == \A m \in Nat : \E g : IsWritten(g, m)
  <1> DEFINE G == {k \in Nat : \E g : IsWritten(g, k)}
  <1>1. 0 \in G
    <2> DEFINE g0 == [d \in 0 .. 0 |-> TextsAt(0, <<>>)]
    <2>1. \A d \in 0 .. 0 : TextsAt(0, <<>>) = TextsAt(d, IF d = 0 THEN <<>> ELSE g0[d - 1])
      OBVIOUS
    <2>2. g0 = [d \in 0 .. 0 |-> TextsAt(d, IF d = 0 THEN <<>> ELSE g0[d - 1])]
      BY <2>1, Zenon
    <2>3. IsWritten(g0, 0)
      BY <2>2, Zenon DEF IsWritten
    <2> QED
      BY <2>3
  <1>2. ASSUME NEW k \in Nat, k \in G PROVE k + 1 \in G
    <2>1. PICK g : IsWritten(g, k)
      BY <1>2
    <2> DEFINE h == [d \in 0 .. k + 1 |-> IF d <= k THEN g[d] ELSE TextsAt(d, IF d = 0 THEN <<>> ELSE g[d - 1])]
    <2>2. ASSUME NEW d \in 0 .. k + 1 PROVE h[d] = TextsAt(d, IF d = 0 THEN <<>> ELSE h[d - 1])
      <3>1. d # 0 => d - 1 \in 0 .. k + 1 /\ d - 1 <= k
        OBVIOUS
      <3>2. d # 0 => h[d - 1] = g[d - 1]
        BY <3>1, Zenon
      <3>3. TextsAt(d, IF d = 0 THEN <<>> ELSE h[d - 1]) = TextsAt(d, IF d = 0 THEN <<>> ELSE g[d - 1])
        BY <3>2, Zenon
      <3>4. CASE d <= k
        <4>1. d \in 0 .. k /\ h[d] = g[d]
          <5>1. d \in 0 .. k
            BY <3>4
          <5> QED
            BY <3>4, <5>1, Zenon
        <4>2. g[d] = TextsAt(d, IF d = 0 THEN <<>> ELSE g[d - 1])
          BY <2>1, <4>1, WrittenAt, Zenon
        <4> QED
          BY <3>3, <4>1, <4>2, Zenon
      <3>5. CASE ~(d <= k)
        <4>1. h[d] = TextsAt(d, IF d = 0 THEN <<>> ELSE g[d - 1])
          BY <3>5, Zenon
        <4> QED
          BY <3>3, <4>1, Zenon
      <3> QED
        BY <3>4, <3>5
    <2> HIDE DEF h
    <2>3. h = [d \in 0 .. k + 1 |-> h[d]]
      BY Zenon DEF h
    <2>4. h = [d \in 0 .. k + 1 |-> TextsAt(d, IF d = 0 THEN <<>> ELSE h[d - 1])]
      BY <2>2, <2>3, Zenon
    <2>5. IsWritten(h, k + 1)
      BY <2>4, Zenon DEF IsWritten
    <2> QED
      BY <2>5
  <1>3. Nat \subseteq G
    <2> HIDE DEF G
    <2> QED
      BY <1>1, <1>2, SetInduction
  <1> QED
    BY <1>3

LEMMA WrittenUnfold ==
    ASSUME NEW d \in 0 .. MaxDepth
    PROVE  Written[d] = TextsAt(d, IF d = 0 THEN <<>> ELSE Written[d - 1])
  <1>1. \E g : IsWritten(g, MaxDepth)
    BY CanonicalAssumption, WrittenExists, Zenon
  <1>2. Written = CHOOSE g : IsWritten(g, MaxDepth)
    BY Zenon DEF Written, IsWritten, TextsAt
  <1>3. IsWritten(Written, MaxDepth)
    BY <1>1, <1>2, Zenon
  <1> QED
    BY <1>3, WrittenAt, Zenon

MeaningsAt(d, meant) == [v \in Nested[d] |-> meaning(v, meant)]

IsMeant(g, m) ==
    g = [d \in 0 .. m |-> MeaningsAt(d, IF d = 0 THEN <<>> ELSE g[d - 1])]

LEMMA MeantAt ==
    ASSUME NEW g, NEW m, IsMeant(g, m), NEW d \in 0 .. m
    PROVE  g[d] = MeaningsAt(d, IF d = 0 THEN <<>> ELSE g[d - 1])
  <1> DEFINE f == [i \in 0 .. m |-> MeaningsAt(i, IF i = 0 THEN <<>> ELSE g[i - 1])]
  <1>1. g = f
    BY Zenon DEF IsMeant
  <1>2. f[d] = MeaningsAt(d, IF d = 0 THEN <<>> ELSE g[d - 1])
    BY Zenon
  <1> HIDE DEF f
  <1> QED
    BY <1>1, <1>2, Zenon

LEMMA MeantExists == \A m \in Nat : \E g : IsMeant(g, m)
  <1> DEFINE G == {k \in Nat : \E g : IsMeant(g, k)}
  <1>1. 0 \in G
    <2> DEFINE g0 == [d \in 0 .. 0 |-> MeaningsAt(0, <<>>)]
    <2>1. \A d \in 0 .. 0 : MeaningsAt(0, <<>>) = MeaningsAt(d, IF d = 0 THEN <<>> ELSE g0[d - 1])
      OBVIOUS
    <2>2. g0 = [d \in 0 .. 0 |-> MeaningsAt(d, IF d = 0 THEN <<>> ELSE g0[d - 1])]
      BY <2>1, Zenon
    <2>3. IsMeant(g0, 0)
      BY <2>2, Zenon DEF IsMeant
    <2> QED
      BY <2>3
  <1>2. ASSUME NEW k \in Nat, k \in G PROVE k + 1 \in G
    <2>1. PICK g : IsMeant(g, k)
      BY <1>2
    <2> DEFINE h == [d \in 0 .. k + 1 |-> IF d <= k THEN g[d] ELSE MeaningsAt(d, IF d = 0 THEN <<>> ELSE g[d - 1])]
    <2>2. ASSUME NEW d \in 0 .. k + 1 PROVE h[d] = MeaningsAt(d, IF d = 0 THEN <<>> ELSE h[d - 1])
      <3>1. d # 0 => d - 1 \in 0 .. k + 1 /\ d - 1 <= k
        OBVIOUS
      <3>2. d # 0 => h[d - 1] = g[d - 1]
        BY <3>1, Zenon
      <3>3. MeaningsAt(d, IF d = 0 THEN <<>> ELSE h[d - 1]) = MeaningsAt(d, IF d = 0 THEN <<>> ELSE g[d - 1])
        BY <3>2, Zenon
      <3>4. CASE d <= k
        <4>1. d \in 0 .. k /\ h[d] = g[d]
          <5>1. d \in 0 .. k
            BY <3>4
          <5> QED
            BY <3>4, <5>1, Zenon
        <4>2. g[d] = MeaningsAt(d, IF d = 0 THEN <<>> ELSE g[d - 1])
          BY <2>1, <4>1, MeantAt, Zenon
        <4> QED
          BY <3>3, <4>1, <4>2, Zenon
      <3>5. CASE ~(d <= k)
        <4>1. h[d] = MeaningsAt(d, IF d = 0 THEN <<>> ELSE g[d - 1])
          BY <3>5, Zenon
        <4> QED
          BY <3>3, <4>1, Zenon
      <3> QED
        BY <3>4, <3>5
    <2> HIDE DEF h
    <2>3. h = [d \in 0 .. k + 1 |-> h[d]]
      BY Zenon DEF h
    <2>4. h = [d \in 0 .. k + 1 |-> MeaningsAt(d, IF d = 0 THEN <<>> ELSE h[d - 1])]
      BY <2>2, <2>3, Zenon
    <2>5. IsMeant(h, k + 1)
      BY <2>4, Zenon DEF IsMeant
    <2> QED
      BY <2>5
  <1>3. Nat \subseteq G
    <2> HIDE DEF G
    <2> QED
      BY <1>1, <1>2, SetInduction
  <1> QED
    BY <1>3

LEMMA MeantUnfold ==
    ASSUME NEW d \in 0 .. MaxDepth
    PROVE  Meant[d] = MeaningsAt(d, IF d = 0 THEN <<>> ELSE Meant[d - 1])
  <1>1. \E g : IsMeant(g, MaxDepth)
    BY CanonicalAssumption, MeantExists, Zenon
  <1>2. Meant = CHOOSE g : IsMeant(g, MaxDepth)
    BY Zenon DEF Meant, IsMeant, MeaningsAt
  <1>3. IsMeant(Meant, MaxDepth)
    BY <1>1, <1>2, Zenon
  <1> QED
    BY <1>3, MeantAt, Zenon

\* The kinds of values, and what is inside a value.
IsLit(v) == DOMAIN v = {"lit"} /\ v.lit \in Literals
IsNum(v) == DOMAIN v = {"num"} /\ v.num \in Seq(NumberChar) /\ v.num # <<>>
IsStr(v) == DOMAIN v = {"str"} /\ v.str \in Text
IsArr(v, inside) == DOMAIN v = {"arr"} /\ v.arr \in Seq(inside)
IsObj(v, inside) == DOMAIN v = {"obj"} /\ v.obj \in Pairs(inside)

LEMMA EnclosingCases ==
    ASSUME NEW E, NEW v \in Enclosing(E)
    PROVE  IsLit(v) \/ IsNum(v) \/ IsStr(v) \/ IsArr(v, E) \/ IsObj(v, E)
  <1>1. CASE v \in [lit : Literals]
    BY <1>1 DEF IsLit
  <1>2. CASE v \in [num : Seq(NumberChar) \ {<<>>}]
    BY <1>2 DEF IsNum
  <1>3. CASE v \in [str : Text]
    BY <1>3 DEF IsStr
  <1>4. CASE v \in [arr : Seq(E)]
    BY <1>4 DEF IsArr
  <1>5. CASE v \in [obj : Pairs(E)]
    BY <1>5 DEF IsObj
  <1> QED
    BY <1>1, <1>2, <1>3, <1>4, <1>5, Zenon DEF Enclosing

\* A value is its one field.
LEMMA SameField ==
    ASSUME NEW E, NEW v \in Enclosing(E), NEW w \in Enclosing(E)
    PROVE  /\ IsLit(v) /\ IsLit(w) /\ v.lit = w.lit => v = w
           /\ IsNum(v) /\ IsNum(w) /\ v.num = w.num => v = w
           /\ IsStr(v) /\ IsStr(w) /\ v.str = w.str => v = w
  <1>1. /\ IsLit(v) => v \in [lit : Literals]
        /\ IsLit(w) => w \in [lit : Literals]
    BY DEF Enclosing, IsLit
  <1>2. /\ IsNum(v) => v \in [num : Seq(NumberChar) \ {<<>>}]
        /\ IsNum(w) => w \in [num : Seq(NumberChar) \ {<<>>}]
    BY DEF Enclosing, IsNum
  <1>3. /\ IsStr(v) => v \in [str : Text]
        /\ IsStr(w) => w \in [str : Text]
    BY DEF Enclosing, IsStr
  <1> QED
    BY <1>1, <1>2, <1>3

Inside(d) == IF d = 0 THEN {} ELSE Nested[d - 1]

LEMMA ValuesType ==
    ASSUME NEW v \in Values
    PROVE  /\ v \in Nested[MaxDepth]
           /\ v \in Enclosing(Inside(MaxDepth))
           /\ MaxDepth \in Nat
  <1>1. v \in Nested[MaxDepth] /\ MaxDepth \in Nat
    BY CanonicalAssumption
  <1>2. MaxDepth \in 0 .. MaxDepth
    BY <1>1
  <1>3. Nested[MaxDepth] = Enclosing(Inside(MaxDepth))
    BY <1>2, NestedUnfold, Zenon DEF Inside
  <1> QED
    BY <1>1, <1>3, Zenon

\* left and right are values all along.
LEMMA AlwaysValues == CanonicalSpec => [](left \in Values /\ right \in Values)
  <1>1. CanonicalInit => left \in Values /\ right \in Values
    BY DEF CanonicalInit
  <1>2. /\ left \in Values /\ right \in Values
        /\ [FALSE]_<<left, right>>
        => (left \in Values /\ right \in Values)'
    OBVIOUS
  <1> QED
    BY <1>1, <1>2, PTL DEF CanonicalSpec

\* Object keys are compared as RFC 8785 says: the loop of utf16_cmp over the
\* code units of two texts of any length gives their order by scalar values,
\* but for what is beyond the BMP, which comes before U+E000 (utf16_cmp,
\* encode_utf16).
THEOREM KeysAreInRfcOrder == CanonicalSpec => []KeysInRfcOrder
  <1>1. ASSUME NEW v \in Values, "str" \in DOMAIN v PROVE v.str \in Text
    <2>1. v \in Enclosing(Inside(MaxDepth))
      BY ValuesType
    <2>2. IsStr(v)
      BY <1>1, <2>1, EnclosingCases DEF IsLit, IsNum, IsArr, IsObj
    <2> QED
      BY <2>2 DEF IsStr
  <1>2. left \in Values /\ right \in Values => KeysInRfcOrder
    <2> SUFFICES ASSUME left \in Values, right \in Values,
                        "str" \in DOMAIN left, "str" \in DOMAIN right
                 PROVE  utf16_cmp(left.str, right.str) =
                          IF KeyBefore(left.str, right.str) THEN "less"
                          ELSE IF KeyBefore(right.str, left.str) THEN "greater" ELSE "equal"
      BY Zenon DEF KeysInRfcOrder
    <2>1. left.str \in Text /\ right.str \in Text
      BY <1>1
    <2> QED
      BY <2>1, KeyOrder
  <1> QED
    BY <1>2, AlwaysValues, PTL

-----------------------------------------------------------------------------
(* Strings *)

Visible == {c \in Char : c >= 32}
VisibleText == Seq(Visible)

IsPlain(c) == c >= 32 /\ c # Quote /\ c # Backslash
Letters == {Quote, Backslash, 98, 116, 110, 102, 114}
Named(e) ==
    CASE e = 98 -> 8 [] e = 116 -> 9 [] e = 110 -> 10 [] e = 102 -> 12 [] e = 114 -> 13
      [] OTHER -> e
Digit(n) == IF n < 10 THEN 48 + n ELSE 87 + n

\* How escape writes a character: as it is, as a backslash and a letter that
\* names it, or as a backslash, "u" and its number.
LEMMA EscapeCases ==
    ASSUME NEW c \in Char
    PROVE  \/ IsPlain(c) /\ escape(c) = <<c>>
           \/ \E e \in Letters : c = Named(e) /\ escape(c) = <<Backslash, e>>
           \/ \E q \in 0 .. 1, r \in 0 .. 15 :
                c = 16 * q + r /\ escape(c) = <<Backslash, 117, 48, 48, Digit(q), Digit(r)>>
  <1>1. c \in Nat
    BY CharFacts
  <1>2. CASE c \in {Quote, Backslash}
    <2>1. escape(c) = <<Backslash, c>>
      BY <1>2 DEF escape, Quote, Backslash
    <2>2. c \in Letters /\ c = Named(c)
      BY <1>2 DEF Letters, Named, Quote, Backslash
    <2> QED
      BY <2>1, <2>2
  <1>3. ASSUME c \notin {Quote, Backslash}, NEW e \in Letters \ {Quote, Backslash},
               c = Named(e)
        PROVE  escape(c) = <<Backslash, e>>
    BY <1>3 DEF escape, Named, Letters, Quote, Backslash
  <1>4. CASE c \in {8, 9, 10, 12, 13}
    <2>1. PICK e \in Letters \ {Quote, Backslash} : c = Named(e)
      <3>1. {98, 116, 110, 102, 114} \subseteq Letters \ {Quote, Backslash}
        BY DEF Letters, Quote, Backslash
      <3>2. Named(98) = 8 /\ Named(116) = 9 /\ Named(110) = 10 /\ Named(102) = 12 /\ Named(114) = 13
        BY DEF Named
      <3> QED
        BY <1>4, <3>1, <3>2
    <2>2. c \notin {Quote, Backslash}
      BY <1>4 DEF Quote, Backslash
    <2> QED
      BY <1>3, <2>1, <2>2
  <1>5. CASE c < 32 /\ c \notin {8, 9, 10, 12, 13}
    <2>1. escape(c) = write_uescape(c)
      BY <1>1, <1>5 DEF escape, Quote, Backslash
    <2>2. PICK q \in 0 .. 1, r \in 0 .. 15 : c = 16 * q + r /\ q = c \div 16 /\ r = c % 16
      <3>1. c \div 16 \in 0 .. 1 /\ c % 16 \in 0 .. 15 /\ c = 16 * (c \div 16) + (c % 16)
        BY <1>1, <1>5
      <3> QED
        BY <3>1
    <2>3. c \div 4096 = 0 /\ (c \div 256) % 16 = 0 /\ (c \div 16) % 16 = q
      BY <1>1, <1>5, <2>2
    <2>4. write_uescape(c) =
            <<Backslash, 117, Digit(c \div 4096), Digit((c \div 256) % 16),
              Digit((c \div 16) % 16), Digit(c % 16)>>
      BY Zenon DEF write_uescape, Digit
    <2>5. Digit(0) = 48
      BY DEF Digit
    <2>6. escape(c) = <<Backslash, 117, 48, 48, Digit(q), Digit(r)>>
      BY <2>1, <2>2, <2>3, <2>4, <2>5
    <2> QED
      BY <2>2, <2>6
  <1>6. CASE ~(c < 32) /\ c \notin {Quote, Backslash}
    <2>1. IsPlain(c)
      BY <1>1, <1>6 DEF IsPlain
    <2>2. escape(c) = <<c>>
      BY <1>1, <1>6 DEF escape, Quote, Backslash
    <2> QED
      BY <2>1, <2>2
  <1> QED
    BY <1>2, <1>4, <1>5, <1>6

LEMMA VisibleFacts ==
    /\ 1 \notin Visible
    /\ \A n \in Nat : 32 <= n /\ n < 127 => n \in Visible
    /\ \A e \in Letters : e \in Visible
    /\ \A r \in 0 .. 15 : Digit(r) \in Visible
    /\ \A c \in Char : IsPlain(c) => c \in Visible
  <1>1. \A n \in Nat : 32 <= n /\ n < 127 => n \in Visible
    BY DEF Visible, Char
  <1>2. \A e \in Letters : e \in Nat /\ 32 <= e /\ e < 127
    BY DEF Letters, Quote, Backslash
  <1>3. \A r \in 0 .. 15 : Digit(r) \in Nat /\ 32 <= Digit(r) /\ Digit(r) < 127
    BY DEF Digit
  <1>4. \A c \in Char : IsPlain(c) => c \in Visible
    BY DEF IsPlain, Visible
  <1>5. 1 \notin Visible
    BY DEF Visible
  <1> QED
    BY <1>1, <1>2, <1>3, <1>4, <1>5

EscapeOf == [c \in Char |-> escape(c)]

LEMMA EscapeType ==
    /\ EscapeOf \in Maps(Char, VisibleText)
    /\ \A c \in Char : EscapeOf[c] = escape(c)
  <1>1. ASSUME NEW c \in Char PROVE escape(c) \in VisibleText
    <2>0. /\ Backslash \in Visible /\ 117 \in Visible /\ 48 \in Visible
          /\ \A q \in 0 .. 1 : q \in 0 .. 15
      BY VisibleFacts DEF Backslash
    <2>1. CASE IsPlain(c) /\ escape(c) = <<c>>
      BY <2>1, VisibleFacts DEF VisibleText
    <2>2. ASSUME NEW e \in Letters, escape(c) = <<Backslash, e>> PROVE escape(c) \in VisibleText
      BY <2>0, <2>2, VisibleFacts DEF VisibleText
    <2>3. ASSUME NEW q \in 0 .. 1, NEW r \in 0 .. 15,
                 escape(c) = <<Backslash, 117, 48, 48, Digit(q), Digit(r)>>
          PROVE  escape(c) \in VisibleText
      <3>1. PICK x \in Visible, y \in Visible : x = Digit(q) /\ y = Digit(r)
        BY <2>0, VisibleFacts
      <3>2. escape(c) = <<Backslash, 117, 48, 48, x, y>>
        BY <2>3, <3>1, Zenon
      <3> QED
        BY <2>0, <3>2 DEF VisibleText
    <2> QED
      BY <2>1, <2>2, <2>3, EscapeCases
  <1>2. \A c \in Char : EscapeOf[c] = escape(c)
    BY DEF EscapeOf
  <1>3. EscapeOf \in [Char -> VisibleText]
    BY <1>1, Zenon DEF EscapeOf
  <1> QED
    BY <1>2, <1>3, Zenon DEF Maps

-----------------------------------------------------------------------------
(* The order is strict and total, and sorting has one result *)

Lower(x, y) == Shorter(x, y) \/ \E n \in Nat : DifferAt(x, y, n) /\ x[n] < y[n]
Less(a, b) == utf16_cmp(a, b) = "less"

LEMMA CompareIsLower ==
    ASSUME NEW x \in Seq(Nat), NEW y \in Seq(Nat)
    PROVE  compare(x, y) = "less" <=> Lower(x, y)
  <1>1. ASSUME Lower(x, y) PROVE compare(x, y) = "less"
    BY <1>1, CompareCases DEF Lower
  <1>2. ASSUME compare(x, y) = "less" PROVE Lower(x, y)
    <2>1. x = y \/ Shorter(x, y) \/ Shorter(y, x) \/ \E n \in Nat : DifferAt(x, y, n)
      BY HowTheyDiffer
    <2>2. x # y /\ ~Shorter(y, x)
      BY <1>2, CompareCases
    <2>3. ASSUME NEW n \in Nat, DifferAt(x, y, n) PROVE x[n] < y[n]
      BY <1>2, <2>3, CompareCases
    <2> QED
      BY <2>1, <2>2, <2>3, Zenon DEF Lower
  <1> QED
    BY <1>1, <1>2

LEMMA LowerTrans ==
    ASSUME NEW x \in Seq(Nat), NEW y \in Seq(Nat), NEW z \in Seq(Nat),
           Lower(x, y), Lower(y, z)
    PROVE  Lower(x, z)
  <1>1. CASE Shorter(x, y) /\ Shorter(y, z)
    <2>1. Shorter(x, z)
      BY <1>1 DEF Shorter
    <2> QED
      BY <2>1 DEF Lower
  <1>2. ASSUME Shorter(x, y), NEW n \in Nat, DifferAt(y, z, n), y[n] < z[n]
        PROVE  Lower(x, z)
    <2>1. /\ Len(x) < Len(y) /\ \A i \in 1 .. Len(x) : x[i] = y[i]
          /\ n \in 1 .. Len(y) /\ n \in 1 .. Len(z)
          /\ \A i \in 1 .. n - 1 : y[i] = z[i]
      BY <1>2 DEF Shorter, DifferAt
    <2>2. CASE n <= Len(x)
      <3>1. n \in 1 .. Len(x) /\ x[n] = y[n]
        BY <2>1, <2>2
      <3>2. \A i \in 1 .. n - 1 : x[i] = z[i]
        BY <2>1, <2>2
      <3>3. x[n] \in Nat /\ z[n] \in Nat
        BY <2>1, <3>1
      <3>4. x[n] < z[n] /\ x[n] # z[n]
        BY <1>2, <3>1, <3>3
      <3>5. DifferAt(x, z, n)
        BY <2>1, <3>1, <3>2, <3>4 DEF DifferAt
      <3> QED
        BY <3>4, <3>5 DEF Lower
    <2>3. CASE n > Len(x)
      <3>1. Len(x) < Len(z) /\ \A i \in 1 .. Len(x) : x[i] = z[i]
        BY <2>1, <2>3
      <3>2. Shorter(x, z)
        BY <3>1 DEF Shorter
      <3> QED
        BY <3>2 DEF Lower
    <2> QED
      BY <2>2, <2>3
  <1>3. ASSUME NEW n \in Nat, DifferAt(x, y, n), x[n] < y[n], Shorter(y, z)
        PROVE  Lower(x, z)
    <2>1. /\ n \in 1 .. Len(x) /\ n \in 1 .. Len(y) /\ n \in 1 .. Len(z)
          /\ \A i \in 1 .. n - 1 : x[i] = y[i]
          /\ \A i \in 1 .. n : y[i] = z[i]
      BY <1>3 DEF Shorter, DifferAt
    <2>2. \A i \in 1 .. n - 1 : x[i] = z[i]
      BY <2>1
    <2>3. y[n] = z[n] /\ x[n] \in Nat /\ y[n] \in Nat
      BY <2>1
    <2>4. x[n] < z[n] /\ x[n] # z[n]
      BY <1>3, <2>3
    <2>5. DifferAt(x, z, n)
      BY <2>1, <2>2, <2>4 DEF DifferAt
    <2> QED
      BY <2>4, <2>5 DEF Lower
  <1>4. ASSUME NEW n \in Nat, DifferAt(x, y, n), x[n] < y[n],
               NEW m \in Nat, DifferAt(y, z, m), y[m] < z[m]
        PROVE  Lower(x, z)
    <2>1. /\ n \in 1 .. Len(x) /\ n \in 1 .. Len(y) /\ \A i \in 1 .. n - 1 : x[i] = y[i]
          /\ m \in 1 .. Len(y) /\ m \in 1 .. Len(z) /\ \A i \in 1 .. m - 1 : y[i] = z[i]
      BY <1>4 DEF DifferAt
    <2>2. PICK k \in Nat : k = IF n < m THEN n ELSE m
      OBVIOUS
    <2>3. k \in 1 .. Len(x) /\ k \in 1 .. Len(z) /\ \A i \in 1 .. k - 1 : x[i] = z[i]
      BY <2>1, <2>2
    <2>n. /\ \A i \in 1 .. Len(x) : x[i] \in Nat
          /\ \A i \in 1 .. Len(y) : y[i] \in Nat
          /\ \A i \in 1 .. Len(z) : z[i] \in Nat
      OBVIOUS
    <2>4. x[k] \in Nat /\ z[k] \in Nat
      BY <2>3, <2>n, Zenon
    <2>5. x[k] < z[k]
      <3>0. x[n] \in Nat /\ y[n] \in Nat /\ y[m] \in Nat /\ z[m] \in Nat
        BY <2>1, <2>n, Zenon
      <3>1. CASE n < m
        <4>1. k = n /\ y[n] = z[n]
          BY <2>1, <2>2, <3>1
        <4> QED
          BY <1>4, <4>1
      <3>2. CASE m < n
        <4>1. k = m /\ x[m] = y[m]
          BY <2>1, <2>2, <3>2
        <4> QED
          BY <1>4, <4>1
      <3>3. CASE n = m
        <4>1. k = n
          BY <2>2, <3>3
        <4> QED
          BY <1>4, <3>0, <3>3, <4>1
      <3> QED
        BY <3>1, <3>2, <3>3
    <2>6. DifferAt(x, z, k)
      BY <2>3, <2>4, <2>5 DEF DifferAt
    <2> QED
      BY <2>5, <2>6 DEF Lower
  <1> QED
    BY <1>1, <1>2, <1>3, <1>4, Zenon DEF Lower

LEMMA LessOrder ==
    /\ \A a, b \in Text : Less(a, b) <=> KeyBefore(a, b)
    /\ \A a, b \in Text : a = b \/ Less(a, b) \/ Less(b, a)
    /\ \A a, b \in Text : Less(a, b) => a # b /\ ~Less(b, a)
    /\ \A a, b, c \in Text : Less(a, b) /\ Less(b, c) => Less(a, c)
  <1>1. ASSUME NEW a \in Text, NEW b \in Text
        PROVE  Less(a, b) <=> KeyBefore(a, b)
    <2>1. utf16_cmp(a, b) = IF KeyBefore(a, b) THEN "less"
                            ELSE IF KeyBefore(b, a) THEN "greater" ELSE "equal"
      BY KeyOrder
    <2>2. "less" # "greater" /\ "less" # "equal"
      OBVIOUS
    <2> QED
      BY <2>1, <2>2, Zenon DEF Less
  <1>2. ASSUME NEW a \in Text, NEW b \in Text
        PROVE  Less(a, b) <=> Lower(encode_utf16(a), encode_utf16(b))
    <2>1. encode_utf16(a) \in Seq(Nat) /\ encode_utf16(b) \in Seq(Nat)
      BY EncodeIsCoded
    <2> QED
      BY <2>1, CompareIsLower, Zenon DEF Less, utf16_cmp
  <1>3. ASSUME NEW a \in Text, NEW b \in Text
        PROVE  /\ a = b \/ KeyBefore(a, b) \/ KeyBefore(b, a)
               /\ KeyBefore(a, b) => a # b /\ ~KeyBefore(b, a)
    <2>1. a = b \/ Shorter(a, b) \/ Shorter(b, a) \/ \E n \in Nat : DifferAt(a, b, n)
      BY HowTheyDiffer DEF Text
    <2>2. a = b => ~KeyBefore(a, b)
      BY KeyBeforeCases
    <2>3. Shorter(a, b) => KeyBefore(a, b) /\ ~KeyBefore(b, a)
      BY KeyBeforeCases
    <2>4. Shorter(b, a) => KeyBefore(b, a) /\ ~KeyBefore(a, b)
      BY KeyBeforeCases
    <2>5. ASSUME NEW n \in Nat, DifferAt(a, b, n)
          PROVE  \/ KeyBefore(a, b) /\ ~KeyBefore(b, a)
                 \/ KeyBefore(b, a) /\ ~KeyBefore(a, b)
      <3>1. DifferAt(b, a, n)
        BY <2>5 DEF DifferAt
      <3>2. /\ KeyBefore(a, b) <=> Rank(a[n]) < Rank(b[n])
            /\ KeyBefore(b, a) <=> Rank(b[n]) < Rank(a[n])
        BY <2>5, <3>1, KeyBeforeCases
      <3>3. a[n] \in Char /\ b[n] \in Char /\ a[n] # b[n]
        BY <2>5 DEF DifferAt, Text
      <3>4. Rank(a[n]) \in Int /\ Rank(b[n]) \in Int /\ Rank(a[n]) # Rank(b[n])
        BY <3>3, CharFacts, RankInjective
      <3> QED
        BY <3>2, <3>4
    <2> QED
      BY <2>1, <2>2, <2>3, <2>4, <2>5, Zenon
  <1>4. ASSUME NEW a \in Text, NEW b \in Text, NEW c \in Text, Less(a, b), Less(b, c)
        PROVE  Less(a, c)
    <2>1. /\ encode_utf16(a) \in Seq(Nat) /\ encode_utf16(b) \in Seq(Nat)
          /\ encode_utf16(c) \in Seq(Nat)
      BY EncodeIsCoded
    <2>2. Lower(encode_utf16(a), encode_utf16(b)) /\ Lower(encode_utf16(b), encode_utf16(c))
      BY <1>2, <1>4, Zenon
    <2>3. Lower(encode_utf16(a), encode_utf16(c))
      BY <2>1, <2>2, LowerTrans, Zenon
    <2> QED
      BY <1>2, <2>3, Zenon
  <1>5. \A a, b \in Text : a = b \/ Less(a, b) \/ Less(b, a)
    BY <1>1, <1>3, Zenon
  <1>6. \A a, b \in Text : Less(a, b) => a # b /\ ~Less(b, a)
    BY <1>1, <1>3, Zenon
  <1> QED
    BY <1>1, <1>4, <1>5, <1>6, Zenon

Sorted(es) == \A i, j \in DOMAIN es : i < j => Less(es[i][1], es[j][1])

\* The pairs in the order of their ranks: how many keys are not after a key.
LEMMA SortExists ==
    ASSUME NEW E, NEW ps \in Pairs(E)
    PROVE  \E es \in [DOMAIN ps -> Range(ps)] : Sorted(es)
  <1> DEFINE n == Len(ps)
             D == 1 .. n
  <1>1. /\ n \in Nat /\ DOMAIN ps = D /\ \A i \in D : ps[i][1] \in Text
        /\ \A i, j \in D : ps[i][1] = ps[j][1] => i = j
    BY DEF Pairs
  <1>2. PICK k \in [D -> Text] : \A i \in D : k[i] = ps[i][1]
    <2>1. [i \in D |-> ps[i][1]] \in [D -> Text]
      BY <1>1
    <2> QED
      BY <2>1
  <1>3. IsFiniteSet(D) /\ Cardinality(D) = n
    <2>1. \A m \in Nat : IsFiniteSet(1 .. m) /\ Cardinality(1 .. m) = m
      BY FS_Interval
    <2> QED
      BY <1>1, <2>1, Zenon
  <1> HIDE DEF n, D
  <1>4. /\ \A i \in D : k[i] \in Text
        /\ \A i, j \in D : k[i] = k[j] => i = j
    BY <1>1, <1>2
  <1> DEFINE Below(i) == {j \in D : j = i \/ Less(k[j], k[i])}
  <1>5. \A i \in D : IsFiniteSet(Below(i)) /\ Cardinality(Below(i)) \in D
    <2> TAKE i \in D
    <2>1. Below(i) \in SUBSET D /\ {i} \in SUBSET Below(i)
      OBVIOUS
    <2> HIDE DEF Below
    <2>2. IsFiniteSet(Below(i)) /\ Cardinality(Below(i)) <= n
      BY <1>3, <2>1, FS_Subset
    <2>3. Cardinality(Below(i)) \in Nat
      BY <2>2, FS_CardinalityType
    <2>4. Cardinality({i}) <= Cardinality(Below(i))
      BY <2>1, <2>2, FS_Subset
    <2>5. Cardinality({i}) = 1
      BY FS_Singleton
    <2> QED
      BY <1>1, <2>2, <2>3, <2>4, <2>5 DEF D
  <1>6. ASSUME NEW i \in D, NEW j \in D, Less(k[i], k[j])
        PROVE  Cardinality(Below(i)) < Cardinality(Below(j))
    <2>1. Below(i) \subseteq Below(j)
      BY <1>4, <1>6, LessOrder
    <2>2. j \in Below(j)
      OBVIOUS
    <2>3. j \notin Below(i)
      BY <1>4, <1>6, LessOrder
    <2> HIDE DEF Below
    <2>4. /\ Cardinality(Below(i)) <= Cardinality(Below(j))
          /\ Cardinality(Below(j)) # Cardinality(Below(i))
      BY <1>5, <2>1, <2>2, <2>3, FS_Subset
    <2>5. Cardinality(Below(i)) \in Int /\ Cardinality(Below(j)) \in Int
      BY <1>5 DEF D
    <2> QED
      BY <2>4, <2>5
  <1>7. PICK R : R = [i \in D |-> Cardinality(Below(i))]
    OBVIOUS
  <1>8. /\ R \in [D -> D]
        /\ \A i, j \in D : Less(k[i], k[j]) => R[i] < R[j]
    <2>1. \A i \in D : R[i] = Cardinality(Below(i))
      BY <1>7
    <2> HIDE DEF Below
    <2> QED
      BY <1>5, <1>6, <1>7, <2>1
  <1> HIDE DEF Below
  <1>9. \A i \in D : R[i] \in Nat
    BY <1>8 DEF D
  <1>10. \A i, j \in D : R[i] = R[j] => i = j
    BY <1>4, <1>8, <1>9, LessOrder
  <1>11. \A r \in D : \E i \in D : R[i] = r
    <2>1. R \in Injection(D, D)
      BY <1>8, <1>10 DEF Injection, IsInjective
    <2>2. R \in Surjection(D, D)
      BY <1>3, <2>1, FS_Injection
    <2> QED
      BY <2>2 DEF Surjection
  <1> DEFINE at(r) == CHOOSE i \in D : R[i] = r
             es    == [r \in D |-> ps[at(r)]]
  <1>12. \A r \in D : at(r) \in D /\ R[at(r)] = r
    BY <1>11
  <1>13. \A r \in D : es[r] = ps[at(r)]
    OBVIOUS
  <1> HIDE DEF at
  <1>14. es \in [DOMAIN ps -> Range(ps)]
    BY <1>1, <1>12 DEF Range
  <1>15. DOMAIN es = D
    OBVIOUS
  <1> HIDE DEF es
  <1>16. ASSUME NEW r \in D, NEW q \in D, r < q PROVE Less(es[r][1], es[q][1])
    <2>1. PICK i \in D, j \in D : i = at(r) /\ j = at(q) /\ R[i] = r /\ R[j] = q
      BY <1>12
    <2>2. es[r][1] = k[i] /\ es[q][1] = k[j]
      BY <1>2, <1>13, <2>1
    <2>3. r \in Nat /\ q \in Nat
      BY DEF D
    <2>4. i # j /\ ~Less(k[j], k[i])
      BY <1>8, <1>16, <2>1, <2>3
    <2> QED
      BY <1>4, <2>2, <2>4, LessOrder
  <1> QED
    BY <1>14, <1>15, <1>16 DEF Sorted

\* What sort_entries returns: the pairs themselves, in order.
LEMMA SortFacts ==
    ASSUME NEW E, NEW ps \in Pairs(E)
    PROVE  /\ sort_entries(ps) \in Seq(Text \X E) /\ Len(sort_entries(ps)) = Len(ps)
           /\ Sorted(sort_entries(ps))
           /\ Range(sort_entries(ps)) = Range(ps)
  <1> DEFINE es == sort_entries(ps)
  <1>1. es \in [DOMAIN ps -> Range(ps)] /\ Sorted(es)
    <2> DEFINE Is(f) == \A i, j \in DOMAIN ps : i < j => utf16_cmp(f[i][1], f[j][1]) = "less"
    <2>1. PICK f \in [DOMAIN ps -> Range(ps)] : Is(f)
      BY SortExists DEF Sorted, Less
    <2>2. es = CHOOSE g \in [DOMAIN ps -> Range(ps)] : Is(g)
      BY Zenon DEF sort_entries
    <2>3. es \in [DOMAIN ps -> Range(ps)] /\ Is(es)
      <3> HIDE DEF Is, es
      <3> QED
        BY <2>1, <2>2, Zenon
    <2>4. DOMAIN es = DOMAIN ps
      BY <2>3
    <2> HIDE DEF es
    <2> QED
      BY <2>3, <2>4, Zenon DEF Sorted, Less
  <1>2. /\ ps \in Seq(Text \X E) /\ Len(ps) \in Nat /\ DOMAIN ps = 1 .. Len(ps)
        /\ \A i, j \in DOMAIN ps : ps[i][1] = ps[j][1] => i = j
    BY DEF Pairs
  <1>3. Range(ps) \subseteq Text \X E
    BY <1>2 DEF Range
  <1> HIDE DEF es
  <1>4. es \in Seq(Text \X E) /\ Len(es) = Len(ps)
    BY <1>1, <1>2, <1>3
  <1>5. \A i \in DOMAIN ps : es[i] \in Range(ps) /\ es[i][1] \in Text
    BY <1>1, <1>3
  <1>6. \A i, j \in DOMAIN ps : es[i] = es[j] => i = j
    <2> SUFFICES ASSUME NEW i \in DOMAIN ps, NEW j \in DOMAIN ps, es[i] = es[j], i # j
                 PROVE  FALSE
      OBVIOUS
    <2>1. i < j \/ j < i
      BY <1>2
    <2>2. DOMAIN es = DOMAIN ps
      BY <1>1
    <2>3. Less(es[i][1], es[i][1])
      BY <1>1, <2>1, <2>2 DEF Sorted
    <2> QED
      BY <1>5, <2>3, LessOrder
  <1>7. IsFiniteSet(DOMAIN ps)
    BY <1>2, FS_Interval
  <1>8. IsFiniteSet(Range(ps)) /\ Cardinality(Range(ps)) = Cardinality(DOMAIN ps)
    <2>1. ps \in [DOMAIN ps -> Range(ps)]
      BY <1>2 DEF Range
    <2>2. ps \in Surjection(DOMAIN ps, Range(ps))
      BY <2>1 DEF Surjection, Range
    <2>3. ps \in Injection(DOMAIN ps, Range(ps))
      BY <1>2, <2>1 DEF Injection, IsInjective
    <2> QED
      BY <1>7, <2>2, <2>3, FS_Surjection
  <1>9. es \in Surjection(DOMAIN ps, Range(ps))
    <2>1. es \in Injection(DOMAIN ps, Range(ps))
      BY <1>1, <1>6 DEF Injection, IsInjective
    <2> QED
      BY <1>8, <2>1, FS_Injection
  <1>10. Range(es) = Range(ps)
    <2>1. DOMAIN es = DOMAIN ps
      BY <1>1
    <2>2. Range(es) \subseteq Range(ps)
      BY <1>5, <2>1 DEF Range
    <2>3. \A p \in Range(ps) : \E i \in DOMAIN ps : es[i] = p
      BY <1>9 DEF Surjection
    <2> QED
      BY <2>1, <2>2, <2>3 DEF Range
  <1> QED
    BY <1>1, <1>4, <1>10 DEF es

-----------------------------------------------------------------------------
(* What write_value writes *)

LEMMA StringText ==
    ASSUME NEW s \in Text
    PROVE  /\ write_string(s) = Cons(Quote, Joined(Coded(EscapeOf, s), <<Quote>>))
           /\ Coded(EscapeOf, s) \in VisibleText /\ <<Quote>> \in VisibleText
           /\ Quote \in Visible
           /\ write_string(s) \in VisibleText
  <1>1. s \in Seq(Char)
    BY DEF Text
  <1>2. Coded(EscapeOf, s) \in VisibleText
    <2>1. EscapeOf \in Maps(Char, Seq(Visible))
      BY EscapeType, Zenon DEF VisibleText
    <2>2. \A r \in Seq(Char) : Coded(EscapeOf, r) \in Seq(Visible)
      BY <2>1, CodedFacts, Zenon
    <2> QED
      BY <1>1, <2>2, Zenon DEF VisibleText
  <1>3. Quote \in Visible
    BY VisibleFacts DEF Letters
  <1>4. <<Quote>> \in VisibleText
    BY <1>3 DEF VisibleText
  <1>5. [n \in DOMAIN s |-> escape(s[n])] = Mapped(EscapeOf, s)
    <2>1. \A n \in DOMAIN s : s[n] \in Char
      BY <1>1
    <2>2. \A n \in DOMAIN s : escape(s[n]) = EscapeOf[s[n]]
      BY <2>1, EscapeType, Zenon
    <2> QED
      BY <2>2, Zenon DEF Mapped
  <1>6. write_string(s) = Joined(Joined(<<Quote>>, Coded(EscapeOf, s)), <<Quote>>)
    BY <1>5, Zenon DEF write_string, Joined, Coded
  <1> DEFINE q == <<Quote>>
             t == Coded(EscapeOf, s)
  <1>7. q \in Seq(Visible) /\ t \in Seq(Visible)
    BY <1>2, <1>4 DEF VisibleText
  <1>8. PICK r \in Seq(Visible) : r = Joined(t, q)
    <2> HIDE DEF q, t
    <2> QED
      BY <1>7, JoinFacts, Zenon
  <1>9. Joined(Joined(q, t), q) = Joined(q, r)
    <2> HIDE DEF q, t
    <2>1. Joined(Joined(q, t), q) = Joined(q, Joined(t, q))
      BY <1>7, JoinAssoc
    <2> QED
      BY <1>8, <2>1, Zenon
  <1>10. Cons(Quote, r) = Joined(q, r) /\ Cons(Quote, r) \in Seq(Visible)
    BY <1>3, ConsFacts, ConsJoined
  <1> QED
    BY <1>2, <1>3, <1>4, <1>6, <1>8, <1>9, <1>10, Zenon DEF VisibleText

\* Each text with a comma before it.
After(E, f) == [x \in E |-> Cons(44, f[x])]

LEMMA AfterType ==
    ASSUME NEW E, NEW f \in Maps(E, VisibleText)
    PROVE  /\ After(E, f) \in Maps(E, VisibleText)
           /\ \A x \in E : After(E, f)[x] = Cons(44, f[x]) /\ f[x] \in VisibleText
           /\ 44 \in Visible
  <1>1. 44 \in Visible
    BY VisibleFacts
  <1>2. \A x \in E : f[x] \in VisibleText
    BY MapsTo
  <1>3. \A x \in E : Cons(44, f[x]) \in VisibleText
    BY <1>1, <1>2, ConsFacts DEF VisibleText
  <1>4. \A x \in E : After(E, f)[x] = Cons(44, f[x])
    BY DEF After
  <1>5. After(E, f) \in [E -> VisibleText]
    BY <1>3, Zenon DEF After
  <1> QED
    BY <1>1, <1>2, <1>4, <1>5, Zenon DEF Maps

LEMMA CommaListEmpty == \A f : CommaList(Mapped(f, <<>>)) = <<>>
  <1> TAKE f
  <1>1. Mapped(f, <<>>) = <<>>
    BY MappedEmpty
  <1>2. [n \in DOMAIN <<>> |-> IF n > 1 THEN <<44>> \o (<<>>)[n] ELSE (<<>>)[n]] = <<>>
    OBVIOUS
  <1>3. CommaList(<<>>) = FlattenSeq(<<>>)
    BY <1>2, Zenon DEF CommaList
  <1> QED
    BY <1>1, <1>3, FlatEmpty, Zenon

LEMMA CommaListCons ==
    ASSUME NEW E, NEW f \in Maps(E, VisibleText), NEW x \in E, NEW s \in Seq(E)
    PROVE  CommaList(Mapped(f, Cons(x, s))) = Joined(f[x], Coded(After(E, f), s))
  <1> DEFINE g  == After(E, f)
             us == Mapped(f, Cons(x, s))
             ts == [n \in DOMAIN us |-> IF n > 1 THEN Joined(<<44>>, us[n]) ELSE us[n]]
             vs == Cons(f[x], Mapped(g, s))
  <1>1. /\ g \in Maps(E, VisibleText) /\ f[x] \in VisibleText
        /\ \A y \in E : g[y] = Joined(<<44>>, f[y])
    <2>1. \A y \in E : Cons(44, f[y]) = Joined(<<44>>, f[y])
      BY AfterType, ConsJoined DEF VisibleText
    <2> QED
      BY <2>1, AfterType, Zenon
  <1>2. us = Cons(f[x], Mapped(f, s))
    BY MappedCons
  <1>3. /\ Mapped(f, s) \in Seq(VisibleText) /\ Len(Mapped(f, s)) = Len(s)
        /\ \A i \in 1 .. Len(s) : Mapped(f, s)[i] = f[s[i]]
    BY MappedFacts
  <1>4. /\ Mapped(g, s) \in Seq(VisibleText) /\ Len(Mapped(g, s)) = Len(s)
        /\ \A i \in 1 .. Len(s) : Mapped(g, s)[i] = g[s[i]]
    <2> HIDE DEF g
    <2> QED
      BY <1>1, MappedFacts
  <1>5. /\ us \in Seq(VisibleText) /\ Len(us) = Len(s) + 1 /\ us[1] = f[x]
        /\ \A i \in 1 .. Len(s) : us[i + 1] = f[s[i]]
    <2>1. PICK r \in Seq(VisibleText) : r = Mapped(f, s)
      BY <1>3
    <2>2. PICK y \in VisibleText : y = f[x]
      BY <1>1
    <2>3. /\ Cons(y, r) \in Seq(VisibleText) /\ Len(Cons(y, r)) = Len(r) + 1
          /\ Cons(y, r)[1] = y /\ \A i \in 1 .. Len(r) : Cons(y, r)[i + 1] = r[i]
      BY ConsFacts
    <2>4. us = Cons(y, r)
      BY <1>2, <2>1, <2>2, Zenon
    <2> HIDE DEF us
    <2> QED
      BY <1>3, <2>1, <2>2, <2>3, <2>4
  <1>6. /\ vs \in Seq(VisibleText) /\ Len(vs) = Len(s) + 1 /\ vs[1] = f[x]
        /\ \A i \in 1 .. Len(s) : vs[i + 1] = g[s[i]]
    <2>1. PICK r \in Seq(VisibleText) : r = Mapped(g, s)
      BY <1>4
    <2>2. PICK y \in VisibleText : y = f[x]
      BY <1>1
    <2>3. /\ Cons(y, r) \in Seq(VisibleText) /\ Len(Cons(y, r)) = Len(r) + 1
          /\ Cons(y, r)[1] = y /\ \A i \in 1 .. Len(r) : Cons(y, r)[i + 1] = r[i]
      BY ConsFacts
    <2>4. vs = Cons(y, r)
      BY <2>1, <2>2, Zenon
    <2> HIDE DEF vs, g
    <2> QED
      BY <1>4, <2>1, <2>2, <2>3, <2>4
  <1> HIDE DEF g, us, vs
  <1>7. ts = vs
    <2>1. ASSUME NEW n \in 1 .. Len(s) + 1
          PROVE  (IF n > 1 THEN Joined(<<44>>, us[n]) ELSE us[n]) = vs[n]
      <3>1. CASE n = 1
        BY <1>5, <1>6, <3>1
      <3>2. CASE n > 1
        <4>1. n - 1 \in 1 .. Len(s) /\ (n - 1) + 1 = n /\ s[n - 1] \in E
          BY <3>2
        <4>2. us[n] = f[s[n - 1]] /\ vs[n] = g[s[n - 1]]
          BY <1>5, <1>6, <4>1
        <4> QED
          BY <1>1, <3>2, <4>1, <4>2, Zenon
      <3> QED
        BY <3>1, <3>2
    <2>2. DOMAIN us = 1 .. Len(s) + 1 /\ DOMAIN vs = 1 .. Len(s) + 1
      BY <1>5, <1>6
    <2>3. vs = [n \in 1 .. Len(s) + 1 |-> vs[n]]
      BY <1>6, <2>2
    <2> QED
      BY <2>1, <2>2, <2>3, Zenon
  <1>8. CommaList(us) = FlattenSeq(ts)
    BY Zenon DEF CommaList, Joined
  <1>9. FlattenSeq(vs) = Joined(f[x], FlattenSeq(Mapped(g, s)))
    <2>1. f[x] \in Seq(Visible) /\ Mapped(g, s) \in Seq(Seq(Visible))
      BY <1>1, <1>4 DEF VisibleText
    <2> QED
      BY <2>1, FlatCons DEF vs
  <1> QED
    BY <1>7, <1>8, <1>9, Zenon DEF us, g, Coded

LEMMA CommaListType ==
    ASSUME NEW E, NEW f \in Maps(E, VisibleText), NEW s \in Seq(E)
    PROVE  CommaList(Mapped(f, s)) \in VisibleText
  <1>1. CASE s = <<>>
    <2>1. <<>> \in VisibleText
      BY DEF VisibleText
    <2> QED
      BY <1>1, <2>1, CommaListEmpty, Zenon
  <1>2. CASE s # <<>>
    <2>1. PICK x \in E, r \in Seq(E) : s = Cons(x, r)
      BY <1>2, ConsOf
    <2>2. CommaList(Mapped(f, s)) = Joined(f[x], Coded(After(E, f), r))
      BY <2>1, CommaListCons
    <2>3. After(E, f) \in Maps(E, Seq(Visible)) /\ f[x] \in Seq(Visible)
      BY AfterType, Zenon DEF VisibleText
    <2>4. Coded(After(E, f), r) \in Seq(Visible)
      BY <2>3, CodedFacts
    <2> QED
      BY <2>2, <2>3, <2>4, JoinFacts, Zenon DEF VisibleText
  <1> QED
    BY <1>1, <1>2

\* An object's member: its key, a colon and its value's text.
MembersOf(E) == Text \X E
MemberOf(E, w) == [e \in MembersOf(E) |-> Joined(write_string(e[1]), Cons(58, w[e[2]]))]

LEMMA MemberType ==
    ASSUME NEW E, NEW w \in Maps(E, VisibleText)
    PROVE  /\ MemberOf(E, w) \in Maps(MembersOf(E), VisibleText)
           /\ \A e \in MembersOf(E) :
                /\ e[1] \in Text /\ e[2] \in E /\ w[e[2]] \in VisibleText
                /\ Cons(58, w[e[2]]) \in VisibleText
                /\ MemberOf(E, w)[e] = Joined(write_string(e[1]), Cons(58, w[e[2]]))
           /\ 58 \in Visible
  <1>1. \A e \in MembersOf(E) : e[1] \in Text /\ e[2] \in E
    BY DEF MembersOf
  <1>2. 58 \in Visible
    BY VisibleFacts
  <1>3. ASSUME NEW e \in MembersOf(E)
        PROVE  /\ w[e[2]] \in VisibleText /\ Cons(58, w[e[2]]) \in VisibleText
               /\ Joined(write_string(e[1]), Cons(58, w[e[2]])) \in VisibleText
    <2>1. e[1] \in Text /\ e[2] \in E
      BY <1>1
    <2>2. w[e[2]] \in Seq(Visible)
      BY <2>1, MapsTo DEF VisibleText
    <2>3. Cons(58, w[e[2]]) \in Seq(Visible)
      BY <1>2, <2>2, ConsFacts
    <2>4. write_string(e[1]) \in Seq(Visible)
      BY <2>1, StringText DEF VisibleText
    <2> QED
      BY <2>2, <2>3, <2>4, JoinFacts, Zenon DEF VisibleText
  <1>4. \A e \in MembersOf(E) :
          MemberOf(E, w)[e] = Joined(write_string(e[1]), Cons(58, w[e[2]]))
    BY Zenon DEF MemberOf
  <1>5. MemberOf(E, w) \in [MembersOf(E) -> VisibleText]
    BY <1>3, Zenon DEF MemberOf
  <1> QED
    BY <1>1, <1>2, <1>3, <1>4, <1>5, Zenon DEF Maps

\* Text between brackets.
LEMMA Bracketed ==
    ASSUME NEW o \in Visible, NEW c \in Visible, NEW t \in VisibleText
    PROVE  /\ Joined(Joined(<<o>>, t), <<c>>) = Cons(o, Joined(t, <<c>>))
           /\ Joined(t, <<c>>) \in VisibleText
           /\ Cons(o, Joined(t, <<c>>)) \in VisibleText
  <1>1. t \in Seq(Visible)
    BY DEF VisibleText
  <1>2. PICK p \in Seq(Visible), q \in Seq(Visible) : p = <<o>> /\ q = <<c>>
    <2>1. <<o>> \in Seq(Visible) /\ <<c>> \in Seq(Visible)
      BY <1>1, ConsJoined
    <2> QED
      BY <2>1, Zenon
  <1>3. PICK r \in Seq(Visible) : r = Joined(t, q)
    BY <1>1, JoinFacts, Zenon
  <1>4. Joined(Joined(p, t), q) = Joined(p, Joined(t, q))
    BY <1>1, JoinAssoc
  <1>5. Cons(o, r) = Joined(<<o>>, r) /\ Cons(o, r) \in Seq(Visible)
    BY ConsFacts, ConsJoined
  <1> QED
    BY <1>2, <1>3, <1>4, <1>5, Zenon DEF VisibleText

LEMMA WriteCases ==
    ASSUME NEW E, NEW w \in Maps(E, VisibleText), NEW v \in Enclosing(E)
    PROVE  /\ IsLit(v) => write_value(v, w) = v.lit
           /\ IsNum(v) => write_value(v, w) = v.num
           /\ IsStr(v) => write_value(v, w) = write_string(v.str)
           /\ IsArr(v, E) => write_value(v, w) =
                Cons(91, Joined(CommaList(Mapped(w, v.arr)), <<93>>))
           /\ IsObj(v, E) => write_value(v, w) =
                Cons(123, Joined(CommaList(Mapped(MemberOf(E, w), sort_entries(v.obj))), <<125>>))
  <1>d. /\ "lit" # "num" /\ "lit" # "str" /\ "lit" # "arr" /\ "lit" # "obj"
        /\ "num" # "str" /\ "num" # "arr" /\ "num" # "obj"
        /\ "str" # "arr" /\ "str" # "obj" /\ "arr" # "obj"
    OBVIOUS
  <1>v. 91 \in Visible /\ 93 \in Visible /\ 123 \in Visible /\ 125 \in Visible
    BY VisibleFacts
  <1>1. ASSUME IsLit(v) PROVE write_value(v, w) = v.lit
    <2>1. "lit" \in DOMAIN v
      BY <1>1 DEF IsLit
    <2> QED
      BY <1>1, <1>d, <2>1 DEF IsLit, write_value
  <1>2. ASSUME IsNum(v) PROVE write_value(v, w) = v.num
    BY <1>2, <1>d DEF IsNum, write_value
  <1>3. ASSUME IsStr(v) PROVE write_value(v, w) = write_string(v.str)
    BY <1>3, <1>d DEF IsStr, write_value
  <1>4. ASSUME IsArr(v, E)
        PROVE  write_value(v, w) = Cons(91, Joined(CommaList(Mapped(w, v.arr)), <<93>>))
    <2>1. write_value(v, w) = Joined(Joined(<<91>>, CommaList(Mapped(w, v.arr))), <<93>>)
      BY <1>4, <1>d, Zenon DEF IsArr, write_value, Joined, Mapped
    <2>2. v.arr \in Seq(E)
      BY <1>4 DEF IsArr
    <2>3. CommaList(Mapped(w, v.arr)) \in VisibleText
      BY <2>2, CommaListType
    <2> QED
      BY <1>v, <2>1, <2>3, Bracketed
  <1>5. ASSUME IsObj(v, E)
        PROVE  write_value(v, w) =
                 Cons(123, Joined(CommaList(Mapped(MemberOf(E, w), sort_entries(v.obj))), <<125>>))
    <2> DEFINE es == sort_entries(v.obj)
               f  == MemberOf(E, w)
               ts == [n \in DOMAIN es |->
                        Joined(Joined(write_string(es[n][1]), <<58>>), w[es[n][2]])]
    <2>1. write_value(v, w) = Joined(Joined(<<123>>, CommaList(ts)), <<125>>)
      BY <1>5, <1>d, Zenon DEF IsObj, write_value, Joined
    <2>2. es \in Seq(MembersOf(E))
      BY <1>5, SortFacts DEF IsObj, MembersOf
    <2>3. f \in Maps(MembersOf(E), VisibleText)
      BY MemberType
    <2>4. ASSUME NEW e \in MembersOf(E)
          PROVE  Joined(Joined(write_string(e[1]), <<58>>), w[e[2]]) = f[e]
      <3>1. PICK s \in Seq(Visible), t \in Seq(Visible) :
              s = write_string(e[1]) /\ t = w[e[2]]
        BY MemberType, StringText DEF VisibleText
      <3>2. 58 \in Visible
        BY MemberType
      <3>3. PICK c \in Seq(Visible) : c = <<58>>
        <4>1. <<58>> \in Seq(Visible)
          BY <3>2, <3>1, ConsJoined
        <4> QED
          BY <4>1, Zenon
      <3>4. Joined(Joined(s, c), t) = Joined(s, Joined(c, t))
        BY JoinAssoc
      <3>5. Cons(58, t) = Joined(<<58>>, t)
        BY <3>2, ConsJoined
      <3>6. f[e] = Joined(write_string(e[1]), Cons(58, w[e[2]]))
        BY MemberType
      <3> QED
        BY <3>1, <3>3, <3>4, <3>5, <3>6, Zenon
    <2>5. ts = Mapped(f, es)
      <3>1. \A n \in DOMAIN es : es[n] \in MembersOf(E)
        BY <2>2
      <3>2. \A n \in DOMAIN es :
              Joined(Joined(write_string(es[n][1]), <<58>>), w[es[n][2]]) = f[es[n]]
        BY <2>4, <3>1, Zenon
      <3> QED
        BY <3>2, Zenon DEF Mapped
    <2>6. CommaList(Mapped(f, es)) \in VisibleText
      <3> HIDE DEF f, es
      <3> QED
        BY <2>2, <2>3, CommaListType
    <2> QED
      BY <1>v, <2>1, <2>5, <2>6, Bracketed
  <1> QED
    BY <1>1, <1>2, <1>3, <1>4, <1>5

LEMMA LettersVisible ==
    /\ \A s \in Literals : s \in VisibleText
    /\ \A s \in Seq(NumberChar) : s \in VisibleText
  <1>1. \A n \in NumberChar : n \in Visible
    BY VisibleFacts DEF NumberChar
  <1>2. /\ 110 \in Visible /\ 117 \in Visible /\ 108 \in Visible /\ 116 \in Visible
        /\ 114 \in Visible /\ 101 \in Visible /\ 102 \in Visible /\ 97 \in Visible
        /\ 115 \in Visible
    BY VisibleFacts
  <1>3. /\ <<110, 117, 108, 108>> \in VisibleText /\ <<116, 114, 117, 101>> \in VisibleText
        /\ <<102, 97, 108, 115, 101>> \in VisibleText
    BY <1>2 DEF VisibleText
  <1>4. \A s \in Literals : s \in VisibleText
    BY <1>3, Zenon DEF Literals
  <1>5. \A s \in Seq(NumberChar) : s \in VisibleText
    BY <1>1 DEF VisibleText
  <1> QED
    BY <1>4, <1>5

LEMMA WriteType ==
    ASSUME NEW E, NEW w \in Maps(E, VisibleText), NEW v \in Enclosing(E)
    PROVE  write_value(v, w) \in VisibleText
  <1>1. CASE IsLit(v)
    BY <1>1, WriteCases, LettersVisible DEF IsLit
  <1>2. CASE IsNum(v)
    BY <1>2, WriteCases, LettersVisible DEF IsNum
  <1>3. CASE IsStr(v)
    BY <1>3, WriteCases, StringText DEF IsStr
  <1>v. 91 \in Visible /\ 93 \in Visible /\ 123 \in Visible /\ 125 \in Visible
    BY VisibleFacts
  <1>4. CASE IsArr(v, E)
    <2>1. v.arr \in Seq(E)
      BY <1>4 DEF IsArr
    <2>2. CommaList(Mapped(w, v.arr)) \in VisibleText
      BY <2>1, CommaListType
    <2>3. Cons(91, Joined(CommaList(Mapped(w, v.arr)), <<93>>)) \in VisibleText
      BY <1>v, <2>2, Bracketed
    <2> QED
      BY <1>4, <2>3, WriteCases
  <1>5. CASE IsObj(v, E)
    <2>1. sort_entries(v.obj) \in Seq(MembersOf(E))
      BY <1>5, SortFacts DEF IsObj, MembersOf
    <2>2. MemberOf(E, w) \in Maps(MembersOf(E), VisibleText)
      BY MemberType
    <2>3. PICK l : l = CommaList(Mapped(MemberOf(E, w), sort_entries(v.obj)))
      OBVIOUS
    <2>4. l \in VisibleText
      BY <2>1, <2>2, <2>3, CommaListType
    <2>5. Cons(123, Joined(l, <<125>>)) \in VisibleText
      BY <1>v, <2>4, Bracketed
    <2> QED
      BY <1>5, <2>3, <2>5, WriteCases
  <1> QED
    BY <1>1, <1>2, <1>3, <1>4, <1>5, EnclosingCases

TextsInside(d) == IF d = 0 THEN <<>> ELSE Written[d - 1]

LEMMA WrittenType ==
    /\ \A d \in 0 .. MaxDepth : Written[d] \in Maps(Nested[d], VisibleText)
    /\ \A d \in 0 .. MaxDepth : TextsInside(d) \in Maps(Inside(d), VisibleText)
    /\ \A d \in 0 .. MaxDepth : \A v \in Nested[d] :
         Written[d][v] = write_value(v, TextsInside(d)) /\ v \in Enclosing(Inside(d))
  <1>1. \A d \in 0 .. MaxDepth :
          /\ Written[d] = TextsAt(d, TextsInside(d))
          /\ Nested[d] = Enclosing(Inside(d))
    BY WrittenUnfold, NestedUnfold, Zenon DEF TextsInside, Inside
  <1>2. \A d \in 0 .. MaxDepth : \A v \in Nested[d] :
          Written[d][v] = write_value(v, TextsInside(d)) /\ v \in Enclosing(Inside(d))
    <2> TAKE d \in 0 .. MaxDepth
    <2> TAKE v \in Nested[d]
    <2>1. TextsAt(d, TextsInside(d))[v] = write_value(v, TextsInside(d))
      BY Zenon DEF TextsAt
    <2> QED
      BY <1>1, <2>1, Zenon
  <1>3. ASSUME NEW d \in 0 .. MaxDepth, TextsInside(d) \in Maps(Inside(d), VisibleText)
        PROVE  Written[d] \in Maps(Nested[d], VisibleText)
    <2>1. \A v \in Nested[d] : write_value(v, TextsInside(d)) \in VisibleText
      BY <1>2, <1>3, WriteType
    <2>2. TextsAt(d, TextsInside(d)) \in [Nested[d] -> VisibleText]
      BY <2>1, Zenon DEF TextsAt
    <2> QED
      BY <1>1, <2>2, Zenon DEF Maps
  <1>4. <<>> \in Maps({}, VisibleText)
    BY DEF Maps
  <1> DEFINE G == {d \in Nat : d \in 0 .. MaxDepth =>
                     TextsInside(d) \in Maps(Inside(d), VisibleText)}
  <1>5. 0 \in G
    BY <1>4, Zenon DEF TextsInside, Inside
  <1>6. ASSUME NEW d \in Nat, d \in G PROVE d + 1 \in G
    <2> SUFFICES ASSUME d + 1 \in 0 .. MaxDepth
                 PROVE  TextsInside(d + 1) \in Maps(Inside(d + 1), VisibleText)
      OBVIOUS
    <2>1. d \in 0 .. MaxDepth /\ d + 1 # 0 /\ (d + 1) - 1 = d
      BY CanonicalAssumption
    <2>2. Written[d] \in Maps(Nested[d], VisibleText)
      BY <1>3, <1>6, <2>1, Zenon
    <2> QED
      BY <2>1, <2>2, Zenon DEF TextsInside, Inside
  <1>7. Nat \subseteq G
    <2> HIDE DEF G
    <2> QED
      BY <1>5, <1>6, SetInduction
  <1>8. \A d \in 0 .. MaxDepth : TextsInside(d) \in Maps(Inside(d), VisibleText)
    BY <1>7
  <1> QED
    BY <1>2, <1>3, <1>8, Zenon

\* No canonical text has a control character in it, a newline above all,
\* whatever the value's strings hold (write_string, write_uescape).
THEOREM CanonicalTextIsOneLine == CanonicalSpec => []CanonicalOneLine
  <1>1. ASSUME NEW v \in Values PROVE \A n \in DOMAIN canonicalize(v) : canonicalize(v)[n] >= 32
    <2>1. v \in Nested[MaxDepth] /\ MaxDepth \in 0 .. MaxDepth
      BY ValuesType
    <2>2. Written[MaxDepth][v] \in VisibleText
      BY <2>1, WrittenType, MapsTo
    <2>3. canonicalize(v) \in Seq(Visible)
      BY <2>2, Zenon DEF canonicalize, VisibleText
    <2>4. \A n \in DOMAIN canonicalize(v) : canonicalize(v)[n] \in Visible
      BY <2>3
    <2> QED
      BY <2>4, Zenon DEF Visible
  <1>2. left \in Values => CanonicalOneLine
    BY <1>1, Zenon DEF CanonicalOneLine
  <1> QED
    BY <1>2, AlwaysValues, PTL

-----------------------------------------------------------------------------
(* Reading canonical text back *)

LEMMA ConsJoinedMore ==
    ASSUME NEW S, NEW x \in S, NEW s \in Seq(S), NEW a \in Seq(S)
    PROVE  Joined(Cons(x, s), a) = Cons(x, Joined(s, a)) /\ Joined(s, a) \in Seq(S)
  <1>1. PICK p \in Seq(S) : p = <<x>> /\ Cons(x, s) = Joined(p, s)
    BY ConsJoined
  <1>2. Joined(s, a) \in Seq(S)
    BY JoinFacts, Zenon
  <1>3. Joined(Joined(p, s), a) = Joined(p, Joined(s, a))
    BY JoinAssoc
  <1>4. Cons(x, Joined(s, a)) = Joined(p, Joined(s, a))
    BY <1>1, <1>2, ConsJoined
  <1> QED
    BY <1>1, <1>2, <1>3, <1>4, Zenon

Two(x, y) == <<x, y>>
Six(x, y, p, q, r, z) == <<x, y, p, q, r, z>>

LEMMA TwoJoined ==
    ASSUME NEW S, NEW a \in Seq(S), NEW x \in S, NEW y \in S
    PROVE  Joined(Two(x, y), a) = Cons(x, Cons(y, a))
  <1>1. PICK p \in Seq(S) : p = <<x>>
    BY ConsJoined, Zenon
  <1>2. PICK q \in Seq(S) : q = <<y>>
    BY ConsJoined, Zenon
  <1>3. Two(x, y) = Joined(p, q)
    <2>1. /\ Two(x, y) \in Seq(S) /\ Len(Two(x, y)) = 2
          /\ Two(x, y)[1] = x /\ Two(x, y)[2] = y
      BY DEF Two
    <2>2. Len(p) = 1 /\ Len(q) = 1 /\ p[1] = x /\ q[1] = y
      BY <1>1, <1>2
    <2>3. PICK r \in Seq(S) : r = Joined(p, q)
      BY JoinFacts, Zenon
    <2>4. Len(r) = Len(p) + Len(q)
      BY <2>3, JoinedAt
    <2>5. \A i \in 1 .. Len(p) : r[i] = p[i]
      BY <2>3, JoinedAt
    <2>6. \A i \in 1 .. Len(q) : r[Len(p) + i] = q[i]
      <3>1. \A i \in 1 .. Len(q) : Joined(p, q)[Len(p) + i] = q[i]
        BY DEF Joined
      <3> QED
        BY <2>3, <3>1, Zenon
    <2>7. Len(r) = 2 /\ r[1] = x /\ r[2] = y
      BY <2>2, <2>4, <2>5, <2>6
    <2>8. PICK w \in Seq(S) : w = Two(x, y)
      BY <2>1
    <2>9. w = r
      BY <2>1, <2>7, <2>8, SeqEqual
    <2> QED
      BY <2>3, <2>8, <2>9
  <1>4. PICK r \in Seq(S) : r = Cons(y, a)
    BY ConsFacts
  <1>5. Joined(q, a) = r /\ Joined(p, r) = Cons(x, r)
    BY <1>1, <1>2, <1>4, ConsJoined
  <1>6. Joined(Joined(p, q), a) = Joined(p, Joined(q, a))
    BY JoinAssoc
  <1> QED
    BY <1>3, <1>4, <1>5, <1>6, Zenon

LEMMA SixJoined ==
    ASSUME NEW S, NEW a \in Seq(S), NEW x \in S, NEW y \in S, NEW p \in S, NEW q \in S,
           NEW r \in S, NEW z \in S
    PROVE  Joined(Six(x, y, p, q, r, z), a)
             = Cons(x, Cons(y, Cons(p, Cons(q, Cons(r, Cons(z, a))))))
  <1>1. PICK t \in Seq(S), u \in Seq(S), v \in Seq(S) :
          t = Two(x, y) /\ u = Two(p, q) /\ v = Two(r, z)
    <2>1. \A c, d \in S : Two(c, d) \in Seq(S)
      BY DEF Two
    <2> QED
      BY <2>1, Zenon
  <1>2. Six(x, y, p, q, r, z) = Joined(t, Joined(u, v))
    BY <1>1 DEF Two, Six, Joined
  <1>3. PICK b \in Seq(S) : b = Joined(v, a)
    BY JoinFacts, Zenon
  <1>4. PICK c \in Seq(S) : c = Joined(u, b)
    BY JoinFacts, Zenon
  <1>5. b = Cons(r, Cons(z, a)) /\ c = Cons(p, Cons(q, b)) /\ Joined(t, c) = Cons(x, Cons(y, c))
    BY <1>1, <1>3, <1>4, TwoJoined
  <1>6. PICK w \in Seq(S) : w = Joined(u, v)
    BY JoinFacts, Zenon
  <1>7. Joined(Joined(t, w), a) = Joined(t, Joined(w, a)) /\ Joined(Joined(u, v), a) = Joined(u, Joined(v, a))
    BY JoinAssoc
  <1> QED
    BY <1>2, <1>3, <1>4, <1>5, <1>6, <1>7, Zenon

LEMMA DigitInjective ==
    \A r, q \in 0 .. 15 : Digit(r) = Digit(q) => r = q
  BY DEF Digit

LowerU == 117
Zero   == 48
Numbered(s) == Cons(Backslash, Cons(LowerU, Cons(Zero, Cons(Zero, s))))

\* The text of c, and what follows it.
AsItIs(c, t) == /\ c \in Visible /\ c # Quote /\ c # Backslash
                /\ \A a \in VisibleText : Joined(t, a) = Cons(c, a)
AsLetter(c, t) == \E e \in Letters :
                    /\ c = Named(e)
                    /\ \A a \in VisibleText : Joined(t, a) = Cons(Backslash, Cons(e, a))
AsNumber(c, t) == \E q, r \in 0 .. 15 :
                    /\ c = 16 * q + r
                    /\ \A a \in VisibleText :
                         Joined(t, a) = Numbered(Cons(Digit(q), Cons(Digit(r), a)))

LEMMA VisibleNames ==
    /\ Backslash \in Visible /\ Quote \in Visible /\ LowerU \in Visible /\ Zero \in Visible
    /\ \A r \in 0 .. 15 : Digit(r) \in Visible
    /\ \A e \in Letters : e \in Visible /\ e # LowerU
    /\ Backslash # Quote
  BY VisibleFacts DEF Backslash, Quote, Letters, LowerU, Zero

LEMMA VisibleCons ==
    /\ \A e \in Visible, a \in VisibleText : Cons(e, a) \in VisibleText
    /\ \A e, g \in Visible, a, b \in VisibleText : Cons(e, a) = Cons(g, b) => e = g /\ a = b
  BY ConsFacts, ConsEqual DEF VisibleText

LEMMA NumberedFacts ==
    ASSUME NEW s \in VisibleText
    PROVE  /\ Numbered(s) \in VisibleText
           /\ \E u \in VisibleText : Numbered(s) = Cons(Backslash, Cons(LowerU, u))
           /\ \A t \in VisibleText : Numbered(s) = Numbered(t) => s = t
  <1>1. ASSUME NEW t \in VisibleText
        PROVE  /\ Cons(Zero, t) \in VisibleText /\ Cons(Zero, Cons(Zero, t)) \in VisibleText
               /\ Cons(LowerU, Cons(Zero, Cons(Zero, t))) \in VisibleText
               /\ Numbered(t) \in VisibleText
    <2>1. PICK u \in VisibleText : u = Cons(Zero, t)
      BY VisibleNames, VisibleCons
    <2>2. PICK v \in VisibleText : v = Cons(Zero, u)
      BY VisibleNames, VisibleCons
    <2>3. PICK z \in VisibleText : z = Cons(LowerU, v)
      BY VisibleNames, VisibleCons
    <2>4. Cons(Backslash, z) \in VisibleText
      BY VisibleNames, VisibleCons
    <2> QED
      BY <2>1, <2>2, <2>3, <2>4, Zenon DEF Numbered
  <1>2. ASSUME NEW t \in VisibleText, Numbered(s) = Numbered(t) PROVE s = t
    <2>0. Backslash \in Visible /\ LowerU \in Visible /\ Zero \in Visible
      BY VisibleNames
    <2>1. ASSUME NEW e \in Visible, NEW a \in VisibleText, NEW b \in VisibleText,
                 Cons(e, a) = Cons(e, b)
          PROVE  a = b
      BY <2>1, VisibleCons
    <2>2. Cons(Backslash, Cons(LowerU, Cons(Zero, Cons(Zero, s))))
            = Cons(Backslash, Cons(LowerU, Cons(Zero, Cons(Zero, t))))
      BY <1>2, Zenon DEF Numbered
    <2>3. PICK p \in VisibleText, q \in VisibleText :
            p = Cons(Zero, s) /\ q = Cons(Zero, t)
      BY <1>1
    <2>4. PICK u \in VisibleText, v \in VisibleText :
            u = Cons(Zero, p) /\ v = Cons(Zero, q)
      BY <1>1, <2>3
    <2>5. PICK x \in VisibleText, y \in VisibleText :
            x = Cons(LowerU, u) /\ y = Cons(LowerU, v)
      BY <1>1, <2>3, <2>4
    <2>6. Cons(Backslash, x) = Cons(Backslash, y)
      BY <2>2, <2>3, <2>4, <2>5, Zenon
    <2>7. x = y
      BY <2>0, <2>1, <2>6
    <2>8. u = v
      BY <2>0, <2>1, <2>5, <2>7
    <2>9. p = q
      BY <2>0, <2>1, <2>4, <2>8
    <2> QED
      BY <2>0, <2>1, <2>3, <2>9
  <1> QED
    BY <1>1, <1>2, Zenon DEF Numbered

LEMMA EscapedAs ==
    ASSUME NEW c \in Char
    PROVE  \/ AsItIs(c, EscapeOf[c]) \/ AsLetter(c, EscapeOf[c]) \/ AsNumber(c, EscapeOf[c])
  <1>0. EscapeOf[c] = escape(c)
    BY EscapeType
  <1>1. ASSUME IsPlain(c), escape(c) = <<c>> PROVE AsItIs(c, EscapeOf[c])
    <2>1. c \in Visible /\ c # Quote /\ c # Backslash
      BY <1>1, VisibleFacts DEF IsPlain
    <2>2. \A a \in VisibleText : Joined(<<c>>, a) = Cons(c, a)
      BY <2>1, ConsJoined DEF VisibleText
    <2> QED
      BY <1>0, <1>1, <2>1, <2>2, Zenon DEF AsItIs
  <1>2. ASSUME NEW e \in Letters, c = Named(e), escape(c) = <<Backslash, e>>
        PROVE  AsLetter(c, EscapeOf[c])
    <2>1. Backslash \in Visible /\ e \in Visible
      BY VisibleNames
    <2>2. \A a \in Seq(Visible) : Joined(Two(Backslash, e), a) = Cons(Backslash, Cons(e, a))
      BY <2>1, TwoJoined
    <2> QED
      BY <1>0, <1>2, <2>2, Zenon DEF AsLetter, VisibleText, Two
  <1>3. ASSUME NEW q \in 0 .. 1, NEW r \in 0 .. 15, c = 16 * q + r,
               escape(c) = <<Backslash, 117, 48, 48, Digit(q), Digit(r)>>
        PROVE  AsNumber(c, EscapeOf[c])
    <2>1. q \in 0 .. 15
      OBVIOUS
    <2>2. PICK g \in Visible, h \in Visible : g = Digit(q) /\ h = Digit(r)
      BY <2>1, VisibleNames
    <2>3. PICK x \in Visible, y \in Visible, z \in Visible :
            x = Backslash /\ y = LowerU /\ z = Zero
      BY VisibleNames
    <2>4. \A a \in Seq(Visible) : Joined(Six(x, y, z, z, g, h), a) =
            Cons(x, Cons(y, Cons(z, Cons(z, Cons(g, Cons(h, a))))))
      BY SixJoined
    <2>5. escape(c) = Six(Backslash, LowerU, Zero, Zero, Digit(q), Digit(r))
      BY <1>3, Zenon DEF LowerU, Zero, Six
    <2>6. \A a \in VisibleText :
            Joined(escape(c), a) = Numbered(Cons(Digit(q), Cons(Digit(r), a)))
      BY <2>2, <2>3, <2>4, <2>5, Zenon DEF Numbered, VisibleText
    <2> QED
      BY <1>0, <1>3, <2>1, <2>6, Zenon DEF AsNumber
  <1> QED
    BY <1>1, <1>2, <1>3, EscapeCases

LEMMA LetterReads ==
    ASSUME NEW x, NEW s, NEW a \in VisibleText, AsLetter(x, s)
    PROVE  \E e \in Visible :
             /\ e # LowerU /\ x = Named(e)
             /\ Cons(e, a) \in VisibleText
             /\ Joined(s, a) = Cons(Backslash, Cons(e, a))
  <1>1. PICK e \in Letters : x = Named(e) /\ Joined(s, a) = Cons(Backslash, Cons(e, a))
    BY DEF AsLetter
  <1>2. e \in Visible /\ e # LowerU
    BY VisibleNames
  <1> QED
    BY <1>1, <1>2, VisibleCons

LEMMA NumberReads ==
    ASSUME NEW x, NEW s, NEW a \in VisibleText, AsNumber(x, s)
    PROVE  /\ \E q, r \in 0 .. 15 :
                /\ x = 16 * q + r
                /\ Cons(Digit(r), a) \in VisibleText
                /\ Cons(Digit(q), Cons(Digit(r), a)) \in VisibleText
                /\ Joined(s, a) = Numbered(Cons(Digit(q), Cons(Digit(r), a)))
           /\ \E u \in VisibleText :
                /\ Cons(LowerU, u) \in VisibleText
                /\ Joined(s, a) = Cons(Backslash, Cons(LowerU, u))
  <1>1. PICK q \in 0 .. 15, r \in 0 .. 15 :
          x = 16 * q + r /\ Joined(s, a) = Numbered(Cons(Digit(q), Cons(Digit(r), a)))
    BY DEF AsNumber
  <1>2. Cons(Digit(r), a) \in VisibleText
    BY VisibleNames, VisibleCons
  <1>3. Cons(Digit(q), Cons(Digit(r), a)) \in VisibleText
    BY <1>2, VisibleNames, VisibleCons
  <1>4. PICK u \in VisibleText : Joined(s, a) = Cons(Backslash, Cons(LowerU, u))
    BY <1>1, <1>3, NumberedFacts
  <1>5. Cons(LowerU, u) \in VisibleText
    BY VisibleNames, VisibleCons
  <1> QED
    BY <1>1, <1>2, <1>3, <1>4, <1>5, Zenon

\* No escape is the start of another, and none starts with a quote.
LEMMA EscapeReads ==
    /\ \A x, y \in Char, a, b \in VisibleText :
         Joined(EscapeOf[x], a) = Joined(EscapeOf[y], b) => x = y /\ a = b
    /\ \A x \in Char, a, b \in VisibleText : Joined(EscapeOf[x], a) # Cons(Quote, b)
  <1>1. ASSUME NEW x, NEW y, NEW s, NEW t, NEW a \in VisibleText, NEW b \in VisibleText,
               Joined(s, a) = Joined(t, b), AsItIs(x, s)
        PROVE  AsItIs(y, t) => x = y /\ a = b
    <2> SUFFICES ASSUME AsItIs(y, t) PROVE x = y /\ a = b
      OBVIOUS
    <2>1. x \in Visible /\ y \in Visible /\ Cons(x, a) = Cons(y, b)
      BY <1>1, Zenon DEF AsItIs
    <2> QED
      BY <2>1, VisibleCons
  <1>2. ASSUME NEW x, NEW y, NEW s, NEW t, NEW a \in VisibleText, NEW b \in VisibleText,
               Joined(s, a) = Joined(t, b), AsItIs(x, s), AsLetter(y, t) \/ AsNumber(y, t)
        PROVE  FALSE
    <2>1. \E u \in VisibleText : Joined(t, b) = Cons(Backslash, u)
      BY <1>2, LetterReads, NumberReads
    <2>2. x \in Visible /\ x # Backslash /\ Joined(s, a) = Cons(x, a)
      BY <1>2, Zenon DEF AsItIs
    <2> QED
      BY <1>2, <2>1, <2>2, VisibleNames, VisibleCons
  <1>3. ASSUME NEW x, NEW y, NEW s, NEW t, NEW a \in VisibleText, NEW b \in VisibleText,
               Joined(s, a) = Joined(t, b), AsLetter(x, s), AsLetter(y, t)
        PROVE  x = y /\ a = b
    <2>1. PICK e \in Visible : /\ x = Named(e) /\ Cons(e, a) \in VisibleText
                               /\ Joined(s, a) = Cons(Backslash, Cons(e, a))
      BY <1>3, LetterReads
    <2>2. PICK g \in Visible : /\ y = Named(g) /\ Cons(g, b) \in VisibleText
                               /\ Joined(t, b) = Cons(Backslash, Cons(g, b))
      BY <1>3, LetterReads
    <2>3. Cons(e, a) = Cons(g, b)
      BY <1>3, <2>1, <2>2, VisibleNames, VisibleCons
    <2>4. e = g /\ a = b
      BY <2>3, VisibleCons
    <2> QED
      BY <2>1, <2>2, <2>4, Zenon
  <1>4. ASSUME NEW x, NEW y, NEW s, NEW t, NEW a \in VisibleText, NEW b \in VisibleText,
               Joined(s, a) = Joined(t, b), AsLetter(x, s), AsNumber(y, t)
        PROVE  FALSE
    <2>1. PICK e \in Visible : /\ e # LowerU /\ Cons(e, a) \in VisibleText
                               /\ Joined(s, a) = Cons(Backslash, Cons(e, a))
      BY <1>4, LetterReads
    <2>2. PICK u \in VisibleText : /\ Cons(LowerU, u) \in VisibleText
                                   /\ Joined(t, b) = Cons(Backslash, Cons(LowerU, u))
      BY <1>4, NumberReads
    <2>3. Cons(e, a) = Cons(LowerU, u)
      BY <1>4, <2>1, <2>2, VisibleNames, VisibleCons
    <2> QED
      BY <2>1, <2>3, VisibleNames, VisibleCons
  <1>5. ASSUME NEW x, NEW y, NEW s, NEW t, NEW a \in VisibleText, NEW b \in VisibleText,
               Joined(s, a) = Joined(t, b), AsNumber(x, s), AsNumber(y, t)
        PROVE  x = y /\ a = b
    <2>1. PICK q \in 0 .. 15, r \in 0 .. 15 :
                /\ x = 16 * q + r
                /\ Cons(Digit(r), a) \in VisibleText
                /\ Cons(Digit(q), Cons(Digit(r), a)) \in VisibleText
                /\ Joined(s, a) = Numbered(Cons(Digit(q), Cons(Digit(r), a)))
      BY <1>5, NumberReads
    <2>2. PICK g \in 0 .. 15, h \in 0 .. 15 :
                /\ y = 16 * g + h
                /\ Cons(Digit(h), b) \in VisibleText
                /\ Cons(Digit(g), Cons(Digit(h), b)) \in VisibleText
                /\ Joined(t, b) = Numbered(Cons(Digit(g), Cons(Digit(h), b)))
      BY <1>5, NumberReads
    <2>3. Cons(Digit(q), Cons(Digit(r), a)) = Cons(Digit(g), Cons(Digit(h), b))
      BY <1>5, <2>1, <2>2, NumberedFacts
    <2>v. /\ Digit(q) \in Visible /\ Digit(r) \in Visible
          /\ Digit(g) \in Visible /\ Digit(h) \in Visible
      BY VisibleNames, Zenon
    <2>4. Digit(q) = Digit(g) /\ Cons(Digit(r), a) = Cons(Digit(h), b)
      BY <2>1, <2>2, <2>3, <2>v, VisibleCons
    <2>5. Digit(r) = Digit(h) /\ a = b
      BY <2>1, <2>2, <2>4, <2>v, VisibleCons
    <2>6. q = g /\ r = h
      BY <2>4, <2>5, DigitInjective, Zenon
    <2> QED
      BY <2>1, <2>2, <2>5, <2>6, Zenon
  <1>6. ASSUME NEW x \in Char, NEW y \in Char, NEW a \in VisibleText, NEW b \in VisibleText,
               Joined(EscapeOf[x], a) = Joined(EscapeOf[y], b)
        PROVE  x = y /\ a = b
    <2>1. /\ AsItIs(x, EscapeOf[x]) \/ AsLetter(x, EscapeOf[x]) \/ AsNumber(x, EscapeOf[x])
          /\ AsItIs(y, EscapeOf[y]) \/ AsLetter(y, EscapeOf[y]) \/ AsNumber(y, EscapeOf[y])
      BY EscapedAs
    <2>2. CASE AsItIs(x, EscapeOf[x])
      BY <1>1, <1>2, <1>6, <2>1, <2>2, Zenon
    <2>3. CASE AsItIs(y, EscapeOf[y])
      BY <1>1, <1>2, <1>6, <2>1, <2>3, Zenon
    <2>4. CASE AsLetter(x, EscapeOf[x]) /\ AsLetter(y, EscapeOf[y])
      BY <1>3, <1>6, <2>4, Zenon
    <2>5. CASE AsLetter(x, EscapeOf[x]) /\ AsNumber(y, EscapeOf[y])
      BY <1>4, <1>6, <2>5, Zenon
    <2>6. CASE AsNumber(x, EscapeOf[x]) /\ AsLetter(y, EscapeOf[y])
      BY <1>4, <1>6, <2>6, Zenon
    <2>7. CASE AsNumber(x, EscapeOf[x]) /\ AsNumber(y, EscapeOf[y])
      BY <1>5, <1>6, <2>7, Zenon
    <2> QED
      BY <2>1, <2>2, <2>3, <2>4, <2>5, <2>6, <2>7, Zenon
  <1>7. ASSUME NEW x \in Char, NEW a \in VisibleText, NEW b \in VisibleText,
               Joined(EscapeOf[x], a) = Cons(Quote, b)
        PROVE  FALSE
    <2>1. PICK s : s = EscapeOf[x]
      OBVIOUS
    <2>2. \E c \in Visible, u \in VisibleText : c # Quote /\ Joined(s, a) = Cons(c, u)
      <3>1. CASE AsItIs(x, s)
        BY <3>1 DEF AsItIs
      <3>2. CASE AsLetter(x, s)
        BY <3>2, LetterReads, VisibleNames
      <3>3. CASE AsNumber(x, s)
        BY <3>3, NumberReads, VisibleNames
      <3> QED
        BY <2>1, <3>1, <3>2, <3>3, EscapedAs, Zenon
    <2> QED
      BY <1>7, <2>1, <2>2, VisibleNames, VisibleCons
  <1> QED
    BY <1>6, <1>7, Zenon

LEMMA SameIdentity ==
    ASSUME NEW E, NEW s \in Seq(E), NEW t \in Seq(E), Same([x \in E |-> x], s, t)
    PROVE  s = t
  <1> DEFINE m == [x \in E |-> x]
  <1>0. \A x \in E : m[x] = x
    OBVIOUS
  <1> HIDE DEF m
  <1>1. Len(s) = Len(t) /\ \A i \in 1 .. Len(s) : s[i] = t[i]
    <2>1. Len(s) = Len(t) /\ \A i \in 1 .. Len(s) : m[s[i]] = m[t[i]]
      BY Zenon DEF Same, m
    <2>2. \A i \in 1 .. Len(s) : s[i] \in E /\ t[i] \in E
      BY <2>1
    <2> QED
      BY <1>0, <2>1, <2>2, Zenon
  <1> QED
    BY <1>1, SeqEqual

\* A string is read back, whatever follows it.
LEMMA StringReads ==
    ASSUME NEW s \in Text, NEW t \in Text, NEW a \in VisibleText, NEW b \in VisibleText,
           Joined(write_string(s), a) = Joined(write_string(t), b)
    PROVE  s = t /\ a = b
  <1>1. \A r \in Text, c \in VisibleText :
          /\ Joined(write_string(r), c) = Cons(Quote, Joined(Coded(EscapeOf, r), Cons(Quote, c)))
          /\ Cons(Quote, c) \in VisibleText
          /\ Joined(Coded(EscapeOf, r), Cons(Quote, c)) \in VisibleText
    <2> TAKE r \in Text, c \in VisibleText
    <2>1. PICK p \in Seq(Visible), q \in Seq(Visible) : p = Coded(EscapeOf, r) /\ q = <<Quote>>
      BY StringText DEF VisibleText
    <2>2. Quote \in Visible /\ c \in Seq(Visible)
      BY StringText DEF VisibleText
    <2>3. write_string(r) = Cons(Quote, Joined(p, q))
      BY <2>1, StringText
    <2>4. PICK u \in Seq(Visible) : u = Joined(p, q)
      BY JoinFacts, Zenon
    <2>5. Joined(Cons(Quote, u), c) = Cons(Quote, Joined(u, c))
      BY <2>2, ConsJoinedMore
    <2>6. Joined(Joined(p, q), c) = Joined(p, Joined(q, c))
      BY <2>2, JoinAssoc
    <2>7. Joined(q, c) = Cons(Quote, c) /\ Cons(Quote, c) \in Seq(Visible)
      BY <2>1, <2>2, ConsFacts, ConsJoined
    <2>8. Joined(p, Cons(Quote, c)) \in Seq(Visible)
      BY <2>7, JoinFacts, Zenon
    <2> QED
      BY <2>1, <2>3, <2>4, <2>5, <2>6, <2>7, <2>8, Zenon DEF VisibleText
  <1> DEFINE End == {Cons(Quote, c) : c \in VisibleText}
             id  == [c \in Char |-> c]
  <1>2. /\ Quote \in Visible /\ s \in Seq(Char) /\ t \in Seq(Char)
        /\ EscapeOf \in Maps(Char, Seq(Visible))
        /\ VisibleText = Seq(Visible)
    BY StringText, EscapeType DEF VisibleText, Text
  <1>f. PICK f \in Maps(Char, Seq(Visible)) : f = EscapeOf
    BY <1>2
  <1>id. \A c \in Char : id[c] = c
    OBVIOUS
  <1>3. /\ End \in SUBSET VisibleText /\ Cons(Quote, a) \in End /\ Cons(Quote, b) \in End
    BY <1>1, Zenon
  <1>4. /\ \A x \in Char, c \in VisibleText : Joined(f[x], c) \in VisibleText
        /\ \A x, y \in Char, c, d \in VisibleText :
             Joined(f[x], c) = Joined(f[y], d) => id[x] = id[y] /\ c = d
        /\ \A x \in Char, c \in VisibleText, d \in End : Joined(f[x], c) # d
    <2> HIDE DEF id
    <2>1. \A x \in Char, c \in VisibleText : Joined(f[x], c) \in VisibleText
      BY <1>2, MapsTo, JoinFacts, Zenon
    <2>2. \A x \in Char, c \in VisibleText, d \in End : Joined(f[x], c) # d
      BY <1>f, EscapeReads
    <2>3. ASSUME NEW x \in Char, NEW y \in Char, NEW c \in VisibleText, NEW d \in VisibleText,
                 Joined(f[x], c) = Joined(f[y], d)
          PROVE  id[x] = id[y] /\ c = d
      <3>1. x = y /\ c = d
        BY <1>f, <2>3, EscapeReads
      <3> QED
        BY <3>1, Zenon
    <2> QED
      BY <2>1, <2>2, <2>3, Zenon
  <1> HIDE DEF End, id
  <1>5. \A p, q \in Seq(Char), c, d \in End :
          Joined(Coded(f, p), c) = Joined(Coded(f, q), d) => Same(id, p, q) /\ c = d
    <2>1. PICK K \in SUBSET Seq(Visible) : K = VisibleText
      BY <1>2, Zenon
    <2>2. End \in SUBSET K
      BY <1>3, <2>1, Zenon
    <2>3. /\ \A x \in Char, c \in K : Joined(f[x], c) \in K
          /\ \A x, y \in Char, c, d \in K :
               Joined(f[x], c) = Joined(f[y], d) => id[x] = id[y] /\ c = d
          /\ \A x \in Char, c \in K, d \in End : Joined(f[x], c) # d
      BY <1>4, <2>1
    <2>4. Keeps(Char, f, K) /\ Tells(Char, f, K, id) /\ Separate(Char, f, K, End)
      BY <2>3, Zenon DEF Keeps, Tells, Separate
    <2>5. ListsTell(Char, f, End, id)
      BY <2>2, <2>4, ReadBack
    <2> QED
      BY <2>5, Zenon DEF ListsTell
  <1>6. Joined(Coded(f, s), Cons(Quote, a)) = Joined(Coded(f, t), Cons(Quote, b))
    <2>1. PICK u \in Seq(Visible), v \in Seq(Visible) :
            /\ u = Joined(Coded(EscapeOf, s), Cons(Quote, a))
            /\ v = Joined(Coded(EscapeOf, t), Cons(Quote, b))
      BY <1>1, Zenon DEF VisibleText
    <2>2. Cons(Quote, u) = Cons(Quote, v)
      <3>1. /\ Joined(write_string(s), a) = Cons(Quote, u)
            /\ Joined(write_string(t), b) = Cons(Quote, v)
        BY <1>1, <2>1
      <3> QED
        BY <3>1
    <2>3. u = v
      BY <1>2, <2>2, ConsEqual
    <2> QED
      BY <1>f, <2>1, <2>3, Zenon
  <1>7. Same(id, s, t) /\ Cons(Quote, a) = Cons(Quote, b)
    BY <1>2, <1>3, <1>5, <1>6
  <1>8. s = t
    BY <1>2, <1>7, SameIdentity DEF id
  <1>9. a = b
    BY <1>2, <1>7, ConsEqual DEF VisibleText
  <1> QED
    BY <1>8, <1>9

\* What may follow the text of a value, and what ends a list.
Closing == {93, 125}
Comma   == 44
Tails == {a \in VisibleText :
            a = <<>> \/ \E c \in Closing \cup {Comma}, b \in VisibleText : a = Cons(c, b)}
Ends  == {a \in VisibleText : \E c \in Closing, b \in VisibleText : a = Cons(c, b)}
Opens(E, f) ==
    \A x \in E : \E c \in Visible, t \in VisibleText :
      c \notin Closing \cup {Comma} /\ f[x] = Cons(c, t)

LEMMA TailFacts ==
    /\ Ends \in SUBSET Tails /\ Tails \in SUBSET VisibleText /\ <<>> \in Tails
    /\ Comma \in Visible /\ \A c \in Closing : c \in Visible /\ c # Comma
    /\ \A b \in VisibleText : Cons(Comma, b) \in Tails /\ Cons(Comma, b) \notin Ends
    /\ \A b \in VisibleText, c \in Closing : Cons(c, b) \in Ends
    /\ \A c \in Visible, b \in VisibleText :
         c \notin Closing \cup {Comma} => Cons(c, b) \notin Tails /\ Cons(c, b) \notin Ends
  <1>1. Comma \in Visible /\ \A c \in Closing : c \in Visible /\ c # Comma
    BY VisibleFacts DEF Closing, Comma
  <1>2. <<>> \in Tails
    BY DEF Tails, VisibleText
  <1>3. \A b \in VisibleText : Cons(Comma, b) \in Tails /\ Cons(Comma, b) \notin Ends
    BY <1>1, VisibleCons DEF Tails, Ends
  <1>4. \A b \in VisibleText, c \in Closing : Cons(c, b) \in Ends
    BY <1>1, VisibleCons DEF Ends
  <1>5. \A c \in Visible, b \in VisibleText :
         c \notin Closing \cup {Comma} => Cons(c, b) \notin Tails /\ Cons(c, b) \notin Ends
    <2>1. \A c \in Visible, b \in VisibleText : Cons(c, b) # <<>>
      BY ConsFacts DEF VisibleText
    <2> QED
      BY <1>1, <2>1, VisibleCons DEF Tails, Ends
  <1>6. Ends \in SUBSET Tails /\ Tails \in SUBSET VisibleText
    BY Zenon DEF Tails, Ends
  <1> QED
    BY <1>1, <1>2, <1>3, <1>4, <1>5, <1>6, Zenon

LEMMA VisibleJoin ==
    /\ \A s, a \in VisibleText : Joined(s, a) \in VisibleText
    /\ \A a \in VisibleText : Joined(<<>>, a) = a /\ Joined(a, <<>>) = a
    /\ \A s, t, a \in VisibleText : Joined(Joined(s, t), a) = Joined(s, Joined(t, a))
    /\ \A x \in Visible, s, a \in VisibleText : Joined(Cons(x, s), a) = Cons(x, Joined(s, a))
  <1>1. \A s, a \in VisibleText : Joined(s, a) \in VisibleText
    BY JoinFacts, Zenon DEF VisibleText
  <1>2. \A a \in VisibleText : Joined(<<>>, a) = a /\ Joined(a, <<>>) = a
    BY JoinFacts, Zenon DEF VisibleText
  <1>3. \A s, t, a \in VisibleText : Joined(Joined(s, t), a) = Joined(s, Joined(t, a))
    BY JoinAssoc DEF VisibleText
  <1>4. \A x \in Visible, s, a \in VisibleText : Joined(Cons(x, s), a) = Cons(x, Joined(s, a))
    BY ConsJoinedMore DEF VisibleText
  <1> QED
    BY <1>1, <1>2, <1>3, <1>4, Zenon

\* If the elements of a list can be read back, the list can.
LEMMA ListReads ==
    ASSUME NEW E, NEW f \in Maps(E, VisibleText), NEW m,
           Tells(E, f, Tails, m), Opens(E, f),
           NEW s \in Seq(E), NEW t \in Seq(E), NEW a \in Ends, NEW b \in Ends,
           Joined(CommaList(Mapped(f, s)), a) = Joined(CommaList(Mapped(f, t)), b)
    PROVE  Same(m, s, t) /\ a = b
  <1>g. PICK g \in Maps(E, VisibleText) :
          /\ g = After(E, f)
          /\ \A x \in E : g[x] = Cons(Comma, f[x])
    BY AfterType DEF Comma
  <1>1. \A x \in E : f[x] \in VisibleText /\ g[x] \in VisibleText
    BY MapsTo
  <1>2. \A x \in E, c \in VisibleText :
          /\ Joined(g[x], c) = Cons(Comma, Joined(f[x], c))
          /\ Joined(f[x], c) \in VisibleText
    <2> TAKE x \in E, c \in VisibleText
    <2>1. PICK u \in VisibleText : u = f[x]
      BY <1>1
    <2>2. Joined(Cons(Comma, u), c) = Cons(Comma, Joined(u, c)) /\ Joined(u, c) \in VisibleText
      BY TailFacts, VisibleJoin
    <2> QED
      BY <1>g, <2>1, <2>2, Zenon
  <1>3. \A c \in Tails : c \in VisibleText
    BY TailFacts, Zenon
  <1>4. Keeps(E, g, Tails)
    BY <1>2, <1>3, TailFacts DEF Keeps
  <1>5. Separate(E, g, Tails, Ends)
    BY <1>2, <1>3, TailFacts DEF Separate
  <1>6. Tells(E, g, Tails, m)
    <2> SUFFICES ASSUME NEW x \in E, NEW y \in E, NEW c \in Tails, NEW d \in Tails,
                        Joined(g[x], c) = Joined(g[y], d)
                 PROVE  m[x] = m[y] /\ c = d
      BY Zenon DEF Tells
    <2>1. Cons(Comma, Joined(f[x], c)) = Cons(Comma, Joined(f[y], d))
      BY <1>2, <1>3
    <2>2. Joined(f[x], c) = Joined(f[y], d)
      BY <1>2, <1>3, <2>1, TailFacts, VisibleCons
    <2> QED
      BY <2>2 DEF Tells
  <1>7. ListsTell(E, g, Ends, m)
    <2>1. g \in Maps(E, Seq(Visible)) /\ Tails \in SUBSET Seq(Visible) /\ Ends \in SUBSET Tails
      BY TailFacts DEF VisibleText
    <2> QED
      BY <1>4, <1>5, <1>6, <2>1, ReadBack
  <1>8. \A r \in Seq(E) : Coded(g, r) \in VisibleText
    BY CodedFacts DEF VisibleText
  <1>9. ASSUME NEW r \in Seq(E), NEW c \in Ends PROVE Joined(Coded(g, r), c) \in Tails
    <2>0. /\ Coded(g, <<>>) = <<>>
          /\ \A u \in Seq(E), x \in E : Coded(g, Cons(x, u)) = Joined(g[x], Coded(g, u))
      BY CodedFacts DEF VisibleText
    <2>c. c \in Tails /\ c \in VisibleText
      BY TailFacts
    <2>1. CASE r = <<>>
      BY <2>0, <2>1, <2>c, VisibleJoin
    <2>2. CASE r # <<>>
      <3>1. PICK x \in E, u \in Seq(E) : r = Cons(x, u)
        BY <2>2, ConsOf
      <3>2. PICK z \in VisibleText : z = Coded(g, u)
        BY <1>8
      <3>3. Joined(Joined(g[x], z), c) = Joined(g[x], Joined(z, c))
        <4>1. PICK w \in VisibleText : w = g[x]
          BY <1>1
        <4>2. PICK e \in VisibleText : e = c
          BY <2>c
        <4>3. Joined(Joined(w, z), e) = Joined(w, Joined(z, e))
          BY VisibleJoin
        <4> QED
          BY <4>1, <4>2, <4>3
      <3>4. Joined(z, c) \in VisibleText
        BY <2>c, VisibleJoin
      <3>5. Joined(g[x], Joined(z, c)) \in Tails
        BY <1>2, <3>4, TailFacts
      <3> QED
        BY <2>0, <3>1, <3>2, <3>3, <3>5
    <2> QED
      BY <2>1, <2>2
  <1>10. ASSUME NEW r \in Seq(E), NEW x \in E, NEW c \in Ends
         PROVE  Joined(CommaList(Mapped(f, Cons(x, r))), c) = Joined(f[x], Joined(Coded(g, r), c))
    <2>1. CommaList(Mapped(f, Cons(x, r))) = Joined(f[x], Coded(g, r))
      BY <1>g, CommaListCons
    <2>2. c \in VisibleText
      BY TailFacts
    <2>3. PICK u \in VisibleText, v \in VisibleText : u = f[x] /\ v = Coded(g, r)
      BY <1>1, <1>8
    <2>4. Joined(Joined(u, v), c) = Joined(u, Joined(v, c))
      BY <2>2, VisibleJoin
    <2> QED
      BY <2>1, <2>3, <2>4, Zenon
  <1>11. \A c \in Ends : Joined(CommaList(Mapped(f, <<>>)), c) = c
    BY CommaListEmpty, VisibleJoin, TailFacts
  <1>12. ASSUME NEW r \in Seq(E), NEW x \in E, NEW c \in Ends, NEW d \in Ends
         PROVE  Joined(CommaList(Mapped(f, Cons(x, r))), c) # d
    <2>1. PICK z \in VisibleText : z = Joined(Coded(g, r), c)
      BY <1>9, TailFacts
    <2>2. PICK o \in Visible, u \in VisibleText : o \notin Closing \cup {Comma} /\ f[x] = Cons(o, u)
      BY DEF Opens
    <2>3. Joined(f[x], z) = Cons(o, Joined(u, z)) /\ Joined(u, z) \in VisibleText
      BY <2>2, VisibleJoin
    <2>4. Cons(o, Joined(u, z)) \notin Ends
      BY <2>2, <2>3, TailFacts
    <2> QED
      BY <1>10, <2>1, <2>3, <2>4
  <1>13. CASE s = <<>>
    <2>1. t = <<>>
      <3> SUFFICES ASSUME t # <<>> PROVE FALSE
        OBVIOUS
      <3>1. PICK y \in E, u \in Seq(E) : t = Cons(y, u)
        BY ConsOf
      <3> QED
        BY <1>11, <1>12, <1>13, <3>1
    <2>2. a = b
      BY <1>11, <1>13, <2>1, Zenon
    <2> QED
      BY <1>13, <2>1, <2>2 DEF Same
  <1>14. CASE s # <<>>
    <2>1. PICK x \in E, p \in Seq(E) : s = Cons(x, p)
      BY <1>14, ConsOf
    <2>2. t # <<>>
      <3> SUFFICES ASSUME t = <<>> PROVE FALSE
        OBVIOUS
      <3>1. Joined(CommaList(Mapped(f, Cons(x, p))), a) = b
        BY <1>11, <2>1, Zenon
      <3> QED
        BY <1>12, <3>1
    <2>3. PICK y \in E, q \in Seq(E) : t = Cons(y, q)
      BY <2>2, ConsOf
    <2>4. PICK u \in Tails, v \in Tails : u = Joined(Coded(g, p), a) /\ v = Joined(Coded(g, q), b)
      BY <1>9
    <2>5. Joined(f[x], u) = Joined(f[y], v)
      BY <1>10, <2>1, <2>3, <2>4
    <2>6. m[x] = m[y] /\ u = v
      BY <2>5 DEF Tells
    <2>7. Same(m, p, q) /\ a = b
      <3>1. Joined(Coded(g, p), a) = Joined(Coded(g, q), b)
        BY <2>4, <2>6, Zenon
      <3>2. \A r \in Seq(E), z \in Seq(E), c \in Ends, d \in Ends :
              Joined(Coded(g, r), c) = Joined(Coded(g, z), d) => Same(m, r, z) /\ c = d
        BY <1>7, Zenon DEF ListsTell
      <3>3. Joined(Coded(g, p), a) = Joined(Coded(g, q), b) => Same(m, p, q) /\ a = b
        BY <3>2
      <3> QED
        BY <3>1, <3>3, Zenon
    <2>8. Same(m, Cons(x, p), Cons(y, q))
      BY <2>6, <2>7, SameCons
    <2> QED
      BY <2>1, <2>3, <2>7, <2>8
  <1> QED
    BY <1>13, <1>14

\* A member of an object means its key and what its value means.
MembersMean(E, m) == [e \in MembersOf(E) |-> <<e[1], m[e[2]]>>]

LEMMA MembersTell ==
    ASSUME NEW E, NEW w \in Maps(E, VisibleText), NEW m, Tells(E, w, Tails, m)
    PROVE  /\ Tells(MembersOf(E), MemberOf(E, w), Tails, MembersMean(E, m))
           /\ Opens(MembersOf(E), MemberOf(E, w))
  <1>1. \A e \in MembersOf(E) : MembersMean(E, m)[e] = <<e[1], m[e[2]]>>
    BY DEF MembersMean
  <1>2. \A e \in MembersOf(E) :
          /\ e[1] \in Text /\ e[2] \in E /\ w[e[2]] \in VisibleText
          /\ MemberOf(E, w)[e] = Joined(write_string(e[1]), Cons(58, w[e[2]]))
    BY MemberType
  <1>3. 58 \in Visible /\ \A a \in Tails : a \in VisibleText
    BY MemberType, TailFacts
  <1>4. ASSUME NEW e \in MembersOf(E), NEW a \in Tails
        PROVE  /\ Joined(w[e[2]], a) \in VisibleText
               /\ Cons(58, Joined(w[e[2]], a)) \in VisibleText
               /\ Joined(MemberOf(E, w)[e], a)
                    = Joined(write_string(e[1]), Cons(58, Joined(w[e[2]], a)))
    <2>1. PICK k \in VisibleText, t \in VisibleText : k = write_string(e[1]) /\ t = w[e[2]]
      BY <1>2, StringText
    <2>2. Joined(t, a) \in VisibleText /\ Cons(58, t) \in VisibleText
      BY <1>3, VisibleJoin, VisibleCons
    <2>3. Joined(Cons(58, t), a) = Cons(58, Joined(t, a)) /\ Cons(58, Joined(t, a)) \in VisibleText
      BY <1>3, <2>2, VisibleJoin, VisibleCons
    <2>4. PICK c \in VisibleText : c = Cons(58, t)
      BY <2>2
    <2>5. Joined(Joined(k, c), a) = Joined(k, Joined(c, a))
      BY <1>3, VisibleJoin
    <2>6. MemberOf(E, w)[e] = Joined(k, c)
      BY <1>2, <2>1, <2>4
    <2> QED
      BY <2>1, <2>2, <2>3, <2>4, <2>5, <2>6, Zenon
  <1>5. ASSUME NEW e \in MembersOf(E), NEW g \in MembersOf(E), NEW a \in Tails, NEW b \in Tails,
               Joined(MemberOf(E, w)[e], a) = Joined(MemberOf(E, w)[g], b)
        PROVE  MembersMean(E, m)[e] = MembersMean(E, m)[g] /\ a = b
    <2>1. PICK c \in VisibleText, d \in VisibleText :
            c = Cons(58, Joined(w[e[2]], a)) /\ d = Cons(58, Joined(w[g[2]], b))
      BY <1>4
    <2>2. Joined(write_string(e[1]), c) = Joined(write_string(g[1]), d)
      BY <1>4, <1>5, <2>1
    <2>3. e[1] \in Text /\ g[1] \in Text /\ e[2] \in E /\ g[2] \in E
      BY <1>2
    <2>4. e[1] = g[1] /\ c = d
      BY <2>2, <2>3, StringReads
    <2>5. Joined(w[e[2]], a) = Joined(w[g[2]], b)
      BY <1>3, <1>4, <2>1, <2>4, VisibleCons
    <2>6. m[e[2]] = m[g[2]] /\ a = b
      BY <2>3, <2>5 DEF Tells
    <2> QED
      BY <1>1, <2>4, <2>6
  <1>6. ASSUME NEW e \in MembersOf(E)
        PROVE  \E c \in Visible, t \in VisibleText :
                 c \notin Closing \cup {Comma} /\ MemberOf(E, w)[e] = Cons(c, t)
    <2>1. PICK t \in VisibleText, d \in VisibleText :
            t = Joined(Coded(EscapeOf, e[1]), <<Quote>>) /\ d = Cons(58, w[e[2]])
      BY <1>2, <1>3, StringText, VisibleJoin, VisibleCons
    <2>2. write_string(e[1]) = Cons(Quote, t) /\ Quote \in Visible
      BY <1>2, <2>1, StringText
    <2>3. Joined(Cons(Quote, t), d) = Cons(Quote, Joined(t, d)) /\ Joined(t, d) \in VisibleText
      BY <2>2, VisibleJoin
    <2>4. Quote \notin Closing \cup {Comma}
      BY DEF Quote, Closing, Comma
    <2> QED
      BY <1>2, <2>1, <2>2, <2>3, <2>4
  <1> QED
    BY <1>5, <1>6, Zenon DEF Tells, Opens

\* A number ends where a character comes that no number has.
LEMMA NumeralReads ==
    ASSUME NEW s \in Seq(NumberChar), NEW t \in Seq(NumberChar), NEW a \in Tails, NEW b \in Tails,
           Joined(s, a) = Joined(t, b)
    PROVE  s = t /\ a = b
  <1>1. \A c \in NumberChar : c \in Visible /\ c \notin Closing \cup {Comma}
    BY VisibleFacts DEF NumberChar, Closing, Comma
  <1>2. PICK f \in Maps(NumberChar, Seq(Visible)) : \A c \in NumberChar : f[c] = <<c>>
    <2>1. \A c \in NumberChar : <<c>> \in Seq(Visible)
      BY <1>1
    <2>2. [c \in NumberChar |-> <<c>>] \in [NumberChar -> Seq(Visible)]
      BY <2>1, Zenon
    <2>3. \A c \in NumberChar : [d \in NumberChar |-> <<d>>][c] = <<c>>
      BY Zenon
    <2> QED
      BY <2>2, <2>3, Zenon DEF Maps
  <1>3. \A c \in NumberChar, d \in VisibleText : Joined(f[c], d) = Cons(c, d)
    BY <1>1, <1>2, ConsJoined DEF VisibleText
  <1>4. PICK id : \A c \in NumberChar : id[c] = c
    <2>1. \A c \in NumberChar : [d \in NumberChar |-> d][c] = c
      BY Zenon
    <2> QED
      BY <2>1, Zenon
  <1>5. Keeps(NumberChar, f, VisibleText)
    BY <1>1, <1>3, VisibleCons DEF Keeps
  <1>6. Tells(NumberChar, f, VisibleText, id)
    <2> SUFFICES ASSUME NEW x \in NumberChar, NEW y \in NumberChar,
                        NEW c \in VisibleText, NEW d \in VisibleText,
                        Joined(f[x], c) = Joined(f[y], d)
                 PROVE  id[x] = id[y] /\ c = d
      BY Zenon DEF Tells
    <2>1. Cons(x, c) = Cons(y, d)
      BY <1>3
    <2> QED
      BY <1>1, <2>1, VisibleCons
  <1>7. Separate(NumberChar, f, VisibleText, Tails)
    BY <1>1, <1>3, TailFacts DEF Separate
  <1>8. ListsTell(NumberChar, f, Tails, id)
    <2>1. VisibleText \in SUBSET Seq(Visible) /\ Tails \in SUBSET VisibleText
      BY TailFacts DEF VisibleText
    <2> QED
      BY <1>5, <1>6, <1>7, <2>1, ReadBack
  <1>9. \A r \in Seq(NumberChar) : Coded(f, r) = r
    <2> DEFINE P == {r \in Seq(NumberChar) : Coded(f, r) = r}
    <2>1. /\ Coded(f, <<>>) = <<>>
          /\ \A r \in Seq(NumberChar), x \in NumberChar : Coded(f, Cons(x, r)) = Joined(f[x], Coded(f, r))
      BY CodedFacts
    <2>2. <<>> \in P
      BY <2>1
    <2>3. ASSUME NEW r \in Seq(NumberChar), NEW x \in NumberChar, r \in P PROVE Cons(x, r) \in P
      <3>1. Cons(x, r) \in Seq(NumberChar) /\ Cons(x, r) = Joined(<<x>>, r)
        BY ConsFacts, ConsJoined
      <3>2. Coded(f, Cons(x, r)) = Joined(<<x>>, r)
        BY <1>2, <2>1, <2>3, Zenon
      <3> QED
        BY <3>1, <3>2
    <2>4. Seq(NumberChar) \subseteq P
      <3> HIDE DEF P
      <3> QED
        BY <2>2, <2>3, ConsInduction
    <2> QED
      BY <2>4, Zenon
  <1>10. Same(id, s, t) /\ a = b
    <2>1. Joined(Coded(f, s), a) = Joined(Coded(f, t), b)
      BY <1>9, Zenon
    <2>2. \A p, q \in Seq(NumberChar), c, d \in Tails :
            Joined(Coded(f, p), c) = Joined(Coded(f, q), d) => Same(id, p, q) /\ c = d
      BY <1>8, Zenon DEF ListsTell
    <2> QED
      BY <2>1, <2>2
  <1>11. s = t
    <2>1. Len(s) = Len(t) /\ \A i \in 1 .. Len(s) : id[s[i]] = id[t[i]]
      BY <1>10, Zenon DEF Same
    <2>2. \A i \in 1 .. Len(s) : s[i] \in NumberChar /\ t[i] \in NumberChar
      BY <2>1
    <2>3. \A i \in 1 .. Len(s) : s[i] = t[i]
      BY <1>4, <2>1, <2>2, Zenon
    <2> QED
      BY <2>1, <2>3, SeqEqual
  <1> QED
    BY <1>10, <1>11

\* The first character of a text tells the kind of the value.
LitStarts == {110, 116, 102}
Starts(v, E, c) ==
    \/ IsLit(v) /\ c \in LitStarts
    \/ IsNum(v) /\ c \in NumberChar
    \/ IsStr(v) /\ c = Quote
    \/ IsArr(v, E) /\ c = 91
    \/ IsObj(v, E) /\ c = 123
SameKind(v, u, E) ==
    \/ IsLit(v) /\ IsLit(u)
    \/ IsNum(v) /\ IsNum(u)
    \/ IsStr(v) /\ IsStr(u)
    \/ IsArr(v, E) /\ IsArr(u, E)
    \/ IsObj(v, E) /\ IsObj(u, E)

LEMMA StartsTell ==
    /\ \A E, v, u, c : Starts(v, E, c) /\ Starts(u, E, c) => SameKind(v, u, E)
    /\ \A E, v, c : Starts(v, E, c) => c \notin Closing \cup {Comma}
  <1>1. /\ \A c \in LitStarts : c \notin NumberChar /\ c # Quote /\ c # 91 /\ c # 123
        /\ \A c \in NumberChar : c # Quote /\ c # 91 /\ c # 123
        /\ Quote # 91 /\ Quote # 123 /\ 91 # 123
    BY DEF LitStarts, NumberChar, Quote
  <1>2. /\ \A c \in LitStarts : c \notin Closing \cup {Comma}
        /\ \A c \in NumberChar : c \notin Closing \cup {Comma}
        /\ Quote \notin Closing \cup {Comma} /\ 91 \notin Closing \cup {Comma}
        /\ 123 \notin Closing \cup {Comma}
    BY DEF LitStarts, NumberChar, Quote, Closing, Comma
  <1>3. \A E, v, u, c : Starts(v, E, c) /\ Starts(u, E, c) => SameKind(v, u, E)
    BY <1>1 DEF Starts, SameKind
  <1>4. \A E, v, c : Starts(v, E, c) => c \notin Closing \cup {Comma}
    BY <1>2 DEF Starts
  <1> QED
    BY <1>3, <1>4

LEMMA LiteralStarts ==
    /\ \A s \in Literals : \E c \in LitStarts, t \in VisibleText : s = Cons(c, t)
    /\ \A c \in LitStarts : c \in Visible
    /\ \A s, t \in Literals : s[1] = t[1] => s = t
  <1>1. \A c \in LitStarts : c \in Visible
    BY VisibleFacts DEF LitStarts
  <1>2. \A s \in Literals : s \in Seq(Visible) /\ s # <<>> /\ s[1] \in LitStarts
    <2>1. \A s \in Literals : s \in Seq(Visible)
      BY LettersVisible DEF VisibleText
    <2>2. \A s \in Literals : s # <<>> /\ s[1] \in LitStarts
      BY DEF Literals, LitStarts
    <2> QED
      BY <2>1, <2>2
  <1>3. ASSUME NEW s \in Literals PROVE \E c \in LitStarts, t \in VisibleText : s = Cons(c, t)
    <2>1. PICK c \in Visible, t \in Seq(Visible) : s = Cons(c, t)
      BY <1>2, ConsOf
    <2>2. Cons(c, t)[1] = c
      BY ConsFacts
    <2> QED
      BY <1>2, <2>1, <2>2 DEF VisibleText
  <1>4. \A s, t \in Literals : s[1] = t[1] => s = t
    BY DEF Literals
  <1> QED
    BY <1>1, <1>3, <1>4

LEMMA WriteStarts ==
    ASSUME NEW E, NEW w \in Maps(E, VisibleText), NEW v \in Enclosing(E)
    PROVE  \E c \in Visible, t \in VisibleText : write_value(v, w) = Cons(c, t) /\ Starts(v, E, c)
  <1>v. 91 \in Visible /\ 93 \in Visible /\ 123 \in Visible /\ 125 \in Visible
    BY VisibleFacts
  <1>1. CASE IsLit(v)
    <2>1. v.lit \in Literals /\ write_value(v, w) = v.lit
      BY <1>1, WriteCases DEF IsLit
    <2>2. PICK c \in LitStarts, t \in VisibleText : v.lit = Cons(c, t)
      BY <2>1, LiteralStarts
    <2> QED
      BY <1>1, <2>1, <2>2, LiteralStarts DEF Starts
  <1>2. CASE IsNum(v)
    <2>1. v.num \in Seq(NumberChar) /\ v.num # <<>> /\ write_value(v, w) = v.num
      BY <1>2, WriteCases DEF IsNum
    <2>2. PICK c \in NumberChar, t \in Seq(NumberChar) : v.num = Cons(c, t)
      BY <2>1, ConsOf
    <2>3. c \in Visible
      BY VisibleFacts DEF NumberChar
    <2>4. t \in VisibleText
      BY LettersVisible
    <2> QED
      BY <1>2, <2>1, <2>2, <2>3, <2>4 DEF Starts
  <1>3. CASE IsStr(v)
    <2>1. v.str \in Text /\ write_value(v, w) = write_string(v.str)
      BY <1>3, WriteCases DEF IsStr
    <2>2. PICK t \in VisibleText : t = Joined(Coded(EscapeOf, v.str), <<Quote>>)
      BY <2>1, StringText, VisibleJoin
    <2>3. write_string(v.str) = Cons(Quote, t) /\ Quote \in Visible
      BY <2>1, <2>2, StringText
    <2> QED
      BY <1>3, <2>1, <2>3 DEF Starts
  <1>4. CASE IsArr(v, E)
    <2>1. v.arr \in Seq(E)
      BY <1>4 DEF IsArr
    <2>2. PICK l \in VisibleText : l = CommaList(Mapped(w, v.arr))
      BY <2>1, CommaListType
    <2>3. Joined(l, <<93>>) \in VisibleText
      BY <1>v, Bracketed
    <2>4. write_value(v, w) = Cons(91, Joined(l, <<93>>))
      BY <1>4, <2>2, WriteCases
    <2> QED
      BY <1>4, <1>v, <2>3, <2>4 DEF Starts
  <1>5. CASE IsObj(v, E)
    <2>1. sort_entries(v.obj) \in Seq(MembersOf(E))
      BY <1>5, SortFacts DEF IsObj, MembersOf
    <2>2. MemberOf(E, w) \in Maps(MembersOf(E), VisibleText)
      BY MemberType
    <2>3. PICK l : l = CommaList(Mapped(MemberOf(E, w), sort_entries(v.obj)))
      OBVIOUS
    <2>4. l \in VisibleText
      BY <2>1, <2>2, <2>3, CommaListType
    <2>5. Joined(l, <<125>>) \in VisibleText
      BY <1>v, <2>4, Bracketed
    <2>6. write_value(v, w) = Cons(123, Joined(l, <<125>>))
      BY <1>5, <2>3, WriteCases
    <2> QED
      BY <1>5, <1>v, <2>5, <2>6 DEF Starts
  <1> QED
    BY <1>1, <1>2, <1>3, <1>4, <1>5, EnclosingCases

\* The kind of a value is read back.
LEMMA KindReads ==
    ASSUME NEW E, NEW w \in Maps(E, VisibleText),
           NEW v \in Enclosing(E), NEW u \in Enclosing(E),
           NEW a \in VisibleText, NEW b \in VisibleText,
           Joined(write_value(v, w), a) = Joined(write_value(u, w), b)
    PROVE  SameKind(v, u, E)
  <1>1. PICK c \in Visible, s \in VisibleText : write_value(v, w) = Cons(c, s) /\ Starts(v, E, c)
    BY WriteStarts
  <1>2. PICK d \in Visible, t \in VisibleText : write_value(u, w) = Cons(d, t) /\ Starts(u, E, d)
    BY WriteStarts
  <1>3. /\ Joined(Cons(c, s), a) = Cons(c, Joined(s, a)) /\ Joined(s, a) \in VisibleText
        /\ Joined(Cons(d, t), b) = Cons(d, Joined(t, b)) /\ Joined(t, b) \in VisibleText
    BY VisibleJoin
  <1>4. Cons(c, Joined(s, a)) = Cons(d, Joined(t, b))
    BY <1>1, <1>2, <1>3
  <1>5. c = d
    BY <1>3, <1>4, VisibleCons
  <1> QED
    BY <1>1, <1>2, <1>5, StartsTell

\* A list between brackets, and what follows it.
LEMMA BracketedTail ==
    ASSUME NEW o \in Visible, NEW c \in Closing, NEW l \in VisibleText, NEW a \in VisibleText
    PROVE  /\ Joined(Cons(o, Joined(l, <<c>>)), a) = Cons(o, Joined(l, Cons(c, a)))
           /\ Cons(c, a) \in Ends /\ Joined(l, Cons(c, a)) \in VisibleText
  <1>1. c \in Visible /\ Cons(c, a) \in Ends /\ Cons(c, a) \in VisibleText
    BY TailFacts, VisibleCons
  <1>2. PICK p \in VisibleText : p = <<c>>
    <2>1. <<c>> \in Seq(Visible)
      BY <1>1
    <2> QED
      BY <2>1 DEF VisibleText
  <1>3. Joined(p, a) = Cons(c, a)
    BY <1>1, <1>2, ConsJoined DEF VisibleText
  <1>4. /\ Joined(l, p) \in VisibleText
        /\ Joined(Joined(l, p), a) = Joined(l, Joined(p, a))
    BY VisibleJoin
  <1>5. Joined(Cons(o, Joined(l, p)), a) = Cons(o, Joined(Joined(l, p), a))
    BY <1>4, VisibleJoin
  <1>6. Joined(l, Cons(c, a)) \in VisibleText
    BY <1>1, VisibleJoin
  <1> QED
    BY <1>1, <1>2, <1>3, <1>4, <1>5, <1>6, Zenon

MeantMembers(h, ps) == {h[e] : e \in Range(ps)}
MeantObject(h, ps) == [obj |-> MeantMembers(h, ps)]

\* What a value of each kind means.
LEMMA MeaningCases ==
    ASSUME NEW E, NEW m, NEW v \in Enclosing(E)
    PROVE  /\ IsLit(v) \/ IsNum(v) \/ IsStr(v) => meaning(v, m) = v
           /\ IsArr(v, E) => meaning(v, m) = [arr |-> Mapped(m, v.arr)]
           /\ IsObj(v, E) => meaning(v, m) = MeantObject(MembersMean(E, m), v.obj)
  <1>d. /\ "lit" # "num" /\ "lit" # "str" /\ "lit" # "arr" /\ "lit" # "obj"
        /\ "num" # "str" /\ "num" # "arr" /\ "num" # "obj"
        /\ "str" # "arr" /\ "str" # "obj" /\ "arr" # "obj"
    OBVIOUS
  <1>1. ASSUME IsLit(v) \/ IsNum(v) \/ IsStr(v) PROVE meaning(v, m) = v
    <2>1. "arr" \notin DOMAIN v /\ "obj" \notin DOMAIN v
      BY <1>1, <1>d DEF IsLit, IsNum, IsStr
    <2> QED
      BY <2>1, Zenon DEF meaning
  <1>2. ASSUME IsArr(v, E) PROVE meaning(v, m) = [arr |-> Mapped(m, v.arr)]
    <2>1. "arr" \in DOMAIN v
      BY <1>2 DEF IsArr
    <2> QED
      BY <2>1, Zenon DEF meaning, Mapped
  <1>3. ASSUME IsObj(v, E)
        PROVE  meaning(v, m) = MeantObject(MembersMean(E, m), v.obj)
    <2>1. "arr" \notin DOMAIN v /\ "obj" \in DOMAIN v
      BY <1>3, <1>d DEF IsObj
    <2>2. v.obj \in Seq(MembersOf(E))
      BY <1>3 DEF IsObj, Pairs, MembersOf
    <2>3. \A n \in DOMAIN v.obj :
            MembersMean(E, m)[v.obj[n]] = <<v.obj[n][1], m[v.obj[n][2]]>>
      <3>1. \A n \in DOMAIN v.obj : v.obj[n] \in MembersOf(E)
        BY <2>2
      <3> QED
        BY <3>1, Zenon DEF MembersMean
    <2>4. {<<v.obj[n][1], m[v.obj[n][2]]>> : n \in DOMAIN v.obj}
            = MeantMembers(MembersMean(E, m), v.obj)
      <3>1. PICK ps, h : ps = v.obj /\ h = MembersMean(E, m)
        OBVIOUS
      <3>2. \A n \in DOMAIN ps : h[ps[n]] = <<ps[n][1], m[ps[n][2]]>>
        BY <2>3, <3>1, Zenon
      <3>3. {h[e] : e \in Range(ps)} = {h[ps[n]] : n \in DOMAIN ps}
        BY DEF Range
      <3>4. {<<ps[n][1], m[ps[n][2]]>> : n \in DOMAIN ps} = {h[ps[n]] : n \in DOMAIN ps}
        BY <3>2
      <3>5. {<<v.obj[n][1], m[v.obj[n][2]]>> : n \in DOMAIN v.obj}
              = {<<ps[n][1], m[ps[n][2]]>> : n \in DOMAIN ps}
        BY <3>1
      <3>6. MeantMembers(h, ps) = {h[ps[n]] : n \in DOMAIN ps}
        BY <3>3, Zenon DEF MeantMembers
      <3> QED
        BY <3>1, <3>4, <3>5, <3>6
    <2> QED
      BY <2>1, <2>4, Zenon DEF meaning, MeantObject
  <1> QED
    BY <1>1, <1>2, <1>3

LEMMA ObjectMeaning ==
    ASSUME NEW E, NEW m, NEW v \in Enclosing(E), IsObj(v, E)
    PROVE  meaning(v, m) = MeantObject(MembersMean(E, m), v.obj)
  BY MeaningCases

\* Values are read back as far as what is inside them is.
LEMMA ValueReads ==
    ASSUME NEW E, NEW w \in Maps(E, VisibleText), NEW m,
           Tells(E, w, Tails, m), Opens(E, w),
           NEW v \in Enclosing(E), NEW u \in Enclosing(E), NEW a \in Tails, NEW b \in Tails,
           Joined(write_value(v, w), a) = Joined(write_value(u, w), b)
    PROVE  meaning(v, m) = meaning(u, m) /\ a = b
  <1>t. a \in VisibleText /\ b \in VisibleText
    BY TailFacts
  <1>v. /\ 91 \in Visible /\ 123 \in Visible /\ 93 \in Closing /\ 125 \in Closing
    BY VisibleFacts DEF Closing
  <1>0. SameKind(v, u, E)
    BY <1>t, KindReads
  <1>1. CASE IsLit(v) /\ IsLit(u)
    <2>1. /\ write_value(v, w) = v.lit /\ write_value(u, w) = u.lit
          /\ v.lit \in Literals /\ u.lit \in Literals
      BY <1>1, WriteCases DEF IsLit
    <2>2. PICK p \in Literals, q \in Literals : p = v.lit /\ q = u.lit
      BY <2>1, Zenon
    <2>3. Joined(p, a) = Joined(q, b)
      BY <2>1, <2>2
    <2>4. PICK c \in LitStarts, s \in VisibleText : p = Cons(c, s)
      BY LiteralStarts
    <2>5. PICK d \in LitStarts, t \in VisibleText : q = Cons(d, t)
      BY LiteralStarts
    <2>6. c \in Visible /\ d \in Visible
      BY LiteralStarts
    <2>7. /\ Joined(Cons(c, s), a) = Cons(c, Joined(s, a)) /\ Joined(s, a) \in VisibleText
          /\ Joined(Cons(d, t), b) = Cons(d, Joined(t, b)) /\ Joined(t, b) \in VisibleText
      BY <1>t, <2>6, VisibleJoin
    <2>8. Cons(c, Joined(s, a)) = Cons(d, Joined(t, b))
      BY <2>3, <2>4, <2>5, <2>7
    <2>9. c = d
      BY <2>6, <2>7, <2>8, VisibleCons
    <2>10. p[1] = c /\ q[1] = d
      BY <2>4, <2>5, <2>6, ConsFacts DEF VisibleText
    <2>11. p = q
      BY <2>9, <2>10, LiteralStarts
    <2>12. a = b
      <3>1. p \in Seq(Visible) /\ a \in Seq(Visible) /\ b \in Seq(Visible)
        BY <1>t, LettersVisible DEF VisibleText
      <3>2. Joined(p, a) = Joined(p, b)
        BY <2>3, <2>11
      <3> QED
        BY <3>1, <3>2, JoinCancel
    <2>13. v = u
      BY <1>1, <2>2, <2>11, SameField
    <2> QED
      BY <2>12, <2>13
  <1>2. CASE IsNum(v) /\ IsNum(u)
    <2>1. /\ write_value(v, w) = v.num /\ write_value(u, w) = u.num
          /\ v.num \in Seq(NumberChar) /\ u.num \in Seq(NumberChar)
      BY <1>2, WriteCases DEF IsNum
    <2>2. PICK p \in Seq(NumberChar), q \in Seq(NumberChar) : p = v.num /\ q = u.num
      BY <2>1, Zenon
    <2>3. Joined(p, a) = Joined(q, b)
      BY <2>1, <2>2
    <2>4. p = q /\ a = b
      BY <2>3, NumeralReads
    <2>5. v = u
      BY <1>2, <2>2, <2>4, SameField
    <2> QED
      BY <2>4, <2>5
  <1>3. CASE IsStr(v) /\ IsStr(u)
    <2>1. /\ write_value(v, w) = write_string(v.str) /\ write_value(u, w) = write_string(u.str)
          /\ v.str \in Text /\ u.str \in Text
      BY <1>3, WriteCases DEF IsStr
    <2>2. PICK p \in Text, q \in Text : p = v.str /\ q = u.str
      BY <2>1, Zenon
    <2>3. Joined(write_string(p), a) = Joined(write_string(q), b)
      BY <2>1, <2>2
    <2>4. p = q /\ a = b
      BY <1>t, <2>3, StringReads
    <2>5. v = u
      BY <1>3, <2>2, <2>4, SameField
    <2> QED
      BY <2>4, <2>5
  <1>4. CASE IsArr(v, E) /\ IsArr(u, E)
    <2>1. PICK s \in Seq(E), t \in Seq(E) : s = v.arr /\ t = u.arr
      BY <1>4 DEF IsArr
    <2>2. PICK k \in VisibleText, l \in VisibleText :
            k = CommaList(Mapped(w, s)) /\ l = CommaList(Mapped(w, t))
      BY CommaListType
    <2>3. /\ write_value(v, w) = Cons(91, Joined(k, <<93>>))
          /\ write_value(u, w) = Cons(91, Joined(l, <<93>>))
      BY <1>4, <2>1, <2>2, WriteCases
    <2>4. /\ Joined(Cons(91, Joined(k, <<93>>)), a) = Cons(91, Joined(k, Cons(93, a)))
          /\ Joined(Cons(91, Joined(l, <<93>>)), b) = Cons(91, Joined(l, Cons(93, b)))
          /\ Cons(93, a) \in Ends /\ Cons(93, b) \in Ends
          /\ Joined(k, Cons(93, a)) \in VisibleText /\ Joined(l, Cons(93, b)) \in VisibleText
      BY <1>t, <1>v, BracketedTail
    <2>5. Joined(k, Cons(93, a)) = Joined(l, Cons(93, b))
      BY <1>v, <2>3, <2>4, VisibleCons
    <2>6. PICK c \in Ends, d \in Ends : c = Cons(93, a) /\ d = Cons(93, b)
      BY <2>4
    <2>7. Joined(CommaList(Mapped(w, s)), c) = Joined(CommaList(Mapped(w, t)), d)
      BY <2>2, <2>5, <2>6
    <2>8. Same(m, s, t) /\ c = d
      BY <2>7, ListReads
    <2>9. a = b
      BY <1>t, <1>v, <2>6, <2>8, VisibleCons, TailFacts
    <2>10. Mapped(m, s) = Mapped(m, t)
      <3>1. Len(s) = Len(t) /\ \A i \in 1 .. Len(s) : m[s[i]] = m[t[i]]
        BY <2>8, Zenon DEF Same
      <3>2. DOMAIN s = 1 .. Len(s) /\ DOMAIN t = 1 .. Len(s)
        BY <3>1
      <3> QED
        BY <3>1, <3>2, Zenon DEF Mapped
    <2>11. meaning(v, m) = [arr |-> Mapped(m, s)] /\ meaning(u, m) = [arr |-> Mapped(m, t)]
      <3>1. /\ meaning(v, m) = [arr |-> Mapped(m, v.arr)]
            /\ meaning(u, m) = [arr |-> Mapped(m, u.arr)]
        BY <1>4, MeaningCases
      <3> QED
        BY <2>1, <3>1, Zenon
    <2> QED
      BY <2>9, <2>10, <2>11, Zenon
  <1>5. CASE IsObj(v, E) /\ IsObj(u, E)
    <2> DEFINE F == MembersOf(E)
               f == MemberOf(E, w)
               h == MembersMean(E, m)
    <2>1. PICK s \in Seq(F), t \in Seq(F) : s = sort_entries(v.obj) /\ t = sort_entries(u.obj)
      BY <1>5, SortFacts DEF IsObj, MembersOf
    <2>0. f \in Maps(F, VisibleText) /\ Tells(F, f, Tails, h) /\ Opens(F, f)
      BY MemberType, MembersTell
    <2>2. PICK k \in VisibleText, l \in VisibleText :
            k = CommaList(Mapped(f, s)) /\ l = CommaList(Mapped(f, t))
      <3> HIDE DEF F, f
      <3> QED
        BY <2>0, CommaListType
    <2>3. /\ write_value(v, w) = Cons(123, Joined(k, <<125>>))
          /\ write_value(u, w) = Cons(123, Joined(l, <<125>>))
      BY <1>5, <2>1, <2>2, WriteCases
    <2>r. Range(s) = Range(v.obj) /\ Range(t) = Range(u.obj)
      BY <1>5, <2>1, SortFacts DEF IsObj
    <2>11. meaning(v, m) = MeantObject(h, s) /\ meaning(u, m) = MeantObject(h, t)
      <3>1. /\ meaning(v, m) = MeantObject(MembersMean(E, m), v.obj)
            /\ meaning(u, m) = MeantObject(MembersMean(E, m), u.obj)
        BY <1>5, ObjectMeaning
      <3>2. MeantMembers(h, s) = MeantMembers(h, v.obj) /\ MeantMembers(h, t) = MeantMembers(h, u.obj)
        BY <2>r, Zenon DEF MeantMembers
      <3> QED
        BY <3>1, <3>2, Zenon DEF MeantObject
    <2> HIDE DEF F, f, h
    <2>4. /\ Joined(Cons(123, Joined(k, <<125>>)), a) = Cons(123, Joined(k, Cons(125, a)))
          /\ Joined(Cons(123, Joined(l, <<125>>)), b) = Cons(123, Joined(l, Cons(125, b)))
          /\ Cons(125, a) \in Ends /\ Cons(125, b) \in Ends
          /\ Joined(k, Cons(125, a)) \in VisibleText /\ Joined(l, Cons(125, b)) \in VisibleText
      BY <1>t, <1>v, BracketedTail
    <2>5. Joined(k, Cons(125, a)) = Joined(l, Cons(125, b))
      BY <1>v, <2>3, <2>4, VisibleCons
    <2>6. PICK c \in Ends, d \in Ends : c = Cons(125, a) /\ d = Cons(125, b)
      BY <2>4
    <2>7. Joined(CommaList(Mapped(f, s)), c) = Joined(CommaList(Mapped(f, t)), d)
      BY <2>2, <2>5, <2>6
    <2>8. Same(h, s, t) /\ c = d
      BY <2>0, <2>7, ListReads
    <2>9. a = b
      BY <1>t, <1>v, <2>6, <2>8, VisibleCons, TailFacts
    <2>10. MeantMembers(h, s) = MeantMembers(h, t)
      <3>1. Len(s) = Len(t) /\ \A i \in 1 .. Len(s) : h[s[i]] = h[t[i]]
        BY <2>8, Zenon DEF Same
      <3>2. DOMAIN s = 1 .. Len(s) /\ DOMAIN t = 1 .. Len(s)
        BY <3>1
      <3>3. /\ {h[e] : e \in Range(s)} = {h[s[i]] : i \in 1 .. Len(s)}
            /\ {h[e] : e \in Range(t)} = {h[t[i]] : i \in 1 .. Len(s)}
        BY <3>2, Zenon DEF Range
      <3>4. {h[s[i]] : i \in 1 .. Len(s)} = {h[t[i]] : i \in 1 .. Len(s)}
        BY <3>1
      <3> QED
        BY <3>3, <3>4, Zenon DEF MeantMembers
    <2> QED
      BY <2>9, <2>10, <2>11, Zenon DEF MeantObject
  <1> QED
    BY <1>0, <1>1, <1>2, <1>3, <1>4, <1>5, Zenon DEF SameKind

-----------------------------------------------------------------------------
(* What means the same is written the same *)

Rising(k) == \A i, j \in 1 .. Len(k) : i < j => Less(k[i], k[j])
Within(k, l) == \A i \in 1 .. Len(k) : \E j \in 1 .. Len(l) : k[i] = l[j]

LEMMA RisingOnce ==
    ASSUME NEW k \in Seq(Text), Rising(k), NEW i \in 1 .. Len(k), NEW j \in 1 .. Len(k),
           k[i] = k[j]
    PROVE  i = j
  <1> SUFFICES ASSUME i # j PROVE FALSE
    OBVIOUS
  <1>1. i < j \/ j < i
    OBVIOUS
  <1>2. k[i] \in Text
    OBVIOUS
  <1>3. Less(k[i], k[i])
    BY <1>1 DEF Rising
  <1> QED
    BY <1>2, <1>3, LessOrder

LEMMA RisingSame ==
    ASSUME NEW k \in Seq(Text), NEW l \in Seq(Text), Rising(k), Rising(l),
           Within(k, l), Within(l, k)
    PROVE  k = l
  <1>s. ASSUME NEW p \in Seq(Text), NEW q \in Seq(Text), Rising(q), Within(q, p), Shorter(p, q)
        PROVE  FALSE
    <2>1. PICK n \in 1 .. Len(q) : n = Len(p) + 1
      BY <1>s DEF Shorter
    <2>2. PICK j \in 1 .. Len(p) : q[n] = p[j]
      BY <1>s DEF Within
    <2>3. j \in 1 .. Len(q) /\ p[j] = q[j] /\ j # n
      BY <1>s, <2>1 DEF Shorter
    <2> QED
      BY <1>s, <2>2, <2>3, RisingOnce
  <1>d. ASSUME NEW p \in Seq(Text), NEW q \in Seq(Text), Rising(p), Rising(q), Within(q, p),
               NEW n \in Nat, DifferAt(p, q, n)
        PROVE  Less(p[n], q[n])
    <2>0. /\ n \in 1 .. Len(p) /\ n \in 1 .. Len(q) /\ p[n] # q[n]
          /\ \A i \in 1 .. n - 1 : p[i] = q[i]
      BY <1>d DEF DifferAt
    <2>1. PICK j \in 1 .. Len(p) : q[n] = p[j]
      BY <1>d, <2>0 DEF Within
    <2>2. ~(j < n)
      <3> SUFFICES ASSUME j < n PROVE FALSE
        OBVIOUS
      <3>1. j \in 1 .. Len(q) /\ p[j] = q[j] /\ j # n
        BY <2>0
      <3> QED
        BY <1>d, <2>0, <2>1, <3>1, RisingOnce
    <2>3. n < j
      BY <2>0, <2>1, <2>2
    <2>4. Less(p[n], p[j])
      BY <1>d, <2>0, <2>3 DEF Rising
    <2> QED
      BY <2>1, <2>4, Zenon
  <1>1. k = l \/ Shorter(k, l) \/ Shorter(l, k) \/ \E n \in Nat : DifferAt(k, l, n)
    BY HowTheyDiffer
  <1>2. ASSUME NEW n \in Nat, DifferAt(k, l, n) PROVE FALSE
    <2>1. DifferAt(l, k, n) /\ k[n] \in Text /\ l[n] \in Text
      BY <1>2 DEF DifferAt
    <2>2. Less(k[n], l[n]) /\ Less(l[n], k[n])
      BY <1>2, <1>d, <2>1
    <2> QED
      BY <2>1, <2>2, LessOrder
  <1> QED
    BY <1>1, <1>2, <1>s

LEMMA SortedSame ==
    ASSUME NEW E, NEW m, NEW s \in Seq(MembersOf(E)), NEW t \in Seq(MembersOf(E)),
           Sorted(s), Sorted(t),
           MeantMembers(MembersMean(E, m), s) = MeantMembers(MembersMean(E, m), t)
    PROVE  /\ Len(s) = Len(t)
           /\ \A i \in 1 .. Len(s) : s[i][1] = t[i][1] /\ m[s[i][2]] = m[t[i][2]]
  <1> DEFINE h == MembersMean(E, m)
  <1>h. \A e \in MembersOf(E) : h[e] = <<e[1], m[e[2]]>> /\ e[1] \in Text
    BY DEF MembersMean, MembersOf
  <1>0. {h[e] : e \in Range(s)} = {h[e] : e \in Range(t)}
    BY Zenon DEF MeantMembers
  <1> HIDE DEF h
  <1>1. ASSUME NEW p \in Seq(MembersOf(E)), NEW q \in Seq(MembersOf(E)),
               {h[e] : e \in Range(p)} = {h[e] : e \in Range(q)},
               NEW i \in 1 .. Len(p)
        PROVE  \E j \in 1 .. Len(q) : p[i][1] = q[j][1] /\ m[p[i][2]] = m[q[j][2]]
    <2>1. p[i] \in MembersOf(E) /\ p[i] \in Range(p)
      BY DEF Range
    <2>2. h[p[i]] \in {h[e] : e \in Range(q)}
      BY <1>1, <2>1, Zenon
    <2>e. PICK e \in Range(q) : h[p[i]] = h[e]
      BY <2>2
    <2>3. PICK j \in 1 .. Len(q) : h[p[i]] = h[q[j]]
      <3>1. PICK j \in 1 .. Len(q) : e = q[j]
        BY DEF Range
      <3> QED
        BY <2>e, <3>1, Zenon
    <2>4. q[j] \in MembersOf(E)
      OBVIOUS
    <2>5. <<p[i][1], m[p[i][2]]>> = <<q[j][1], m[q[j][2]]>>
      BY <1>h, <2>1, <2>3, <2>4, Zenon
    <2> QED
      BY <2>5
  <1>2. ASSUME NEW p \in Seq(MembersOf(E))
        PROVE  \E k \in Seq(Text) : Len(k) = Len(p) /\ \A i \in 1 .. Len(p) : k[i] = p[i][1]
    <2> DEFINE k == [i \in 1 .. Len(p) |-> p[i][1]]
    <2>1. \A i \in 1 .. Len(p) : p[i][1] \in Text
      BY <1>h
    <2>2. k \in Seq(Text) /\ Len(k) = Len(p) /\ \A i \in 1 .. Len(p) : k[i] = p[i][1]
      BY <2>1
    <2> QED
      BY <2>2
  <1>3. PICK k \in Seq(Text) : Len(k) = Len(s) /\ \A i \in 1 .. Len(s) : k[i] = s[i][1]
    BY <1>2
  <1>4. PICK l \in Seq(Text) : Len(l) = Len(t) /\ \A i \in 1 .. Len(t) : l[i] = t[i][1]
    BY <1>2
  <1>5. DOMAIN s = 1 .. Len(s) /\ DOMAIN t = 1 .. Len(t)
    OBVIOUS
  <1>r. ASSUME NEW p \in Seq(MembersOf(E)), Sorted(p), NEW x \in Seq(Text),
               Len(x) = Len(p), \A i \in 1 .. Len(p) : x[i] = p[i][1]
        PROVE  Rising(x)
    <2> SUFFICES ASSUME NEW i \in 1 .. Len(x), NEW j \in 1 .. Len(x), i < j
                 PROVE  Less(x[i], x[j])
      BY DEF Rising
    <2>1. i \in DOMAIN p /\ j \in DOMAIN p
      BY <1>r
    <2>2. Less(p[i][1], p[j][1])
      BY <1>r, <2>1 DEF Sorted
    <2>3. x[i] = p[i][1] /\ x[j] = p[j][1]
      BY <1>r
    <2> QED
      BY <2>2, <2>3, Zenon
  <1>6. Rising(k) /\ Rising(l)
    BY <1>3, <1>4, <1>r
  <1>7. Within(k, l)
    <2> SUFFICES ASSUME NEW i \in 1 .. Len(k) PROVE \E j \in 1 .. Len(l) : k[i] = l[j]
      BY DEF Within
    <2>0. i \in 1 .. Len(s)
      BY <1>3
    <2>1. PICK j \in 1 .. Len(t) : s[i][1] = t[j][1]
      BY <1>0, <1>1, <2>0, Zenon
    <2> QED
      BY <1>3, <1>4, <2>0, <2>1
  <1>8. Within(l, k)
    <2> SUFFICES ASSUME NEW i \in 1 .. Len(l) PROVE \E j \in 1 .. Len(k) : l[i] = k[j]
      BY DEF Within
    <2>0. i \in 1 .. Len(t)
      BY <1>4
    <2>1. PICK j \in 1 .. Len(s) : t[i][1] = s[j][1]
      BY <1>0, <1>1, <2>0, Zenon
    <2> QED
      BY <1>3, <1>4, <2>0, <2>1
  <1>9. k = l
    BY <1>6, <1>7, <1>8, RisingSame
  <1>10. Len(s) = Len(t)
    BY <1>3, <1>4, <1>9
  <1>11. ASSUME NEW i \in 1 .. Len(s)
         PROVE  s[i][1] = t[i][1] /\ m[s[i][2]] = m[t[i][2]]
    <2>1. PICK j \in 1 .. Len(t) : s[i][1] = t[j][1] /\ m[s[i][2]] = m[t[j][2]]
      BY <1>0, <1>1
    <2>2. i \in 1 .. Len(l) /\ j \in 1 .. Len(l) /\ l[i] = l[j]
      BY <1>3, <1>4, <1>9, <1>10, <2>1
    <2>3. i = j
      BY <1>6, <2>2, RisingOnce
    <2> QED
      BY <2>1, <2>3, Zenon
  <1> QED
    BY <1>10, <1>11

Alike(E, w, m) == \A v, u \in E : m[v] = m[u] => w[v] = w[u]

\* The kind of a value is the kind of what it means.
LEMMA KindMeant ==
    ASSUME NEW E, NEW m, NEW v \in Enclosing(E), NEW u \in Enclosing(E),
           meaning(v, m) = meaning(u, m)
    PROVE  SameKind(v, u, E)
  <1>d. /\ "lit" # "num" /\ "lit" # "str" /\ "lit" # "arr" /\ "lit" # "obj"
        /\ "num" # "str" /\ "num" # "arr" /\ "num" # "obj"
        /\ "str" # "arr" /\ "str" # "obj" /\ "arr" # "obj"
    OBVIOUS
  <1>1. ASSUME NEW x \in Enclosing(E)
        PROVE  DOMAIN meaning(x, m) = DOMAIN x
    <2>1. CASE IsLit(x) \/ IsNum(x) \/ IsStr(x)
      BY <2>1, MeaningCases
    <2>2. CASE IsArr(x, E)
      <3>1. meaning(x, m) = [arr |-> Mapped(m, x.arr)]
        BY <2>2, MeaningCases
      <3>2. DOMAIN [arr |-> Mapped(m, x.arr)] = {"arr"}
        OBVIOUS
      <3> QED
        BY <2>2, <3>1, <3>2 DEF IsArr
    <2>3. CASE IsObj(x, E)
      <3>1. meaning(x, m) = MeantObject(MembersMean(E, m), x.obj)
        BY <2>3, ObjectMeaning
      <3>2. \A a, b : DOMAIN MeantObject(a, b) = {"obj"}
        BY DEF MeantObject
      <3> QED
        BY <2>3, <3>1, <3>2 DEF IsObj
    <2> QED
      BY <2>1, <2>2, <2>3, EnclosingCases
  <1>2. DOMAIN v = DOMAIN u
    BY <1>1, Zenon
  <1>3. /\ IsLit(v) \/ IsNum(v) \/ IsStr(v) \/ IsArr(v, E) \/ IsObj(v, E)
        /\ IsLit(u) \/ IsNum(u) \/ IsStr(u) \/ IsArr(u, E) \/ IsObj(u, E)
    BY EnclosingCases
  <1> QED
    BY <1>2, <1>3, <1>d DEF SameKind, IsLit, IsNum, IsStr, IsArr, IsObj

LEMMA MeaningTells ==
    ASSUME NEW E, NEW w \in Maps(E, VisibleText), NEW m, Alike(E, w, m),
           NEW v \in Enclosing(E), NEW u \in Enclosing(E), meaning(v, m) = meaning(u, m)
    PROVE  write_value(v, w) = write_value(u, w)
  <1>0. SameKind(v, u, E)
    BY KindMeant
  <1>1. ASSUME IsLit(v) \/ IsNum(v) \/ IsStr(v), IsLit(u) \/ IsNum(u) \/ IsStr(u)
        PROVE  write_value(v, w) = write_value(u, w)
    <2>1. meaning(v, m) = v /\ meaning(u, m) = u
      BY <1>1, MeaningCases
    <2> QED
      BY <2>1, Zenon
  <1>2. CASE IsArr(v, E) /\ IsArr(u, E)
    <2>1. PICK s \in Seq(E), t \in Seq(E) : s = v.arr /\ t = u.arr
      BY <1>2 DEF IsArr
    <2>2. /\ meaning(v, m) = [arr |-> Mapped(m, v.arr)]
          /\ meaning(u, m) = [arr |-> Mapped(m, u.arr)]
      BY <1>2, MeaningCases
    <2>3. Mapped(m, s) = Mapped(m, t)
      <3> DEFINE r == meaning(v, m)
      <3>1. r = [arr |-> Mapped(m, s)] /\ r = [arr |-> Mapped(m, t)]
        BY <2>1, <2>2, Zenon
      <3> HIDE DEF r
      <3>2. r.arr = Mapped(m, s)
        BY <3>1
      <3>3. r.arr = Mapped(m, t)
        BY <3>1
      <3> QED
        BY <3>2, <3>3, Zenon
    <2>4. Len(s) = Len(t) /\ \A i \in 1 .. Len(s) : m[s[i]] = m[t[i]]
      <3>1. DOMAIN Mapped(m, s) = DOMAIN s /\ DOMAIN Mapped(m, t) = DOMAIN t
        BY Zenon DEF Mapped
      <3>2. Len(s) = Len(t)
        <4>1. DOMAIN s = DOMAIN t
          BY <2>3, <3>1, Zenon
        <4> QED
          BY <4>1
      <3>3. \A i \in DOMAIN s : Mapped(m, s)[i] = m[s[i]]
        BY Zenon DEF Mapped
      <3>4. \A i \in DOMAIN t : Mapped(m, t)[i] = m[t[i]]
        BY Zenon DEF Mapped
      <3>5. DOMAIN s = 1 .. Len(s) /\ DOMAIN t = 1 .. Len(s)
        BY <3>2
      <3> QED
        BY <2>3, <3>2, <3>3, <3>4, <3>5, Zenon
    <2>5. \A i \in 1 .. Len(s) : w[s[i]] = w[t[i]]
      <3>1. \A i \in 1 .. Len(s) : s[i] \in E /\ t[i] \in E
        BY <2>4
      <3> QED
        BY <2>4, <3>1, Zenon DEF Alike
    <2>6. Mapped(w, s) = Mapped(w, t)
      <3>1. DOMAIN s = 1 .. Len(s) /\ DOMAIN t = 1 .. Len(s)
        BY <2>4
      <3> QED
        BY <2>5, <3>1, Zenon DEF Mapped
    <2>7. /\ write_value(v, w) = Cons(91, Joined(CommaList(Mapped(w, v.arr)), <<93>>))
          /\ write_value(u, w) = Cons(91, Joined(CommaList(Mapped(w, u.arr)), <<93>>))
      BY <1>2, WriteCases
    <2> QED
      BY <2>1, <2>6, <2>7, Zenon
  <1>3. CASE IsObj(v, E) /\ IsObj(u, E)
    <2> DEFINE F == MembersOf(E)
               f == MemberOf(E, w)
               h == MembersMean(E, m)
    <2>1. PICK s \in Seq(F), t \in Seq(F) : s = sort_entries(v.obj) /\ t = sort_entries(u.obj)
      BY <1>3, SortFacts DEF IsObj, MembersOf
    <2>2. /\ Range(s) = Range(v.obj) /\ Range(t) = Range(u.obj) /\ Sorted(s) /\ Sorted(t)
      BY <1>3, <2>1, SortFacts DEF IsObj
    <2>3. MeantObject(h, v.obj) = MeantObject(h, u.obj)
      <3>1. /\ meaning(v, m) = MeantObject(MembersMean(E, m), v.obj)
            /\ meaning(u, m) = MeantObject(MembersMean(E, m), u.obj)
        BY <1>3, ObjectMeaning
      <3> QED
        BY <3>1, Zenon
    <2>4. MeantMembers(h, s) = MeantMembers(h, t)
      <3>1. \A a, b : [obj |-> a] = [obj |-> b] => a = b
        OBVIOUS
      <3>2. MeantMembers(h, v.obj) = MeantMembers(h, u.obj)
        BY <2>3, <3>1 DEF MeantObject
      <3> QED
        BY <2>2, <3>2, Zenon DEF MeantMembers
    <2>5. /\ Len(s) = Len(t)
          /\ \A i \in 1 .. Len(s) : s[i][1] = t[i][1] /\ m[s[i][2]] = m[t[i][2]]
      BY <2>2, <2>4, SortedSame
    <2>6. \A i \in 1 .. Len(s) : f[s[i]] = f[t[i]]
      <3> TAKE i \in 1 .. Len(s)
      <3>1. s[i] \in F /\ t[i] \in F
        BY <2>5
      <3>2. s[i][2] \in E /\ t[i][2] \in E
        BY <3>1, MemberType
      <3>3. w[s[i][2]] = w[t[i][2]]
        BY <2>5, <3>2, Zenon DEF Alike
      <3>4. /\ f[s[i]] = Joined(write_string(s[i][1]), Cons(58, w[s[i][2]]))
            /\ f[t[i]] = Joined(write_string(t[i][1]), Cons(58, w[t[i][2]]))
        BY <3>1, MemberType
      <3> QED
        BY <2>5, <3>3, <3>4, Zenon
    <2>7. Mapped(f, s) = Mapped(f, t)
      <3>1. DOMAIN s = 1 .. Len(s) /\ DOMAIN t = 1 .. Len(s)
        BY <2>5
      <3> QED
        BY <2>6, <3>1, Zenon DEF Mapped
    <2>8. /\ write_value(v, w) = Cons(123, Joined(CommaList(Mapped(f, s)), <<125>>))
          /\ write_value(u, w) = Cons(123, Joined(CommaList(Mapped(f, t)), <<125>>))
      BY <1>3, <2>1, WriteCases
    <2> QED
      BY <2>7, <2>8, Zenon
  <1> QED
    BY <1>0, <1>1, <1>2, <1>3, Zenon DEF SameKind

MeaningsInside(d) == IF d = 0 THEN <<>> ELSE Meant[d - 1]

\* What is known of the values f and m are defined on: their texts start as
\* those of values do, tell what they mean, and follow from it.
Faithful(E, f, m) == Opens(E, f) /\ Tells(E, f, Tails, m) /\ Alike(E, f, m)

LEMMA NoneFaithful == \A f, m : Faithful({}, f, m)
  BY DEF Faithful, Opens, Tells, Alike

LEMMA EnclosingFaithful ==
    ASSUME NEW E, NEW w \in Maps(E, VisibleText), NEW m, Faithful(E, w, m),
           NEW N, NEW f, NEW g,
           \A v \in N : /\ v \in Enclosing(E)
                        /\ f[v] = write_value(v, w)
                        /\ g[v] = meaning(v, m)
    PROVE  Faithful(N, f, g)
  <1>0. Opens(E, w) /\ Tells(E, w, Tails, m) /\ Alike(E, w, m)
    BY Zenon DEF Faithful
  <1>1. Opens(N, f)
    <2> SUFFICES ASSUME NEW v \in N
                 PROVE  \E c \in Visible, t \in VisibleText :
                          c \notin Closing \cup {Comma} /\ f[v] = Cons(c, t)
      BY Zenon DEF Opens
    <2>1. PICK c \in Visible, t \in VisibleText : write_value(v, w) = Cons(c, t) /\ Starts(v, E, c)
      BY WriteStarts
    <2>2. c \notin Closing \cup {Comma}
      BY <2>1, StartsTell, Zenon
    <2>3. f[v] = Cons(c, t)
      BY <2>1, Zenon
    <2> QED
      BY <2>2, <2>3, Zenon
  <1>2. Tells(N, f, Tails, g)
    <2> SUFFICES ASSUME NEW v \in N, NEW u \in N, NEW a \in Tails, NEW b \in Tails,
                        Joined(f[v], a) = Joined(f[u], b)
                 PROVE  g[v] = g[u] /\ a = b
      BY Zenon DEF Tells
    <2>1. v \in Enclosing(E) /\ u \in Enclosing(E)
      BY Zenon
    <2>2. f[v] = write_value(v, w) /\ f[u] = write_value(u, w)
      BY Zenon
    <2>3. Joined(write_value(v, w), a) = Joined(write_value(u, w), b)
      BY <2>2, Zenon
    <2>4. meaning(v, m) = meaning(u, m) /\ a = b
      BY <1>0, <2>1, <2>3, ValueReads
    <2> QED
      BY <2>4, Zenon
  <1>3. Alike(N, f, g)
    <2> SUFFICES ASSUME NEW v \in N, NEW u \in N, g[v] = g[u]
                 PROVE  f[v] = f[u]
      BY Zenon DEF Alike
    <2>1. v \in Enclosing(E) /\ u \in Enclosing(E)
      BY Zenon
    <2>2. meaning(v, m) = meaning(u, m)
      BY Zenon
    <2>3. write_value(v, w) = write_value(u, w)
      BY <1>0, <2>1, <2>2, MeaningTells
    <2> QED
      BY <2>3, Zenon
  <1> QED
    BY <1>1, <1>2, <1>3, Zenon DEF Faithful

LEMMA NestedFaithful == \A d \in 0 .. MaxDepth : Faithful(Nested[d], Written[d], Meant[d])
  <1>1. \A d \in 0 .. MaxDepth : \A v \in Nested[d] :
          Meant[d][v] = meaning(v, MeaningsInside(d))
    <2> TAKE d \in 0 .. MaxDepth
    <2> TAKE v \in Nested[d]
    <2>1. Meant[d] = MeaningsAt(d, MeaningsInside(d))
      BY MeantUnfold, Zenon DEF MeaningsInside
    <2>2. MeaningsAt(d, MeaningsInside(d))[v] = meaning(v, MeaningsInside(d))
      BY Zenon DEF MeaningsAt
    <2> QED
      BY <2>1, <2>2, Zenon
  <1>2. ASSUME NEW d \in 0 .. MaxDepth, Faithful(Inside(d), TextsInside(d), MeaningsInside(d))
        PROVE  Faithful(Nested[d], Written[d], Meant[d])
    <2>1. TextsInside(d) \in Maps(Inside(d), VisibleText)
      BY WrittenType, Zenon
    <2>2. \A v \in Nested[d] : /\ v \in Enclosing(Inside(d))
                               /\ Written[d][v] = write_value(v, TextsInside(d))
                               /\ Meant[d][v] = meaning(v, MeaningsInside(d))
      BY <1>1, WrittenType, Zenon
    <2> QED
      BY <1>2, <2>1, <2>2, EnclosingFaithful, Zenon
  <1> DEFINE G == {d \in Nat : d \in 0 .. MaxDepth =>
                     Faithful(Inside(d), TextsInside(d), MeaningsInside(d))}
  <1>3. 0 \in G
    BY NoneFaithful, Zenon DEF Inside
  <1>4. ASSUME NEW d \in Nat, d \in G PROVE d + 1 \in G
    <2> SUFFICES ASSUME d + 1 \in 0 .. MaxDepth
                 PROVE  Faithful(Inside(d + 1), TextsInside(d + 1), MeaningsInside(d + 1))
      OBVIOUS
    <2>1. d \in 0 .. MaxDepth /\ d + 1 # 0 /\ (d + 1) - 1 = d
      BY CanonicalAssumption
    <2>2. Faithful(Nested[d], Written[d], Meant[d])
      BY <1>2, <1>4, <2>1, Zenon
    <2> QED
      BY <2>1, <2>2, Zenon DEF Inside, TextsInside, MeaningsInside
  <1>5. Nat \subseteq G
    <2> HIDE DEF G
    <2> QED
      BY <1>3, <1>4, SetInduction
  <1>6. \A d \in 0 .. MaxDepth : Faithful(Inside(d), TextsInside(d), MeaningsInside(d))
    BY <1>5
  <1> QED
    BY <1>2, <1>6, Zenon

\* Two JSON values have one canonical text exactly when they are the same
\* value up to the order of the members of their objects, for values of any
\* size and depth: the order of insertion never reaches a hash, and no
\* contents of a string can imitate the text of another value (canonicalize,
\* write_value, write_string).
THEOREM CanonicalIsIdentity == CanonicalSpec => []CanonicalIdentity
  <1>1. ASSUME NEW v \in Values, NEW u \in Values
        PROVE  canonicalize(v) = canonicalize(u) <=> Meaning(v) = Meaning(u)
    <2>1. /\ v \in Nested[MaxDepth] /\ u \in Nested[MaxDepth]
          /\ MaxDepth \in 0 .. MaxDepth
      BY ValuesType
    <2>2. Faithful(Nested[MaxDepth], Written[MaxDepth], Meant[MaxDepth])
      BY <2>1, NestedFaithful, Zenon
    <2>3. ASSUME Written[MaxDepth][v] = Written[MaxDepth][u]
          PROVE  Meant[MaxDepth][v] = Meant[MaxDepth][u]
      <3>1. Joined(Written[MaxDepth][v], <<>>) = Joined(Written[MaxDepth][u], <<>>)
        BY <2>3, Zenon
      <3>2. Tells(Nested[MaxDepth], Written[MaxDepth], Tails, Meant[MaxDepth])
        BY <2>2, Zenon DEF Faithful
      <3>3. <<>> \in Tails
        BY TailFacts, Zenon
      <3> QED
        BY <2>1, <3>1, <3>2, <3>3, Zenon DEF Tells
    <2>4. ASSUME Meant[MaxDepth][v] = Meant[MaxDepth][u]
          PROVE  Written[MaxDepth][v] = Written[MaxDepth][u]
      BY <2>1, <2>2, <2>4, Zenon DEF Faithful, Alike
    <2> QED
      BY <2>3, <2>4, Zenon DEF canonicalize, Meaning
  <1>2. left \in Values /\ right \in Values => CanonicalIdentity
    BY <1>1, Zenon DEF CanonicalIdentity
  <1> QED
    BY <1>2, AlwaysValues, PTL

=============================================================================
