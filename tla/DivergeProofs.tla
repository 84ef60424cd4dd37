--------------------------- MODULE DivergeProofs ---------------------------
(***************************************************************************)
(* Proofs about Diverge: the alignment of two traces is complete, for      *)
(* every set of frames and traces of every length, and whatever the table  *)
(* of LCS lengths says; and the exit code and first_divergence say what    *)
(* they seem to, because up to the first op that shows one step only, op   *)
(* k shows step k of either trace; and no alignment has more common ops:   *)
(* the table holds the size of a largest pairing of each two prefixes, and *)
(* the backtracking pays for every step down the table with a common op.   *)
(***************************************************************************)
EXTENDS Diverge, TraceFormatProofs, FiniteSetTheorems, SequenceTheorems,
        TLAPS

\* Every reader's events are a sequence of rows.
LEMMA EventsType ==
    ASSUME NEW s \in BoundedSeq(Entries, MaxSteps)
    PROVE  EventsOf(s) \in Seq(Rows)
  <1>1. PICK m \in 0 .. MaxSteps : s \in [1 .. m -> Entries]
    BY DEF BoundedSeq, SeqOf
  <1>2. m \in Nat
    BY <1>1, DivergeAssumption
  <1>3. ASSUME NEW k \in 1 .. m PROVE EventRecord(k - 1, s[k][1], s[k][2]) \in Rows
    <2>1. s[k] \in Directions \X Frames
      BY <1>1, DivergeAssumption
    <2>2. k - 1 \in Nat /\ s[k][1] \in Directions /\ s[k][2] \in Frames
      BY <1>2, <2>1
    <2> QED
      BY <2>2, EventRecordType
  <1>4. EventsOf(s) = [k \in 1 .. m |-> EventRecord(k - 1, s[k][1], s[k][2])]
    BY <1>1 DEF EventsOf
  <1>5. EventsOf(s) \in [1 .. m -> Rows]
    BY <1>3, <1>4
  <1> QED
    BY <1>2, <1>5

\* An op put in front of the alignment moves the others by one position.
LEMMA PutInFront ==
    ASSUME NEW S, NEW o \in Seq(S), NEW x \in S
    PROVE  /\ <<x>> \o o \in Seq(S)
           /\ DOMAIN (<<x>> \o o) = 1 .. Len(o) + 1
           /\ (<<x>> \o o)[1] = x
           /\ \A k \in DOMAIN o : (<<x>> \o o)[k + 1] = o[k]
           /\ \A k \in 2 .. Len(o) + 1 : k - 1 \in DOMAIN o /\ (<<x>> \o o)[k] = o[k - 1]
  OBVIOUS

-----------------------------------------------------------------------------
(* The invariant.  AlignmentComplete speaks of the end only; on the way    *)
(* the ops show exactly the steps behind ia and jb, so every op's          *)
(* positions lie behind them, which is why an op put in front keeps the    *)
(* order.                                                                  *)

Behind ==
    \A k \in DOMAIN ops : /\ ops[k].a # 0 => ops[k].a > ia
                          /\ ops[k].b # 0 => ops[k].b > jb

DiffInv ==
    /\ DiffTypeOK
    /\ Aligned(ia, jb)
    /\ Behind
    /\ dpc = "done" => ia = 0 /\ jb = 0

\* Nothing is aligned yet, and nothing lies behind the ends of the traces.
LEMMA DiffInvInit == DiffInit => DiffInv
  <1> SUFFICES ASSUME DiffInit PROVE DiffInv
    OBVIOUS
  <1>1. ta \in Seq(Rows) /\ tb \in Seq(Rows)
    BY EventsType DEF DiffInit
  <1>2. DiffTypeOK
    BY <1>1 DEF DiffInit, DiffTypeOK
  <1>3. ops = <<>> /\ DOMAIN ops = {}
    BY DEF DiffInit
  <1>4. Aligned(ia, jb) /\ Behind
    BY <1>1, <1>3 DEF DiffInit, Aligned, Behind
  <1> QED
    BY <1>2, <1>4 DEF DiffInit, DiffInv

\* The step common to all three kinds of ops: an op that shows the next step
\* of A, of B, or of both, put in front, keeps the invariant.
LEMMA EmitKeepsDiffInv ==
    ASSUME DiffInv, dpc = "backtrack",
           NEW x \in 0 .. ia, NEW y \in 0 .. jb,
           x # 0 \/ y # 0,
           x # 0 => x = ia, y # 0 => y = jb,
           x # 0 /\ y # 0 => step_eq(ta[x], tb[y]),
           Emit([a |-> x, b |-> y]),
           ia' = IF x # 0 THEN ia - 1 ELSE ia,
           jb' = IF y # 0 THEN jb - 1 ELSE jb
    PROVE  DiffInv'
  <1> DEFINE op == [a |-> x, b |-> y]
  <1>1. /\ ta' = ta /\ tb' = tb /\ dpc' = dpc /\ ops' = <<op>> \o ops
        /\ ta \in Seq(Rows) /\ tb \in Seq(Rows) /\ ops \in Seq(Ops)
        /\ ia \in 0 .. Len(ta) /\ jb \in 0 .. Len(tb)
        /\ Len(ta) \in Nat /\ Len(tb) \in Nat
    BY DEF DiffInv, DiffTypeOK, Emit
  <1>2. op \in Ops
    BY <1>1 DEF Ops
  <1> HIDE DEF op
  <1>3. op.a = x /\ op.b = y
    BY DEF op
  <1>4. /\ ops' \in Seq(Ops)
        /\ DOMAIN ops' = 1 .. Len(ops) + 1 /\ Len(ops) \in Nat /\ DOMAIN ops = 1 .. Len(ops)
        /\ ops'[1] = op
        /\ \A k \in DOMAIN ops : k + 1 \in DOMAIN ops' /\ ops'[k + 1] = ops[k]
        /\ \A k \in 2 .. Len(ops) + 1 : k - 1 \in DOMAIN ops /\ ops'[k] = ops[k - 1]
    BY <1>1, <1>2, PutInFront
  <1>5. DiffTypeOK'
    <2>1. Ops' = Ops
      BY <1>1 DEF Ops
    <2>2. ia' \in 0 .. Len(ta) /\ jb' \in 0 .. Len(tb)
      BY <1>1
    <2>3. dpc' \in {"backtrack", "done"}
      BY <1>1
    <2> QED
      BY <1>1, <1>4, <2>1, <2>2, <2>3 DEF DiffTypeOK
  <1>6. ASSUME NEW k \in DOMAIN ops PROVE ops[k].a \in Nat /\ ops[k].b \in Nat
    <2>1. ops[k] \in Ops
      BY <1>1, ElementOfSeq
    <2>2. ops[k].a \in 0 .. Len(ta) /\ ops[k].b \in 0 .. Len(tb)
      BY <2>1 DEF Ops
    <2> QED
      BY <2>2, <1>1
  <1>7. Behind'
    <2> SUFFICES ASSUME NEW k \in DOMAIN ops'
                 PROVE  /\ ops'[k].a # 0 => ops'[k].a > ia'
                        /\ ops'[k].b # 0 => ops'[k].b > jb'
      BY DEF Behind
    <2>1. CASE k = 1
      BY <2>1, <1>1, <1>3, <1>4
    <2>2. CASE k # 1
      <3>1. k \in 2 .. Len(ops) + 1
        BY <2>2, <1>4
      <3>2. k - 1 \in DOMAIN ops /\ ops'[k] = ops[k - 1]
        BY <3>1, <1>4
      <3> QED
        BY <3>2, <1>1, <1>6 DEF DiffInv, Behind
    <2> QED
      BY <2>1, <2>2
  <1>8. \A s \in ia' + 1 .. Len(ta) : \E k \in DOMAIN ops' : ops'[k].a = s
    <2> SUFFICES ASSUME NEW s \in ia' + 1 .. Len(ta)
                 PROVE  \E k \in DOMAIN ops' : ops'[k].a = s
      OBVIOUS
    <2>1. CASE s \in ia + 1 .. Len(ta)
      <3>1. PICK k \in DOMAIN ops : ops[k].a = s
        BY <2>1 DEF DiffInv, Aligned
      <3> QED
        BY <3>1, <1>4
    <2>2. CASE s \notin ia + 1 .. Len(ta)
      <3>1. x # 0 /\ s = x
        BY <2>2, <1>1
      <3> QED
        BY <3>1, <1>3, <1>4
    <2> QED
      BY <2>1, <2>2
  <1>9. \A s \in jb' + 1 .. Len(tb) : \E k \in DOMAIN ops' : ops'[k].b = s
    <2> SUFFICES ASSUME NEW s \in jb' + 1 .. Len(tb)
                 PROVE  \E k \in DOMAIN ops' : ops'[k].b = s
      OBVIOUS
    <2>1. CASE s \in jb + 1 .. Len(tb)
      <3>1. PICK k \in DOMAIN ops : ops[k].b = s
        BY <2>1 DEF DiffInv, Aligned
      <3> QED
        BY <3>1, <1>4
    <2>2. CASE s \notin jb + 1 .. Len(tb)
      <3>1. y # 0 /\ s = y
        BY <2>2, <1>1
      <3> QED
        BY <3>1, <1>3, <1>4
    <2> QED
      BY <2>1, <2>2
  <1>10. ASSUME NEW k \in DOMAIN ops', NEW l \in DOMAIN ops', k < l
         PROVE  /\ ops'[k].a # 0 /\ ops'[l].a # 0 => ops'[k].a < ops'[l].a
                /\ ops'[k].b # 0 /\ ops'[l].b # 0 => ops'[k].b < ops'[l].b
    <2>1. l \in 2 .. Len(ops) + 1 /\ l - 1 \in DOMAIN ops /\ ops'[l] = ops[l - 1]
      BY <1>4, <1>10
    <2>2. CASE k = 1
      <3>1. /\ ops[l - 1].a # 0 => ops[l - 1].a > ia
            /\ ops[l - 1].b # 0 => ops[l - 1].b > jb
        BY <2>1 DEF DiffInv, Behind
      <3> QED
        BY <2>1, <2>2, <3>1, <1>3, <1>4, <1>6
    <2>3. CASE k # 1
      <3>1. k - 1 \in DOMAIN ops /\ ops'[k] = ops[k - 1] /\ k - 1 < l - 1
        BY <2>3, <1>4, <1>10
      <3> QED
        BY <2>1, <3>1 DEF DiffInv, Aligned
    <2> QED
      BY <2>2, <2>3
  <1>11. ASSUME NEW k \in DOMAIN ops'
         PROVE  /\ ops'[k].a # 0 \/ ops'[k].b # 0
                /\ IsCommon(ops'[k]) => step_eq(ta[ops'[k].a], tb[ops'[k].b])
    <2>1. CASE k = 1
      BY <2>1, <1>3, <1>4 DEF IsCommon
    <2>2. CASE k # 1
      <3>1. k - 1 \in DOMAIN ops /\ ops'[k] = ops[k - 1]
        BY <2>2, <1>4
      <3> QED
        BY <3>1 DEF DiffInv, Aligned
    <2> QED
      BY <2>1, <2>2
  <1>12. Aligned(ia, jb)'
    BY <1>1, <1>8, <1>9, <1>10, <1>11 DEF Aligned, IsCommon, step_eq
  <1> QED
    BY <1>1, <1>5, <1>7, <1>12 DEF DiffInv

\* One step per action.
LEMMA DiffInvStep == DiffInv /\ [DiffNext]_diffVars => DiffInv'
  <1> SUFFICES ASSUME DiffInv, [DiffNext]_diffVars PROVE DiffInv'
    OBVIOUS
  <1>1. ia \in Nat /\ jb \in Nat
    BY DEF DiffInv, DiffTypeOK
  <1>2. CASE BacktrackCommon
    BY <1>1, <1>2, EmitKeepsDiffInv DEF BacktrackCommon, BothLeft
  <1>3. CASE BacktrackOnlyA
    BY <1>1, <1>3, EmitKeepsDiffInv DEF BacktrackOnlyA
  <1>4. CASE BacktrackOnlyB
    BY <1>1, <1>4, EmitKeepsDiffInv DEF BacktrackOnlyB
  <1>5. CASE BacktrackDone
    BY <1>5 DEF BacktrackDone, DiffInv, DiffTypeOK, Aligned, Behind, Ops, IsCommon, step_eq
  <1>6. CASE UNCHANGED diffVars
    BY <1>6 DEF diffVars, DiffInv, DiffTypeOK, Aligned, Behind, Ops, IsCommon, step_eq
  <1> QED
    BY <1>2, <1>3, <1>4, <1>5, <1>6 DEF DiffNext

\* lcs_diff loses, doubles and reorders no step of either trace, and pairs
\* equal steps only, whatever the traces.
THEOREM AlignmentAlwaysComplete == DiffSpec => []AlignmentComplete
  <1>1. DiffInv => AlignmentComplete
    BY DEF DiffInv, AlignmentComplete
  <1> QED
    BY <1>1, DiffInvInit, DiffInvStep, PTL DEF DiffSpec

\* The positions and the ops of the backtracking are well typed, for all traces.
THEOREM DiffTypesCorrect == DiffSpec => []DiffTypeOK
  <1>1. DiffInv => DiffTypeOK
    BY DEF DiffInv
  <1> QED
    BY <1>1, DiffInvInit, DiffInvStep, PTL DEF DiffSpec

-----------------------------------------------------------------------------
(* What the exit code tells. *)

\* Up to the first op that shows one step only, op k shows step k of either
\* trace: no step is lost, and the steps are in their order.
LEMMA ReadInStep ==
    ASSUME DiffTypeOK, Aligned(0, 0),
           NEW n \in 0 .. Len(ops), \A k \in 1 .. n : IsCommon(ops[k])
    PROVE  \A k \in 1 .. n : /\ ops[k].a = k /\ ops[k].b = k
                             /\ k \in DOMAIN ta /\ k \in DOMAIN tb
                             /\ step_eq(ta[k], tb[k])
  <1>1. /\ ta \in Seq(Rows) /\ tb \in Seq(Rows) /\ ops \in Seq(Ops)
        /\ Len(ta) \in Nat /\ Len(tb) \in Nat /\ Len(ops) \in Nat
        /\ DOMAIN ops = 1 .. Len(ops)
        /\ DOMAIN ta = 1 .. Len(ta) /\ DOMAIN tb = 1 .. Len(tb)
    BY DEF DiffTypeOK
  <1>2. ASSUME NEW k \in 1 .. Len(ops)
        PROVE  ops[k].a \in 0 .. Len(ta) /\ ops[k].b \in 0 .. Len(tb)
    <2>1. ops[k] \in Ops
      BY <1>1
    <2> QED
      BY <2>1 DEF Ops
  <1> DEFINE G == {j \in Nat : j <= n => \A k \in 1 .. j : ops[k].a = k /\ ops[k].b = k}
  <1>3. 0 \in G
    OBVIOUS
  <1>4. ASSUME NEW j \in Nat, j \in G PROVE j + 1 \in G
    <2> SUFFICES ASSUME j + 1 <= n
                 PROVE  ops[j + 1].a = j + 1 /\ ops[j + 1].b = j + 1
      BY <1>4
    <2>1. j + 1 \in 1 .. n /\ j + 1 \in 1 .. Len(ops)
      BY <1>1
    <2>2. \A k \in 1 .. j : ops[k].a = k /\ ops[k].b = k
      BY <1>4
    <2>3. /\ ops[j + 1].a # 0 /\ ops[j + 1].b # 0
          /\ ops[j + 1].a \in 0 .. Len(ta) /\ ops[j + 1].b \in 0 .. Len(tb)
      BY <1>2, <2>1 DEF IsCommon
    <2>4. \A k, l \in 1 .. Len(ops) : k < l =>
            /\ ops[k].a # 0 /\ ops[l].a # 0 => ops[k].a < ops[l].a
            /\ ops[k].b # 0 /\ ops[l].b # 0 => ops[k].b < ops[l].b
      BY <1>1 DEF Aligned
    <2>5. ops[j + 1].a >= j + 1 /\ ops[j + 1].b >= j + 1
      <3>1. CASE j = 0
        BY <2>3, <3>1, <1>1
      <3>2. CASE j # 0
        <4>1. j \in 1 .. j /\ j \in 1 .. Len(ops) /\ j < j + 1
          BY <1>1, <2>1, <3>2
        <4>2. ops[j].a = j /\ ops[j].b = j
          BY <2>2, <4>1
        <4>3. j < ops[j + 1].a /\ j < ops[j + 1].b
          BY <2>1, <2>3, <2>4, <3>2, <4>1, <4>2
        <4> QED
          BY <1>1, <2>3, <4>3
      <3> QED
        BY <3>1, <3>2
    <2>6. ops[j + 1].a = j + 1
      <3> SUFFICES ASSUME ops[j + 1].a > j + 1 PROVE FALSE
        BY <1>1, <2>3, <2>5
      <3>1. j + 1 \in 0 + 1 .. Len(ta)
        BY <1>1, <2>3
      <3>2. PICK l \in 1 .. Len(ops) : ops[l].a = j + 1
        BY <1>1, <3>1 DEF Aligned
      <3>3. CASE l <= j
        <4>1. l \in 1 .. j
          BY <3>3
        <4> QED
          BY <2>2, <3>2, <3>3, <4>1
      <3>4. CASE l = j + 1
        BY <1>1, <2>3, <3>2, <3>4
      <3>5. CASE l > j + 1
        <4>1. ops[j + 1].a < ops[l].a
          <5>1. ops[l].a # 0
            BY <3>2
          <5> QED
            BY <2>1, <2>3, <2>4, <3>5, <5>1
        <4> QED
          BY <1>1, <2>3, <3>2, <4>1
      <3> QED
        BY <3>3, <3>4, <3>5
    <2>7. ops[j + 1].b = j + 1
      <3> SUFFICES ASSUME ops[j + 1].b > j + 1 PROVE FALSE
        BY <1>1, <2>3, <2>5
      <3>1. j + 1 \in 0 + 1 .. Len(tb)
        BY <1>1, <2>3
      <3>2. PICK l \in 1 .. Len(ops) : ops[l].b = j + 1
        BY <1>1, <3>1 DEF Aligned
      <3>3. CASE l <= j
        <4>1. l \in 1 .. j
          BY <3>3
        <4> QED
          BY <2>2, <3>2, <3>3, <4>1
      <3>4. CASE l = j + 1
        BY <1>1, <2>3, <3>2, <3>4
      <3>5. CASE l > j + 1
        <4>1. ops[j + 1].b < ops[l].b
          <5>1. ops[l].b # 0
            BY <3>2
          <5> QED
            BY <2>1, <2>3, <2>4, <3>5, <5>1
        <4> QED
          BY <1>1, <2>3, <3>2, <4>1
      <3> QED
        BY <3>3, <3>4, <3>5
    <2> QED
      BY <2>6, <2>7
  <1>5. Nat \subseteq G
    <2> HIDE DEF G
    <2> QED
      BY <1>3, <1>4, SetInduction
  <1>6. \A k \in 1 .. n : ops[k].a = k /\ ops[k].b = k
    <2>1. n \in G
      BY <1>5
    <2> QED
      BY <2>1
  <1> HIDE DEF G
  <1> SUFFICES ASSUME NEW k \in 1 .. n
               PROVE  k \in DOMAIN ta /\ k \in DOMAIN tb /\ step_eq(ta[k], tb[k])
    BY <1>6
  <1>7. k \in 1 .. Len(ops) /\ k # 0
    BY <1>1
  <1>8. k \in 0 .. Len(ta) /\ k \in 0 .. Len(tb)
    BY <1>2, <1>6, <1>7
  <1>9. step_eq(ta[ops[k].a], tb[ops[k].b])
    BY <1>1, <1>7 DEF Aligned
  <1> QED
    BY <1>1, <1>6, <1>7, <1>8, <1>9

\* The counts of a diff are zero where there is nothing to count.
LEMMA ZeroOnlyIfNone ==
    ASSUME DiffTypeOK
    PROVE  cmd_diff = 0 <=> Divergent = {}
  <1> DEFINE A == {k \in DOMAIN ops : ops[k].b = 0}
             B == {k \in DOMAIN ops : ops[k].a = 0}
  <1>1. Len(ops) \in Nat /\ DOMAIN ops = 1 .. Len(ops)
    BY DEF DiffTypeOK
  <1>2. IsFiniteSet(DOMAIN ops)
    BY <1>1, FS_Interval
  <1>3. IsFiniteSet(A) /\ IsFiniteSet(B)
    BY <1>2, FS_Subset
  <1>4. (Cardinality(A) = 0 <=> A = {}) /\ (Cardinality(B) = 0 <=> B = {})
    BY <1>3, FS_EmptySet
  <1>5. stats.only_a = Cardinality(A) /\ stats.only_b = Cardinality(B)
    BY DEF stats
  <1>6. Divergent = {} <=> A = {} /\ B = {}
    BY DEF Divergent, IsCommon
  <1> HIDE DEF A, B
  <1> QED
    BY <1>4, <1>5, <1>6 DEF cmd_diff

LEMMA SameInterval == \A m, n \in Nat : 1 .. m = 1 .. n => m = n
  <1> SUFFICES ASSUME NEW m \in Nat, NEW n \in Nat, 1 .. m = 1 .. n, m < n PROVE FALSE
    OBVIOUS
  <1>1. n \in 1 .. n /\ n \notin 1 .. m
    OBVIOUS
  <1> QED
    BY <1>1

\* Two traces with the same steps in the same order.
SameSteps == Len(ta) = Len(tb) /\ \A k \in DOMAIN ta : step_eq(ta[k], tb[k])

\* The backtracking over such traces never leaves the diagonal.
Diagonal == SameSteps => ia = jb /\ \A k \in DOMAIN ops : IsCommon(ops[k])

LEMMA DiagonalInit == DiffInit => Diagonal
  <1> SUFFICES ASSUME DiffInit, SameSteps PROVE ia = jb /\ \A k \in DOMAIN ops : IsCommon(ops[k])
    BY DEF Diagonal
  <1>1. DOMAIN ops = {}
    BY DEF DiffInit
  <1> QED
    BY <1>1 DEF DiffInit, SameSteps

LEMMA DiagonalStep == DiffInv /\ Diagonal /\ [DiffNext]_diffVars => Diagonal'
  <1> SUFFICES ASSUME DiffInv, Diagonal, [DiffNext]_diffVars, SameSteps'
               PROVE  ia' = jb' /\ \A k \in DOMAIN ops' : IsCommon(ops'[k])
    BY DEF Diagonal, IsCommon
  <1>1. ta' = ta /\ tb' = tb
    BY DEF DiffNext, BacktrackCommon, BacktrackOnlyA, BacktrackOnlyB, BacktrackDone, Emit,
           diffVars
  <1>2. SameSteps
    BY <1>1 DEF SameSteps, step_eq
  <1>3. ia = jb /\ \A k \in DOMAIN ops : IsCommon(ops[k])
    BY <1>2 DEF Diagonal
  <1>4. /\ ops \in Seq(Ops) /\ ia \in 0 .. Len(ta) /\ Len(ta) \in Nat
        /\ DOMAIN ta = 1 .. Len(ta)
    BY DEF DiffInv, DiffTypeOK
  <1>5. ia # 0 => step_eq(ta[ia], tb[ia])
    BY <1>2, <1>4 DEF SameSteps
  <1>6. CASE BacktrackCommon
    <2>1. PICK x : x = [a |-> ia, b |-> jb]
      OBVIOUS
    <2>2. x \in Ops /\ IsCommon(x)
      BY <1>2, <1>3, <1>4, <1>6, <2>1 DEF Ops, IsCommon, SameSteps, BacktrackCommon, BothLeft
    <2>3. ops' = <<x>> \o ops
      BY <1>6, <2>1 DEF BacktrackCommon, Emit
    <2>4. /\ DOMAIN ops' = 1 .. Len(ops) + 1 /\ ops'[1] = x
          /\ \A k \in 2 .. Len(ops) + 1 : k - 1 \in DOMAIN ops /\ ops'[k] = ops[k - 1]
      BY <1>4, <2>2, <2>3, PutInFront
    <2>5. ASSUME NEW k \in DOMAIN ops' PROVE IsCommon(ops'[k])
      <3>1. CASE k = 1
        BY <2>2, <2>4, <3>1
      <3>2. CASE k # 1
        <4>1. k \in 2 .. Len(ops) + 1
          BY <1>4, <2>4, <3>2
        <4> QED
          BY <1>3, <2>4, <4>1
      <3> QED
        BY <3>1, <3>2
    <2>6. ia' = jb'
      BY <1>3, <1>6 DEF BacktrackCommon
    <2> QED
      BY <2>5, <2>6
  <1>7. ~BacktrackOnlyA /\ ~BacktrackOnlyB
    BY <1>3, <1>4, <1>5 DEF BacktrackOnlyA, BacktrackOnlyB
  <1>8. CASE BacktrackDone \/ UNCHANGED diffVars
    BY <1>3, <1>8 DEF BacktrackDone, diffVars
  <1> QED
    BY <1>6, <1>7, <1>8 DEF DiffNext

\* `acp diff` exits with 0 for traces with the same steps and only for these,
\* and the traces agree up to first_divergence, for all traces.
THEOREM DiffExitTellsDifference == DiffSpec => []ExitTellsDifference
  <1>1. DiffInv /\ Diagonal => ExitTellsDifference
    <2> SUFFICES ASSUME DiffInv, Diagonal, dpc = "done"
                 PROVE  LET same(k) == /\ k \in DOMAIN ta /\ k \in DOMAIN tb
                                       /\ ta[k].dir = tb[k].dir /\ ta[k].hash = tb[k].hash
                        IN  /\ cmd_diff = 0 <=> Len(ta) = Len(tb) /\ \A k \in DOMAIN ta : same(k)
                            /\ cmd_diff = 0 <=> stats.first_divergence = <<>>
                            /\ cmd_diff = 1 => \A k \in 1 .. stats.first_divergence[1] : same(k)
      BY DEF ExitTellsDifference
    <2> DEFINE same(k) == /\ k \in DOMAIN ta /\ k \in DOMAIN tb
                          /\ ta[k].dir = tb[k].dir /\ ta[k].hash = tb[k].hash
    <2>1. /\ DiffTypeOK /\ Aligned(0, 0)
          /\ ta \in Seq(Rows) /\ tb \in Seq(Rows) /\ ops \in Seq(Ops)
          /\ Len(ta) \in Nat /\ Len(tb) \in Nat /\ Len(ops) \in Nat
          /\ DOMAIN ta = 1 .. Len(ta) /\ DOMAIN tb = 1 .. Len(tb) /\ DOMAIN ops = 1 .. Len(ops)
      BY DEF DiffInv, DiffTypeOK
    <2>2. cmd_diff = 0 <=> Divergent = {}
      BY <2>1, ZeroOnlyIfNone
    <2>3. ASSUME Divergent = {} PROVE Len(ta) = Len(tb) /\ \A k \in DOMAIN ta : same(k)
      <3>1. \A k \in 1 .. Len(ops) : IsCommon(ops[k])
        BY <2>1, <2>3 DEF Divergent
      <3>2. \A k \in 1 .. Len(ops) : /\ ops[k].a = k /\ ops[k].b = k
                                     /\ k \in DOMAIN ta /\ k \in DOMAIN tb
                                     /\ step_eq(ta[k], tb[k])
        <4>1. Len(ops) \in 0 .. Len(ops)
          BY <2>1
        <4> QED
          BY <2>1, <3>1, <4>1, ReadInStep
      <3>3. \A s \in 1 .. Len(ta) : \E k \in 1 .. Len(ops) : ops[k].a = s
        BY <2>1 DEF Aligned
      <3>4. \A s \in 1 .. Len(tb) : \E k \in 1 .. Len(ops) : ops[k].b = s
        BY <2>1 DEF Aligned
      <3>5. 1 .. Len(ta) = 1 .. Len(ops)
        BY <2>1, <3>2, <3>3
      <3>6. 1 .. Len(tb) = 1 .. Len(ops)
        BY <2>1, <3>2, <3>4
      <3>7. Len(ta) = Len(ops) /\ Len(tb) = Len(ops)
        BY <2>1, <3>5, <3>6, SameInterval
      <3> QED
        BY <2>1, <3>2, <3>5, <3>7 DEF step_eq
    <2>4. ASSUME Len(ta) = Len(tb), \A k \in DOMAIN ta : same(k) PROVE Divergent = {}
      BY <2>4 DEF Diagonal, SameSteps, step_eq, Divergent
    <2>5. /\ Divergent = {} => stats.first_divergence = <<>>
          /\ Divergent # {} => stats.first_divergence = <<Min(Divergent) - 1>>
      BY DEF stats
    <2>6. \A m : <<m>> # <<>> /\ <<m>>[1] = m
      OBVIOUS
    <2>7. cmd_diff = 0 <=> stats.first_divergence = <<>>
      BY <2>2, <2>5, <2>6
    <2>8. ASSUME cmd_diff = 1, NEW k \in 1 .. stats.first_divergence[1] PROVE same(k)
      <3>1. Divergent # {} /\ Divergent \subseteq Nat /\ Divergent \subseteq 1 .. Len(ops)
        BY <2>1, <2>2, <2>8 DEF Divergent
      <3>2. PICK m \in Divergent : m = Min(Divergent) /\ \A y \in Divergent : m <= y
        BY <3>1, LeastIsThere
      <3>3. stats.first_divergence[1] = m - 1
        BY <2>5, <2>6, <3>1, <3>2
      <3>4. m \in 1 .. Len(ops) /\ m - 1 \in 0 .. Len(ops)
        BY <2>1, <3>1, <3>2
      <3>5. \A i \in 1 .. m - 1 : IsCommon(ops[i])
        <4> SUFFICES ASSUME NEW i \in 1 .. m - 1, ~IsCommon(ops[i]) PROVE FALSE
          OBVIOUS
        <4>1. i \in DOMAIN ops
          BY <2>1, <3>4
        <4>2. i \in Divergent
          BY <4>1 DEF Divergent
        <4> QED
          BY <3>2, <3>4, <4>2
      <3>6. \A i \in 1 .. m - 1 : i \in DOMAIN ta /\ i \in DOMAIN tb /\ step_eq(ta[i], tb[i])
        BY <2>1, <3>4, <3>5, ReadInStep
      <3> QED
        BY <2>8, <3>3, <3>6 DEF step_eq
    <2> HIDE DEF same
    <2>9. /\ cmd_diff = 0 <=> Len(ta) = Len(tb) /\ \A k \in DOMAIN ta : same(k)
          /\ cmd_diff = 0 <=> stats.first_divergence = <<>>
          /\ cmd_diff = 1 => \A k \in 1 .. stats.first_divergence[1] : same(k)
      BY <2>2, <2>3, <2>4, <2>7, <2>8
    <2> QED
      BY <2>9 DEF same
  <1> QED
    BY <1>1, DiffInvInit, DiffInvStep, DiagonalInit, DiagonalStep, PTL DEF DiffSpec

-----------------------------------------------------------------------------
(* The table.  Each entry is the size of a largest matching of the first p *)
(* steps of one trace with the first q of the other.                       *)

\* Induction over the entries of a table, said of sets.
LEMMA CellInduction ==
    ASSUME NEW n \in Nat, NEW m \in Nat, NEW P,
           \A p \in 0 .. n, q \in 0 .. m :
             (\A i \in 0 .. n, j \in 0 .. m : i + j < p + q => <<i, j>> \in P) => <<p, q>> \in P
    PROVE  \A p \in 0 .. n, q \in 0 .. m : <<p, q>> \in P
  <1> DEFINE G == {k \in Nat : \A p \in 0 .. n, q \in 0 .. m : p + q < k => <<p, q>> \in P}
  <1>1. 0 \in G
    OBVIOUS
  <1>2. ASSUME NEW k \in Nat, k \in G PROVE k + 1 \in G
    <2> SUFFICES ASSUME NEW p \in 0 .. n, NEW q \in 0 .. m, p + q < k + 1 PROVE <<p, q>> \in P
      OBVIOUS
    <2>1. \A i \in 0 .. n, j \in 0 .. m : i + j < p + q => <<i, j>> \in P
      BY <1>2
    <2> QED
      BY <2>1
  <1>3. Nat \subseteq G
    <2> HIDE DEF G
    <2> QED
      BY <1>1, <1>2, SetInduction
  <1> SUFFICES ASSUME NEW p \in 0 .. n, NEW q \in 0 .. m PROVE <<p, q>> \in P
    OBVIOUS
  <1>4. p + q + 1 \in Nat /\ p + q < p + q + 1
    OBVIOUS
  <1> QED
    BY <1>3, <1>4

\* What lcs_dp computes for the entry p, q of the table d, and that a table
\* has its entries.
Cell(d, x, y, p, q) ==
    IF p = 0 \/ q = 0 THEN 0
    ELSE IF step_eq(x[p], y[q]) THEN d[<<p - 1, q - 1>>] + 1
    ELSE Max({d[<<p - 1, q>>], d[<<p, q - 1>>]})

IsTable(d, x, y) ==
    d = [c \in (0 .. Len(x)) \X (0 .. Len(y)) |-> Cell(d, x, y, c[1], c[2])]

\* Two tables agree on the entries before p, q.
Agree(d, e, p, q) ==
    \A i \in 0 .. p, j \in 0 .. q : i + j < p + q => d[<<i, j>>] = e[<<i, j>>]

\* An entry needs entries before it only.
LEMMA CellOf ==
    \A p, q \in Nat : \A d, e : Agree(d, e, p, q) =>
      \A x, y : Cell(d, x, y, p, q) = Cell(e, x, y, p, q)
  <1> SUFFICES ASSUME NEW p \in Nat, NEW q \in Nat, NEW d, NEW e, Agree(d, e, p, q),
                      NEW x, NEW y
               PROVE  Cell(d, x, y, p, q) = Cell(e, x, y, p, q)
    OBVIOUS
  <1>1. CASE p = 0 \/ q = 0
    BY <1>1 DEF Cell
  <1>2. CASE p # 0 /\ q # 0
    <2>1. p - 1 \in 0 .. p /\ q - 1 \in 0 .. q /\ p \in 0 .. p /\ q \in 0 .. q
      BY <1>2
    <2>2. /\ d[<<p - 1, q - 1>>] = e[<<p - 1, q - 1>>]
          /\ d[<<p - 1, q>>] = e[<<p - 1, q>>]
          /\ d[<<p, q - 1>>] = e[<<p, q - 1>>]
      BY <1>2, <2>1 DEF Agree
    <2> QED
      BY <2>2, Zenon DEF Cell
  <1> QED
    BY <1>1, <1>2

\* The entries below a sum of positions are filled in.
Filled(d, x, y, k) ==
    \A p \in 0 .. Len(x), q \in 0 .. Len(y) : p + q < k => d[<<p, q>>] = Cell(d, x, y, p, q)

LEMMA FilledFurther ==
    ASSUME NEW S, NEW x \in Seq(S), NEW y \in Seq(S), NEW k \in Nat,
           NEW d, Filled(d, x, y, k)
    PROVE  \E h : Filled(h, x, y, k + 1)
  <1>1. PICK n \in Nat, m \in Nat : n = Len(x) /\ m = Len(y)
    OBVIOUS
  <1>2. PICK h : \A p \in 0 .. n, q \in 0 .. m :
                   h[<<p, q>>] = IF p + q < k THEN d[<<p, q>>] ELSE Cell(d, x, y, p, q)
    <2> DEFINE h == [c \in (0 .. n) \X (0 .. m) |->
                      IF c[1] + c[2] < k THEN d[c] ELSE Cell(d, x, y, c[1], c[2])]
    <2>1. \A p \in 0 .. n, q \in 0 .. m :
            h[<<p, q>>] = IF p + q < k THEN d[<<p, q>>] ELSE Cell(d, x, y, p, q)
      OBVIOUS
    <2> HIDE DEF h
    <2> QED
      BY <2>1
  <1>3. ASSUME NEW p \in 0 .. n, NEW q \in 0 .. m, p + q < k + 1
        PROVE  h[<<p, q>>] = Cell(h, x, y, p, q)
    <2>1. h[<<p, q>>] = Cell(d, x, y, p, q)
      BY <1>1, <1>2 DEF Filled
    <2>2. Agree(d, h, p, q)
      <3>1. \A i \in 0 .. p, j \in 0 .. q : i + j < p + q =>
              i \in 0 .. n /\ j \in 0 .. m /\ i + j < k
        BY <1>3
      <3> QED
        BY <1>2, <3>1 DEF Agree
    <2>3. p \in Nat /\ q \in Nat
      OBVIOUS
    <2>4. Cell(d, x, y, p, q) = Cell(h, x, y, p, q)
      BY <2>2, <2>3, CellOf
    <2> QED
      BY <2>1, <2>4, Zenon
  <1> QED
    BY <1>1, <1>3 DEF Filled

\* A table can be filled in by the sums of the positions.
LEMMA TableExists ==
    ASSUME NEW S, NEW x \in Seq(S), NEW y \in Seq(S)
    PROVE  \E d : IsTable(d, x, y)
  <1>1. PICK n \in Nat, m \in Nat : n = Len(x) /\ m = Len(y)
    OBVIOUS
  <1> DEFINE G == {k \in Nat : \E d : Filled(d, x, y, k)}
  <1>2. 0 \in G
    BY <1>1 DEF Filled
  <1>3. ASSUME NEW k \in Nat, k \in G PROVE k + 1 \in G
    BY <1>3, FilledFurther
  <1>4. Nat \subseteq G
    <2> HIDE DEF G
    <2> QED
      BY <1>2, <1>3, SetInduction
  <1>5. n + m + 1 \in G
    BY <1>4
  <1>6. PICK d : Filled(d, x, y, n + m + 1)
    BY <1>5
  <1>7. \A p \in 0 .. n, q \in 0 .. m : d[<<p, q>>] = Cell(d, x, y, p, q)
    <2> SUFFICES ASSUME NEW p \in 0 .. n, NEW q \in 0 .. m
                 PROVE  d[<<p, q>>] = Cell(d, x, y, p, q)
      OBVIOUS
    <2>1. p + q < n + m + 1
      OBVIOUS
    <2> QED
      BY <1>1, <1>6, <2>1 DEF Filled
  <1> DEFINE e == [c \in (0 .. n) \X (0 .. m) |-> d[c]]
  <1>8. \A p \in 0 .. n, q \in 0 .. m : d[<<p, q>>] = e[<<p, q>>]
    OBVIOUS
  <1> HIDE DEF G, e
  <1>9. \A p \in 0 .. n, q \in 0 .. m : d[<<p, q>>] = Cell(e, x, y, p, q)
    <2> SUFFICES ASSUME NEW p \in 0 .. n, NEW q \in 0 .. m
                 PROVE  d[<<p, q>>] = Cell(e, x, y, p, q)
      OBVIOUS
    <2>1. p \in Nat /\ q \in Nat /\ \A i \in 0 .. p, j \in 0 .. q : i \in 0 .. n /\ j \in 0 .. m
      OBVIOUS
    <2>2. Agree(d, e, p, q)
      BY <1>8, <2>1 DEF Agree
    <2>3. Cell(d, x, y, p, q) = Cell(e, x, y, p, q)
      BY <2>1, <2>2, CellOf
    <2> QED
      BY <1>7, <2>3, Zenon
  <1>10. \A c \in (0 .. n) \X (0 .. m) : d[c] = Cell(e, x, y, c[1], c[2])
    BY <1>9
  <1>11. e = [c \in (0 .. n) \X (0 .. m) |-> Cell(e, x, y, c[1], c[2])]
    BY <1>10, Zenon DEF e
  <1> QED
    BY <1>1, <1>11, Zenon DEF IsTable

LEMMA TableCell ==
    ASSUME NEW S, NEW x \in Seq(S), NEW y \in Seq(S),
           NEW p \in 0 .. Len(x), NEW q \in 0 .. Len(y)
    PROVE  lcs_dp(x, y)[<<p, q>>] = Cell(lcs_dp(x, y), x, y, p, q)
  <1> DEFINE d == CHOOSE d : IsTable(d, x, y)
  <1>1. IsTable(d, x, y)
    BY TableExists
  <1>2. lcs_dp(x, y) = d
    BY Zenon DEF lcs_dp, IsTable, Cell
  <1> HIDE DEF d
  <1> DEFINE f == [c \in (0 .. Len(x)) \X (0 .. Len(y)) |-> Cell(d, x, y, c[1], c[2])]
  <1>3. d = f
    BY <1>1 DEF IsTable
  <1>4. f[<<p, q>>] = Cell(d, x, y, p, q)
    OBVIOUS
  <1> HIDE DEF f
  <1> QED
    BY <1>2, <1>3, <1>4, Zenon

LEMMA LargerOfTwo ==
    ASSUME NEW a \in Nat, NEW b \in Nat
    PROVE  Max({a, b}) \in {a, b} /\ Max({a, b}) >= a /\ Max({a, b}) >= b
  <1>1. \E c \in {a, b} : \A e \in {a, b} : c >= e
    <2>1. CASE a >= b
      BY <2>1
    <2>2. CASE b >= a
      BY <2>2
    <2> QED
      BY <2>1, <2>2
  <1> QED
    BY <1>1 DEF Max

LEMMA TableType ==
    ASSUME NEW S, NEW x \in Seq(S), NEW y \in Seq(S)
    PROVE  \A p \in 0 .. Len(x), q \in 0 .. Len(y) : lcs_dp(x, y)[<<p, q>>] \in Nat
  <1>1. PICK n \in Nat, m \in Nat : n = Len(x) /\ m = Len(y)
    OBVIOUS
  <1>2. PICK d : d = lcs_dp(x, y)
    OBVIOUS
  <1>3. \A p \in 0 .. n, q \in 0 .. m : d[<<p, q>>] = Cell(d, x, y, p, q)
    BY <1>1, <1>2, TableCell
  <1> DEFINE P == {c \in (0 .. n) \X (0 .. m) : d[c] \in Nat}
  <1>4. ASSUME NEW p \in 0 .. n, NEW q \in 0 .. m,
               \A i \in 0 .. n, j \in 0 .. m : i + j < p + q => <<i, j>> \in P
        PROVE  <<p, q>> \in P
    <2>1. d[<<p, q>>] = Cell(d, x, y, p, q)
      BY <1>3
    <2>2. CASE p = 0 \/ q = 0
      BY <2>1, <2>2 DEF Cell
    <2>3. CASE p # 0 /\ q # 0
      <3>1. p - 1 \in 0 .. n /\ q - 1 \in 0 .. m
        BY <2>3
      <3>2. /\ d[<<p - 1, q - 1>>] \in Nat
            /\ d[<<p - 1, q>>] \in Nat /\ d[<<p, q - 1>>] \in Nat
        BY <1>4, <3>1
      <3>3. Max({d[<<p - 1, q>>], d[<<p, q - 1>>]}) \in Nat
        BY <3>2, LargerOfTwo
      <3>4. d[<<p, q>>] \in Nat
        BY <2>1, <2>3, <3>2, <3>3 DEF Cell
      <3> QED
        BY <3>4
    <2> QED
      BY <2>2, <2>3
  <1>5. \A p \in 0 .. n, q \in 0 .. m : <<p, q>> \in P
    <2> HIDE DEF P
    <2> QED
      BY <1>4, CellInduction
  <1> QED
    BY <1>1, <1>2, <1>5

\* g pairs the steps S among the first p of x with equal ones, in the same
\* order, among the first q of y.
Pairs(g, S, x, y, p, q) ==
    /\ S \subseteq 1 .. p
    /\ \A i \in S : g[i] \in 1 .. q /\ step_eq(x[i], y[g[i]])
    /\ \A i, j \in S : i < j => g[i] < g[j]

\* No pairing is larger than the entry of the table.
LEMMA PairsFewer ==
    ASSUME NEW R, NEW x \in Seq(R), NEW y \in Seq(R),
           NEW d, d = lcs_dp(x, y), NEW p \in 1 .. Len(x), NEW q \in 1 .. Len(y),
           \A i \in 0 .. Len(x), j \in 0 .. Len(y) : i + j < p + q =>
             \A S, g : Pairs(g, S, x, y, i, j) => Cardinality(S) <= d[<<i, j>>],
           NEW S, NEW g, Pairs(g, S, x, y, p, q)
    PROVE  Cardinality(S) <= d[<<p, q>>]
  <1>1. PICK n \in Nat, m \in Nat : n = Len(x) /\ m = Len(y)
    OBVIOUS
  <1>2. p \in 0 .. n /\ q \in 0 .. m /\ p - 1 \in 0 .. n /\ q - 1 \in 0 .. m /\ p # 0 /\ q # 0
    BY <1>1
  <1>3. d[<<p, q>>] = Cell(d, x, y, p, q)
    BY <1>1, <1>2, TableCell
  <1>4. /\ d[<<p - 1, q - 1>>] \in Nat
        /\ d[<<p - 1, q>>] \in Nat /\ d[<<p, q - 1>>] \in Nat
    BY <1>1, <1>2, TableType
  <1>5. S \subseteq 1 .. p /\ IsFiniteSet(S) /\ Cardinality(S) \in Nat
    <2>1. S \subseteq 1 .. p
      BY DEF Pairs
    <2>2. IsFiniteSet(1 .. p)
      BY FS_Interval
    <2>3. IsFiniteSet(S)
      BY <2>1, <2>2, FS_Subset
    <2> QED
      BY <2>1, <2>3, FS_CardinalityType
  <1>6. /\ \A i \in S : i \in 1 .. p /\ g[i] \in 1 .. q /\ step_eq(x[i], y[g[i]])
        /\ \A i, j \in S : i < j => g[i] < g[j]
    BY DEF Pairs
  <1>7. CASE step_eq(x[p], y[q])
    <2>1. d[<<p, q>>] = d[<<p - 1, q - 1>>] + 1
      BY <1>2, <1>3, <1>7, Zenon DEF Cell
    <2>2. PICK e : \A i \in S : i # e => i \in 1 .. p - 1 /\ g[i] \in 1 .. q - 1
      <3>1. CASE p \in S
        <4>1. \A i \in S : i # p => i < p /\ g[i] < g[p]
          BY <1>6, <3>1
        <4>2. \A i \in S : i # p => i \in 1 .. p - 1 /\ g[i] \in 1 .. q - 1
          BY <1>6, <3>1, <4>1
        <4> QED
          BY <4>2
      <3>2. CASE p \notin S /\ \E e \in S : g[e] = q
        <4>1. PICK e \in S : g[e] = q
          BY <3>2
        <4>2. \A i \in S : i # e => i < e \/ e < i
          BY <1>6
        <4>3. \A i \in S : i # e => g[i] # q
          BY <1>6, <4>1, <4>2
        <4>4. \A i \in S : i # e => i \in 1 .. p - 1 /\ g[i] \in 1 .. q - 1
          BY <1>6, <3>2, <4>3
        <4> QED
          BY <4>4
      <3>3. CASE p \notin S /\ ~\E e \in S : g[e] = q
        <4>1. \A i \in S : i \in 1 .. p - 1 /\ g[i] \in 1 .. q - 1
          BY <1>6, <3>3
        <4> QED
          BY <4>1
      <3> QED
        BY <3>1, <3>2, <3>3
    <2>3. PICK U : U = S \ {e}
      OBVIOUS
    <2>4. Pairs(g, U, x, y, p - 1, q - 1)
      BY <1>6, <2>2, <2>3 DEF Pairs
    <2>5. Cardinality(U) <= d[<<p - 1, q - 1>>]
      <3>1. (p - 1) + (q - 1) < p + q
        BY <1>2
      <3> QED
        BY <1>1, <1>2, <2>4, <3>1
    <2>6. Cardinality(U) \in Nat /\ Cardinality(S) <= Cardinality(U) + 1
      <3>1. IsFiniteSet(U)
               /\ Cardinality(U) = IF e \in S THEN Cardinality(S) - 1 ELSE Cardinality(S)
        BY <1>5, <2>3, FS_RemoveElement
      <3>2. Cardinality(U) \in Nat
        BY <3>1, FS_CardinalityType
      <3> QED
        BY <1>5, <3>1, <3>2
    <2> QED
      BY <1>4, <1>5, <2>1, <2>5, <2>6
  <1>8. CASE ~step_eq(x[p], y[q])
    <2>1. d[<<p, q>>] = Max({d[<<p - 1, q>>], d[<<p, q - 1>>]})
      BY <1>2, <1>3, <1>8, Zenon DEF Cell
    <2>2. d[<<p, q>>] \in Nat /\ d[<<p, q>>] >= d[<<p - 1, q>>] /\ d[<<p, q>>] >= d[<<p, q - 1>>]
      <3>1. PICK a \in Nat, b \in Nat : a = d[<<p - 1, q>>] /\ b = d[<<p, q - 1>>]
        BY <1>4
      <3>2. Max({a, b}) \in Nat /\ Max({a, b}) >= a /\ Max({a, b}) >= b
        BY LargerOfTwo
      <3> QED
        BY <2>1, <3>1, <3>2
    <2>3. CASE p \notin S
      <3>1. Pairs(g, S, x, y, p - 1, q)
        BY <1>6, <2>3 DEF Pairs
      <3>2. (p - 1) + q < p + q
        BY <1>2
      <3>3. Cardinality(S) <= d[<<p - 1, q>>]
        BY <1>1, <1>2, <3>1, <3>2
      <3> QED
        BY <1>4, <1>5, <2>2, <3>3
    <2>4. CASE p \in S
      <3>1. g[p] \in 1 .. q /\ g[p] # q
        BY <1>6, <1>8, <2>4
      <3>2. \A i \in S : i = p \/ g[i] < g[p]
        BY <1>6, <2>4
      <3>3. \A i \in S : g[i] \in 1 .. q - 1
        BY <1>6, <3>1, <3>2
      <3>4. Pairs(g, S, x, y, p, q - 1)
        BY <1>6, <3>3 DEF Pairs
      <3>5. p + (q - 1) < p + q
        BY <1>2
      <3>6. Cardinality(S) <= d[<<p, q - 1>>]
        BY <1>1, <1>2, <3>4, <3>5
      <3> QED
        BY <1>4, <1>5, <2>2, <3>6
    <2> QED
      BY <2>3, <2>4
  <1> QED
    BY <1>7, <1>8

LEMMA TableBounds ==
    ASSUME NEW R, NEW x \in Seq(R), NEW y \in Seq(R), NEW d, d = lcs_dp(x, y)
    PROVE  \A p \in 0 .. Len(x), q \in 0 .. Len(y) :
             \A S, g : Pairs(g, S, x, y, p, q) => Cardinality(S) <= d[<<p, q>>]
  <1>1. PICK n \in Nat, m \in Nat : n = Len(x) /\ m = Len(y)
    OBVIOUS
  <1> DEFINE B(p, q) == \A S, g : Pairs(g, S, x, y, p, q) => Cardinality(S) <= d[<<p, q>>]
             P == {c \in (0 .. n) \X (0 .. m) : B(c[1], c[2])}
  <1>2. \A p \in 0 .. n, q \in 0 .. m : <<p, q>> \in P <=> B(p, q)
    <2> HIDE DEF B
    <2> QED
      OBVIOUS
  <1>3. ASSUME NEW p \in 0 .. n, NEW q \in 0 .. m,
               \A i \in 0 .. n, j \in 0 .. m : i + j < p + q => <<i, j>> \in P
        PROVE  <<p, q>> \in P
    <2>1. \A i \in 0 .. n, j \in 0 .. m : i + j < p + q => B(i, j)
      <3> HIDE DEF B, P
      <3> QED
        BY <1>2, <1>3
    <2>2. CASE p = 0 \/ q = 0
      <3> SUFFICES ASSUME NEW S, NEW g, Pairs(g, S, x, y, p, q)
                   PROVE  Cardinality(S) <= d[<<p, q>>]
        BY <1>2
      <3>1. S = {}
        BY <2>2 DEF Pairs
      <3>2. Cardinality(S) = 0
        BY <3>1, FS_EmptySet
      <3>3. d[<<p, q>>] = Cell(d, x, y, p, q)
        BY <1>1, TableCell
      <3>4. d[<<p, q>>] = 0
        BY <2>2, <3>3 DEF Cell
      <3> QED
        BY <3>2, <3>4
    <2>3. CASE p # 0 /\ q # 0
      <3>1. p \in 1 .. Len(x) /\ q \in 1 .. Len(y)
        BY <1>1, <2>3
      <3>2. \A i \in 0 .. Len(x), j \in 0 .. Len(y) : i + j < p + q =>
              \A S, g : Pairs(g, S, x, y, i, j) => Cardinality(S) <= d[<<i, j>>]
        BY <1>1, <2>1
      <3>3. ASSUME NEW S, NEW g, Pairs(g, S, x, y, p, q)
            PROVE  Cardinality(S) <= d[<<p, q>>]
        BY <3>1, <3>2, <3>3, PairsFewer
      <3>4. B(p, q)
        BY <3>3
      <3> HIDE DEF B, P
      <3> QED
        BY <1>2, <3>4
    <2> QED
      BY <2>2, <2>3
  <1>4. \A p \in 0 .. n, q \in 0 .. m : <<p, q>> \in P
    <2> HIDE DEF P
    <2> QED
      BY <1>3, CellInduction
  <1>5. \A p \in 0 .. n, q \in 0 .. m : B(p, q)
    <2> HIDE DEF B, P
    <2> QED
      BY <1>2, <1>4
  <1> QED
    BY <1>1, <1>5

\* Some pairing is as large as the entry of the table.
LEMMA TableReached ==
    ASSUME NEW R, NEW x \in Seq(R), NEW y \in Seq(R), NEW d, d = lcs_dp(x, y)
    PROVE  \A p \in 0 .. Len(x), q \in 0 .. Len(y) :
             \E S, g : IsFiniteSet(S) /\ Pairs(g, S, x, y, p, q) /\ Cardinality(S) = d[<<p, q>>]
  <1>1. PICK n \in Nat, m \in Nat : n = Len(x) /\ m = Len(y)
    OBVIOUS
  <1> DEFINE B(p, q) == \E S, g : /\ IsFiniteSet(S) /\ Pairs(g, S, x, y, p, q)
                                  /\ Cardinality(S) = d[<<p, q>>]
             P == {c \in (0 .. n) \X (0 .. m) : B(c[1], c[2])}
  <1>2. \A p \in 0 .. n, q \in 0 .. m : <<p, q>> \in P <=> B(p, q)
    <2> HIDE DEF B
    <2> QED
      OBVIOUS
  <1>3. ASSUME NEW p \in 0 .. n, NEW q \in 0 .. m,
               \A i \in 0 .. n, j \in 0 .. m : i + j < p + q => <<i, j>> \in P
        PROVE  B(p, q)
    <2>1. \A i \in 0 .. n, j \in 0 .. m : i + j < p + q => B(i, j)
      <3> HIDE DEF B, P
      <3> QED
        BY <1>2, <1>3
    <2>2. d[<<p, q>>] = Cell(d, x, y, p, q)
      BY <1>1, TableCell
    <2>3. CASE p = 0 \/ q = 0
      <3>1. d[<<p, q>>] = 0
        BY <2>2, <2>3 DEF Cell
      <3>2. Pairs(<<>>, {}, x, y, p, q)
        BY DEF Pairs
      <3> QED
        BY <3>1, <3>2, FS_EmptySet
    <2>4. CASE p # 0 /\ q # 0 /\ step_eq(x[p], y[q])
      <3>1. p - 1 \in 0 .. n /\ q - 1 \in 0 .. m /\ (p - 1) + (q - 1) < p + q
        BY <2>4
      <3>2. PICK S, g : /\ IsFiniteSet(S) /\ Pairs(g, S, x, y, p - 1, q - 1)
                        /\ Cardinality(S) = d[<<p - 1, q - 1>>]
        BY <2>1, <3>1
      <3> DEFINE U == S \cup {p}
                 h == [i \in U |-> IF i = p THEN q ELSE g[i]]
      <3>3. /\ S \subseteq 1 .. p - 1
            /\ \A i \in S : g[i] \in 1 .. q - 1 /\ step_eq(x[i], y[g[i]])
            /\ \A i, j \in S : i < j => g[i] < g[j]
        BY <3>2 DEF Pairs
      <3>4. p \notin S /\ U \subseteq 1 .. p
        BY <2>4, <3>3
      <3>5. \A i \in U : (i = p => h[i] = q) /\ (i # p => i \in S /\ h[i] = g[i])
        OBVIOUS
      <3> HIDE DEF U, h
      <3>6. ASSUME NEW i \in U PROVE h[i] \in 1 .. q /\ step_eq(x[i], y[h[i]])
        <4>1. CASE i = p
          BY <2>4, <3>5, <4>1
        <4>2. CASE i # p
          <5>1. i \in S /\ h[i] = g[i]
            BY <3>5, <4>2
          <5>2. g[i] \in 1 .. q - 1 /\ step_eq(x[i], y[g[i]])
            BY <3>3, <5>1
          <5> QED
            BY <5>1, <5>2
        <4> QED
          BY <4>1, <4>2
      <3>7. ASSUME NEW i \in U, NEW j \in U, i < j PROVE h[i] < h[j]
        <4>1. i # p
          BY <3>4, <3>7
        <4>2. CASE j = p
          BY <3>3, <3>5, <4>1, <4>2
        <4>3. CASE j # p
          BY <3>3, <3>5, <3>7, <4>1, <4>3
        <4> QED
          BY <4>2, <4>3
      <3>8. Pairs(h, U, x, y, p, q)
        BY <3>4, <3>6, <3>7 DEF Pairs
      <3>9. IsFiniteSet(U) /\ Cardinality(U) = Cardinality(S) + 1
        BY <3>2, <3>4, FS_AddElement DEF U
      <3>10. d[<<p, q>>] = d[<<p - 1, q - 1>>] + 1
        BY <2>2, <2>4, Zenon DEF Cell
      <3> QED
        BY <3>2, <3>8, <3>9, <3>10
    <2>5. CASE p # 0 /\ q # 0 /\ ~step_eq(x[p], y[q])
      <3>1. p - 1 \in 0 .. n /\ q - 1 \in 0 .. m /\ (p - 1) + q < p + q /\ p + (q - 1) < p + q
        BY <2>5
      <3>2. PICK a \in Nat, b \in Nat : a = d[<<p - 1, q>>] /\ b = d[<<p, q - 1>>]
        BY <1>1, <3>1, TableType
      <3>3. d[<<p, q>>] = Max({a, b})
        BY <2>2, <2>5, <3>2, Zenon DEF Cell
      <3>4. d[<<p, q>>] = d[<<p - 1, q>>] \/ d[<<p, q>>] = d[<<p, q - 1>>]
        BY <3>2, <3>3, LargerOfTwo
      <3>5. \A S, g : Pairs(g, S, x, y, p - 1, q) \/ Pairs(g, S, x, y, p, q - 1)
                        => Pairs(g, S, x, y, p, q)
        <4> SUFFICES ASSUME NEW S, NEW g,
                            Pairs(g, S, x, y, p - 1, q) \/ Pairs(g, S, x, y, p, q - 1)
                     PROVE  Pairs(g, S, x, y, p, q)
          OBVIOUS
        <4>1. 1 .. p - 1 \subseteq 1 .. p /\ 1 .. q - 1 \subseteq 1 .. q
          OBVIOUS
        <4> QED
          BY <4>1 DEF Pairs
      <3>6. B(p - 1, q) /\ B(p, q - 1)
        BY <2>1, <3>1
      <3> QED
        BY <3>4, <3>5, <3>6
    <2> HIDE DEF B
    <2> QED
      BY <2>3, <2>4, <2>5
  <1>4. \A p \in 0 .. n, q \in 0 .. m : <<p, q>> \in P
    <2> HIDE DEF B, P
    <2> QED
      BY <1>2, <1>3, CellInduction
  <1>5. \A p \in 0 .. n, q \in 0 .. m : B(p, q)
    <2> HIDE DEF B, P
    <2> QED
      BY <1>2, <1>4
  <1> QED
    BY <1>1, <1>5

-----------------------------------------------------------------------------
(* The backtracking. *)

CommonOps == {k \in DOMAIN ops : IsCommon(ops[k])}

\* What is behind ia and jb has as many common ops as the table promises for
\* it.
FollowsTable ==
    Cardinality(CommonOps) + lcs_dp(ta, tb)[<<ia, jb>>] = lcs_dp(ta, tb)[<<Len(ta), Len(tb)>>]

LEMMA CommonFinite ==
    ASSUME DiffTypeOK
    PROVE  IsFiniteSet(CommonOps) /\ Cardinality(CommonOps) \in Nat
  <1>1. Len(ops) \in Nat /\ DOMAIN ops = 1 .. Len(ops)
    BY DEF DiffTypeOK
  <1>2. IsFiniteSet(DOMAIN ops)
    BY <1>1, FS_Interval
  <1>3. IsFiniteSet(CommonOps)
    BY <1>2, FS_Subset DEF CommonOps
  <1> QED
    BY <1>3, FS_CardinalityType

\* The ops move up by one; one more is common if the new one is.
LEMMA CommonInFront ==
    ASSUME DiffTypeOK, NEW e \in Ops, ops' = <<e>> \o ops
    PROVE  Cardinality(CommonOps') = Cardinality(CommonOps) + (IF IsCommon(e) THEN 1 ELSE 0)
  <1>1. ops \in Seq(Ops) /\ Len(ops) \in Nat /\ DOMAIN ops = 1 .. Len(ops)
    BY DEF DiffTypeOK
  <1>2. /\ DOMAIN ops' = 1 .. Len(ops) + 1 /\ ops'[1] = e
        /\ \A k \in DOMAIN ops : ops'[k + 1] = ops[k]
        /\ \A k \in 2 .. Len(ops) + 1 : k - 1 \in DOMAIN ops /\ ops'[k] = ops[k - 1]
    BY <1>1, PutInFront
  <1>3. PICK C : C = CommonOps
    OBVIOUS
  <1>4. C \subseteq 1 .. Len(ops) /\ IsFiniteSet(C) /\ Cardinality(C) \in Nat
    BY <1>1, <1>3, CommonFinite DEF CommonOps
  <1> DEFINE U == {k \in 2 .. Len(ops) + 1 : k - 1 \in C}
             f == [k \in C |-> k + 1]
  <1>5. \A k \in C : k + 1 \in U
    BY <1>4
  <1>6. f \in [C -> U]
    BY <1>5
  <1>7. \A j, k \in C : f[j] = f[k] => j = k
    BY <1>4
  <1>8. \A u \in U : \E k \in C : f[k] = u
    <2> SUFFICES ASSUME NEW u \in U PROVE \E k \in C : f[k] = u
      OBVIOUS
    <2>1. u - 1 \in C /\ f[u - 1] = u
      OBVIOUS
    <2> QED
      BY <2>1
  <1> HIDE DEF f
  <1>9. ExistsBijection(C, U)
    BY <1>6, <1>7, <1>8 DEF ExistsBijection, Bijection, Injection, Surjection, IsInjective
  <1>10. IsFiniteSet(U) /\ Cardinality(U) = Cardinality(C)
    BY <1>4, <1>9, FS_Bijection
  <1>11. 1 \notin U
    OBVIOUS
  <1>12. \A k \in 2 .. Len(ops) + 1 : IsCommon(ops'[k]) <=> k \in U
    BY <1>1, <1>2, <1>3 DEF CommonOps
  <1>13. CommonOps' = {k \in DOMAIN ops' : IsCommon(ops'[k])}
    BY DEF CommonOps, IsCommon
  <1>14. CommonOps' = IF IsCommon(e) THEN U \cup {1} ELSE U
    <2> DEFINE V == CommonOps'
    <2>1. \A k : k \in V <=> k \in 1 .. Len(ops) + 1 /\ IsCommon(ops'[k])
      BY <1>2, <1>13
    <2>2. \A k \in U : k \in 2 .. Len(ops) + 1
      OBVIOUS
    <2> HIDE DEF U
    <2>3. \A k \in 1 .. Len(ops) + 1 : k = 1 \/ k \in 2 .. Len(ops) + 1
      BY <1>1
    <2>4. 1 \in 1 .. Len(ops) + 1 /\ \A k \in 2 .. Len(ops) + 1 : k \in 1 .. Len(ops) + 1
      BY <1>1
    <2> HIDE DEF V
    <2>5. V = IF IsCommon(e) THEN U \cup {1} ELSE U
      BY <1>2, <1>12, <2>1, <2>2, <2>3, <2>4
    <2> QED
      BY <2>5 DEF V
  <1> HIDE DEF U
  <1>15. CASE IsCommon(e)
    <2>1. Cardinality(U \cup {1}) = Cardinality(U) + 1
      BY <1>10, <1>11, FS_AddElement
    <2>2. CommonOps' = U \cup {1}
      BY <1>14, <1>15
    <2> QED
      BY <1>3, <1>10, <1>15, <2>1, <2>2
  <1>16. CASE ~IsCommon(e)
    BY <1>3, <1>4, <1>10, <1>14, <1>16
  <1> QED
    BY <1>15, <1>16

LEMMA FollowsTableInit == DiffInit => FollowsTable
  <1> SUFFICES ASSUME DiffInit PROVE FollowsTable
    OBVIOUS
  <1>1. ta \in Seq(Rows) /\ tb \in Seq(Rows) /\ ia = Len(ta) /\ jb = Len(tb)
    BY EventsType DEF DiffInit
  <1>2. CommonOps = {}
    BY DEF DiffInit, CommonOps
  <1>3. Cardinality(CommonOps) = 0
    BY <1>2, FS_EmptySet
  <1>4. lcs_dp(ta, tb)[<<Len(ta), Len(tb)>>] \in Nat
    <2>1. Len(ta) \in 0 .. Len(ta) /\ Len(tb) \in 0 .. Len(tb)
      BY <1>1
    <2> QED
      BY <1>1, <2>1, TableType
  <1> QED
    BY <1>1, <1>3, <1>4 DEF FollowsTable

LEMMA FollowsTableStep == DiffInv /\ FollowsTable /\ [DiffNext]_diffVars => FollowsTable'
  <1> SUFFICES ASSUME DiffInv, FollowsTable, [DiffNext]_diffVars PROVE FollowsTable'
    OBVIOUS
  <1>1. PICK d : d = lcs_dp(ta, tb)
    OBVIOUS
  <1>2. ta' = ta /\ tb' = tb
    BY DEF DiffNext, BacktrackCommon, BacktrackOnlyA, BacktrackOnlyB, BacktrackDone, Emit,
           diffVars
  <1>3. PICK n \in Nat, m \in Nat : n = Len(ta) /\ m = Len(tb)
    BY DEF DiffInv, DiffTypeOK
  <1>4. /\ DiffTypeOK /\ ta \in Seq(Rows) /\ tb \in Seq(Rows)
        /\ ia \in 0 .. n /\ jb \in 0 .. m
    BY <1>3 DEF DiffInv, DiffTypeOK
  <1>5. \A p \in 0 .. n, q \in 0 .. m : d[<<p, q>>] \in Nat /\ d[<<p, q>>] = Cell(d, ta, tb, p, q)
    BY <1>1, <1>3, <1>4, TableType, TableCell
  <1>6. /\ FollowsTable <=> Cardinality(CommonOps) + d[<<ia, jb>>] = d[<<n, m>>]
        /\ FollowsTable' <=> Cardinality(CommonOps') + d[<<ia', jb'>>] = d[<<n, m>>]
    <2>1. lcs_dp(ta, tb)' = d
      BY <1>1, <1>2 DEF lcs_dp, step_eq
    <2> QED
      BY <1>1, <1>2, <1>3, <2>1 DEF FollowsTable
  <1>7. Cardinality(CommonOps) \in Nat
    BY <1>4, CommonFinite
  <1>8. CASE BacktrackCommon
    <2>1. /\ ia # 0 /\ jb # 0 /\ step_eq(ta[ia], tb[jb])
          /\ ia - 1 \in 0 .. n /\ jb - 1 \in 0 .. m
          /\ ia' = ia - 1 /\ jb' = jb - 1
      BY <1>4, <1>8 DEF BacktrackCommon, BothLeft
    <2>2. PICK e : e = [a |-> ia, b |-> jb]
      OBVIOUS
    <2>3. e \in Ops /\ IsCommon(e) /\ ops' = <<e>> \o ops
      <3>1. e \in Ops
        BY <1>3, <1>4, <2>2 DEF Ops
      <3>2. IsCommon(e)
        BY <2>1, <2>2 DEF IsCommon
      <3>3. ops' = <<e>> \o ops
        BY <1>8, <2>2, Zenon DEF BacktrackCommon, Emit
      <3> QED
        BY <3>1, <3>2, <3>3
    <2>4. Cardinality(CommonOps') = Cardinality(CommonOps) + 1
      BY <1>4, <1>7, <2>3, CommonInFront
    <2>5. d[<<ia, jb>>] = d[<<ia - 1, jb - 1>>] + 1
      BY <1>4, <1>5, <2>1 DEF Cell
    <2>6. d[<<ia - 1, jb - 1>>] \in Nat
      BY <1>5, <2>1
    <2> QED
      BY <1>6, <1>7, <2>1, <2>4, <2>5, <2>6
  <1>9. CASE BacktrackOnlyA
    <2>1. /\ ia # 0 /\ ia - 1 \in 0 .. n /\ ia' = ia - 1 /\ jb' = jb
          /\ jb # 0 => ~step_eq(ta[ia], tb[jb]) /\ d[<<ia - 1, jb>>] >= d[<<ia, jb - 1>>]
      BY <1>1, <1>4, <1>9 DEF BacktrackOnlyA, GoesToA
    <2>2. PICK e : e = [a |-> ia, b |-> 0]
      OBVIOUS
    <2>3. e \in Ops /\ ~IsCommon(e) /\ ops' = <<e>> \o ops
      <3>1. e \in Ops
        BY <1>3, <1>4, <2>2 DEF Ops
      <3>2. ~IsCommon(e)
        BY <2>2 DEF IsCommon
      <3>3. ops' = <<e>> \o ops
        BY <1>9, <2>2, Zenon DEF BacktrackOnlyA, Emit
      <3> QED
        BY <3>1, <3>2, <3>3
    <2>4. Cardinality(CommonOps') = Cardinality(CommonOps)
      <3>1. Cardinality(CommonOps') = Cardinality(CommonOps) + 0
        BY <1>4, <2>3, CommonInFront, ZenonT(40)
      <3> QED
        BY <1>7, <3>1, SMTT(30)
    <2>5. d[<<ia, jb>>] = d[<<ia - 1, jb>>]
      <3>1. CASE jb = 0
        <4>1. d[<<ia, jb>>] = Cell(d, ta, tb, ia, jb) /\ d[<<ia - 1, jb>>] = Cell(d, ta, tb, ia - 1, jb)
          BY <1>4, <1>5, <2>1
        <4> QED
          BY <3>1, <4>1, Zenon DEF Cell
      <3>2. CASE jb # 0
        <4>1. jb - 1 \in 0 .. m
          BY <1>4, <3>2
        <4>2. PICK a \in Nat, b \in Nat : a = d[<<ia - 1, jb>>] /\ b = d[<<ia, jb - 1>>]
          BY <1>4, <1>5, <2>1, <4>1
        <4>3. Max({a, b}) = a
          BY <2>1, <3>2, <4>2, LargerOfTwo
        <4>4. d[<<ia, jb>>] = Cell(d, ta, tb, ia, jb)
          BY <1>4, <1>5
        <4> QED
          BY <2>1, <3>2, <4>2, <4>3, <4>4, Zenon DEF Cell
      <3> QED
        BY <3>1, <3>2
    <2> QED
      BY <1>6, <2>1, <2>4, <2>5
  <1>10. CASE BacktrackOnlyB
    <2>1. /\ jb # 0 /\ jb - 1 \in 0 .. m /\ jb' = jb - 1 /\ ia' = ia
          /\ ia # 0 => ~step_eq(ta[ia], tb[jb]) /\ ~(d[<<ia - 1, jb>>] >= d[<<ia, jb - 1>>])
      BY <1>1, <1>4, <1>10 DEF BacktrackOnlyB, GoesToA
    <2>2. PICK e : e = [a |-> 0, b |-> jb]
      OBVIOUS
    <2>3. e \in Ops /\ ~IsCommon(e) /\ ops' = <<e>> \o ops
      <3>1. e \in Ops
        BY <1>3, <1>4, <2>2 DEF Ops
      <3>2. ~IsCommon(e)
        BY <2>2 DEF IsCommon
      <3>3. ops' = <<e>> \o ops
        BY <1>10, <2>2, Zenon DEF BacktrackOnlyB, Emit
      <3> QED
        BY <3>1, <3>2, <3>3
    <2>4. Cardinality(CommonOps') = Cardinality(CommonOps)
      <3>1. Cardinality(CommonOps') = Cardinality(CommonOps) + 0
        BY <1>4, <2>3, CommonInFront, ZenonT(40)
      <3> QED
        BY <1>7, <3>1, SMTT(30)
    <2>5. d[<<ia, jb>>] = d[<<ia, jb - 1>>]
      <3>1. CASE ia = 0
        <4>1. d[<<ia, jb>>] = Cell(d, ta, tb, ia, jb) /\ d[<<ia, jb - 1>>] = Cell(d, ta, tb, ia, jb - 1)
          BY <1>4, <1>5, <2>1
        <4> QED
          BY <3>1, <4>1, Zenon DEF Cell
      <3>2. CASE ia # 0
        <4>1. ia - 1 \in 0 .. n
          BY <1>4, <3>2
        <4>2. PICK a \in Nat, b \in Nat : a = d[<<ia - 1, jb>>] /\ b = d[<<ia, jb - 1>>]
          BY <1>4, <1>5, <2>1, <4>1
        <4>3. Max({a, b}) = b
          BY <2>1, <3>2, <4>2, LargerOfTwo
        <4>4. d[<<ia, jb>>] = Cell(d, ta, tb, ia, jb)
          BY <1>4, <1>5
        <4> QED
          BY <2>1, <3>2, <4>2, <4>3, <4>4, Zenon DEF Cell
      <3> QED
        BY <3>1, <3>2
    <2> QED
      BY <1>6, <2>1, <2>4, <2>5
  <1>11. CASE BacktrackDone \/ UNCHANGED diffVars
    <2>1. ops' = ops /\ ia' = ia /\ jb' = jb
      BY <1>11 DEF BacktrackDone, diffVars
    <2>2. CommonOps' = CommonOps
      BY <2>1 DEF CommonOps, IsCommon
    <2> QED
      BY <1>6, <2>1, <2>2
  <1> QED
    BY <1>8, <1>9, <1>10, <1>11 DEF DiffNext

\* The alignment has as many common ops as any pairing of equal steps of the
\* two traces in their order, for all traces.
THEOREM AlignmentMostCommon == DiffSpec => []MostCommon
  <1>1. DiffInv /\ FollowsTable => MostCommon
    <2> SUFFICES ASSUME DiffInv, FollowsTable, dpc = "done"
                 PROVE  stats.common = Max({Cardinality(S) : S \in Matched})
      BY DEF MostCommon
    <2>1. PICK d : d = lcs_dp(ta, tb)
      OBVIOUS
    <2>2. PICK n \in Nat, m \in Nat : n = Len(ta) /\ m = Len(tb)
      BY DEF DiffInv, DiffTypeOK
    <2>3. /\ DiffTypeOK /\ ta \in Seq(Rows) /\ tb \in Seq(Rows) /\ ia = 0 /\ jb = 0
          /\ DOMAIN ta = 1 .. n /\ DOMAIN tb = 1 .. m
          /\ n \in 0 .. n /\ m \in 0 .. m /\ 0 \in 0 .. n /\ 0 \in 0 .. m
      BY <2>2 DEF DiffInv, DiffTypeOK
    <2>4. stats.common = Cardinality(CommonOps)
      BY DEF stats, CommonOps
    <2>5. stats.common = d[<<n, m>>]
      <3>1. d[<<0, 0>>] = 0
        <4>1. d[<<0, 0>>] = Cell(d, ta, tb, 0, 0)
          BY <2>1, <2>2, <2>3, TableCell
        <4> QED
          BY <4>1 DEF Cell
      <3>2. Cardinality(CommonOps) \in Nat
        BY <2>3, CommonFinite
      <3>3. Cardinality(CommonOps) + d[<<0, 0>>] = d[<<n, m>>]
        BY <2>1, <2>2, <2>3 DEF FollowsTable
      <3> QED
        BY <2>4, <3>1, <3>2, <3>3
    <2>6. ASSUME NEW S \in Matched PROVE Cardinality(S) <= d[<<n, m>>]
      <3>1. PICK g \in [S -> DOMAIN tb] :
              /\ \A x \in S : ta[x].dir = tb[g[x]].dir /\ ta[x].hash = tb[g[x]].hash
              /\ \A x, y \in S : x < y => g[x] < g[y]
        BY DEF Matched
      <3>2. S \subseteq 1 .. n
        BY <2>3 DEF Matched
      <3>3. Pairs(g, S, ta, tb, n, m)
        BY <2>3, <3>1, <3>2 DEF Pairs, step_eq
      <3> QED
        BY <2>1, <2>2, <2>3, <3>3, TableBounds
    <2>7. PICK S \in Matched : Cardinality(S) = d[<<n, m>>]
      <3>1. PICK S, g : Pairs(g, S, ta, tb, n, m) /\ Cardinality(S) = d[<<n, m>>]
        BY <2>1, <2>2, <2>3, TableReached
      <3>2. PICK h : h = [i \in S |-> g[i]]
        OBVIOUS
      <3>3. /\ S \subseteq 1 .. n
            /\ \A i \in S : g[i] \in 1 .. m /\ step_eq(ta[i], tb[g[i]])
            /\ \A i, j \in S : i < j => g[i] < g[j]
        BY <3>1 DEF Pairs
      <3>4. h \in [S -> 1 .. m] /\ \A i \in S : h[i] = g[i]
        BY <3>2, <3>3
      <3>5. S \in Matched
        <4>1. S \in SUBSET DOMAIN ta /\ h \in [S -> DOMAIN tb]
          BY <2>3, <3>3, <3>4
        <4>2. /\ \A x \in S : ta[x].dir = tb[h[x]].dir /\ ta[x].hash = tb[h[x]].hash
              /\ \A x, y \in S : x < y => h[x] < h[y]
          BY <3>3, <3>4 DEF step_eq
        <4> QED
          BY <4>1, <4>2, Zenon DEF Matched
      <3> QED
        BY <3>1, <3>5
    <2>8. PICK C : C = {Cardinality(T) : T \in Matched}
      OBVIOUS
    <2>9. d[<<n, m>>] \in C /\ (\A c \in C : c <= d[<<n, m>>]) /\ d[<<n, m>>] \in Nat
      BY <2>1, <2>2, <2>3, <2>6, <2>7, <2>8, TableType
    <2>10. \A c \in C : c \in Nat
      <3>1. ASSUME NEW T \in Matched PROVE Cardinality(T) \in Nat
        <4>1. T \subseteq 1 .. n /\ IsFiniteSet(1 .. n)
          BY <2>3, FS_Interval DEF Matched
        <4>2. IsFiniteSet(T)
          BY <4>1, FS_Subset
        <4> QED
          BY <4>2, FS_CardinalityType
      <3> QED
        BY <2>8, <3>1
    <2>11. Max(C) = d[<<n, m>>]
      <3>1. PICK v : v = d[<<n, m>>]
        OBVIOUS
      <3>2. v \in C /\ v \in Nat /\ \A c \in C : v >= c
        BY <2>9, <2>10, <3>1
      <3>3. Max(C) \in C /\ \A c \in C : Max(C) >= c
        BY <3>2 DEF Max
      <3>4. Max(C) = v
        <4>1. PICK w : w = Max(C)
          OBVIOUS
        <4>2. w \in C /\ w \in Nat /\ w >= v /\ v >= w
          BY <2>10, <3>2, <3>3, <4>1
        <4> QED
          BY <3>2, <4>1, <4>2
      <3> QED
        BY <3>1, <3>4
    <2> QED
      BY <2>5, <2>8, <2>11
  <1> QED
    BY <1>1, DiffInvInit, DiffInvStep, FollowsTableInit, FollowsTableStep, PTL DEF DiffSpec

=============================================================================
