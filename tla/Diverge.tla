------------------------------ MODULE Diverge ------------------------------
(***************************************************************************)
(* Divergence analysis (crates/acp-diverge): lcs_diff aligns the steps of  *)
(* two traces along a longest common subsequence, diff_steps counts, and   *)
(* `acp diff` turns the counts into its exit code.                         *)
(*                                                                         *)
(*   ta, tb   the events of the two readers; a Step is four fields of one  *)
(*   ia, jb   how many steps of each trace the backtracking has still to   *)
(*            put into ops                                                 *)
(*   ops      the alignment in its final order: the code pushes and then   *)
(*            reverses, the model puts each op in front.  An op names the  *)
(*            steps it shows by position, 0 for none: Common has both,     *)
(*            OnlyA and OnlyB have one.                                    *)
(*   dpc      "backtrack" or "done"                                        *)
(***************************************************************************)
EXTENDS TraceFormat, SequencesExt

CONSTANTS
    Entries,   \* <<direction, raw>> pairs traces are made of
    MaxSteps   \* length of a trace

ASSUME DivergeAssumption == Entries \subseteq Directions \X Frames /\ MaxSteps \in Nat

VARIABLES ta, tb, ia, jb, ops, dpc

diffVars == <<ta, tb, ia, jb, ops, dpc>>

\* The events of a trace of these entries.
EventsOf(s) == [k \in DOMAIN s |-> EventRecord(k - 1, s[k][1], s[k][2])]

DiffInit ==
    /\ ta \in {EventsOf(s) : s \in BoundedSeq(Entries, MaxSteps)}
    /\ tb \in {EventsOf(s) : s \in BoundedSeq(Entries, MaxSteps)}
    /\ ia = Len(ta) /\ jb = Len(tb)
    /\ ops = <<>> /\ dpc = "backtrack"

-----------------------------------------------------------------------------
\* Mutant: a frame and its echo in the other direction are one step.
step_eq_hash(x, y) == x.hash = y.hash

step_eq(x, y) == x.dir = y.dir /\ x.hash = y.hash

\* The table of lcs_diff: the LCS length of the first p steps of x and the
\* first q steps of y.
lcs_dp(x, y) ==
    LET dp[c \in (0 .. Len(x)) \X (0 .. Len(y))] ==
          LET p == c[1]
              q == c[2]
          IN  IF p = 0 \/ q = 0 THEN 0
              ELSE IF step_eq(x[p], y[q]) THEN dp[<<p - 1, q - 1>>] + 1
              ELSE Max({dp[<<p - 1, q>>], dp[<<p, q - 1>>]})
    IN  dp

\* Mutant: the comparison is the wrong way round.
GoesToAReversed(p, q) == lcs_dp(ta, tb)[<<p - 1, q>>] <= lcs_dp(ta, tb)[<<p, q - 1>>]

\* Which trace gives up a step when the last ones differ; ties go to A.
GoesToA(p, q) == lcs_dp(ta, tb)[<<p - 1, q>>] >= lcs_dp(ta, tb)[<<p, q - 1>>]

Emit(op) == ops' = <<op>> \o ops /\ UNCHANGED <<ta, tb, dpc>>

BothLeft == ia > 0 /\ jb > 0

BacktrackCommon ==
    /\ dpc = "backtrack" /\ BothLeft
    /\ step_eq(ta[ia], tb[jb])
    /\ Emit([a |-> ia, b |-> jb])
    /\ ia' = ia - 1 /\ jb' = jb - 1

\* Mutant: the loop over what is left of A makes one turn too many.
BacktrackOnlyAOneMore ==
    /\ dpc = "backtrack"
    /\ ia > 0 \/ jb = 0
    /\ jb > 0 => ~step_eq(ta[ia], tb[jb]) /\ GoesToA(ia, jb)
    /\ Emit([a |-> ia, b |-> 0])
    /\ ia' = ia - 1 /\ UNCHANGED jb

\* A step of A alone: by the table, or left over when B is used up.
BacktrackOnlyA ==
    /\ dpc = "backtrack" /\ ia > 0
    /\ jb > 0 => ~step_eq(ta[ia], tb[jb]) /\ GoesToA(ia, jb)
    /\ Emit([a |-> ia, b |-> 0])
    /\ ia' = ia - 1 /\ UNCHANGED jb

BacktrackOnlyB ==
    /\ dpc = "backtrack" /\ jb > 0
    /\ ia > 0 => ~step_eq(ta[ia], tb[jb]) /\ ~GoesToA(ia, jb)
    /\ Emit([a |-> 0, b |-> jb])
    /\ jb' = jb - 1 /\ UNCHANGED ia

\* Mutant: what is left over of one trace is forgotten.
BacktrackDoneEarly ==
    /\ dpc = "backtrack" /\ ~BothLeft
    /\ dpc' = "done"
    /\ UNCHANGED <<ta, tb, ia, jb, ops>>

BacktrackDone ==
    /\ dpc = "backtrack" /\ ia = 0 /\ jb = 0
    /\ dpc' = "done"
    /\ UNCHANGED <<ta, tb, ia, jb, ops>>

DiffNext == BacktrackCommon \/ BacktrackOnlyA \/ BacktrackOnlyB \/ BacktrackDone

DiffSpec == DiffInit /\ [][DiffNext]_diffVars

-----------------------------------------------------------------------------
\* The counts of diff_steps; first_divergence is an Option, <<>> or <<k>>.
IsCommon(op) == op.a # 0 /\ op.b # 0
Divergent == {k \in DOMAIN ops : ~IsCommon(ops[k])}
stats ==
    [common |-> Cardinality({k \in DOMAIN ops : IsCommon(ops[k])}),
     only_a |-> Cardinality({k \in DOMAIN ops : ops[k].b = 0}),
     only_b |-> Cardinality({k \in DOMAIN ops : ops[k].a = 0}),
     first_divergence |-> IF Divergent = {} THEN <<>> ELSE <<Min(Divergent) - 1>>]

\* The exit code of `acp diff`.
cmd_diff == IF stats.only_a = 0 /\ stats.only_b = 0 THEN 0 ELSE 1

-----------------------------------------------------------------------------
(* Properties *)

Ops == [a : 0 .. Len(ta), b : 0 .. Len(tb)]

DiffTypeOK ==
    /\ ta \in Seq(Rows) /\ tb \in Seq(Rows)
    /\ ia \in 0 .. Len(ta) /\ jb \in 0 .. Len(tb)
    /\ ops \in Seq(Ops)
    /\ dpc \in {"backtrack", "done"}

\* The steps behind position p of A and q of B are in the alignment, each in
\* its own trace's order, and an op that shows one of each shows equal steps.
Aligned(p, q) ==
    /\ \A s \in p + 1 .. Len(ta) : \E k \in DOMAIN ops : ops[k].a = s
    /\ \A s \in q + 1 .. Len(tb) : \E k \in DOMAIN ops : ops[k].b = s
    /\ \A k, l \in DOMAIN ops : k < l =>
         /\ ops[k].a # 0 /\ ops[l].a # 0 => ops[k].a < ops[l].a
         /\ ops[k].b # 0 /\ ops[l].b # 0 => ops[k].b < ops[l].b
    /\ \A k \in DOMAIN ops :
         /\ ops[k].a # 0 \/ ops[k].b # 0
         /\ IsCommon(ops[k]) => step_eq(ta[ops[k].a], tb[ops[k].b])

\* The finished alignment loses, doubles and reorders nothing: read for one
\* side, it is that trace, and its common ops are a common subsequence.
AlignmentComplete == dpc = "done" => Aligned(0, 0)

\* The steps of A in a common subsequence: they have partners in B, equal
\* and in the same order.
Matched ==
    {S \in SUBSET DOMAIN ta :
       \E g \in [S -> DOMAIN tb] :
         /\ \A x \in S : ta[x].dir = tb[g[x]].dir /\ ta[x].hash = tb[g[x]].hash
         /\ \A x, y \in S : x < y => g[x] < g[y]}

\* No alignment has more common ops: the table, its backtracking and the
\* rule for ties find a longest common subsequence.  So the counts are the
\* same, mirrored, when the traces are swapped.
MostCommon ==
    dpc = "done" => stats.common = Max({Cardinality(S) : S \in Matched})

\* `acp diff` reports 0 exactly for traces with the same steps in the same
\* order, and before first_divergence the traces agree position by position,
\* so it never lies behind the place where the sessions part.
ExitTellsDifference ==
    LET same(k) == /\ k \in DOMAIN ta /\ k \in DOMAIN tb
                   /\ ta[k].dir = tb[k].dir /\ ta[k].hash = tb[k].hash
    IN  dpc = "done" =>
          /\ cmd_diff = 0 <=> Len(ta) = Len(tb) /\ \A k \in DOMAIN ta : same(k)
          /\ cmd_diff = 0 <=> stats.first_divergence = <<>>
          /\ cmd_diff = 1 => \A k \in 1 .. stats.first_divergence[1] : same(k)

=============================================================================
