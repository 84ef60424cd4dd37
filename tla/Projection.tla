----------------------------- MODULE Projection -----------------------------
(***************************************************************************)
(* The loops of the tools that walk over a sequence and keep some of its   *)
(* elements: the lines that are frames, the rows of one direction.         *)
(* SelectSeq says the same; Only is written out as a function, so that     *)
(* TraceFormatProofs can state and prove what it computes.                 *)
(***************************************************************************)
EXTENDS Naturals, Sequences

\* The elements of the sequence s that are in the set T, in their order.
Only(s, T) ==
    LET kept[n \in 0 .. Len(s)] ==
          IF n = 0 THEN <<>>
          ELSE IF s[n] \in T THEN Append(kept[n - 1], s[n]) ELSE kept[n - 1]
    IN  kept[Len(s)]

=============================================================================
