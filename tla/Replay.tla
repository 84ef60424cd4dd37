------------------------------- MODULE Replay -------------------------------
(***************************************************************************)
(* The replay engine (crates/acp-replay): replay_interactive_with plays    *)
(* the recorded agent against a live client, strictly or with the client's *)
(* ids mapped; replay_offline is the reference for what it may emit.       *)
(*                                                                         *)
(* The recording (chosen by Init, then fixed):                             *)
(*   taped     the recorded frames: direction and original bytes           *)
(*   rows      the TraceReader's events                                    *)
(*   store     the blobs that are still in the trace directory             *)
(*   remap     ReplayOptions.remap_ids                                     *)
(* The engine:                                                             *)
(*   cursor    rows passed; id_map recorded id -> client id                *)
(*   pc        "emit", "read", or how the call returned: "ok", "diverged", *)
(*             "exhausted" (both Err), "failed" (other Err)                *)
(*   emitted, out   the lines written to the client and their count        *)
(*   accepted  the client frames consumed so far                           *)
(***************************************************************************)
EXTENDS TraceFormat, Projection, SequencesExt

CONSTANTS
    Tape,         \* <<direction, raw>> pairs recordings are made of
    MaxTape,      \* length of a recording
    ClientLines,  \* lines the live client may write
    Remaps,       \* values of remap_ids to try
    MaxLost,      \* blobs that may be missing when the trace is read
    ReuseIds      \* whether a recorded client may use an id more than once

ASSUME ReplayAssumption ==
    /\ Tape \subseteq Directions \X Frames
    /\ ClientLines \subseteq Lines
    /\ MaxTape \in Nat /\ MaxLost \in Nat
    /\ Remaps \subseteq BOOLEAN /\ ReuseIds \in BOOLEAN

VARIABLES taped, rows, store, remap, cursor, id_map, pc, emitted, out, accepted

recording == <<taped, rows, store, remap>>
engine    == <<cursor, id_map, pc, emitted, out, accepted>>
vars      == <<recording, engine>>

Clients(s) == Only(s, {"c2a"} \X Frames)
Agents(s)  == Only(s, {"a2c"} \X Frames)

\* The blobs record() leaves for these frames: the first layout of each.
BlobsOf(s) ==
    LET first(h) == Min({i \in DOMAIN s : payload_hash(s[i][2]) = h})
    IN  [h \in {payload_hash(s[i][2]) : i \in DOMAIN s} |-> s[first(h)][2]]

\* How the recorded client numbered its requests: an id is used again only
\* if ReuseIds, and then only after the earlier request was answered.
IsAsk(x, i)    == x[1] = "c2a" /\ kind(x[2]) = "request" /\ x[2].id = i
IsAnswer(x, i) == x[1] = "a2c" /\ kind(x[2]) = "response" /\ x[2].id = i
NumberedWell(s) ==
    \A i, j \in DOMAIN s, x \in Ids : i < j /\ IsAsk(s[i], x) /\ IsAsk(s[j], x) =>
        ReuseIds /\ \E k \in i + 1 .. j - 1 : IsAnswer(s[k], x)

Lost(full) == {S \in SUBSET DOMAIN full : \E n \in 0 .. MaxLost : Cardinality(S) = n}

Init ==
    /\ taped \in BoundedSeq(Tape, MaxTape)
    /\ NumberedWell(taped)
    /\ rows = [i \in DOMAIN taped |-> EventRecord(i - 1, taped[i][1], taped[i][2])]
    /\ \E S \in Lost(BlobsOf(taped)) :
         store = [h \in DOMAIN BlobsOf(taped) \ S |-> BlobsOf(taped)[h]]
    /\ remap \in Remaps
    /\ cursor = 0 /\ id_map = [i \in {} |-> None]
    /\ pc = "emit" /\ emitted = 0 /\ out = <<>> /\ accepted = <<>>

-----------------------------------------------------------------------------
\* hash_with_id: the hash of the line with its "id" key, if any, replaced.
hash_with_id(l, i) == payload_hash(IF l.id = None THEN l ELSE [l EXCEPT !.id = i])

\* rewrite_id_in_value: the line parsed, given another id, and serialised
\* again by serde_json::to_vec.
rewrite_id_in_value(l, i) == [l EXCEPT !.id = i, !.layout = "compact"]

\* Mutants: every payload is parsed and serialised again; the ids of all
\* kinds of frames are mapped; none is.
EmissionReserialised(row) == rewrite_id_in_value(store[row.hash], store[row.hash].id)
EmissionAnyKind(row) ==
    LET bytes == store[row.hash]
    IN  IF remap /\ from_value(bytes.id) \in DOMAIN id_map
        THEN rewrite_id_in_value(bytes, id_map[from_value(bytes.id)])
        ELSE bytes
EmissionUnmapped(row) == store[row.hash]

\* What emit_a2c_block writes for a row: responses go through the id map.
Emission(row) ==
    LET bytes == store[row.hash]
    IN  IF /\ remap /\ row.kind = "response"
           /\ from_value(bytes.id) \in DOMAIN id_map
        THEN rewrite_id_in_value(bytes, id_map[from_value(bytes.id)])
        ELSE bytes

\* Mutant: the block does not end at a C2a row.
AtAnyRow == cursor < Len(rows)

AtAgentRow == cursor < Len(rows) /\ rows[cursor + 1].dir = "a2c"

\* One iteration of emit_a2c_block; a payload that does not load is an error.
EmitRow ==
    /\ pc = "emit" /\ AtAgentRow
    /\ \/ /\ Loads(store, rows[cursor + 1])
          /\ out' = Append(out, Emission(rows[cursor + 1]))
          /\ emitted' = emitted + 1
          /\ cursor' = cursor + 1
          /\ UNCHANGED pc
       \/ /\ ~Loads(store, rows[cursor + 1])
          /\ pc' = "failed"
          /\ UNCHANGED <<out, emitted, cursor>>
    /\ UNCHANGED <<recording, id_map, accepted>>

\* The block is over: at the next C2a row, or at the end of the trace.
EmitDone ==
    /\ pc = "emit" /\ ~AtAgentRow
    /\ pc' = "read"
    /\ UNCHANGED <<recording, cursor, id_map, emitted, out, accepted>>

\* find_next_c2a: the indices of the C2a rows from the cursor on.
NextC2a == {i \in cursor + 1 .. Len(rows) : rows[i].dir = "c2a"}

\* Mutant: only the recorded frame needs an id.
RecordedId(row, l) == row.id # None /\ l.id # None

\* Ids are compared away only if the recorded and the live frame have one.
BothIds(row, l) == row.id # None /\ from_value(l.id) # None

\* The client's frame l is taken for row i: go on behind it.
Accept(l, i) ==
    /\ cursor' = i
    /\ accepted' = Append(accepted, raw(l))
    /\ pc' = "emit"

\* The client ends its stream: Ok, however much of the trace is left.
ReadEof ==
    /\ pc = "read"
    /\ pc' = "ok"
    /\ UNCHANGED <<recording, cursor, id_map, emitted, out, accepted>>

\* A line that is no frame.
ReadBad(l) ==
    /\ pc = "read" /\ ~IsBlank(l) /\ ~Parses(l)
    /\ pc' = "failed"
    /\ UNCHANGED <<recording, cursor, id_map, emitted, out, accepted>>

\* A frame, compared with the next C2a row: equal hashes; with remap_ids,
\* equal hashes once the client's id is replaced by the recorded one, which
\* is then remembered; otherwise a divergence.
ReadFrame(l) ==
    /\ pc = "read" /\ ~IsBlank(l) /\ Parses(l)
    /\ \/ /\ NextC2a = {}
          /\ pc' = "exhausted"
          /\ UNCHANGED <<cursor, id_map, accepted>>
       \/ /\ NextC2a # {}
          /\ LET i     == Min(NextC2a)
                 want  == rows[i].hash
                 equal == payload_hash(l) = want
                 renum == remap /\ BothIds(rows[i], l) /\ hash_with_id(l, rows[i].id) = want
             IN  \/ equal /\ Accept(l, i) /\ UNCHANGED id_map
                 \/ /\ ~equal /\ renum
                    /\ Accept(l, i)
                    /\ id_map' = [x \in DOMAIN id_map \cup {rows[i].id} |->
                                    IF x = rows[i].id THEN l.id ELSE id_map[x]]
                 \/ /\ ~equal /\ ~renum
                    /\ pc' = "diverged"
                    /\ UNCHANGED <<cursor, id_map, accepted>>
    /\ UNCHANGED <<recording, emitted, out>>

Returned == pc \in {"ok", "diverged", "exhausted", "failed"} /\ UNCHANGED vars

Next ==
    \/ EmitRow \/ EmitDone \/ ReadEof
    \/ \E l \in ClientLines : ReadBad(l) \/ ReadFrame(l)
    \/ Returned

Spec == Init /\ [][Next]_vars

-----------------------------------------------------------------------------
\* replay_offline: the stored bytes of every A2c row, in order, up to the
\* first one that does not load.
replay_offline ==
    LET mine == Only(rows, RowsOf("a2c"))
        bad  == {i \in DOMAIN mine : ~Loads(store, mine[i])}
    IN  [i \in 1 .. Min(bad \cup {Len(mine) + 1}) - 1 |-> store[mine[i].hash]]

(* Properties *)

TypeOK ==
    /\ taped \in Seq(Tape) /\ rows \in Seq(Rows) /\ remap \in Remaps
    /\ DOMAIN store \subseteq Hashes /\ store \in [DOMAIN store -> Frames]
    /\ cursor \in 0 .. Len(rows)
    /\ DOMAIN id_map \subseteq Ids /\ id_map \in [DOMAIN id_map -> Ids]
    /\ pc \in {"emit", "read", "ok", "diverged", "exhausted", "failed"}
    /\ emitted = Len(out) /\ out \in Seq(Raws) /\ accepted \in Seq(Raws)

\* The client never gets an answer early or out of order: what was emitted
\* are the A2c rows before the cursor and what was accepted are the C2a rows
\* before it, so each line follows exactly the client frames it followed in
\* the recording.
RecordedOrder ==
    LET passed == SubSeq(taped, 1, cursor)
    IN  /\ Len(out) = Len(Agents(passed))
        /\ Len(accepted) = Len(Clients(passed))

\* Without remap_ids a session replays exactly: every accepted frame has the
\* payload of the recorded one, the output is byte for byte a prefix of what
\* replay_offline writes, and all of it once the client has sent every
\* recorded frame.
StrictReplayExact ==
    ~remap =>
      /\ \A i \in DOMAIN accepted :
           payload_hash(accepted[i]) = payload_hash(Clients(taped)[i][2])
      /\ IsPrefix(out, replay_offline)
      /\ pc = "read" /\ Len(accepted) = Len(Clients(taped)) => out = replay_offline

\* With remap_ids, only ids may differ from the recording, on either side,
\* and only the ids of responses on the way out.
RemapChangesIdsOnly ==
    /\ \A i \in DOMAIN accepted :
         LET rec == Clients(taped)[i][2]
         IN  hash_with_id(accepted[i], rec.id) = payload_hash(rec)
    /\ \A i \in DOMAIN out :
         LET rec == Agents(taped)[i][2]
         IN  /\ hash_with_id(out[i], rec.id) = payload_hash(rec)
             /\ kind(rec) # "response" => payload_hash(out[i]) = payload_hash(rec)

\* "The client sees the answers for the ids it sent": a response that the
\* recording has after a request of the same id carries the id the live
\* client used for its latest such request.
AnswersCarryClientIds ==
    remap =>
      \A j \in 1 .. cursor :
        LET n    == Len(Agents(SubSeq(taped, 1, j)))
            Reqs == {i \in 1 .. j - 1 : /\ taped[i][1] = "c2a"
                                        /\ rows[i].kind = "request"
                                        /\ rows[i].id = rows[j].id}
        IN  rows[j].dir = "a2c" /\ rows[j].kind = "response" /\ Reqs # {} =>
              out[n].id = accepted[Len(Clients(SubSeq(taped, 1, Max(Reqs))))].id

=============================================================================
