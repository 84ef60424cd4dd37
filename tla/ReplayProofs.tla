---------------------------- MODULE ReplayProofs ---------------------------
(***************************************************************************)
(* Proofs about Replay, in five parts.                                     *)
(*   The recording       rows are the taped frames, blobs are recorded     *)
(*                       frames under their own hashes (RecordingOK); no   *)
(*                       step changes them.                                *)
(*   The engine's steps  StepKinds: the engine passes one row of the       *)
(*                       agent, takes one frame for one row of the client, *)
(*                       or stays where it is.  It skips no row, because   *)
(*                       it only reads when the next row is the client's.  *)
(*   Order               the cursor counts what was emitted and taken      *)
(*                       (Ordered).                                        *)
(*   Payloads            what was emitted and taken is what was recorded,  *)
(*                       but for ids (Alike).                              *)
(*   Ids                 the id map holds the live id of every request     *)
(*                       that was taken (IdsMapped, Answered).             *)
(***************************************************************************)
EXTENDS Replay, TraceFormatProofs, SequenceTheorems, TLAPS

-----------------------------------------------------------------------------
(* The recording *)

\* The row of a taped frame, and what the row says of it.
RowAt(i) == EventRecord(i - 1, taped[i][1], taped[i][2])

TapeOK ==
    /\ taped \in Seq(Tape) /\ rows \in Seq(Rows) /\ Len(rows) = Len(taped)
    /\ \A i \in 1 .. Len(taped) :
         /\ taped[i] = <<taped[i][1], taped[i][2]>>
         /\ taped[i][1] \in Directions /\ taped[i][2] \in Frames
         /\ rows[i] = RowAt(i)
    /\ remap \in Remaps

\* Every blob is a recorded frame under its own hash.
StoreOK ==
    /\ DOMAIN store \subseteq Hashes /\ store \in [DOMAIN store -> Frames]
    /\ \A h \in DOMAIN store : payload_hash(store[h]) = h

RecordingOK == TapeOK /\ StoreOK

LEMMA TapeFields ==
    ASSUME NEW x \in Tape
    PROVE  /\ x = <<x[1], x[2]>> /\ x[1] \in Directions /\ x[2] \in Frames
           /\ payload_hash(x[2]) \in Hashes
  <1>1. x \in Directions \X Frames
    BY ReplayAssumption
  <1>2. x = <<x[1], x[2]>> /\ x[1] \in Directions /\ x[2] \in Frames
    BY <1>1
  <1>3. 0 \in Nat /\ "c2a" \in Directions
    BY DEF Directions
  <1> QED
    BY <1>2, <1>3, EventRecordType

LEMMA BlobsAreRecorded ==
    ASSUME NEW s \in Seq(Tape), NEW h \in DOMAIN BlobsOf(s)
    PROVE  h \in Hashes /\ BlobsOf(s)[h] \in Frames /\ payload_hash(BlobsOf(s)[h]) = h
  <1> DEFINE hits == {i \in DOMAIN s : payload_hash(s[i][2]) = h}
  <1>1. h \in {payload_hash(s[i][2]) : i \in DOMAIN s}
    BY DEF BlobsOf
  <1>2. hits \subseteq Nat /\ hits # {}
    BY <1>1
  <1>3. Min(hits) \in hits
    BY <1>2, LeastIsThere
  <1>4. BlobsOf(s)[h] = s[Min(hits)][2]
    BY <1>1 DEF BlobsOf
  <1>5. s[Min(hits)] \in Tape
    BY <1>3
  <1> QED
    BY <1>3, <1>4, <1>5, TapeFields

LEMMA RecordingInit == Init => RecordingOK /\ NumberedWell(taped)
  <1> SUFFICES ASSUME Init PROVE RecordingOK /\ NumberedWell(taped)
    OBVIOUS
  <1>1. taped \in Seq(Tape)
    <2>1. PICK m \in 0 .. MaxTape : taped \in [1 .. m -> Tape]
      BY DEF Init, BoundedSeq, SeqOf
    <2>2. m \in Nat
      BY <2>1, ReplayAssumption
    <2> QED
      BY <2>1, <2>2
  <1>2. \A i \in 1 .. Len(taped) :
           /\ taped[i] = <<taped[i][1], taped[i][2]>>
           /\ taped[i][1] \in Directions /\ taped[i][2] \in Frames
    BY <1>1, TapeFields
  <1>3. rows = [i \in DOMAIN taped |-> RowAt(i)] /\ remap \in Remaps
    BY DEF Init, RowAt
  <1>4. \A i \in 1 .. Len(taped) : RowAt(i) \in Rows
    BY <1>1, <1>2, EventRecordType DEF RowAt
  <1>5. DOMAIN taped = 1 .. Len(taped) /\ Len(taped) \in Nat
    BY <1>1
  <1>6. rows \in Seq(Rows) /\ Len(rows) = Len(taped)
    BY <1>3, <1>4, <1>5
  <1>7. TapeOK
    BY <1>1, <1>2, <1>3, <1>5, <1>6 DEF TapeOK
  <1>8. StoreOK
    <2>1. PICK S : store = [h \in DOMAIN BlobsOf(taped) \ S |-> BlobsOf(taped)[h]]
      BY DEF Init
    <2>2. \A h \in DOMAIN store : h \in DOMAIN BlobsOf(taped) /\ store[h] = BlobsOf(taped)[h]
      BY <2>1
    <2>3. \A h \in DOMAIN store : h \in Hashes /\ store[h] \in Frames /\ payload_hash(store[h]) = h
      BY <1>1, <2>2, BlobsAreRecorded
    <2>4. store = [h \in DOMAIN store |-> store[h]]
      BY <2>1
    <2> QED
      BY <2>3, <2>4 DEF StoreOK
  <1> QED
    BY <1>7, <1>8 DEF Init, RecordingOK

\* No step touches the recording.
LEMMA RecordingKept ==
    ASSUME [Next]_vars
    PROVE  /\ UNCHANGED recording /\ UNCHANGED <<taped, rows, store, remap>>
           /\ RecordingOK => RecordingOK'
  <1>1. UNCHANGED <<taped, rows, store, remap>>
    BY DEF Next, EmitRow, EmitDone, ReadEof, ReadBad, ReadFrame, Returned, vars, recording
  <1> QED
    BY <1>1 DEF RecordingOK, TapeOK, StoreOK, RowAt, recording

\* What a row says of the frame it records.
LEMMA RowFields ==
    ASSUME RecordingOK, NEW i \in 1 .. Len(rows)
    PROVE  /\ i \in 1 .. Len(taped) /\ taped[i][2] \in Frames /\ taped[i][2] \in Raws
           /\ rows[i].dir = taped[i][1] /\ rows[i].dir \in Directions
           /\ rows[i].hash = payload_hash(taped[i][2])
           /\ rows[i].id = from_value(taped[i][2].id)
           /\ rows[i].kind = kind(taped[i][2])
           /\ rows[i] \in Rows
  <1>1. i \in 1 .. Len(taped) /\ rows[i] = RowAt(i) /\ rows[i] \in Rows
        /\ taped[i][1] \in Directions /\ taped[i][2] \in Frames
    BY DEF RecordingOK, TapeOK
  <1> QED
    BY <1>1, FramesAssumption DEF RowAt, EventRecord

\* A row that loads has the payload of its frame.
LEMMA LoadedBytes ==
    ASSUME RecordingOK, NEW i \in 1 .. Len(rows), Loads(store, rows[i])
    PROVE  /\ store[rows[i].hash] \in Frames /\ store[rows[i].hash] \in Raws
           /\ payload_hash(store[rows[i].hash]) = payload_hash(taped[i][2])
           /\ store[rows[i].hash].id = taped[i][2].id
           /\ kind(store[rows[i].hash]) = kind(taped[i][2])
  <1> DEFINE b == store[rows[i].hash]
             f == taped[i][2]
  <1>1. rows[i].hash = payload_hash(f) /\ f \in Raws
    BY RowFields
  <1>2. b \in Frames /\ payload_hash(b) = rows[i].hash
    BY DEF Loads, RecordingOK, StoreOK
  <1>3. b \in Raws
    BY <1>2, FramesAssumption
  <1>4. b.method = f.method /\ b.id = f.id /\ b.outcome = f.outcome
    BY <1>1, <1>2 DEF payload_hash
  <1>5. kind(b) = kind(f)
    BY <1>4 DEF kind
  <1> QED
    BY <1>1, <1>2, <1>3, <1>4, <1>5

-----------------------------------------------------------------------------
(* The engine's steps *)

EngineOK ==
    /\ cursor \in 0 .. Len(rows)
    /\ DOMAIN id_map \subseteq Ids /\ id_map \in [DOMAIN id_map -> Ids]
    /\ pc \in {"emit", "read", "ok", "diverged", "exhausted", "failed"}
    /\ emitted = Len(out) /\ out \in Seq(Raws) /\ accepted \in Seq(Raws)
    /\ pc = "read" => ~AtAgentRow

Sound == RecordingOK /\ EngineOK

\* The engine passes a row of the agent, takes a frame of the client for a
\* row of the client, or stays where it is.  It never passes over a row.
Emits ==
    /\ cursor < Len(rows) /\ rows[cursor + 1].dir = "a2c"
    /\ Loads(store, rows[cursor + 1])
    /\ out' = Append(out, Emission(rows[cursor + 1])) /\ emitted' = emitted + 1
    /\ cursor' = cursor + 1 /\ pc = "emit" /\ UNCHANGED <<id_map, pc, accepted>>

Renumbers(l) ==
    /\ remap /\ BothIds(rows[cursor + 1], l)
    /\ hash_with_id(l, rows[cursor + 1].id) = rows[cursor + 1].hash
    /\ payload_hash(l) # rows[cursor + 1].hash
    /\ id_map' = [x \in DOMAIN id_map \cup {rows[cursor + 1].id} |->
                    IF x = rows[cursor + 1].id THEN l.id ELSE id_map[x]]

Takes(l) ==
    /\ l \in Lines /\ l \in ClientLines /\ Parses(l)
    /\ cursor < Len(rows) /\ rows[cursor + 1].dir = "c2a"
    /\ accepted' = Append(accepted, raw(l))
    /\ cursor' = cursor + 1 /\ pc' = "emit" /\ UNCHANGED <<out, emitted>>
    /\ \/ payload_hash(l) = rows[cursor + 1].hash /\ UNCHANGED id_map
       \/ Renumbers(l)

Stays ==
    /\ UNCHANGED <<cursor, id_map, emitted, out, accepted>>
    /\ pc' \in {"emit", "read", "ok", "diverged", "exhausted", "failed"}
    /\ pc' = "read" => pc = "read" \/ ~AtAgentRow

LEMMA NextIsFirst ==
    ASSUME Sound, pc = "read", NextC2a # {}
    PROVE  cursor < Len(rows) /\ rows[cursor + 1].dir = "c2a" /\ Min(NextC2a) = cursor + 1
  <1>1. NextC2a \subseteq Nat
    BY DEF NextC2a, Sound, EngineOK
  <1>2. Min(NextC2a) \in NextC2a /\ \A y \in NextC2a : Min(NextC2a) <= y
    BY <1>1, LeastIsThere
  <1>3. cursor \in Nat /\ Len(rows) \in Nat /\ cursor < Len(rows)
    BY <1>2 DEF NextC2a, Sound, EngineOK, RecordingOK, TapeOK
  <1>4. rows[cursor + 1].dir = "c2a"
    <2>1. rows[cursor + 1].dir \in Directions /\ rows[cursor + 1].dir # "a2c"
      BY <1>3, RowFields DEF AtAgentRow, Sound, EngineOK
    <2> QED
      BY <2>1 DEF Directions
  <1>5. cursor + 1 \in NextC2a
    BY <1>3, <1>4 DEF NextC2a
  <1>6. Min(NextC2a) = cursor + 1
    BY <1>2, <1>3, <1>5 DEF NextC2a
  <1> QED
    BY <1>3, <1>4, <1>6

LEMMA StepKinds ==
    ASSUME Sound, [Next]_vars
    PROVE  Emits \/ Stays \/ \E l \in ClientLines : Takes(l)
  <1>0. pc \in {"emit", "read", "ok", "diverged", "exhausted", "failed"}
    BY DEF Sound, EngineOK
  <1>1. CASE EmitRow
    <2>1. CASE Loads(store, rows[cursor + 1]) /\ pc' = pc
      BY <1>1, <2>1 DEF EmitRow, AtAgentRow, Emits
    <2>2. CASE UNCHANGED <<out, emitted, cursor>> /\ pc' = "failed"
      BY <1>1, <2>2 DEF EmitRow, Stays
    <2> QED
      BY <1>1, <2>1, <2>2 DEF EmitRow
  <1>2. CASE EmitDone
    BY <1>2 DEF EmitDone, Stays
  <1>3. CASE ReadEof
    BY <1>3 DEF ReadEof, Stays
  <1>4. ASSUME NEW l \in ClientLines, ReadBad(l) PROVE Stays
    BY <1>4 DEF ReadBad, Stays
  <1>5. ASSUME NEW l \in ClientLines, ReadFrame(l) PROVE Stays \/ Takes(l)
    <2>1. pc = "read" /\ Parses(l) /\ UNCHANGED <<out, emitted>> /\ l \in Lines
      BY <1>5, ReplayAssumption DEF ReadFrame
    <2>2. CASE NextC2a = {}
      BY <1>5, <2>2 DEF ReadFrame, Stays
    <2>3. CASE NextC2a # {}
      <3>1. cursor < Len(rows) /\ rows[cursor + 1].dir = "c2a" /\ Min(NextC2a) = cursor + 1
        BY <2>1, <2>3, NextIsFirst
      <3> DEFINE want == rows[cursor + 1].hash
      <3>2. \/ payload_hash(l) = want /\ Accept(l, cursor + 1) /\ UNCHANGED id_map
            \/ Renumbers(l) /\ Accept(l, cursor + 1)
            \/ pc' = "diverged" /\ UNCHANGED <<cursor, id_map, accepted>>
        BY <1>5, <2>3, <3>1 DEF ReadFrame, Renumbers
      <3>3. CASE payload_hash(l) = want /\ Accept(l, cursor + 1) /\ UNCHANGED id_map
        BY <2>1, <3>1, <3>3 DEF Takes, Accept
      <3>4. CASE Renumbers(l) /\ Accept(l, cursor + 1)
        BY <2>1, <3>1, <3>4 DEF Takes, Accept
      <3>5. CASE pc' = "diverged" /\ UNCHANGED <<cursor, id_map, accepted>>
        BY <2>1, <3>5 DEF Stays
      <3> QED
        BY <3>2, <3>3, <3>4, <3>5
    <2> QED
      BY <2>2, <2>3
  <1>6. CASE UNCHANGED vars
    BY <1>0, <1>6 DEF vars, engine, Stays
  <1> QED
    BY <1>1, <1>2, <1>3, <1>4, <1>5, <1>6 DEF Next, Returned

\* What is written for a row: the frame the row records, with another id at
\* most, and that only in a response.
LEMMA EmissionIs ==
    ASSUME Sound, NEW i \in 1 .. Len(rows), Loads(store, rows[i])
    PROVE  LET o == Emission(rows[i])
               f == taped[i][2]
           IN  /\ o \in Raws
               /\ hash_with_id(o, f.id) = payload_hash(f)
               /\ kind(f) # "response" => payload_hash(o) = payload_hash(f)
               /\ ~remap => o = store[rows[i].hash]
               /\ remap /\ rows[i].kind = "response" /\ rows[i].id # None =>
                    o.id = IF rows[i].id \in DOMAIN id_map THEN id_map[rows[i].id]
                           ELSE rows[i].id
  <1> DEFINE o == Emission(rows[i])
             f == taped[i][2]
             b == store[rows[i].hash]
  <1>1. /\ b \in Raws /\ payload_hash(b) = payload_hash(f) /\ b.id = f.id
        /\ kind(b) = kind(f) /\ f \in Raws
        /\ rows[i].kind = kind(f) /\ rows[i].id = from_value(f.id)
    BY LoadedBytes, RowFields DEF Sound
  <1> HIDE DEF b, f
  <1>2. b \in Lines /\ Parses(b) /\ b.eol = "lf"
    BY <1>1 DEF Raws
  <1>3. CASE o = b
    <2>1. hash_with_id(b, f.id) = payload_hash(f)
      <3>1. CASE b.id = None
        BY <1>1, <3>1 DEF hash_with_id
      <3>2. CASE b.id # None
        <4>1. [b EXCEPT !.id = f.id] = b
          BY <1>1, <1>2 DEF Lines
        <4> QED
          BY <1>1, <3>2, <4>1, Zenon DEF hash_with_id
      <3> QED
        BY <3>1, <3>2
    <2>2. remap /\ rows[i].kind = "response" /\ rows[i].id # None =>
            o.id = IF rows[i].id \in DOMAIN id_map THEN id_map[rows[i].id] ELSE rows[i].id
      <3> SUFFICES ASSUME remap, rows[i].kind = "response", rows[i].id # None
                   PROVE  o.id = IF rows[i].id \in DOMAIN id_map THEN id_map[rows[i].id]
                                 ELSE rows[i].id
        OBVIOUS
      <3>1. b.id \in Ids /\ from_value(b.id) = b.id /\ rows[i].id = b.id
        BY <1>1 DEF from_value
      <3>2. CASE b.id \in DOMAIN id_map
        <4>1. o = rewrite_id_in_value(b, id_map[b.id])
          BY <3>1, <3>2 DEF Emission, b
        <4>2. o.id = id_map[b.id]
          BY <1>2, <4>1 DEF rewrite_id_in_value, Lines
        <4> QED
          BY <3>1, <3>2, <4>2
      <3>3. CASE b.id \notin DOMAIN id_map
        BY <1>3, <3>1, <3>3
      <3> QED
        BY <3>2, <3>3
    <2> QED
      BY <1>1, <1>3, <2>1, <2>2 DEF b, f
  <1>4. CASE o # b
    <2>1. /\ remap /\ rows[i].kind = "response" /\ from_value(b.id) \in DOMAIN id_map
          /\ o = rewrite_id_in_value(b, id_map[from_value(b.id)])
      BY <1>4 DEF Emission, b
    <2>2. PICK x \in Ids : x = id_map[from_value(b.id)]
      BY <2>1 DEF Sound, EngineOK
    <2>3. b.id \in Ids /\ from_value(b.id) = b.id /\ rows[i].id = b.id /\ b.id # None
      BY <1>1, <2>1, WireAssumption DEF from_value, Sound, EngineOK
    <2>4. x # None /\ from_value(x) = x
      BY <2>2, WireAssumption DEF from_value
    <2>5. /\ o \in Lines /\ o.eol = "lf" /\ o.shape = b.shape /\ o.method = b.method
          /\ o.outcome = b.outcome /\ o.id = x /\ o.body = b.body
      BY <1>2, <2>1, <2>2, WireAssumption DEF rewrite_id_in_value, Lines
    <2>6. kind(o) = kind(b)
      BY <2>3, <2>4, <2>5 DEF kind
    <2>7. o \in Raws
      BY <1>2, <2>5, <2>6 DEF Raws, Parses
    <2>8. hash_with_id(o, f.id) = payload_hash(f)
      <3>1. hash_with_id(o, f.id) = payload_hash([o EXCEPT !.id = f.id])
        BY <2>4, <2>5 DEF hash_with_id
      <3>2. payload_hash([o EXCEPT !.id = f.id]) = payload_hash(b)
        BY <1>1, <2>5 DEF payload_hash, Lines
      <3> QED
        BY <1>1, <3>1, <3>2
    <2> QED
      BY <1>1, <2>1, <2>2, <2>3, <2>5, <2>7, <2>8 DEF f
  <1> QED
    BY <1>3, <1>4

\* The frame taken for a row is a frame, and it is the recorded one but for
\* its id, which changes only with remap_ids.
LEMMA TakenIs ==
    ASSUME Sound, NEW l, Takes(l)
    PROVE  LET f == taped[cursor + 1][2]
           IN  /\ raw(l) \in Raws /\ raw(l).id = l.id
               /\ hash_with_id(raw(l), f.id) = payload_hash(f)
               /\ kind(l) = kind(f)
               /\ payload_hash(l) = rows[cursor + 1].hash => payload_hash(raw(l)) = payload_hash(f)
               /\ Renumbers(l) =>
                    /\ l.id \in Ids /\ rows[cursor + 1].id \in Ids
                    /\ l.id # f.id /\ rows[cursor + 1].id = f.id
                    /\ hash_with_id(l, f.id) = payload_hash(f)
  <1> DEFINE f == taped[cursor + 1][2]
             r == raw(l)
  <1>1. l \in Lines /\ Parses(l) /\ cursor + 1 \in 1 .. Len(rows)
    BY DEF Takes, Sound, EngineOK, RecordingOK, TapeOK
  <1>2. /\ f \in Raws /\ rows[cursor + 1].hash = payload_hash(f)
        /\ rows[cursor + 1].id = from_value(f.id)
    BY <1>1, RowFields DEF Sound
  <1>3. f \in Lines
    BY <1>2 DEF Raws
  <1>4. /\ r \in Lines /\ r.eol = "lf" /\ r.shape = l.shape /\ r.method = l.method
        /\ r.id = l.id /\ r.outcome = l.outcome /\ r.body = l.body
    BY <1>1 DEF raw, Lines
  <1>5. kind(r) = kind(l)
    BY <1>4 DEF kind
  <1>6. r \in Raws
    BY <1>1, <1>4, <1>5 DEF Raws, Parses
  <1>7. payload_hash(r) = payload_hash(l) /\ \A i : hash_with_id(r, i) = hash_with_id(l, i)
    <2>1. \A i : payload_hash([r EXCEPT !.id = i]) = payload_hash([l EXCEPT !.id = i])
      BY <1>1, <1>4 DEF payload_hash, Lines
    <2> QED
      BY <1>4, <2>1 DEF payload_hash, hash_with_id
  <1> HIDE DEF f, r
  <1>8. CASE payload_hash(l) = rows[cursor + 1].hash
    <2>1. l.id = f.id /\ l.method = f.method /\ l.outcome = f.outcome
      BY <1>2, <1>8 DEF payload_hash
    <2>2. kind(l) = kind(f)
      BY <2>1 DEF kind
    <2>3. hash_with_id(l, f.id) = payload_hash(f)
      <3>1. [l EXCEPT !.id = f.id] = l
        BY <1>1, <2>1 DEF Lines
      <3> QED
        BY <1>2, <1>8, <3>1, Zenon DEF hash_with_id
    <2> QED
      BY <1>2, <1>4, <1>6, <1>7, <1>8, <2>2, <2>3 DEF f, r, Renumbers
  <1>9. CASE Renumbers(l)
    <2>1. /\ rows[cursor + 1].id # None /\ from_value(l.id) # None
          /\ hash_with_id(l, rows[cursor + 1].id) = payload_hash(f)
          /\ payload_hash(l) # payload_hash(f)
      BY <1>2, <1>9 DEF Renumbers, BothIds
    <2>2. l.id \in Ids /\ f.id \in Ids /\ rows[cursor + 1].id = f.id
      BY <1>2, <2>1 DEF from_value
    <2>3. payload_hash([l EXCEPT !.id = f.id]) = payload_hash(f)
      BY <2>1, <2>2, WireAssumption DEF hash_with_id
    <2>4. l.method = f.method /\ l.outcome = f.outcome /\ l.body = f.body
      BY <1>1, <2>3 DEF payload_hash, Lines
    <2>5. l.id # f.id
      BY <2>1, <2>4 DEF payload_hash
    <2>6. from_value(l.id) # None /\ from_value(f.id) # None
      BY <1>2, <2>1
    <2>7. kind(l) = kind(f)
      BY <2>4, <2>6 DEF kind
    <2> QED
      BY <1>2, <1>4, <1>6, <1>7, <2>1, <2>2, <2>5, <2>7 DEF f, r
  <1> QED
    BY <1>8, <1>9 DEF Takes

LEMMA EngineStep ==
    ASSUME Sound, [Next]_vars PROVE Sound'
  <1>0. RecordingOK' /\ UNCHANGED <<taped, rows, store, remap>>
    BY RecordingKept DEF Sound
  <1>1. cursor \in Nat /\ Len(rows) \in Nat
    BY DEF Sound, EngineOK, RecordingOK, TapeOK
  <1> SUFFICES EngineOK'
    BY <1>0 DEF Sound
  <1>2. CASE Emits
    <2>1. cursor + 1 \in 1 .. Len(rows) /\ Loads(store, rows[cursor + 1])
      BY <1>1, <1>2 DEF Emits
    <2>2. Emission(rows[cursor + 1]) \in Raws
      BY <2>1, EmissionIs
    <2>3. out' \in Seq(Raws) /\ Len(out') = Len(out) + 1
      BY <1>2, <2>2 DEF Emits, Sound, EngineOK
    <2> QED
      BY <1>0, <1>2, <2>1, <2>3 DEF Emits, Sound, EngineOK
  <1>3. ASSUME NEW l \in ClientLines, Takes(l) PROVE EngineOK'
    <2>1. cursor' \in 0 .. Len(rows) /\ pc' = "emit" /\ UNCHANGED <<out, emitted>>
      BY <1>1, <1>3 DEF Takes
    <2>2. accepted' \in Seq(Raws)
      BY <1>3, TakenIs DEF Takes, Sound, EngineOK
    <2>3. DOMAIN id_map' \subseteq Ids /\ id_map' \in [DOMAIN id_map' -> Ids]
      <3>1. CASE UNCHANGED id_map
        BY <3>1 DEF Sound, EngineOK
      <3>2. CASE Renumbers(l)
        <4>1. l.id \in Ids /\ rows[cursor + 1].id \in Ids
          BY <1>3, <3>2, TakenIs
        <4> QED
          BY <3>2, <4>1 DEF Renumbers, Sound, EngineOK
      <3> QED
        BY <1>3, <3>1, <3>2 DEF Takes
    <2> QED
      BY <1>0, <2>1, <2>2, <2>3 DEF Sound, EngineOK
  <1>4. CASE Stays
    BY <1>0, <1>4 DEF Stays, Sound, EngineOK, AtAgentRow
  <1> QED
    BY <1>2, <1>3, <1>4, StepKinds

LEMMA AlwaysSound == Spec => [](Sound /\ NumberedWell(taped))
  <1>1. Init => EngineOK
    <2> SUFFICES ASSUME Init PROVE EngineOK
      OBVIOUS
    <2>1. /\ cursor = 0 /\ id_map = [i \in {} |-> None] /\ pc = "emit" /\ emitted = 0
          /\ out = <<>> /\ accepted = <<>>
      BY DEF Init
    <2>2. Len(rows) \in Nat
      BY RecordingInit DEF RecordingOK, TapeOK
    <2> QED
      BY <2>1, <2>2 DEF EngineOK
  <1>2. Sound /\ NumberedWell(taped) /\ [Next]_vars => NumberedWell(taped)'
    BY RecordingKept DEF NumberedWell
  <1>3. Init => Sound /\ NumberedWell(taped)
    BY <1>1, RecordingInit DEF Sound
  <1> QED
    BY <1>2, <1>3, EngineStep, PTL DEF Spec

\* The engine's state has its types: what is emitted and what is taken are
\* frames, and the id map is about ids.
THEOREM ReplayTypeOK == Spec => []TypeOK
  <1>1. Sound => TypeOK
    BY DEF Sound, RecordingOK, TapeOK, StoreOK, EngineOK, TypeOK
  <1> QED
    BY <1>1, AlwaysSound, PTL

-----------------------------------------------------------------------------
(* Order *)

Passed == SubSeq(taped, 1, cursor)

\* What the cursor has passed is what was emitted and what was taken.
Ordered ==
    /\ Len(out) = Len(Agents(Passed)) /\ Len(accepted) = Len(Clients(Passed))
    /\ Len(out) = Len(Only(SubSeq(rows, 1, cursor), RowsOf("a2c")))

\* One row further.
LEMMA PassedNext ==
    ASSUME RecordingOK, NEW n \in 0 .. Len(rows) - 1
    PROVE  LET p == SubSeq(taped, 1, n)
               q == SubSeq(taped, 1, n + 1)
               x == taped[n + 1]
           IN  /\ rows[n + 1].dir = "a2c" =>
                    /\ Len(Agents(q)) = Len(Agents(p)) + 1 /\ Clients(q) = Clients(p)
                    /\ Len(Agents(p)) + 1 \in DOMAIN Agents(taped)
                    /\ Agents(taped)[Len(Agents(p)) + 1] = x
               /\ rows[n + 1].dir = "c2a" =>
                    /\ Len(Clients(q)) = Len(Clients(p)) + 1 /\ Agents(q) = Agents(p)
                    /\ Len(Clients(p)) + 1 \in DOMAIN Clients(taped)
                    /\ Clients(taped)[Len(Clients(p)) + 1] = x
               /\ Len(Agents(p)) \in Nat /\ Len(Clients(p)) \in Nat
  <1> DEFINE p == SubSeq(taped, 1, n)
             q == SubSeq(taped, 1, n + 1)
             x == taped[n + 1]
             A == {"a2c"} \X Frames
             C == {"c2a"} \X Frames
  <1>1. /\ taped \in Seq(Tape) /\ n \in 0 .. Len(taped) - 1 /\ n + 1 \in 1 .. Len(rows)
        /\ Len(taped) \in Nat
    BY DEF RecordingOK, TapeOK
  <1>2. x = <<x[1], x[2]>> /\ x[1] = rows[n + 1].dir /\ x[2] \in Frames
    BY <1>1, RowFields DEF RecordingOK, TapeOK
  <1>3. (x \in A <=> rows[n + 1].dir = "a2c") /\ (x \in C <=> rows[n + 1].dir = "c2a")
    BY <1>2
  <1>4. p \in Seq(Tape)
    BY <1>1
  <1> HIDE DEF x, A, C
  <1>5. /\ Only(q, A) = IF x \in A THEN Append(Only(p, A), x) ELSE Only(p, A)
        /\ x \in A => /\ Len(Only(p, A)) + 1 \in DOMAIN Only(taped, A)
                      /\ Only(taped, A)[Len(Only(p, A)) + 1] = x
    BY <1>1, OnlyNext DEF x
  <1>6. /\ Only(q, C) = IF x \in C THEN Append(Only(p, C), x) ELSE Only(p, C)
        /\ x \in C => /\ Len(Only(p, C)) + 1 \in DOMAIN Only(taped, C)
                      /\ Only(taped, C)[Len(Only(p, C)) + 1] = x
    BY <1>1, OnlyNext DEF x
  <1> HIDE DEF p, q
  <1>7. Only(p, A) \in Seq(Tape \cap A) /\ Only(p, C) \in Seq(Tape \cap C)
    BY <1>4, OnlyType, Zenon
  <1>8. \A S, e : \A s \in Seq(S) : Len(Append(s, e)) = Len(s) + 1 /\ Len(s) \in Nat
    OBVIOUS
  <1>9. Agents(q) = Only(q, A) /\ Agents(p) = Only(p, A) /\ Agents(taped) = Only(taped, A)
        /\ Clients(q) = Only(q, C) /\ Clients(p) = Only(p, C) /\ Clients(taped) = Only(taped, C)
    BY DEF Agents, Clients, A, C
  <1>10. "a2c" # "c2a"
    OBVIOUS
  <1>11. Len(Only(p, A)) \in Nat /\ Len(Only(p, C)) \in Nat
         /\ Len(Append(Only(p, A), x)) = Len(Only(p, A)) + 1
         /\ Len(Append(Only(p, C), x)) = Len(Only(p, C)) + 1
    BY <1>7, <1>8, Zenon
  <1> QED
    BY <1>3, <1>5, <1>6, <1>9, <1>10, <1>11, Zenon DEF p, q, x

\* The rows that replay_offline walks over.
Mine == Only(rows, RowsOf("a2c"))
MinePassed(n) == Only(SubSeq(rows, 1, n), RowsOf("a2c"))

LEMMA MineNext ==
    ASSUME RecordingOK, NEW n \in 0 .. Len(rows) - 1
    PROVE  /\ rows[n + 1].dir = "a2c" =>
                /\ Len(MinePassed(n + 1)) = Len(MinePassed(n)) + 1
                /\ Len(MinePassed(n)) + 1 \in DOMAIN Mine
                /\ Mine[Len(MinePassed(n)) + 1] = rows[n + 1]
           /\ rows[n + 1].dir # "a2c" => MinePassed(n + 1) = MinePassed(n)
           /\ Len(MinePassed(n)) \in Nat
  <1> DEFINE R == RowsOf("a2c")
             x == rows[n + 1]
  <1>1. rows \in Seq(Rows) /\ n + 1 \in 1 .. Len(rows) /\ SubSeq(rows, 1, n) \in Seq(Rows)
    BY DEF RecordingOK, TapeOK
  <1>2. x \in R <=> x.dir = "a2c"
    BY <1>1 DEF RowsOf
  <1> HIDE DEF R
  <1>3. /\ MinePassed(n + 1) = IF x \in R THEN Append(MinePassed(n), x) ELSE MinePassed(n)
        /\ x \in R => /\ Len(MinePassed(n)) + 1 \in DOMAIN Mine
                      /\ Mine[Len(MinePassed(n)) + 1] = x
    BY <1>1, OnlyNext DEF MinePassed, Mine, R
  <1>4. PICK m \in Seq(Rows \cap R) : m = MinePassed(n)
    BY <1>1, OnlyType, Zenon DEF MinePassed, R
  <1>5. Len(m) \in Nat /\ Len(Append(m, x)) = Len(m) + 1
    OBVIOUS
  <1> HIDE DEF x
  <1> QED
    BY <1>2, <1>3, <1>4, <1>5, Zenon DEF x

LEMMA OrderedStep ==
    ASSUME Sound, Ordered, [Next]_vars PROVE Ordered'
  <1> USE DEF Ordered, Passed
  <1>0. RecordingOK /\ UNCHANGED <<taped, rows>> /\ cursor \in Nat /\ Len(rows) \in Nat
    BY RecordingKept DEF Sound, EngineOK, RecordingOK, TapeOK
  <1>a. /\ Agents(Passed)' = Agents(SubSeq(taped, 1, cursor'))
        /\ Clients(Passed)' = Clients(SubSeq(taped, 1, cursor'))
        /\ Only(SubSeq(rows, 1, cursor), RowsOf("a2c"))' = MinePassed(cursor')
        /\ Only(SubSeq(rows, 1, cursor), RowsOf("a2c")) = MinePassed(cursor)
    BY <1>0, Zenon DEF Agents, Clients, MinePassed
  <1>1. CASE Emits
    <2>1. cursor \in 0 .. Len(rows) - 1 /\ rows[cursor + 1].dir = "a2c"
      BY <1>0, <1>1 DEF Emits
    <2>2. Len(out') = Len(out) + 1 /\ cursor' = cursor + 1 /\ accepted' = accepted
      <3>1. out \in Seq(Raws) /\ out' = Append(out, Emission(rows[cursor + 1]))
        BY <1>1 DEF Sound, EngineOK, Emits
      <3>2. \A S : \A s \in Seq(S) : \A e : Len(Append(s, e)) = Len(s) + 1
        OBVIOUS
      <3> QED
        BY <1>1, <3>1, <3>2, Zenon DEF Emits
    <2>3. /\ Len(Agents(SubSeq(taped, 1, cursor + 1))) = Len(Agents(Passed)) + 1
          /\ Clients(SubSeq(taped, 1, cursor + 1)) = Clients(Passed)
          /\ Len(MinePassed(cursor + 1)) = Len(MinePassed(cursor)) + 1
      BY <1>0, <2>1, PassedNext, MineNext, Zenon
    <2> HIDE DEF Passed
    <2> QED
      BY <1>a, <2>2, <2>3, Zenon
  <1>2. ASSUME NEW l, Takes(l) PROVE Ordered'
    <2>1. cursor \in 0 .. Len(rows) - 1 /\ rows[cursor + 1].dir = "c2a"
      BY <1>0, <1>2 DEF Takes
    <2>2. Len(accepted') = Len(accepted) + 1 /\ cursor' = cursor + 1 /\ out' = out
      BY <1>2 DEF Sound, EngineOK, Takes
    <2>3. /\ Len(Clients(SubSeq(taped, 1, cursor + 1))) = Len(Clients(Passed)) + 1
          /\ Agents(SubSeq(taped, 1, cursor + 1)) = Agents(Passed)
          /\ MinePassed(cursor + 1) = MinePassed(cursor)
      BY <1>0, <2>1, PassedNext, MineNext, Zenon
    <2> HIDE DEF Passed
    <2> QED
      BY <1>a, <2>2, <2>3, Zenon
  <1>3. CASE Stays
    BY <1>0, <1>3 DEF Stays, Agents, Clients
  <1> QED
    BY <1>1, <1>2, <1>3, StepKinds

LEMMA OrderedInit == Init => Ordered
  <1> SUFFICES ASSUME Init PROVE Ordered
    OBVIOUS
  <1>1. cursor = 0 /\ out = <<>> /\ accepted = <<>>
    BY DEF Init
  <1>2. \A s : SubSeq(s, 1, 0) = <<>>
    OBVIOUS
  <1>3. \A T : Only(SubSeq(taped, 1, cursor), T) = <<>> /\ Only(SubSeq(rows, 1, cursor), T) = <<>>
    BY <1>1, <1>2, OnlyEmpty, Zenon
  <1> QED
    BY <1>1, <1>3, Zenon DEF Ordered, Agents, Clients, Passed

LEMMA AlwaysOrdered == Spec => [](Sound /\ NumberedWell(taped) /\ Ordered)
  BY AlwaysSound, OrderedInit, OrderedStep, PTL DEF Spec

\* Every line of the agent is emitted between the client frames it was
\* recorded between, for all recordings and clients.
THEOREM ReplayKeepsOrder == Spec => []RecordedOrder
  <1>1. Ordered => RecordedOrder
    BY DEF Ordered, Passed, RecordedOrder
  <1> QED
    BY <1>1, AlwaysOrdered, PTL

-----------------------------------------------------------------------------
(* Payloads *)

\* A frame taken, or a line emitted, and the recorded frame it stands for.
TakenAlike(r, rec) ==
    /\ hash_with_id(r, rec.id) = payload_hash(rec)
    /\ ~remap => payload_hash(r) = payload_hash(rec)
EmittedAlike(o, rec) ==
    /\ hash_with_id(o, rec.id) = payload_hash(rec)
    /\ kind(rec) # "response" => payload_hash(o) = payload_hash(rec)
\* ... and, without remap_ids, the row that replay_offline emits it for.
EmittedExact(o, row) == Loads(store, row) /\ (~remap => o = store[row.hash])

Alike ==
    /\ \A i \in 1 .. Len(accepted) :
         i \in DOMAIN Clients(taped) /\ TakenAlike(accepted[i], Clients(taped)[i][2])
    /\ \A i \in 1 .. Len(out) :
         /\ i \in DOMAIN Agents(taped) /\ EmittedAlike(out[i], Agents(taped)[i][2])
         /\ i \in DOMAIN Mine /\ EmittedExact(out[i], Mine[i])

LEMMA AlikeStep ==
    ASSUME Sound, Ordered, Alike, [Next]_vars PROVE Alike'
  <1>0. /\ RecordingOK /\ UNCHANGED <<taped, rows, store, remap>>
        /\ cursor \in Nat /\ Len(rows) \in Nat
        /\ out \in Seq(Raws) /\ accepted \in Seq(Raws)
    BY RecordingKept DEF Sound, EngineOK, RecordingOK, TapeOK
  <1>a. /\ Clients(taped)' = Clients(taped) /\ Agents(taped)' = Agents(taped) /\ Mine' = Mine
        /\ \A r, rec : TakenAlike(r, rec)' = TakenAlike(r, rec)
        /\ \A o, row : EmittedExact(o, row)' = EmittedExact(o, row)
    BY <1>0 DEF Clients, Agents, Mine, TakenAlike, EmittedExact, Loads
  <1>1. CASE Emits
    <2> DEFINE o == Emission(rows[cursor + 1])
               n == Len(out) + 1
    <2>1. /\ cursor \in 0 .. Len(rows) - 1 /\ rows[cursor + 1].dir = "a2c"
          /\ cursor + 1 \in 1 .. Len(rows) /\ Loads(store, rows[cursor + 1])
      BY <1>0, <1>1 DEF Emits
    <2>2. /\ n \in DOMAIN Agents(taped) /\ Agents(taped)[n] = taped[cursor + 1]
          /\ n \in DOMAIN Mine /\ Mine[n] = rows[cursor + 1]
      <3>1. /\ Len(Agents(Passed)) + 1 \in DOMAIN Agents(taped)
            /\ Agents(taped)[Len(Agents(Passed)) + 1] = taped[cursor + 1]
        BY <1>0, <2>1, PassedNext, Zenon DEF Passed
      <3>2. /\ Len(MinePassed(cursor)) + 1 \in DOMAIN Mine
            /\ Mine[Len(MinePassed(cursor)) + 1] = rows[cursor + 1]
        BY <1>0, <2>1, MineNext, Zenon
      <3>3. Len(out) = Len(Agents(Passed)) /\ Len(out) = Len(MinePassed(cursor))
        BY DEF Ordered, MinePassed
      <3> QED
        BY <3>1, <3>2, <3>3, Zenon
    <2>3. o \in Raws /\ EmittedAlike(o, taped[cursor + 1][2]) /\ EmittedExact(o, rows[cursor + 1])
      BY <2>1, EmissionIs DEF EmittedAlike, EmittedExact
    <2> HIDE DEF o
    <2>4. /\ out' = Append(out, o) /\ accepted' = accepted
      BY <1>1 DEF Emits, o
    <2>5. /\ Len(out') = n /\ out'[n] = o /\ \A i \in 1 .. Len(out) : out'[i] = out[i]
          /\ \A i \in 1 .. n : i \in 1 .. Len(out) \/ i = n
      BY <1>0, <2>3, <2>4
    <2> HIDE DEF n
    <2>6. \A i \in 1 .. n :
            /\ i \in DOMAIN Agents(taped) /\ EmittedAlike(out'[i], Agents(taped)[i][2])
            /\ i \in DOMAIN Mine /\ EmittedExact(out'[i], Mine[i])
      <3> SUFFICES ASSUME NEW i \in 1 .. n
                   PROVE  /\ i \in DOMAIN Agents(taped)
                          /\ EmittedAlike(out'[i], Agents(taped)[i][2])
                          /\ i \in DOMAIN Mine /\ EmittedExact(out'[i], Mine[i])
        OBVIOUS
      <3>1. CASE i = n
        BY <2>2, <2>3, <2>5, <3>1, Zenon
      <3>2. CASE i \in 1 .. Len(out)
        BY <2>5, <3>2, Zenon DEF Alike
      <3> QED
        BY <2>5, <3>1, <3>2
    <2> QED
      BY <1>a, <2>4, <2>5, <2>6, Zenon DEF Alike
  <1>2. ASSUME NEW l, Takes(l) PROVE Alike'
    <2> DEFINE n == Len(accepted) + 1
    <2>1. cursor \in 0 .. Len(rows) - 1 /\ rows[cursor + 1].dir = "c2a"
          /\ cursor + 1 \in 1 .. Len(rows)
      BY <1>0, <1>2 DEF Takes
    <2>2. n \in DOMAIN Clients(taped) /\ Clients(taped)[n] = taped[cursor + 1]
      <3>1. /\ Len(Clients(Passed)) + 1 \in DOMAIN Clients(taped)
            /\ Clients(taped)[Len(Clients(Passed)) + 1] = taped[cursor + 1]
        BY <1>0, <2>1, PassedNext, Zenon DEF Passed
      <3>2. Len(accepted) = Len(Clients(Passed))
        BY DEF Ordered
      <3> QED
        BY <3>1, <3>2, Zenon
    <2>3. raw(l) \in Raws /\ TakenAlike(raw(l), taped[cursor + 1][2])
      BY <1>2, TakenIs DEF TakenAlike, Takes, Renumbers
    <2>4. out' = out /\ accepted' = Append(accepted, raw(l))
      BY <1>2 DEF Takes
    <2>5. /\ Len(accepted') = n /\ accepted'[n] = raw(l)
          /\ \A i \in 1 .. Len(accepted) : accepted'[i] = accepted[i]
          /\ \A i \in 1 .. n : i \in 1 .. Len(accepted) \/ i = n
      BY <1>0, <2>3, <2>4
    <2> HIDE DEF n
    <2>6. \A i \in 1 .. n :
            i \in DOMAIN Clients(taped) /\ TakenAlike(accepted'[i], Clients(taped)[i][2])
      <3> SUFFICES ASSUME NEW i \in 1 .. n
                   PROVE  /\ i \in DOMAIN Clients(taped)
                          /\ TakenAlike(accepted'[i], Clients(taped)[i][2])
        OBVIOUS
      <3>1. CASE i = n
        BY <2>2, <2>3, <2>5, <3>1, Zenon
      <3>2. CASE i \in 1 .. Len(accepted)
        BY <2>5, <3>2, Zenon DEF Alike
      <3> QED
        BY <2>5, <3>1, <3>2
    <2> QED
      BY <1>a, <2>4, <2>5, <2>6, Zenon DEF Alike
  <1>3. CASE Stays
    BY <1>a, <1>3, Zenon DEF Stays, Alike
  <1> QED
    BY <1>1, <1>2, <1>3, StepKinds

LEMMA AlwaysAlike == Spec => [](Sound /\ NumberedWell(taped) /\ Ordered /\ Alike)
  <1>1. Init => Alike
    <2> SUFFICES ASSUME Init PROVE Alike
      OBVIOUS
    <2>1. Len(accepted) = 0 /\ Len(out) = 0
      BY DEF Init
    <2> QED
      BY <2>1 DEF Alike
  <1> QED
    BY <1>1, AlwaysOrdered, AlikeStep, PTL DEF Spec

\* Whatever the recording and the client: only ids ever differ from the
\* recording, and on the way out only those of responses.
THEOREM ReplayChangesIdsOnly == Spec => []RemapChangesIdsOnly
  <1>1. Sound /\ Alike => RemapChangesIdsOnly
    <2> SUFFICES ASSUME Sound, Alike PROVE RemapChangesIdsOnly
      OBVIOUS
    <2>1. DOMAIN out = 1 .. Len(out) /\ DOMAIN accepted = 1 .. Len(accepted)
      BY DEF Sound, EngineOK
    <2> QED
      BY <2>1 DEF RemapChangesIdsOnly, Alike, TakenAlike, EmittedAlike
  <1> QED
    BY <1>1, AlwaysAlike, PTL

\* When the client has sent all its recorded frames and the agent's block is
\* over, the cursor is at the end of the trace.
LEMMA AllTaken ==
    ASSUME Sound, Ordered, pc = "read", Len(accepted) = Len(Clients(taped))
    PROVE  cursor = Len(rows)
  <1>0. RecordingOK /\ cursor \in 0 .. Len(rows) /\ Len(rows) \in Nat
    BY DEF Sound, EngineOK, RecordingOK, TapeOK
  <1>1. ASSUME cursor < Len(rows) PROVE FALSE
    <2>1. cursor \in 0 .. Len(rows) - 1 /\ cursor + 1 \in 1 .. Len(rows)
      BY <1>0, <1>1
    <2>2. rows[cursor + 1].dir = "c2a"
      <3>1. rows[cursor + 1].dir \in Directions /\ rows[cursor + 1].dir # "a2c"
        BY <1>0, <1>1, <2>1, RowFields DEF Sound, EngineOK, AtAgentRow
      <3> QED
        BY <3>1 DEF Directions
    <2>3. Len(Clients(Passed)) + 1 \in DOMAIN Clients(taped)
      BY <1>0, <2>1, <2>2, PassedNext, Zenon DEF Passed
    <2>4. PICK c \in Seq(Tape \cap ({"c2a"} \X Frames)) : c = Clients(taped)
      BY OnlyType, Zenon DEF Clients, Sound, RecordingOK, TapeOK
    <2>5. DOMAIN c = 1 .. Len(c) /\ Len(c) \in Nat
      OBVIOUS
    <2>6. Len(c) + 1 \in 1 .. Len(c)
      BY <2>3, <2>4, <2>5 DEF Ordered
    <2> QED
      BY <2>5, <2>6
  <1> QED
    BY <1>0, <1>1

\* Without remap_ids the output is byte for byte what offline replay writes,
\* as far as the session goes, and all of it for a client that sends what
\* was recorded.
THEOREM ReplayIsExact == Spec => []StrictReplayExact
  <1>1. Sound /\ Ordered /\ Alike => StrictReplayExact
    <2> SUFFICES ASSUME Sound, Ordered, Alike, ~remap
                 PROVE  /\ \A i \in DOMAIN accepted :
                             payload_hash(accepted[i]) = payload_hash(Clients(taped)[i][2])
                        /\ IsPrefix(out, replay_offline)
                        /\ pc = "read" /\ Len(accepted) = Len(Clients(taped)) =>
                             out = replay_offline
      BY DEF StrictReplayExact
    <2>1. /\ RecordingOK /\ out \in Seq(Raws) /\ accepted \in Seq(Raws)
          /\ Len(out) \in Nat /\ rows \in Seq(Rows) /\ Len(rows) \in Nat
      BY DEF Sound, EngineOK, RecordingOK, TapeOK
    <2>2. \A i \in DOMAIN accepted :
             payload_hash(accepted[i]) = payload_hash(Clients(taped)[i][2])
      <3>1. DOMAIN accepted = 1 .. Len(accepted)
        BY <2>1
      <3> QED
        BY <3>1 DEF Alike, TakenAlike
    <2>3. PICK m \in Seq(Rows \cap RowsOf("a2c")) : m = Mine
      BY <2>1, OnlyType, Zenon DEF Mine
    <2>4. /\ DOMAIN m = 1 .. Len(m) /\ Len(m) \in Nat
          /\ \A i \in 1 .. Len(m) : m[i] \in Rows
      OBVIOUS
    <2> DEFINE bad == {i \in DOMAIN m : ~Loads(store, m[i])}
               end == Min(bad \cup {Len(m) + 1})
    <2>5. /\ end \in bad \cup {Len(m) + 1} /\ \A y \in bad \cup {Len(m) + 1} : end <= y
      <3>1. bad \cup {Len(m) + 1} \subseteq Nat /\ bad \cup {Len(m) + 1} # {}
        BY <2>4
      <3> HIDE DEF bad
      <3> QED
        BY <3>1, LeastIsThere
    <2>6. \A i \in 1 .. Len(out) : i \in 1 .. Len(m) /\ i \notin bad /\ out[i] = store[m[i].hash]
      BY <2>3, <2>4 DEF Alike, EmittedExact
    <2>7. replay_offline = [i \in 1 .. end - 1 |-> store[m[i].hash]]
      BY <2>3, Zenon DEF replay_offline, Mine
    <2>8. \A i \in 1 .. end - 1 : i \in 1 .. Len(m) /\ Loads(store, m[i]) /\ end - 1 \in Nat
      <3>1. end \in 1 .. Len(m) + 1
        BY <2>4, <2>5
      <3> SUFFICES ASSUME NEW i \in 1 .. end - 1
                   PROVE  i \in 1 .. Len(m) /\ Loads(store, m[i]) /\ end - 1 \in Nat
        OBVIOUS
      <3>2. i \in 1 .. Len(m) /\ end - 1 \in Nat /\ ~(end <= i)
        BY <2>4, <3>1
      <3> HIDE DEF end
      <3>3. i \notin bad
        BY <2>5, <3>2
      <3> QED
        BY <2>4, <3>2, <3>3
    <2>9. end - 1 \in Nat /\ end \in 1 .. Len(m) + 1
      BY <2>4, <2>5
    <2>10. Len(out) <= end - 1
      <3>1. CASE end \in bad
        <4>1. end \notin 1 .. Len(out)
          BY <2>6, <3>1
        <4> QED
          BY <2>1, <2>9, <4>1
      <3>2. CASE end = Len(m) + 1
        <4>1. Len(out) = 0 \/ Len(out) \in 1 .. Len(out)
          BY <2>1
        <4>2. Len(out) = 0 \/ Len(out) <= Len(m)
          BY <2>4, <2>6, <4>1
        <4> QED
          BY <2>1, <2>4, <3>2, <4>2
      <3> QED
        BY <2>5, <3>1, <3>2
    <2> HIDE DEF end, bad
    <2>11. \A i \in 1 .. end - 1 : store[m[i].hash] \in Raws
      BY <2>8, FramesAssumption DEF Loads, Sound, RecordingOK, StoreOK
    <2>12. PICK offline \in Seq(Raws) :
             /\ offline = replay_offline /\ Len(offline) = end - 1
             /\ \A i \in 1 .. end - 1 : offline[i] = store[m[i].hash]
      BY <2>7, <2>9, <2>11
    <2>13. \A i \in 1 .. Len(out) : out[i] = offline[i]
      BY <2>1, <2>6, <2>9, <2>10, <2>12
    <2>14. IsPrefix(out, offline)
      BY <2>1, <2>10, <2>12, <2>13, PrefixAt
    <2>15. ASSUME pc = "read", Len(accepted) = Len(Clients(taped)) PROVE out = offline
      <3>1. cursor = Len(rows)
        BY <2>15, AllTaken
      <3>2. SubSeq(rows, 1, Len(rows)) = rows
        BY <2>1
      <3>3. Len(out) = Len(m)
        BY <2>3, <3>1, <3>2, Zenon DEF Ordered, Mine
      <3>4. Len(out) = Len(offline)
        BY <2>1, <2>4, <2>9, <2>10, <2>12, <3>3
      <3> QED
        BY <2>1, <2>12, <2>13, <3>4, SeqEqual
    <2> QED
      BY <2>2, <2>12, <2>14, <2>15
  <1> QED
    BY <1>1, AlwaysAlike, PTL

-----------------------------------------------------------------------------
(* Ids *)

\* The client answers the agent's requests under the ids that these have.
AnswersKeepIds ==
    \A l \in ClientLines, x \in Tape :
        /\ x[1] = "c2a" /\ kind(x[2]) = "response"
        /\ hash_with_id(l, x[2].id) = payload_hash(x[2])
        => l.id = x[2].id

\* The recorded requests of the client, and the live frame taken for one.
Asked(i)  == taped[i][1] = "c2a" /\ rows[i].kind = "request"
Nth(i)    == Len(Clients(SubSeq(taped, 1, i)))
AgNth(i)  == Len(Agents(SubSeq(taped, 1, i)))

\* No two recorded requests of the client have one id.
Unique ==
    \A i, j \in 1 .. Len(rows) : i # j /\ Asked(i) /\ Asked(j) => rows[i].id # rows[j].id

\* What the id map, or its silence, says of a recorded id.
Mapped(x) == IF x \in DOMAIN id_map THEN id_map[x] ELSE x

\* The id map knows requests only, and every request that was taken carried
\* the id the map has for it.
IdsMapped ==
    /\ \A x \in DOMAIN id_map : \E i \in 1 .. cursor : Asked(i) /\ rows[i].id = x
    /\ \A i \in 1 .. cursor : Asked(i) =>
         Nth(i) \in 1 .. Len(accepted) /\ accepted[Nth(i)].id = Mapped(rows[i].id)

Answers(j, i) ==
    /\ rows[j].dir = "a2c" /\ rows[j].kind = "response"
    /\ Asked(i) /\ rows[i].id = rows[j].id

Answered ==
    remap => \A j \in 1 .. cursor : \A i \in 1 .. j - 1 : Answers(j, i) =>
               AgNth(j) \in 1 .. Len(out) /\ out[AgNth(j)].id = accepted[Nth(i)].id

LEMMA AskedHasId ==
    ASSUME RecordingOK, NEW i \in 1 .. Len(rows), rows[i].kind = "request"
    PROVE  taped[i][2].id \in Ids /\ rows[i].id = taped[i][2].id /\ rows[i].id # None
  <1>1. rows[i].kind = kind(taped[i][2]) /\ rows[i].id = from_value(taped[i][2].id)
    BY RowFields
  <1>2. from_value(taped[i][2].id) # None
    BY <1>1 DEF kind
  <1> QED
    BY <1>1, <1>2 DEF from_value

LEMMA AskedOnce ==
    ASSUME ~ReuseIds, RecordingOK, NumberedWell(taped)
    PROVE  Unique
  <1>0. Len(rows) = Len(taped) /\ DOMAIN taped = 1 .. Len(taped) /\ Len(taped) \in Nat
    BY DEF RecordingOK, TapeOK
  <1>1. ASSUME NEW i \in 1 .. Len(rows), NEW j \in 1 .. Len(rows), i < j,
               Asked(i), Asked(j), rows[i].id = rows[j].id
        PROVE  FALSE
    <2>1. PICK x \in Ids : x = rows[i].id
      BY <1>1, AskedHasId DEF Asked
    <2>2. IsAsk(taped[i], x) /\ IsAsk(taped[j], x)
      BY <1>1, <2>1, AskedHasId, RowFields DEF Asked, IsAsk
    <2>3. i \in DOMAIN taped /\ j \in DOMAIN taped
      BY <1>0
    <2> QED
      BY <1>1, <2>2, <2>3 DEF NumberedWell
  <1>2. \A i, j \in 1 .. Len(rows) : i # j => i < j \/ j < i
    BY <1>0
  <1> QED
    BY <1>1, <1>2 DEF Unique

\* Taking one more frame changes the id of no earlier one.
LEMMA IdsStep ==
    ASSUME AnswersKeepIds, Sound, Unique, Ordered, IdsMapped, [Next]_vars
    PROVE  IdsMapped'
  <1>0. /\ RecordingOK /\ UNCHANGED <<taped, rows, store, remap>>
        /\ cursor \in Nat /\ cursor \in 0 .. Len(rows) /\ Len(rows) \in Nat
        /\ accepted \in Seq(Raws) /\ Len(accepted) \in Nat
    BY RecordingKept DEF Sound, EngineOK, RecordingOK, TapeOK
  <1>a. \A i : Asked(i)' = Asked(i) /\ Nth(i)' = Nth(i)
    BY <1>0 DEF Asked, Nth, Clients
  <1>1. CASE Emits
    <2>1. /\ cursor + 1 \in 1 .. Len(rows) /\ cursor' = cursor + 1
          /\ rows[cursor + 1].dir = "a2c" /\ UNCHANGED <<id_map, accepted>>
      BY <1>0, <1>1 DEF Emits
    <2>2. ~Asked(cursor + 1)
      BY <1>0, <2>1, RowFields DEF Asked
    <2>3. \A i \in 1 .. cursor' : i \in 1 .. cursor \/ i = cursor + 1
      BY <1>0, <2>1
    <2>4. \A i \in 1 .. cursor : i \in 1 .. cursor'
      BY <1>0, <2>1
    <2>5. \A x : Mapped(x)' = Mapped(x)
      BY <2>1 DEF Mapped
    <2> QED
      BY <1>0, <1>a, <2>1, <2>2, <2>3, <2>4, <2>5, Zenon DEF IdsMapped
  <1>2. ASSUME NEW l \in ClientLines, Takes(l) PROVE IdsMapped'
    <2>0. PICK n \in Nat : n = cursor + 1
      BY <1>0
    <2>1. /\ n \in 1 .. Len(rows) /\ cursor' = n /\ cursor \in 0 .. Len(rows) - 1
          /\ rows[n].dir = "c2a" /\ accepted' = Append(accepted, raw(l))
      BY <1>0, <1>2, <2>0 DEF Takes
    <2>2. Nth(n) = Len(accepted) + 1
      <3>1. Len(Clients(SubSeq(taped, 1, n))) = Len(Clients(Passed)) + 1
        BY <1>0, <2>0, <2>1, PassedNext, Zenon DEF Passed
      <3> QED
        BY <3>1 DEF Nth, Ordered
    <2>3. /\ raw(l) \in Raws /\ raw(l).id = l.id /\ taped[n] \in Tape /\ taped[n][1] = "c2a"
          /\ rows[n].kind = kind(taped[n][2]) /\ rows[n].id = from_value(taped[n][2].id)
          /\ taped[n][2] \in Raws /\ rows[n].hash = payload_hash(taped[n][2])
      <3>1. taped[n] \in Tape
        BY <1>0, <2>1 DEF RecordingOK, TapeOK
      <3> QED
        BY <1>0, <1>2, <2>0, <2>1, <3>1, RowFields, TakenIs
    <2>4. \A i \in 1 .. n : i \in 1 .. cursor \/ i = n
      BY <1>0, <2>0
    <2>5. \A i \in 1 .. cursor : i \in 1 .. n /\ i # n /\ i \in 1 .. Len(rows)
      BY <1>0, <2>0
    <2>6. /\ accepted'[Nth(n)] = raw(l) /\ Len(accepted') = Len(accepted) + 1
          /\ \A k \in 1 .. Len(accepted) : accepted'[k] = accepted[k] /\ k \in 1 .. Len(accepted')
          /\ Nth(n) \in 1 .. Len(accepted')
      BY <1>0, <2>1, <2>2, <2>3
    <2>7. CASE payload_hash(l) = rows[n].hash /\ UNCHANGED id_map
      <3>1. l.id = taped[n][2].id
        BY <2>3, <2>7 DEF payload_hash
      <3>2. ASSUME Asked(n) PROVE rows[n].id \notin DOMAIN id_map /\ raw(l).id = rows[n].id
        <4>1. rows[n].id = taped[n][2].id
          BY <1>0, <2>1, <3>2, AskedHasId DEF Asked
        <4>2. ASSUME rows[n].id \in DOMAIN id_map PROVE FALSE
          <5>1. PICK i \in 1 .. cursor : Asked(i) /\ rows[i].id = rows[n].id
            BY <4>2 DEF IdsMapped
          <5> QED
            BY <2>1, <2>5, <3>2, <5>1, Zenon DEF Unique
        <4> QED
          BY <2>3, <3>1, <4>1, <4>2
      <3>3. \A x : Mapped(x)' = Mapped(x)
        BY <2>7 DEF Mapped
      <3>4. \A i \in 1 .. n : Asked(i) =>
               Nth(i) \in 1 .. Len(accepted') /\ accepted'[Nth(i)].id = Mapped(rows[i].id)
        <4> SUFFICES ASSUME NEW i \in 1 .. n, Asked(i)
                     PROVE  /\ Nth(i) \in 1 .. Len(accepted')
                            /\ accepted'[Nth(i)].id = Mapped(rows[i].id)
          OBVIOUS
        <4>1. CASE i = n
          BY <2>6, <3>2, <4>1, Zenon DEF Mapped
        <4>2. CASE i \in 1 .. cursor
          BY <2>6, <4>2, Zenon DEF IdsMapped
        <4> QED
          BY <2>4, <4>1, <4>2
      <3>5. \A x \in DOMAIN id_map : \E i \in 1 .. n : Asked(i) /\ rows[i].id = x
        BY <2>5, Zenon DEF IdsMapped
      <3> QED
        BY <1>0, <1>a, <2>1, <2>7, <3>3, <3>4, <3>5, Zenon DEF IdsMapped
    <2>8. CASE Renumbers(l)
      <3>1. /\ l.id \in Ids /\ rows[n].id \in Ids /\ l.id # taped[n][2].id
            /\ hash_with_id(l, taped[n][2].id) = payload_hash(taped[n][2])
            /\ rows[n].id = taped[n][2].id
        BY <1>2, <2>0, <2>8, TakenIs
      <3>2. kind(taped[n][2]) # "response"
        BY <1>2, <2>3, <3>1 DEF AnswersKeepIds
      <3>3. Asked(n)
        <4>1. from_value(taped[n][2].id) # None /\ Parses(taped[n][2])
          BY <2>3, <3>1, WireAssumption DEF from_value, Raws
        <4>2. kind(taped[n][2]) = "request"
          BY <3>2, <4>1 DEF kind, Parses
        <4> QED
          BY <2>3, <4>2 DEF Asked
      <3>4. id_map' = [x \in DOMAIN id_map \cup {rows[n].id} |->
                         IF x = rows[n].id THEN l.id ELSE id_map[x]]
        BY <2>0, <2>8 DEF Renumbers
      <3>5. PICK y \in Ids : y = rows[n].id
        BY <3>1
      <3>6. Mapped(y)' = l.id /\ \A x : x # y => Mapped(x)' = Mapped(x)
        BY <3>4, <3>5 DEF Mapped
      <3>7. \A i \in 1 .. n : Asked(i) =>
              /\ Nth(i) \in 1 .. Len(accepted')
              /\ accepted'[Nth(i)].id = Mapped(rows[i].id)'
        <4> SUFFICES ASSUME NEW i \in 1 .. n, Asked(i)
                     PROVE  /\ Nth(i) \in 1 .. Len(accepted')
                            /\ accepted'[Nth(i)].id = Mapped(rows[i].id)'
          OBVIOUS
        <4>0. PICK z : z = rows[i].id
          OBVIOUS
        <4>a. Mapped(rows[i].id)' = Mapped(z)' /\ Mapped(rows[i].id) = Mapped(z)
          BY <1>0, <4>0 DEF Mapped
        <4>1. CASE i = n
          BY <2>3, <2>6, <3>5, <3>6, <4>0, <4>a, <4>1, Zenon
        <4>2. CASE i \in 1 .. cursor
          <5>1. z # y
            BY <2>1, <2>5, <3>3, <3>5, <4>0, <4>2, Zenon DEF Unique
          <5>2. Nth(i) \in 1 .. Len(accepted) /\ accepted[Nth(i)].id = Mapped(z)
            BY <4>2, <4>a, Zenon DEF IdsMapped
          <5>3. accepted'[Nth(i)].id = Mapped(z)'
            BY <2>6, <3>6, <5>1, <5>2, Zenon
          <5> QED
            BY <2>6, <4>a, <5>2, <5>3, Zenon
        <4> QED
          BY <2>4, <4>1, <4>2
      <3>8. \A x \in DOMAIN id_map' : \E i \in 1 .. n : Asked(i) /\ rows[i].id = x
        <4>1. \A x \in DOMAIN id_map' : x \in DOMAIN id_map \/ x = rows[n].id
          BY <3>4
        <4>2. n \in 1 .. n
          BY <2>0, <1>0
        <4> QED
          BY <2>5, <3>3, <4>1, <4>2, Zenon DEF IdsMapped
      <3> QED
        BY <1>0, <1>a, <2>1, <3>7, <3>8, Zenon DEF IdsMapped
    <2> QED
      BY <1>2, <2>0, <2>7, <2>8 DEF Takes
  <1>3. CASE Stays
    BY <1>0, <1>a, <1>3, Zenon DEF Stays, IdsMapped, Mapped
  <1> QED
    BY <1>1, <1>2, <1>3, StepKinds

LEMMA AnsweredStep ==
    ASSUME Sound, Ordered, IdsMapped, Answered, [Next]_vars
    PROVE  Answered'
  <1>0. /\ RecordingOK /\ UNCHANGED <<taped, rows, store, remap>>
        /\ cursor \in Nat /\ cursor \in 0 .. Len(rows) /\ Len(rows) \in Nat
        /\ accepted \in Seq(Raws) /\ out \in Seq(Raws)
        /\ Len(accepted) \in Nat /\ Len(out) \in Nat
    BY RecordingKept DEF Sound, EngineOK, RecordingOK, TapeOK
  <1>a. \A i, j : Answers(j, i)' = Answers(j, i) /\ Nth(i)' = Nth(i) /\ AgNth(j)' = AgNth(j)
    BY <1>0 DEF Answers, Asked, Nth, AgNth, Clients, Agents
  <1>1. CASE Emits
    <2>0. PICK n \in Nat : n = cursor + 1
      BY <1>0
    <2> DEFINE o == Emission(rows[n])
    <2>1. /\ n \in 1 .. Len(rows) /\ cursor' = n /\ cursor \in 0 .. Len(rows) - 1
          /\ rows[n].dir = "a2c" /\ Loads(store, rows[n])
          /\ out' = Append(out, o) /\ UNCHANGED accepted
      BY <1>0, <1>1, <2>0 DEF Emits
    <2>2. AgNth(n) = Len(out) + 1
      <3>1. Len(Agents(SubSeq(taped, 1, n))) = Len(Agents(Passed)) + 1
        BY <1>0, <2>0, <2>1, PassedNext, Zenon DEF Passed
      <3> QED
        BY <3>1 DEF AgNth, Ordered
    <2>3. /\ o \in Raws
          /\ remap /\ rows[n].kind = "response" /\ rows[n].id # None => o.id = Mapped(rows[n].id)
      BY <2>1, EmissionIs DEF Mapped
    <2> HIDE DEF o
    <2>4. /\ out'[AgNth(n)] = o /\ AgNth(n) \in 1 .. Len(out')
          /\ \A k \in 1 .. Len(out) : out'[k] = out[k] /\ k \in 1 .. Len(out')
      BY <1>0, <2>1, <2>2, <2>3
    <2>5. \A j \in 1 .. n : j \in 1 .. cursor \/ j = n
      BY <1>0, <2>0
    <2>6. \A i \in 1 .. n - 1 : i \in 1 .. cursor /\ i \in 1 .. Len(rows)
      BY <1>0, <2>0
    <2>7. ASSUME remap, NEW j \in 1 .. n, NEW i \in 1 .. j - 1, Answers(j, i)
          PROVE  AgNth(j) \in 1 .. Len(out') /\ out'[AgNth(j)].id = accepted[Nth(i)].id
      <3>1. CASE j = n
        <4>1. /\ rows[n].kind = "response" /\ Asked(i) /\ rows[i].id = rows[n].id
              /\ i \in 1 .. cursor /\ i \in 1 .. Len(rows)
          BY <2>6, <2>7, <3>1 DEF Answers
        <4>2. rows[n].id # None
          BY <1>0, <4>1, AskedHasId DEF Asked
        <4>3. o.id = Mapped(rows[n].id)
          BY <2>3, <2>7, <4>1, <4>2
        <4>4. accepted[Nth(i)].id = Mapped(rows[n].id)
          BY <4>1, Zenon DEF IdsMapped
        <4> QED
          BY <2>4, <3>1, <4>3, <4>4
      <3>2. CASE j \in 1 .. cursor
        <4>1. AgNth(j) \in 1 .. Len(out) /\ out[AgNth(j)].id = accepted[Nth(i)].id
          BY <2>7, <3>2, Zenon DEF Answered
        <4> QED
          BY <2>4, <4>1, Zenon
      <3> QED
        BY <2>5, <2>7, <3>1, <3>2
    <2>8. remap => \A j \in 1 .. n : \A i \in 1 .. j - 1 : Answers(j, i) =>
                    AgNth(j) \in 1 .. Len(out') /\ out'[AgNth(j)].id = accepted[Nth(i)].id
      BY <2>7
    <2>9. Answered' = (remap' => \A j \in 1 .. cursor' : \A i \in 1 .. j - 1 : Answers(j, i)' =>
             AgNth(j)' \in 1 .. Len(out') /\ out'[AgNth(j)'].id = accepted'[Nth(i)'].id)
      BY DEF Answered
    <2> QED
      BY <1>0, <1>a, <2>1, <2>8, <2>9, ZenonT(40)
  <1>2. ASSUME NEW l, Takes(l) PROVE Answered'
    <2>0. PICK n \in Nat : n = cursor + 1
      BY <1>0
    <2>1. /\ n \in 1 .. Len(rows) /\ cursor' = n /\ rows[n].dir = "c2a"
          /\ accepted' = Append(accepted, raw(l)) /\ UNCHANGED out
      BY <1>0, <1>2, <2>0 DEF Takes
    <2>2. raw(l) \in Raws
      BY <1>2, TakenIs
    <2>3. \A k \in 1 .. Len(accepted) : accepted'[k] = accepted[k]
      BY <1>0, <2>1, <2>2
    <2>4. \A j \in 1 .. n : j \in 1 .. cursor \/ j = n
      BY <1>0, <2>0
    <2>5. \A j \in 1 .. cursor : \A i \in 1 .. j - 1 : i \in 1 .. cursor
      BY <1>0
    <2>6. ASSUME remap, NEW j \in 1 .. n, NEW i \in 1 .. j - 1, Answers(j, i)
          PROVE  AgNth(j) \in 1 .. Len(out) /\ out[AgNth(j)].id = accepted'[Nth(i)].id
      <3>1. rows[j].dir = "a2c" /\ Asked(i)
        BY <2>6 DEF Answers
      <3>2. j \in 1 .. cursor
        BY <2>1, <2>4, <3>1
      <3>3. AgNth(j) \in 1 .. Len(out) /\ out[AgNth(j)].id = accepted[Nth(i)].id
        BY <2>6, <3>2, Zenon DEF Answered
      <3>4. Nth(i) \in 1 .. Len(accepted)
        BY <2>5, <3>1, <3>2, Zenon DEF IdsMapped
      <3> QED
        BY <2>3, <3>3, <3>4
    <2>7. remap => \A j \in 1 .. n : \A i \in 1 .. j - 1 : Answers(j, i) =>
                    AgNth(j) \in 1 .. Len(out) /\ out[AgNth(j)].id = accepted'[Nth(i)].id
      BY <2>6
    <2>8. Answered' = (remap' => \A j \in 1 .. cursor' : \A i \in 1 .. j - 1 : Answers(j, i)' =>
             AgNth(j)' \in 1 .. Len(out') /\ out'[AgNth(j)'].id = accepted'[Nth(i)'].id)
      BY DEF Answered
    <2> QED
      BY <1>0, <1>a, <2>1, <2>7, <2>8, ZenonT(40)
  <1>3. CASE Stays
    BY <1>0, <1>a, <1>3, Zenon DEF Stays, Answered
  <1> QED
    BY <1>1, <1>2, <1>3, StepKinds

\* With remap_ids the client sees the answers under the ids it sent, if no
\* request id was used twice when the trace was recorded and the client
\* answers the agent's requests under these requests' own ids.
THEOREM ReplayAnswersClientIds ==
    ASSUME ~ReuseIds, AnswersKeepIds
    PROVE  Spec => []AnswersCarryClientIds
  <1>1. Init => IdsMapped /\ Answered
    <2> SUFFICES ASSUME Init PROVE IdsMapped /\ Answered
      OBVIOUS
    <2>1. cursor = 0 /\ DOMAIN id_map = {}
      BY DEF Init
    <2>2. 1 .. cursor = {}
      BY <2>1
    <2> QED
      BY <2>1, <2>2, Zenon DEF IdsMapped, Answered
  <1>2. /\ Sound /\ NumberedWell(taped) /\ Ordered /\ IdsMapped /\ Answered /\ [Next]_vars
        => IdsMapped' /\ Answered'
    BY AskedOnce, IdsStep, AnsweredStep DEF Sound
  <1>3. Sound /\ NumberedWell(taped) /\ Answered => AnswersCarryClientIds
    <2> SUFFICES ASSUME Sound, NumberedWell(taped), Answered, remap, NEW j \in 1 .. cursor
                 PROVE
        LET n    == Len(Agents(SubSeq(taped, 1, j)))
            Reqs == {i \in 1 .. j - 1 : /\ taped[i][1] = "c2a"
                                        /\ rows[i].kind = "request"
                                        /\ rows[i].id = rows[j].id}
        IN  rows[j].dir = "a2c" /\ rows[j].kind = "response" /\ Reqs # {} =>
              out[n].id = accepted[Len(Clients(SubSeq(taped, 1, Max(Reqs))))].id
      BY DEF AnswersCarryClientIds
    <2> DEFINE Reqs == {i \in 1 .. j - 1 : /\ taped[i][1] = "c2a"
                                           /\ rows[i].kind = "request"
                                           /\ rows[i].id = rows[j].id}
    <2>1. SUFFICES ASSUME rows[j].dir = "a2c", rows[j].kind = "response", Reqs # {}
                   PROVE  out[AgNth(j)].id = accepted[Nth(Max(Reqs))].id
      BY DEF AgNth, Nth
    <2>2. \A i \in Reqs : i \in 1 .. j - 1 /\ i \in 1 .. Len(rows) /\ Answers(j, i) /\ Asked(i)
      <3>1. cursor \in 0 .. Len(rows) /\ Len(rows) \in Nat
        BY DEF Sound, EngineOK, RecordingOK, TapeOK
      <3>2. \A i \in 1 .. j - 1 : i \in 1 .. Len(rows)
        BY <3>1
      <3> QED
        BY <2>1, <3>2 DEF Answers, Asked
    <2>3. Unique
      BY AskedOnce DEF Sound
    <2>4. \A i, k \in Reqs : i = k
      BY <2>2, <2>3 DEF Unique
    <2>5. PICK i \in Reqs : TRUE
      BY <2>1
    <2>6. Max(Reqs) = i
      <3>1. i \in Nat
        BY <2>5
      <3>2. \A y \in Reqs : i >= y
        BY <2>4, <2>5, <3>1
      <3>3. Max(Reqs) \in Reqs
        BY <2>5, <3>2 DEF Max
      <3> QED
        BY <2>4, <2>5, <3>3
    <2> QED
      BY <2>2, <2>5, <2>6, Zenon DEF Answered
  <1> QED
    BY <1>1, <1>2, <1>3, AlwaysOrdered, PTL DEF Spec

=============================================================================
