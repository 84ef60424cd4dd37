-------------------------- MODULE TraceStoreProofs --------------------------
(***************************************************************************)
(* Proofs about TraceStore, for every set of frames and every bound: its   *)
(* invariants, the rows of its log, and that it implements TraceLog.       *)
(***************************************************************************)
EXTENDS TraceStore, TraceFormatProofs, SequenceTheorems, TLAPS

\* The call made up for a writer without one is a call.
LEMMA NoCallType == NoCall \in Calls
  <1>1. (CHOOSE r \in Frames : TRUE) \in Frames
    BY FramesAssumption
  <1> QED
    BY <1>1 DEF NoCall, Calls, Directions

\* The empty file and the empty BufWriter.
LEMMA EmptySeqs == <<>> \in Seq(Rows) /\ <<>> \in Seq(Acks)
  OBVIOUS

\* Writing one blob file keeps the store a store.
LEMMA StoreBlobType ==
    ASSUME NEW b, IsBlobStore(b), NEW h \in Hashes, NEW bytes \in Raws \cup {Torn}
    PROVE  /\ DOMAIN StoreBlob(b, h, bytes) = DOMAIN b \cup {h}
           /\ IsBlobStore(StoreBlob(b, h, bytes))
  BY DEF StoreBlob, IsBlobStore

\* The row of a call: a Call has a direction and a frame.
LEMMA CallType ==
    ASSUME NEW c \in Calls, NEW n \in Nat
    PROVE  /\ c.dir \in Directions /\ c.raw \in Frames /\ c.raw \in Raws
           /\ payload_hash(c.raw) \in Hashes
           /\ EventRecord(n, c.dir, c.raw) \in Rows
           /\ EventRecord(n, c.dir, c.raw).hash = payload_hash(c.raw)
           /\ EventRecord(n, c.dir, c.raw).seq = n
           /\ [row |-> EventRecord(n, c.dir, c.raw), raw |-> c.raw] \in Acks
  <1>1. c.dir \in Directions /\ c.raw \in Frames
    BY DEF Calls
  <1> QED
    BY <1>1, EventRecordType DEF Acks

\* What a complete flush, and one that stops early, leave on disk and in the
\* BufWriter.
LEMMA FlushType ==
    ASSUME NEW S, NEW s \in Seq(S), NEW b \in Seq(S), NEW k \in 0 .. Len(b)
    PROVE  /\ s \o b \in Seq(S)
           /\ SubSeq(b, 1, k) \in Seq(S)
           /\ SubSeq(b, k + 1, Len(b)) \in Seq(S)
           /\ s \o SubSeq(b, 1, k) \in Seq(S)
  OBVIOUS

\* Handing one more row to the BufWriter.
LEMMA AppendType ==
    ASSUME NEW S, NEW s \in Seq(S), NEW e \in S
    PROVE  Append(s, e) \in Seq(S) /\ Len(Append(s, e)) = Len(s) + 1
  OBVIOUS

-----------------------------------------------------------------------------
(* Type correctness *)

\* A directory nobody has recorded into is well typed.
LEMMA TypeInit == Init => TypeOK
  <1> SUFFICES ASSUME Init PROVE TypeOK
    OBVIOUS
  <1>1. IsBlobStore(blobs)
    BY DEF Init, IsBlobStore
  <1>2. rows \in Seq(Rows) /\ buf \in Seq(Rows) /\ acked \in Seq(Acks)
    BY DEF Init
  <1> QED
    BY <1>1, <1>2, NoCallType DEF Init, TypeOK

\* A flush outside record() leaves a well-typed events.jsonl.
LEMMA FlushedBufferType ==
    ASSUME TypeOK,
           \/ UNCHANGED <<rows, tail>> \/ FlushAll(buf)
           \/ \E k \in 0 .. Len(buf) - 1 : FlushPart(buf, k)
    PROVE  rows' \in Seq(Rows) /\ tail' \in {"missing", "clean", "torn"}
  <1>1. CASE UNCHANGED <<rows, tail>>
    BY <1>1 DEF TypeOK
  <1>2. CASE FlushAll(buf)
    BY <1>2, FlushType DEF FlushAll, TypeOK
  <1>3. ASSUME NEW k \in 0 .. Len(buf) - 1, FlushPart(buf, k)
        PROVE  rows' \in Seq(Rows) /\ tail' \in {"missing", "clean", "torn"}
    <2>1. k \in 0 .. Len(buf)
      BY DEF TypeOK
    <2>2. rows' \in Seq(Rows)
      BY <1>3, <2>1, FlushType DEF FlushPart, TypeOK
    <2> QED
      BY <1>3, <2>2 DEF FlushPart, TypeOK
  <1> QED
    BY <1>1, <1>2, <1>3

\* Every system call of create, record and finalize, and a crash, keeps the
\* types.
LEMMA TypeStep == TypeOK /\ [Next]_vars => TypeOK'
  <1> SUFFICES ASSUME TypeOK, [Next]_vars PROVE TypeOK'
    OBVIOUS
  <1> USE BoundsAssumption, NoCallType, EmptySeqs
  <1>1. CASE CreateTruncateManifest
    BY <1>1 DEF CreateTruncateManifest, TypeOK, call
  <1>2. CASE CreateWriteManifest
    BY <1>2 DEF CreateWriteManifest, TypeOK, call, Works, Fails
  <1>3. CASE CreateEvents
    <2>1. CASE pc' = "idle"
      <3>1. /\ Works /\ tail' = "clean" /\ rows' = <<>>
            /\ buf' = <<>> /\ next_seq' = 0 /\ ended' = NewManifest /\ acked' = <<>>
        BY <1>3, <2>1 DEF CreateEvents, EventsOpened
      <3>2. rows' \in Seq(Rows) /\ buf' \in Seq(Rows) /\ acked' \in Seq(Acks)
        BY <3>1
      <3> QED
        BY <1>3, <3>1, <3>2 DEF CreateEvents, EventsOpened, TypeOK, call, Works
    <2>2. CASE pc' = "none"
      BY <1>3, <2>2 DEF CreateEvents, EventsOpened, TypeOK, call, Fails
    <2> QED
      BY <1>3, <2>1, <2>2 DEF CreateEvents, EventsOpened
  <1>4. ASSUME NEW d \in Directions, NEW r \in Frames, RecordOpenBlob(d, r)
        PROVE  TypeOK'
    <2>1. payload_hash(r) \in Hashes
      BY EventRecordType
    <2>2. IsBlobStore(blobs')
      <3>1. CASE UNCHANGED blobs
        BY <3>1 DEF TypeOK
      <3>2. CASE blobs' = StoreBlob(blobs, payload_hash(r), Torn)
        BY <3>2, <2>1, StoreBlobType DEF TypeOK
      <3> QED
        BY <1>4, <3>1, <3>2 DEF RecordOpenBlob, AlreadyExists
    <2>3. arg' \in Calls /\ fresh' \in BOOLEAN
      <3>1. [dir |-> d, raw |-> r] \in Calls
        BY DEF Calls
      <3> QED
        BY <1>4, <3>1 DEF RecordOpenBlob, AlreadyExists, Return
    <2>4. pc' \in {"idle", "blob_write", "append"} /\ faults' \in Nat /\ calls' \in Nat
      BY <1>4 DEF RecordOpenBlob, AlreadyExists, Return, Works, Fails, TypeOK
    <2> QED
      BY <1>4, <2>2, <2>3, <2>4 DEF RecordOpenBlob, AlreadyExists, TypeOK
  <1>5. CASE RecordWriteBlob
    <2>1. arg \in Calls /\ next_seq \in Nat
      BY DEF TypeOK
    <2>2. payload_hash(arg.raw) \in Hashes /\ arg.raw \in Raws
      BY <2>1, CallType
    <2>3. IsBlobStore(blobs')
      <3>1. CASE UNCHANGED blobs
        BY <3>1 DEF TypeOK
      <3>2. CASE blobs' = StoreBlob(blobs, payload_hash(arg.raw), arg.raw)
        BY <3>2, <2>2, StoreBlobType DEF TypeOK
      <3> QED
        BY <1>5, <3>1, <3>2 DEF RecordWriteBlob
    <2>4. /\ arg' \in Calls /\ fresh' \in BOOLEAN
          /\ pc' \in {"idle", "append"} /\ faults' \in Nat
      <3>1. CASE Works /\ pc' = "append" /\ UNCHANGED call
        <4>1. arg' \in Calls /\ fresh' \in BOOLEAN
          BY <3>1 DEF call, TypeOK
        <4> QED
          BY <3>1, <4>1 DEF Works, TypeOK
      <3>2. CASE Fails /\ Return
        <4>1. arg' \in Calls /\ fresh' \in BOOLEAN
          BY <3>2 DEF Return
        <4> QED
          BY <3>2, <4>1 DEF Fails, Return, TypeOK
      <3> QED
        BY <1>5, <3>1, <3>2 DEF RecordWriteBlob
    <2> QED
      BY <1>5, <2>3, <2>4 DEF RecordWriteBlob, TypeOK
  <1>6. CASE RecordAppend
    <2> DEFINE row == EventRecord(next_seq, arg.dir, arg.raw)
               b   == Append(buf, row)
               ack == [row |-> row, raw |-> arg.raw]
    <2>1. arg \in Calls /\ next_seq \in Nat /\ buf \in Seq(Rows)
      BY DEF TypeOK
    <2>2. row \in Rows /\ ack \in Acks
      <3>1. row \in Rows
        BY <2>1, CallType
      <3>2. ack \in Acks
        BY <2>1, CallType
      <3> QED
        BY <3>1, <3>2
    <2>3. b \in Seq(Rows) /\ Len(b) = Len(buf) + 1
      <3> HIDE DEF row
      <3> QED
        BY <2>1, <2>2, AppendType
    <2>4. \/ /\ Works /\ FlushAll(b) /\ buf' = <<>>
             /\ next_seq' = next_seq + 1 /\ acked' = Append(acked, ack)
          \/ /\ Fails
             /\ \E k \in 0 .. Len(buf) :
                  FlushPart(b, k) /\ buf' = SubSeq(b, k + 1, Len(b))
             /\ UNCHANGED <<next_seq, acked>>
      BY <1>6 DEF RecordAppend
    <2> HIDE DEF row, b, ack
    <2>5. rows' \in Seq(Rows) /\ buf' \in Seq(Rows) /\ tail' \in {"missing", "clean", "torn"}
      <3>1. CASE FlushAll(b) /\ buf' = <<>>
        BY <3>1, <2>3, FlushType DEF FlushAll, TypeOK
      <3>2. ASSUME NEW k \in 0 .. Len(buf), FlushPart(b, k),
                   buf' = SubSeq(b, k + 1, Len(b))
            PROVE  rows' \in Seq(Rows) /\ buf' \in Seq(Rows)
                   /\ tail' \in {"missing", "clean", "torn"}
        <4>1. k \in 0 .. Len(b)
          BY <2>1, <2>3
        <4>2. rows' \in Seq(Rows) /\ buf' \in Seq(Rows)
          BY <3>2, <4>1, <2>3, FlushType DEF FlushPart, TypeOK
        <4> QED
          BY <3>2, <4>2 DEF FlushPart, TypeOK
      <3> QED
        BY <2>4, <3>1, <3>2
    <2>6. acked' \in Seq(Acks) /\ next_seq' \in Nat /\ faults' \in Nat
      <3>1. CASE Works /\ next_seq' = next_seq + 1 /\ acked' = Append(acked, ack)
        <4>1. acked' \in Seq(Acks)
          BY <3>1, <2>2, AppendType DEF TypeOK
        <4> QED
          BY <3>1, <4>1 DEF TypeOK, Works
      <3>2. CASE Fails /\ UNCHANGED <<next_seq, acked>>
        BY <3>2 DEF TypeOK, Fails
      <3> QED
        BY <2>4, <3>1, <3>2
    <2>7. /\ pc' = "idle" /\ arg' = NoCall /\ fresh' = FALSE
          /\ UNCHANGED <<manifest, blobs, ended, sessions, calls, crashes>>
      BY <1>6 DEF RecordAppend, Return
    <2> QED
      BY <2>5, <2>6, <2>7 DEF TypeOK
  <1>7. CASE FinalizeFlush
    <2>1. \/ UNCHANGED <<rows, tail>> \/ FlushAll(buf)
          \/ \E k \in 0 .. Len(buf) - 1 : FlushPart(buf, k)
      BY <1>7 DEF FinalizeFlush
    <2>2. rows' \in Seq(Rows) /\ tail' \in {"missing", "clean", "torn"}
      BY <2>1, FlushedBufferType
    <2>3. /\ pc' \in {"fin_flushed", "none"} /\ faults' \in Nat /\ buf' = <<>>
          /\ UNCHANGED <<manifest, blobs, call, next_seq, ended, acked, sessions, calls, crashes>>
      BY <1>7 DEF FinalizeFlush, Works, Fails, TypeOK
    <2> QED
      BY <2>2, <2>3 DEF TypeOK, call
  <1>8. CASE FinalizeTruncateManifest
    <2>1. SealedManifest(next_seq, rows) \in SealedManifests
      BY DEF TypeOK, SealedManifest, SealedManifests
    <2> QED
      BY <1>8, <2>1 DEF FinalizeTruncateManifest, TypeOK, call, Works, Fails
  <1>9. CASE FinalizeWriteManifest
    BY <1>9 DEF FinalizeWriteManifest, TypeOK, call, Works, Fails
  <1>10. CASE DropWriter
    <2>1. \/ UNCHANGED <<rows, tail>> \/ FlushAll(buf)
          \/ \E k \in 0 .. Len(buf) - 1 : FlushPart(buf, k)
      BY <1>10 DEF DropWriter
    <2>2. rows' \in Seq(Rows) /\ tail' \in {"missing", "clean", "torn"}
      BY <2>1, FlushedBufferType
    <2>3. /\ pc' = "none" /\ faults' \in Nat /\ buf' = <<>>
          /\ UNCHANGED <<manifest, blobs, call, next_seq, ended, acked, sessions, calls, crashes>>
      BY <1>10 DEF DropWriter, Works, Fails, TypeOK
    <2> QED
      BY <2>2, <2>3 DEF TypeOK, call
  <1>11. CASE Crash
    <2> DEFINE b == Append(buf, EventRecord(next_seq, arg.dir, arg.raw))
    <2>1. b \in Seq(Rows) /\ Len(b) = Len(buf) + 1
      <3>1. EventRecord(next_seq, arg.dir, arg.raw) \in Rows
        BY CallType DEF TypeOK
      <3> QED
        BY <3>1, AppendType DEF TypeOK
    <2>2. \/ UNCHANGED <<rows, tail>> \/ FlushAll(b)
          \/ \E k \in 0 .. Len(buf) : FlushPart(b, k)
          \/ \E k \in 0 .. Len(buf) - 1 : FlushPart(buf, k)
      BY <1>11 DEF Crash
    <2>3. /\ pc' = "none" /\ arg' = NoCall /\ fresh' = FALSE /\ buf' = <<>>
          /\ crashes' \in Nat
          /\ UNCHANGED <<manifest, blobs, next_seq, ended, acked, sessions, calls, faults>>
      BY <1>11 DEF Crash, TypeOK
    <2> HIDE DEF b
    <2>4. rows' \in Seq(Rows) /\ tail' \in {"missing", "clean", "torn"}
      <3>1. CASE UNCHANGED <<rows, tail>>
        BY <3>1 DEF TypeOK
      <3>2. CASE FlushAll(b)
        BY <3>2, <2>1, FlushType DEF FlushAll, TypeOK
      <3>3. ASSUME NEW k \in 0 .. Len(buf), FlushPart(b, k)
            PROVE  rows' \in Seq(Rows) /\ tail' \in {"missing", "clean", "torn"}
        <4>1. k \in 0 .. Len(b)
          BY <2>1 DEF TypeOK
        <4>2. rows' \in Seq(Rows)
          BY <3>3, <4>1, <2>1, FlushType DEF FlushPart, TypeOK
        <4> QED
          BY <3>3, <4>2 DEF FlushPart, TypeOK
      <3>4. CASE \E k \in 0 .. Len(buf) - 1 : FlushPart(buf, k)
        BY <3>4, FlushedBufferType
      <3> QED
        BY <2>2, <3>1, <3>2, <3>3, <3>4
    <2> QED
      BY <2>3, <2>4 DEF TypeOK
  <1>12. CASE UNCHANGED vars
    BY <1>12 DEF vars, disk, call, bounds, TypeOK
  <1> QED
    BY <1>1, <1>2, <1>3, <1>4, <1>5, <1>6, <1>7, <1>8, <1>9, <1>10, <1>11, <1>12
       DEF Next, Finished

\* Every reachable state of the writer and its directory is well typed.
THEOREM TypeCorrect == Spec => []TypeOK
  BY TypeInit, TypeStep, PTL DEF Spec

-----------------------------------------------------------------------------
(***************************************************************************)
(* Rows and blobs.  The inductive invariant adds to RowsHaveBlobs that the *)
(* blob of the call under way exists by the time its row is appended.      *)
(***************************************************************************)

\* RowsHaveBlobs, strengthened to be inductive.
BlobInv ==
    /\ RowsHaveBlobs
    /\ pc = "append" => payload_hash(arg.raw) \in DOMAIN blobs

\* The rows whose blob exists, in a store with the files dom.
Backed(dom) == {row \in Rows : row.hash \in dom}

\* "Each row of s has a blob" says that s is a sequence of backed rows, which
\* the laws of concatenation and SubSeq apply to.
LEMMA BackedSeq ==
    ASSUME NEW dom, NEW s \in Seq(Rows)
    PROVE  (\A i \in DOMAIN s : s[i].hash \in dom) <=> s \in Seq(Backed(dom))
  <1>1. ASSUME \A i \in DOMAIN s : s[i].hash \in dom
        PROVE  s \in Seq(Backed(dom))
    <2>1. \A i \in 1 .. Len(s) : s[i] \in Backed(dom)
      BY <1>1 DEF Backed
    <2> QED
      BY <2>1
  <1>2. ASSUME s \in Seq(Backed(dom))
        PROVE  \A i \in DOMAIN s : s[i].hash \in dom
    <2>1. \A i \in DOMAIN s : s[i] \in Backed(dom)
      BY <1>2
    <2> QED
      BY <2>1 DEF Backed
  <1> QED
    BY <1>1, <1>2

\* More files back no fewer rows.
LEMMA BackedMonotone ==
    ASSUME NEW dom, NEW more, dom \subseteq more, NEW s \in Seq(Backed(dom))
    PROVE  s \in Seq(Backed(more))
  <1>1. Backed(dom) \subseteq Backed(more)
    BY DEF Backed
  <1> HIDE DEF Backed
  <1> QED
    BY <1>1

\* No step removes a blob file.
LEMMA BlobsGrow ==
    ASSUME TypeOK, [Next]_vars
    PROVE  DOMAIN blobs \subseteq DOMAIN blobs'
  <1>1. ASSUME NEW h, NEW bytes
        PROVE  DOMAIN blobs \subseteq DOMAIN StoreBlob(blobs, h, bytes)
    BY DEF StoreBlob
  <1>2. ASSUME NEW d \in Directions, NEW r \in Frames, RecordOpenBlob(d, r)
        PROVE  DOMAIN blobs \subseteq DOMAIN blobs'
    BY <1>1, <1>2 DEF RecordOpenBlob, AlreadyExists
  <1>3. CASE RecordWriteBlob
    BY <1>1, <1>3 DEF RecordWriteBlob
  <1>4. CASE UNCHANGED blobs
    BY <1>4
  <1> QED
    BY <1>2, <1>3, <1>4
       DEF Next, vars, disk, Finished, CreateTruncateManifest, CreateWriteManifest,
           CreateEvents, EventsOpened, RecordAppend, FinalizeFlush, FinalizeTruncateManifest,
           FinalizeWriteManifest, DropWriter, Crash

\* Each system call keeps the rows backed: a new row comes after its blob, and
\* a flush only moves backed rows from the BufWriter to the file.
LEMMA BlobStep == TypeOK /\ BlobInv /\ [Next]_vars => BlobInv'
  <1> SUFFICES ASSUME TypeOK, BlobInv, [Next]_vars PROVE BlobInv'
    OBVIOUS
  <1> DEFINE B == Backed(DOMAIN blobs)
  <1>a. TypeOK' /\ DOMAIN blobs \subseteq DOMAIN blobs'
    BY TypeStep, BlobsGrow
  <1>b. rows \in Seq(Rows) /\ buf \in Seq(Rows) /\ rows' \in Seq(Rows) /\ buf' \in Seq(Rows)
    BY <1>a DEF TypeOK
  <1>c. rows \in Seq(B) /\ buf \in Seq(B)
    BY <1>b, BackedSeq DEF BlobInv, RowsHaveBlobs
  <1>d. <<>> \in Seq(B)
    OBVIOUS
  <1> HIDE DEF B
  <1>e. ASSUME rows' \in Seq(B), buf' \in Seq(B)
        PROVE  RowsHaveBlobs'
    <2>1. rows' \in Seq(Backed(DOMAIN blobs')) /\ buf' \in Seq(Backed(DOMAIN blobs'))
      BY <1>a, <1>e, BackedMonotone DEF B
    <2>2. \A i \in DOMAIN rows' : rows'[i].hash \in DOMAIN blobs'
      BY <1>b, <2>1, BackedSeq
    <2>3. \A i \in DOMAIN buf' : buf'[i].hash \in DOMAIN blobs'
      BY <1>b, <2>1, BackedSeq
    <2> QED
      BY <2>2, <2>3 DEF RowsHaveBlobs
  <1>f. ASSUME UNCHANGED <<rows, buf>>
        PROVE  RowsHaveBlobs'
    BY <1>c, <1>e, <1>f
  <1>1. CASE CreateTruncateManifest \/ CreateWriteManifest
    BY <1>1, <1>f DEF CreateTruncateManifest, CreateWriteManifest, BlobInv
  <1>2. CASE CreateEvents
    <2>1. rows' \in Seq(B) /\ buf' \in Seq(B)
      BY <1>2, <1>c, <1>d DEF CreateEvents, EventsOpened
    <2> QED
      BY <1>2, <2>1, <1>e DEF CreateEvents, EventsOpened, BlobInv
  <1>3. ASSUME NEW d \in Directions, NEW r \in Frames, RecordOpenBlob(d, r)
        PROVE  BlobInv'
    <2>1. RowsHaveBlobs'
      BY <1>3, <1>f DEF RecordOpenBlob, AlreadyExists
    <2>2. pc' = "append" => payload_hash(arg'.raw) \in DOMAIN blobs'
      BY <1>3 DEF RecordOpenBlob, AlreadyExists, Return
    <2> QED
      BY <2>1, <2>2 DEF BlobInv
  <1>4. CASE RecordWriteBlob
    <2>1. RowsHaveBlobs'
      BY <1>4, <1>f DEF RecordWriteBlob
    <2>2. pc' = "append" => payload_hash(arg'.raw) \in DOMAIN blobs'
      BY <1>4 DEF RecordWriteBlob, Return, call, StoreBlob
    <2> QED
      BY <2>1, <2>2 DEF BlobInv
  <1>5. CASE RecordAppend
    <2> DEFINE row == EventRecord(next_seq, arg.dir, arg.raw)
               b   == Append(buf, row)
    <2>1. row \in Rows /\ row.hash = payload_hash(arg.raw)
      BY CallType DEF TypeOK
    <2>2. row \in B
      BY <1>5, <2>1 DEF B, Backed, BlobInv, RecordAppend
    <2>3. b \in Seq(B) /\ Len(b) = Len(buf) + 1
      <3> HIDE DEF row
      <3> QED
        BY <1>c, <2>2, AppendType
    <2>4. \/ FlushAll(b) /\ buf' = <<>>
          \/ \E k \in 0 .. Len(buf) : FlushPart(b, k) /\ buf' = SubSeq(b, k + 1, Len(b))
      BY <1>5 DEF RecordAppend
    <2> HIDE DEF b
    <2>6. ASSUME NEW k \in 0 .. Len(buf), FlushPart(b, k), buf' = SubSeq(b, k + 1, Len(b))
          PROVE  rows' \in Seq(B) /\ buf' \in Seq(B)
      <3>1. k \in 0 .. Len(b)
        BY <2>3, <1>b
      <3> QED
        BY <2>6, <3>1, <2>3, <1>c, FlushType DEF FlushPart
    <2>7. rows' \in Seq(B) /\ buf' \in Seq(B)
      <3>1. CASE FlushAll(b) /\ buf' = <<>>
        BY <3>1, <2>3, <1>c, <1>d, FlushType DEF FlushAll
      <3> QED
        BY <2>4, <3>1, <2>6
    <2> QED
      BY <1>5, <2>7, <1>e DEF RecordAppend, Return, BlobInv
  <1>6. CASE FinalizeFlush \/ DropWriter
    <2>1. \/ UNCHANGED <<rows, tail>> \/ FlushAll(buf)
          \/ \E k \in 0 .. Len(buf) - 1 : FlushPart(buf, k)
      BY <1>6 DEF FinalizeFlush, DropWriter
    <2>2. rows' \in Seq(B)
      <3>1. ASSUME NEW k \in 0 .. Len(buf) - 1, FlushPart(buf, k)
            PROVE  rows' \in Seq(B)
        <4>1. k \in 0 .. Len(buf)
          BY <1>b
        <4> QED
          BY <3>1, <4>1, <1>c, FlushType DEF FlushPart
      <3>2. CASE FlushAll(buf)
        BY <3>2, <1>c, FlushType DEF FlushAll
      <3> QED
        BY <2>1, <3>1, <3>2, <1>c
    <2>3. buf' \in Seq(B) /\ pc' \in {"fin_flushed", "none"}
      BY <1>6, <1>d DEF FinalizeFlush, DropWriter
    <2> QED
      BY <2>2, <2>3, <1>e DEF BlobInv
  <1>7. CASE FinalizeTruncateManifest \/ FinalizeWriteManifest
    BY <1>7, <1>f DEF FinalizeTruncateManifest, FinalizeWriteManifest, BlobInv
  <1>8. CASE Crash
    <2> DEFINE row == EventRecord(next_seq, arg.dir, arg.raw)
               b   == Append(buf, row)
    <2>1. \/ UNCHANGED rows
          \/ pc = "append" /\ (FlushAll(b) \/ \E k \in 0 .. Len(buf) : FlushPart(b, k))
          \/ \E k \in 0 .. Len(buf) - 1 : FlushPart(buf, k)
      BY <1>8 DEF Crash
    <2>2. ASSUME pc = "append"
          PROVE  b \in Seq(B) /\ Len(b) = Len(buf) + 1
      <3>1. row \in Rows /\ row.hash = payload_hash(arg.raw)
        BY CallType DEF TypeOK
      <3>2. row \in B
        BY <2>2, <3>1 DEF B, Backed, BlobInv
      <3> HIDE DEF row
      <3> QED
        BY <1>c, <3>2, AppendType
    <2> HIDE DEF b
    <2>3. rows' \in Seq(B)
      <3>1. ASSUME pc = "append", NEW k \in 0 .. Len(buf), FlushPart(b, k)
            PROVE  rows' \in Seq(B)
        <4>1. k \in 0 .. Len(b)
          BY <2>2, <3>1, <1>b
        <4> QED
          BY <3>1, <4>1, <2>2, <1>c, FlushType DEF FlushPart
      <3>2. CASE pc = "append" /\ FlushAll(b)
        BY <3>2, <2>2, <1>c, FlushType DEF FlushAll
      <3>3. ASSUME NEW k \in 0 .. Len(buf) - 1, FlushPart(buf, k)
            PROVE  rows' \in Seq(B)
        <4>1. k \in 0 .. Len(buf)
          BY <1>b
        <4> QED
          BY <3>3, <4>1, <1>c, FlushType DEF FlushPart
      <3> QED
        BY <2>1, <3>1, <3>2, <3>3, <1>c
    <2> QED
      BY <1>8, <2>3, <1>d, <1>e DEF Crash, BlobInv
  <1>9. CASE UNCHANGED vars
    BY <1>9, <1>f DEF vars, disk, call, BlobInv
  <1> QED
    BY <1>1, <1>2, <1>3, <1>4, <1>5, <1>6, <1>7, <1>8, <1>9 DEF Next, Finished

\* No crash, I/O error or reuse of the directory leaves a row of events.jsonl
\* without its blob file.
THEOREM RowsAlwaysHaveBlobs == Spec => []RowsHaveBlobs
  <1>1. Init => BlobInv
    BY DEF Init, BlobInv, RowsHaveBlobs
  <1>2. BlobInv => RowsHaveBlobs
    BY DEF BlobInv
  <1> QED
    BY <1>1, <1>2, TypeCorrect, BlobStep, PTL DEF Spec

-----------------------------------------------------------------------------
(***************************************************************************)
(* The seal.  A sealed manifest only exists while there is no writer; what *)
(* finalize is about to write describes the log as it stands; a torn row   *)
(* is always the head of what the BufWriter still holds, so a successful   *)
(* flush repairs it; and without I/O errors the BufWriter is empty between *)
(* calls and next_seq counts the rows.                                     *)
(***************************************************************************)

Recording == {"idle", "blob_write", "append"}
Finishing == {"fin_flushed", "fin_write"}

\* SealMatchesLog, strengthened to be inductive.
SealInv ==
    /\ SealMatchesLog
    /\ Sealed => pc = "none"
    /\ pc \in Recording => tail # "missing" /\ (tail = "torn" => buf # <<>>)
    /\ pc \in Finishing => tail = "clean" /\ buf = <<>>
    /\ pc = "fin_write" => ended = SealedManifest(next_seq, rows)
    /\ faults = 0 /\ pc \in Recording \cup Finishing =>
         buf = <<>> /\ next_seq = Len(rows)

\* The manifests create and finalize write on the way are not sealed.
LEMMA Unsealed ==
    /\ ~(TornManifest.state = "valid" /\ TornManifest.ended)
    /\ ~(NewManifest.state = "valid" /\ NewManifest.ended)
    /\ ~(NoManifest.state = "valid" /\ NoManifest.ended)
  BY DEF TornManifest, NewManifest, NoManifest

\* Sealing is consistent from one system call to the next.
LEMMA SealStep == TypeOK /\ SealInv /\ [Next]_vars => SealInv'
  <1> SUFFICES ASSUME TypeOK, SealInv, [Next]_vars PROVE SealInv'
    OBVIOUS
  <1>a. faults \in Nat /\ rows \in Seq(Rows) /\ buf \in Seq(Rows) /\ next_seq \in Nat
    BY DEF TypeOK
  <1>b. ASSUME Fails PROVE faults' # 0
    BY <1>a, <1>b DEF Fails
  <1>1. CASE CreateTruncateManifest
    BY <1>1, Unsealed DEF CreateTruncateManifest, SealInv, SealMatchesLog, Sealed,
                          Recording, Finishing
  <1>2. CASE CreateWriteManifest
    BY <1>2, Unsealed DEF CreateWriteManifest, SealInv, SealMatchesLog, Sealed,
                          Recording, Finishing
  <1>3. CASE CreateEvents
    <2>1. ~Sealed'
      BY <1>3 DEF CreateEvents, EventsOpened, SealInv, Sealed
    <2>2. Len(<<>>) = 0
      OBVIOUS
    <2> QED
      BY <1>3, <2>1, <2>2 DEF CreateEvents, EventsOpened, SealInv, SealMatchesLog, Recording, Finishing
  <1>4. ASSUME NEW d \in Directions, NEW r \in Frames, RecordOpenBlob(d, r)
        PROVE  SealInv'
    <2>1. ~Sealed'
      BY <1>4 DEF RecordOpenBlob, AlreadyExists, SealInv, Sealed
    <2>2. /\ pc = "idle" /\ pc' \in Recording
          /\ UNCHANGED <<tail, rows, buf, next_seq>>
          /\ faults' = 0 => faults = 0
      BY <1>4, <1>b DEF RecordOpenBlob, AlreadyExists, Recording, Return, Works
    <2> QED
      BY <2>1, <2>2 DEF SealInv, SealMatchesLog, Recording, Finishing
  <1>5. CASE RecordWriteBlob
    <2>1. ~Sealed'
      BY <1>5 DEF RecordWriteBlob, SealInv, Sealed
    <2>2. /\ pc = "blob_write" /\ pc' \in Recording
          /\ UNCHANGED <<tail, rows, buf, next_seq>>
          /\ faults' = 0 => faults = 0
      BY <1>5, <1>b DEF RecordWriteBlob, Recording, Return, Works
    <2> QED
      BY <2>1, <2>2 DEF SealInv, SealMatchesLog, Recording, Finishing
  <1>6. CASE RecordAppend
    <2> DEFINE row == EventRecord(next_seq, arg.dir, arg.raw)
               b   == Append(buf, row)
    <2>1. ~Sealed' /\ pc = "append" /\ pc' = "idle"
      BY <1>6 DEF RecordAppend, SealInv, Sealed, Return
    <2>2. b \in Seq(Rows) /\ Len(b) = Len(buf) + 1
      <3>1. row \in Rows
        BY CallType DEF TypeOK
      <3> HIDE DEF row
      <3> QED
        BY <1>a, <3>1, AppendType
    <2>3. \/ Works /\ FlushAll(b) /\ buf' = <<>> /\ next_seq' = next_seq + 1
          \/ /\ Fails
             /\ \E k \in 0 .. Len(buf) : FlushPart(b, k) /\ buf' = SubSeq(b, k + 1, Len(b))
      BY <1>6 DEF RecordAppend
    <2> HIDE DEF b
    <2>4. CASE Works /\ FlushAll(b) /\ buf' = <<>> /\ next_seq' = next_seq + 1
      <3>1. tail' = "clean" /\ rows' = rows \o b /\ faults' = faults
        BY <2>4 DEF FlushAll, Works
      <3>2. faults = 0 => next_seq' = Len(rows')
        <4>1. Len(rows') = Len(rows) + Len(b)
          BY <3>1, <2>2, <1>a, ConcatProperties
        <4>2. faults = 0 => Len(buf) = 0 /\ next_seq = Len(rows)
          BY <2>1, <1>a DEF SealInv, Recording
        <4> QED
          BY <4>1, <4>2, <2>2, <2>4, <1>a
      <3> QED
        BY <2>1, <2>4, <3>1, <3>2 DEF SealInv, SealMatchesLog, Recording, Finishing
    <2>5. ASSUME Fails, NEW k \in 0 .. Len(buf), FlushPart(b, k),
                 buf' = SubSeq(b, k + 1, Len(b))
          PROVE  SealInv'
      <3>1. faults' # 0
        BY <2>5, <1>b
      <3>2. tail' # "missing"
        BY <2>1, <2>5 DEF FlushPart, SealInv, Recording
      <3>3. buf' # <<>>
        <4>1. Len(buf') = Len(b) - k
          BY <2>2, <2>5, <1>a
        <4> QED
          BY <4>1, <2>2, <1>a
      <3> QED
        BY <2>1, <3>1, <3>2, <3>3 DEF SealInv, SealMatchesLog, Recording, Finishing
    <2> QED
      BY <2>3, <2>4, <2>5
  <1>7. CASE FinalizeFlush
    <2>1. ~Sealed' /\ pc = "idle"
      BY <1>7 DEF FinalizeFlush, SealInv, Sealed
    <2>2. CASE pc' = "none"
      BY <2>1, <2>2 DEF SealInv, SealMatchesLog, Recording, Finishing
    <2>3. CASE pc' = "fin_flushed" /\ Works /\ buf = <<>> /\ UNCHANGED <<rows, tail>>
      <3>1. tail = "clean" /\ buf' = <<>> /\ next_seq' = next_seq /\ faults' = faults
        BY <1>7, <2>1, <2>3 DEF FinalizeFlush, SealInv, Recording, TypeOK, Works
      <3> QED
        BY <2>1, <2>3, <3>1 DEF SealInv, SealMatchesLog, Recording, Finishing
    <2>4. CASE pc' = "fin_flushed" /\ Works /\ buf # <<>> /\ FlushAll(buf)
      <3>1. tail' = "clean" /\ buf' = <<>> /\ faults' = faults
        BY <1>7, <2>4 DEF FinalizeFlush, FlushAll, Works
      <3>2. faults # 0
        BY <2>1, <2>4 DEF SealInv, Recording
      <3> QED
        BY <2>1, <2>4, <3>1, <3>2 DEF SealInv, SealMatchesLog, Recording, Finishing
    <2> QED
      BY <1>7, <2>2, <2>3, <2>4 DEF FinalizeFlush
  <1>8. CASE FinalizeTruncateManifest
    <2>1. CASE pc' = "fin_write"
      <3>1. /\ Works /\ ended' = SealedManifest(next_seq, rows) /\ manifest' = TornManifest
            /\ pc = "fin_flushed" /\ UNCHANGED <<tail, rows, buf, next_seq>>
        BY <1>8, <2>1 DEF FinalizeTruncateManifest
      <3>2. ~Sealed'
        BY <3>1, Unsealed DEF Sealed
      <3> QED
        BY <2>1, <3>1, <3>2 DEF SealInv, SealMatchesLog, Recording, Finishing, Works
    <2>2. CASE pc' = "none"
      <3>1. ~Sealed'
        BY <1>8, <2>2 DEF FinalizeTruncateManifest, SealInv, Sealed
      <3> QED
        BY <2>2, <3>1 DEF SealInv, SealMatchesLog, Recording, Finishing
    <2> QED
      BY <1>8, <2>1, <2>2 DEF FinalizeTruncateManifest
  <1>9. CASE FinalizeWriteManifest
    <2>1. CASE Works /\ manifest' = ended
      <3>1. /\ ended = SealedManifest(next_seq, rows) /\ tail = "clean"
            /\ faults = 0 => next_seq = Len(rows)
        BY <1>9 DEF FinalizeWriteManifest, SealInv, Recording, Finishing
      <3>2. /\ manifest'.events_hash = rows /\ manifest'.event_count = next_seq
        BY <2>1, <3>1 DEF SealedManifest
      <3>3. pc' = "none" /\ UNCHANGED <<tail, rows, faults>>
        BY <1>9, <2>1 DEF FinalizeWriteManifest, Works
      <3> QED
        BY <3>1, <3>2, <3>3 DEF SealInv, SealMatchesLog, Recording, Finishing
    <2>2. CASE Fails /\ manifest' = TornManifest
      <3>1. ~Sealed' /\ pc' = "none"
        BY <1>9, <2>2, Unsealed DEF FinalizeWriteManifest, Sealed
      <3> QED
        BY <3>1 DEF SealInv, SealMatchesLog, Recording, Finishing
    <2> QED
      BY <1>9, <2>1, <2>2 DEF FinalizeWriteManifest
  <1>10. CASE DropWriter \/ Crash
    <2>1. ~Sealed' /\ pc' = "none"
      BY <1>10 DEF DropWriter, Crash, SealInv, Sealed
    <2> QED
      BY <2>1 DEF SealInv, SealMatchesLog, Recording, Finishing
  <1>11. CASE UNCHANGED vars
    BY <1>11 DEF vars, disk, call, bounds, SealInv, SealMatchesLog, Sealed
  <1> QED
    BY <1>1, <1>2, <1>3, <1>4, <1>5, <1>6, <1>7, <1>8, <1>9, <1>10, <1>11
       DEF Next, Finished

\* A sealed manifest always describes the event log beside it: the hash
\* whatever failed before, the count as long as nothing did.
THEOREM SealAlwaysMatchesLog == Spec => []SealMatchesLog
  <1>1. Init => SealInv
    BY Unsealed DEF Init, SealInv, SealMatchesLog, Sealed, Recording, Finishing
  <1>2. SealInv => SealMatchesLog
    BY DEF SealInv
  <1> QED
    BY <1>1, <1>2, TypeCorrect, SealStep, PTL DEF Spec

-----------------------------------------------------------------------------
(***************************************************************************)
(* Complete blobs are immutable, because write_all only ever goes to the   *)
(* file that create_new has just made.                                     *)
(***************************************************************************)

\* write_all goes to a file that holds nothing complete yet.
WritesFreshBlob ==
    pc = "blob_write" => /\ payload_hash(arg.raw) \in DOMAIN blobs
                         /\ blobs[payload_hash(arg.raw)] = Torn

\* The blob record() is about to write is the empty file it has created.
LEMMA FreshStep == WritesFreshBlob /\ [Next]_vars => WritesFreshBlob'
  <1> SUFFICES ASSUME WritesFreshBlob, [Next]_vars PROVE WritesFreshBlob'
    OBVIOUS
  <1>1. ASSUME NEW d \in Directions, NEW r \in Frames, RecordOpenBlob(d, r)
        PROVE  WritesFreshBlob'
    BY <1>1 DEF RecordOpenBlob, AlreadyExists, Return, WritesFreshBlob, StoreBlob
  <1>2. CASE pc' # "blob_write"
    BY <1>2 DEF WritesFreshBlob
  <1>3. CASE UNCHANGED vars
    BY <1>3 DEF vars, disk, call, WritesFreshBlob
  <1> QED
    BY <1>1, <1>2, <1>3
       DEF Next, Finished, CreateTruncateManifest, CreateWriteManifest, CreateEvents, EventsOpened,
           RecordWriteBlob, RecordAppend, Return, FinalizeFlush,
           FinalizeTruncateManifest, FinalizeWriteManifest, DropWriter, Crash

\* One system call removes no blob and rewrites none that is complete.
LEMMA ImmutableStep ==
    ASSUME WritesFreshBlob, [Next]_vars, NEW h \in DOMAIN blobs
    PROVE  h \in DOMAIN blobs' /\ (blobs[h] # Torn => blobs'[h] = blobs[h])
  <1>1. ASSUME NEW d \in Directions, NEW r \in Frames, RecordOpenBlob(d, r)
        PROVE  h \in DOMAIN blobs' /\ blobs'[h] = blobs[h]
    BY <1>1 DEF RecordOpenBlob, AlreadyExists, StoreBlob
  <1>2. CASE RecordWriteBlob
    BY <1>2 DEF RecordWriteBlob, StoreBlob, WritesFreshBlob
  <1>3. CASE UNCHANGED blobs
    BY <1>3
  <1> QED
    BY <1>1, <1>2, <1>3
       DEF Next, vars, disk, Finished, CreateTruncateManifest, CreateWriteManifest,
           CreateEvents, EventsOpened, RecordAppend, FinalizeFlush, FinalizeTruncateManifest,
           FinalizeWriteManifest, DropWriter, Crash

\* No later call, session or failure changes a completely written blob.
THEOREM BlobsAlwaysImmutable == Spec => BlobsImmutable
  <1>1. Init => WritesFreshBlob
    BY DEF Init, WritesFreshBlob
  <1>2. WritesFreshBlob /\ [Next]_vars =>
          [\A h \in DOMAIN blobs :
             h \in DOMAIN blobs' /\ (blobs[h] # Torn => blobs'[h] = blobs[h])]_vars
    BY ImmutableStep
  <1> QED
    BY <1>1, <1>2, FreshStep, PTL DEF Spec, BlobsImmutable

-----------------------------------------------------------------------------
(***************************************************************************)
(* Acknowledged rows.  rows only grows at its end while acked is kept, and *)
(* the step that extends acked puts the new row last.                      *)
(***************************************************************************)

\* The acknowledgements a are in the log s, in order.
Embedded(a, s) ==
    \E pos \in [DOMAIN a -> DOMAIN s] :
        /\ \A i \in DOMAIN a : s[pos[i]] = a[i].row
        /\ \A i, j \in DOMAIN a : i < j => pos[i] < pos[j]

\* Rows appended to the log leave the acknowledged ones in place.
LEMMA EmbeddedGrows ==
    ASSUME NEW a \in Seq(Acks), NEW s \in Seq(Rows), NEW t \in Seq(Rows), Embedded(a, s)
    PROVE  Embedded(a, s \o t)
  <1>1. PICK pos \in [DOMAIN a -> DOMAIN s] :
           /\ \A i \in DOMAIN a : s[pos[i]] = a[i].row
           /\ \A i, j \in DOMAIN a : i < j => pos[i] < pos[j]
    BY DEF Embedded
  <1>2. /\ DOMAIN s \subseteq DOMAIN (s \o t)
        /\ \A i \in DOMAIN s : (s \o t)[i] = s[i]
    OBVIOUS
  <1>3. pos \in [DOMAIN a -> DOMAIN (s \o t)]
    BY <1>2
  <1>4. \A i \in DOMAIN a : (s \o t)[pos[i]] = a[i].row
    BY <1>1, <1>2
  <1> QED
    BY <1>1, <1>3, <1>4 DEF Embedded

\* A row acknowledged as it is appended keeps the order.
LEMMA EmbeddedExtends ==
    ASSUME NEW a \in Seq(Acks), NEW s \in Seq(Rows), NEW ack \in Acks, Embedded(a, s)
    PROVE  Embedded(Append(a, ack), Append(s, ack.row))
  <1> DEFINE a2 == Append(a, ack)
             s2 == Append(s, ack.row)
             n  == Len(a) + 1
             m  == Len(s) + 1
  <1>1. PICK pos \in [DOMAIN a -> DOMAIN s] :
           /\ \A i \in DOMAIN a : s[pos[i]] = a[i].row
           /\ \A i, j \in DOMAIN a : i < j => pos[i] < pos[j]
    BY DEF Embedded
  <1>2. ack.row \in Rows
    BY DEF Acks
  <1>3. /\ Len(a) \in Nat /\ DOMAIN a = 1 .. Len(a) /\ DOMAIN a2 = 1 .. n
        /\ \A i \in DOMAIN a : a2[i] = a[i]
        /\ a2[n] = ack
    BY AppendProperties
  <1>4. /\ Len(s) \in Nat /\ DOMAIN s = 1 .. Len(s) /\ DOMAIN s2 = 1 .. m
        /\ \A i \in DOMAIN s : s2[i] = s[i]
        /\ s2[m] = ack.row
    BY <1>2, AppendProperties
  <1> DEFINE pos2 == [i \in DOMAIN a2 |-> IF i = n THEN m ELSE pos[i]]
  <1> HIDE DEF a2, s2
  <1>5. \A i \in DOMAIN a : pos[i] \in 1 .. Len(s)
    BY <1>4
  <1>6. pos2 \in [DOMAIN a2 -> DOMAIN s2]
    BY <1>3, <1>4, <1>5
  <1>7. \A i \in DOMAIN a2 : s2[pos2[i]] = a2[i].row
    BY <1>1, <1>3, <1>4, <1>5
  <1>8. \A i, j \in DOMAIN a2 : i < j => pos2[i] < pos2[j]
    BY <1>1, <1>3, <1>4, <1>5
  <1> HIDE DEF pos2
  <1>9. Embedded(a2, s2)
    BY <1>6, <1>7, <1>8 DEF Embedded
  <1> QED
    BY <1>9 DEF a2, s2

\* The flushes only add rows behind those on disk.
LEMMA FlushExtends ==
    ASSUME NEW b \in Seq(Rows), NEW k \in 0 .. Len(b), rows \in Seq(Rows),
           UNCHANGED rows \/ FlushAll(b) \/ FlushPart(b, k)
    PROVE  \E t \in Seq(Rows) : rows' = rows \o t
  <1>1. CASE UNCHANGED rows
    <2>1. <<>> \in Seq(Rows) /\ rows' = rows \o <<>>
      BY <1>1, ConcatEmptySeq
    <2> QED
      BY <2>1
  <1>2. CASE FlushAll(b)
    BY <1>2 DEF FlushAll
  <1>3. CASE FlushPart(b, k)
    BY <1>3, FlushType DEF FlushPart
  <1> QED
    BY <1>1, <1>2, <1>3

\* No system call, failed or not, and no crash loses an acknowledged row.
LEMMA AckedStep == TypeOK /\ AckedDurable /\ [Next]_vars => AckedDurable'
  <1> SUFFICES ASSUME TypeOK, AckedDurable, [Next]_vars PROVE AckedDurable'
    OBVIOUS
  <1>a. /\ rows \in Seq(Rows) /\ buf \in Seq(Rows) /\ acked \in Seq(Acks)
        /\ arg \in Calls /\ next_seq \in Nat
    BY DEF TypeOK
  <1>b. Embedded(acked, rows)
    BY DEF AckedDurable, Embedded
  <1>c. ASSUME Embedded(acked', rows')
        PROVE  AckedDurable'
    BY <1>c DEF AckedDurable, Embedded
  <1>d. ASSUME UNCHANGED acked, NEW b \in Seq(Rows), NEW k \in 0 .. Len(b),
               UNCHANGED rows \/ FlushAll(b) \/ FlushPart(b, k)
        PROVE  AckedDurable'
    <2>1. PICK t \in Seq(Rows) : rows' = rows \o t
      BY <1>a, <1>d, FlushExtends
    <2> QED
      BY <1>a, <1>b, <1>c, <1>d, <2>1, EmbeddedGrows
  <1>e. ASSUME UNCHANGED <<acked, rows>>
        PROVE  AckedDurable'
    BY <1>b, <1>c, <1>e
  <1> DEFINE row == EventRecord(next_seq, arg.dir, arg.raw)
             b   == Append(buf, row)
             ack == [row |-> row, raw |-> arg.raw]
  <1>f. row \in Rows /\ ack \in Acks
    <2>1. row \in Rows
      BY <1>a, CallType
    <2>2. ack \in Acks
      BY <1>a, CallType
    <2> QED
      BY <2>1, <2>2
  <1>g. b \in Seq(Rows) /\ Len(b) = Len(buf) + 1
    <2> HIDE DEF row
    <2> QED
      BY <1>a, <1>f, AppendType
  <1>1. CASE CreateEvents
    <2>1. CASE acked' = <<>>
      <3>1. Embedded(<<>>, rows')
        <4>1. DOMAIN <<>> = {}
          OBVIOUS
        <4>2. [i \in {} |-> 0] \in [{} -> DOMAIN rows']
          OBVIOUS
        <4> QED
          BY <4>1, <4>2 DEF Embedded
      <3> QED
        BY <2>1, <3>1, <1>c
    <2>2. CASE UNCHANGED <<acked, rows>>
      BY <2>2, <1>e
    <2> QED
      BY <1>1, <2>1, <2>2 DEF CreateEvents, EventsOpened
  <1>2. CASE RecordAppend
    <2>1. \/ FlushAll(b) /\ acked' = Append(acked, ack)
          \/ /\ \E k \in 0 .. Len(buf) : FlushPart(b, k)
             /\ UNCHANGED acked
      BY <1>2 DEF RecordAppend
    <2>2. CASE FlushAll(b) /\ acked' = Append(acked, ack)
      <3>1. rows' = Append(rows \o buf, ack.row)
        <4>1. rows' = rows \o b /\ ack.row = row
          BY <2>2 DEF FlushAll
        <4> HIDE DEF row, ack
        <4>2. rows \o Append(buf, row) = Append(rows \o buf, row)
          BY <1>a, <1>f
        <4> QED
          BY <4>1, <4>2
      <3> HIDE DEF ack, row, b
      <3>2. Embedded(acked, rows \o buf) /\ rows \o buf \in Seq(Rows)
        BY <1>a, <1>b, EmbeddedGrows
      <3>3. Embedded(acked', rows')
        BY <2>2, <3>1, <3>2, <1>a, <1>f, EmbeddedExtends
      <3> QED
        BY <3>3, <1>c
    <2>3. ASSUME NEW k \in 0 .. Len(buf), FlushPart(b, k), UNCHANGED acked
          PROVE  AckedDurable'
      <3> HIDE DEF b
      <3>1. k \in 0 .. Len(b)
        BY <1>a, <1>g
      <3> QED
        BY <2>3, <3>1, <1>d, <1>g
    <2> QED
      BY <2>1, <2>2, <2>3
  <1>3. CASE FinalizeFlush \/ DropWriter
    <2>1. /\ UNCHANGED acked
          /\ \/ UNCHANGED rows \/ FlushAll(buf)
             \/ \E k \in 0 .. Len(buf) - 1 : FlushPart(buf, k)
      BY <1>3 DEF FinalizeFlush, DropWriter
    <2>2. ASSUME NEW k \in 0 .. Len(buf) - 1, FlushPart(buf, k)
          PROVE  AckedDurable'
      <3>1. k \in 0 .. Len(buf)
        BY <1>a
      <3> QED
        BY <2>1, <2>2, <3>1, <1>a, <1>d
    <2>3. Len(buf) \in 0 .. Len(buf)
      BY <1>a
    <2>4. CASE UNCHANGED rows \/ FlushAll(buf)
      BY <2>1, <2>3, <2>4, <1>a, <1>d
    <2> QED
      BY <2>1, <2>2, <2>4
  <1>4. CASE Crash
    <2>1. /\ UNCHANGED acked
          /\ \/ UNCHANGED rows \/ FlushAll(b)
             \/ \E k \in 0 .. Len(buf) : FlushPart(b, k)
             \/ \E k \in 0 .. Len(buf) - 1 : FlushPart(buf, k)
      BY <1>4 DEF Crash
    <2> HIDE DEF b
    <2>2. ASSUME NEW k \in 0 .. Len(buf), FlushPart(b, k)
          PROVE  AckedDurable'
      <3>1. k \in 0 .. Len(b)
        BY <1>a, <1>g
      <3> QED
        BY <2>1, <2>2, <3>1, <1>d, <1>g
    <2>3. Len(b) \in 0 .. Len(b)
      BY <1>a, <1>g
    <2>4. CASE UNCHANGED rows \/ FlushAll(b)
      BY <2>1, <2>3, <2>4, <1>d, <1>g
    <2>5. ASSUME NEW k \in 0 .. Len(buf) - 1, FlushPart(buf, k)
          PROVE  AckedDurable'
      <3>1. k \in 0 .. Len(buf)
        BY <1>a
      <3> QED
        BY <2>1, <2>5, <3>1, <1>a, <1>d
    <2> QED
      BY <2>1, <2>2, <2>4, <2>5
  <1>5. CASE UNCHANGED <<acked, rows>>
    BY <1>5, <1>e
  <1> QED
    BY <1>1, <1>2, <1>3, <1>4, <1>5
       DEF Next, vars, disk, Finished, CreateTruncateManifest, CreateWriteManifest,
           RecordOpenBlob, AlreadyExists, RecordWriteBlob, FinalizeTruncateManifest,
           FinalizeWriteManifest

\* Every record() that returned Ok keeps its row in events.jsonl, in call
\* order, through crashes, failed calls and retries, until the next session
\* starts its log.
THEOREM AckedAlwaysDurable == Spec => []AckedDurable
  <1>1. Init => AckedDurable
    <2> SUFFICES ASSUME Init PROVE AckedDurable
      OBVIOUS
    <2>1. acked = <<>> /\ rows = <<>> /\ DOMAIN <<>> = {}
      BY DEF Init
    <2>2. [i \in {} |-> 0] \in [{} -> DOMAIN rows]
      OBVIOUS
    <2> QED
      BY <2>1, <2>2 DEF AckedDurable
  <1> QED
    BY <1>1, TypeCorrect, AckedStep, PTL DEF Spec

-----------------------------------------------------------------------------
(* The rows of events.jsonl: how they are numbered, what a reader sees of  *)
(* a recording in progress, and that their payloads load.                  *)

\* The invariants of TraceStoreProofs, together.
LEMMA TypedAndSealed == Spec => [](TypeOK /\ SealInv)
  <1>1. Init => SealInv
    BY Unsealed DEF Init, SealInv, SealMatchesLog, Sealed, Recording, Finishing
  <1> QED
    BY <1>1, TypeCorrect, SealStep, PTL DEF Spec

\* A step that ends without a failed call began without one.
LEMMA FaultsOnlyGrow == TypeOK /\ [Next]_vars /\ faults' = 0 => faults = 0
  BY DEF TypeOK, Next, vars, bounds, Works, Fails, CreateTruncateManifest,
         CreateWriteManifest, CreateEvents, RecordOpenBlob, RecordWriteBlob,
         RecordAppend, FinalizeFlush, FinalizeTruncateManifest,
         FinalizeWriteManifest, DropWriter, Crash, Finished

\* Without failed calls the BufWriter is empty between calls.
LEMMA BufferEmpty ==
    ASSUME TypeOK, SealInv, faults = 0, pc \in Recording \cup Finishing
    PROVE  buf = <<>> /\ next_seq = Len(rows)
  BY DEF SealInv

\* Handing a row to the empty BufWriter and writing it out, or not, adds that
\* row to the log, or nothing.
LEMMA OneRow ==
    ASSUME NEW s \in Seq(Rows), NEW e \in Rows
    PROVE  /\ Append(<<>>, e) = <<e>> /\ Len(<<>>) = 0
           /\ SubSeq(<<e>>, 1, 0) = <<>> /\ s \o <<>> = s
           /\ s \o <<e>> = Append(s, e)
  <1>1. <<e>> \in Seq(Rows)
    OBVIOUS
  <1>2. SubSeq(<<e>>, 1, 0) = <<>>
    BY <1>1, SubSeqEmpty
  <1>3. s \o <<>> = s
    BY ConcatEmptySeq
  <1>4. s \o <<e>> = Append(s, e)
    BY AppendIsConcat
  <1> QED
    BY <1>2, <1>3, <1>4

\* Without a failed call, a step leaves the log as it is, empties it with a
\* new session's next_seq, or adds the row of the call under way; the row is
\* acknowledged unless the process dies.
LEMMA FaultlessStep ==
    ASSUME TypeOK, SealInv, [Next]_vars, faults' = 0
    PROVE  \/ rows' = rows
           \/ CreateEvents /\ rows' = <<>>
           \/ /\ pc = "append"
              /\ rows' = Append(rows, EventRecord(next_seq, arg.dir, arg.raw))
  <1> DEFINE row == EventRecord(next_seq, arg.dir, arg.raw)
  <1>1. faults = 0 /\ rows \in Seq(Rows) /\ buf \in Seq(Rows) /\ faults \in Nat
    BY FaultsOnlyGrow DEF TypeOK
  <1>2. row \in Rows
    BY CallType DEF TypeOK
  <1>3. ~Fails
    BY <1>1 DEF Fails
  <1> HIDE DEF row
  <1>4. CASE RecordAppend \/ Crash
    <2>1. CASE pc = "append"
      <3>1. buf = <<>>
        BY <2>1, <1>1, BufferEmpty DEF Recording
      <3>2. Append(buf, row) = <<row>>
        BY <3>1, OneRow, <1>1, <1>2
      <3>3. \/ rows' = rows
            \/ rows' = rows \o <<row>>
            \/ rows' = rows \o SubSeq(<<row>>, 1, 0)
        <4>1. \A k \in 0 .. Len(buf) : k = 0
          BY <3>1, OneRow, <1>1, <1>2
        <4> QED
          BY <1>3, <1>4, <2>1, <3>2, <4>1 DEF RecordAppend, Crash, FlushAll, FlushPart, row
      <3> QED
        BY <2>1, <3>3, OneRow, <1>1, <1>2 DEF row
    <2>2. CASE pc # "append"
      <3>1. pc = "idle" => 0 .. Len(buf) - 1 = {}
        <4>1. pc = "idle" => Len(buf) = 0
          BY <1>1, BufferEmpty DEF Recording
        <4> QED
          BY <4>1
      <3> QED
        BY <1>4, <2>2, <3>1 DEF RecordAppend, Crash
    <2> QED
      BY <2>1, <2>2
  <1>5. CASE FinalizeFlush \/ DropWriter
    <2>1. buf = <<>>
      BY <1>1, <1>5, BufferEmpty DEF FinalizeFlush, DropWriter, Recording
    <2> QED
      BY <1>3, <1>5, <2>1 DEF FinalizeFlush, DropWriter
  <1>6. CASE CreateEvents
    BY <1>6 DEF CreateEvents, EventsOpened
  <1> QED
    BY <1>4, <1>5, <1>6
       DEF Next, vars, disk, CreateTruncateManifest, CreateWriteManifest,
           RecordOpenBlob, RecordWriteBlob, FinalizeTruncateManifest,
           FinalizeWriteManifest, Finished

-----------------------------------------------------------------------------
(***************************************************************************)
(* Positions.  SealInv has what NumberedUntilFault lacks to be inductive:  *)
(* that next_seq counts the rows as long as no call has failed.            *)
(***************************************************************************)

\* The next row goes where its number says.
LEMMA NumberedStep ==
    TypeOK /\ SealInv /\ NumberedUntilFault /\ [Next]_vars => NumberedUntilFault'
  <1> SUFFICES ASSUME TypeOK, SealInv, NumberedUntilFault, [Next]_vars, faults' = 0
               PROVE  SeqIsPosition'
    BY DEF NumberedUntilFault
  <1>1. SeqIsPosition /\ faults = 0 /\ rows \in Seq(Rows)
    BY FaultsOnlyGrow DEF NumberedUntilFault, TypeOK
  <1>2. CASE rows' = rows \/ rows' = <<>>
    BY <1>1, <1>2 DEF SeqIsPosition
  <1>3. ASSUME pc = "append",
               rows' = Append(rows, EventRecord(next_seq, arg.dir, arg.raw))
        PROVE  SeqIsPosition'
    <2> DEFINE row == EventRecord(next_seq, arg.dir, arg.raw)
    <2>1. row \in Rows /\ row.seq = Len(rows)
      BY <1>1, <1>3, CallType, BufferEmpty DEF Recording, TypeOK
    <2> HIDE DEF row
    <2>2. rows' = Append(rows, row)
      BY <1>3 DEF row
    <2>3. ASSUME NEW i \in DOMAIN rows' PROVE rows'[i].seq = i - 1
      <3>1. i \in 1 .. Len(rows) + 1
        BY <1>1, <2>1, <2>2, <2>3
      <3>2. CASE i \in DOMAIN rows
        BY <1>1, <2>1, <2>2, <3>2 DEF SeqIsPosition
      <3>3. CASE i = Len(rows) + 1
        BY <1>1, <2>1, <2>2, <3>3
      <3> QED
        BY <1>1, <3>1, <3>2, <3>3
    <2> QED
      BY <2>3 DEF SeqIsPosition
  <1> QED
    BY <1>2, <1>3, FaultlessStep

\* As long as no call has failed, seq is the row's position in the log, across
\* crashes and sessions.
THEOREM NumberedAlwaysUntilFault == Spec => []NumberedUntilFault
  <1>1. Init => NumberedUntilFault
    BY DEF Init, NumberedUntilFault, SeqIsPosition
  <1> QED
    BY <1>1, TypedAndSealed, NumberedStep, PTL DEF Spec

-----------------------------------------------------------------------------
(***************************************************************************)
(* The log never runs backwards, whatever fails.  What is on disk and what *)
(* the BufWriter holds form one sorted sequence, and a row under           *)
(* construction gets a number that no row exceeds.                         *)
(***************************************************************************)

SortedBySeq(s) == \A i, j \in DOMAIN s : i < j => s[i].seq <= s[j].seq
UpTo(s, n)     == \A i \in DOMAIN s : s[i].seq <= n

OrderInv ==
    /\ SortedBySeq(rows \o buf)
    /\ pc \in Recording \cup Finishing => UpTo(rows \o buf, next_seq)

\* Writing a part of what is waiting keeps the order ...
LEMMA SortedPart ==
    ASSUME NEW s \in Seq(Rows), NEW t \in Seq(Rows), NEW k \in 0 .. Len(t),
           SortedBySeq(s \o t)
    PROVE  SortedBySeq(s \o SubSeq(t, 1, k))
  <1> DEFINE p == SubSeq(t, 1, k)
  <1>1. p \in Seq(Rows) /\ Len(p) = k /\ \A i \in 1 .. k : p[i] = t[i]
    OBVIOUS
  <1> HIDE DEF p
  <1>2. /\ DOMAIN (s \o p) = 1 .. Len(s) + k
        /\ DOMAIN (s \o t) = 1 .. Len(s) + Len(t)
        /\ \A i \in 1 .. Len(s) + k : (s \o p)[i] = (s \o t)[i]
    <2>1. /\ Len(s \o p) = Len(s) + k /\ s \o p \in Seq(Rows)
          /\ \A i \in 1 .. Len(s) + k : (s \o p)[i] = IF i <= Len(s) THEN s[i] ELSE p[i - Len(s)]
      BY <1>1, ConcatProperties
    <2>2. /\ Len(s \o t) = Len(s) + Len(t) /\ s \o t \in Seq(Rows)
          /\ \A i \in 1 .. Len(s) + Len(t) :
                (s \o t)[i] = IF i <= Len(s) THEN s[i] ELSE t[i - Len(s)]
      BY ConcatProperties
    <2>3. ASSUME NEW i \in 1 .. Len(s) + k
          PROVE  (s \o p)[i] = (s \o t)[i]
      <3>1. i \in 1 .. Len(s) + Len(t) /\ (i > Len(s) => i - Len(s) \in 1 .. k)
        OBVIOUS
      <3> QED
        BY <1>1, <2>1, <2>2, <3>1
    <2> QED
      BY <2>1, <2>2, <2>3
  <1>3. \A i \in 1 .. Len(s) + k : i \in 1 .. Len(s) + Len(t)
    OBVIOUS
  <1>4. SortedBySeq(s \o p)
    BY <1>2, <1>3, SMTT(30) DEF SortedBySeq
  <1> QED
    BY <1>4 DEF p

\* ... so does a row whose number no other exceeds.
LEMMA SortedAppend ==
    ASSUME NEW s \in Seq(Rows), NEW e \in Rows, SortedBySeq(s), UpTo(s, e.seq)
    PROVE  SortedBySeq(Append(s, e)) /\ UpTo(Append(s, e), e.seq)
  <1>1. /\ DOMAIN Append(s, e) = 1 .. Len(s) + 1 /\ DOMAIN s = 1 .. Len(s)
        /\ \A i \in 1 .. Len(s) : Append(s, e)[i] = s[i]
        /\ Append(s, e)[Len(s) + 1] = e
    OBVIOUS
  <1>2. e.seq \in Nat
    BY DEF Rows
  <1> QED
    BY <1>1, <1>2 DEF SortedBySeq, UpTo

\* Concatenation is associative on logs, stated for rows so that a leaf may
\* cite it without choosing the set.
LEMMA RowsConcat ==
    ASSUME NEW s \in Seq(Rows), NEW p \in Seq(Rows), NEW q \in Seq(Rows)
    PROVE  (s \o p) \o q = s \o (p \o q)
  OBVIOUS

\* The rows of a flush, whole or in part, stay in front of those that wait.
LEMMA Regrouped ==
    ASSUME NEW s \in Seq(Rows), NEW t \in Seq(Rows), NEW k \in 0 .. Len(t)
    PROVE  /\ (s \o SubSeq(t, 1, k)) \o SubSeq(t, k + 1, Len(t)) = s \o t
           /\ (s \o t) \o <<>> = s \o t
           /\ SubSeq(t, 1, 0) = <<>> /\ s \o <<>> = s
           /\ SubSeq(t, 1, Len(t)) = t
  <1>1. SubSeq(t, 1, k) \o SubSeq(t, k + 1, Len(t)) = t
    <2>1. 1 \in 1 .. Len(t) + 1 /\ k \in 1 - 1 .. Len(t) /\ Len(t) \in k .. Len(t)
      OBVIOUS
    <2>2. SubSeq(t, 1, k) \o SubSeq(t, k + 1, Len(t)) = SubSeq(t, 1, Len(t))
      BY <2>1, ConcatAdjacentSubSeq
    <2> QED
      BY <2>2, SubSeqFull
  <1>2. SubSeq(t, 1, k) \in Seq(Rows) /\ SubSeq(t, k + 1, Len(t)) \in Seq(Rows)
    OBVIOUS
  <1>3. (s \o SubSeq(t, 1, k)) \o SubSeq(t, k + 1, Len(t)) = s \o t
    <2> DEFINE p == SubSeq(t, 1, k)
               q == SubSeq(t, k + 1, Len(t))
    <2>1. p \in Seq(Rows) /\ q \in Seq(Rows) /\ p \o q = t
      BY <1>1, <1>2
    <2> HIDE DEF p, q
    <2>2. (s \o p) \o q = s \o (p \o q)
      BY <2>1, RowsConcat, ZenonT(40)
    <2>3. (s \o p) \o q = s \o t
      BY <2>1, <2>2
    <2> QED
      BY <2>3 DEF p, q
  <1>4. SubSeq(t, 1, 0) = <<>> /\ SubSeq(t, 1, Len(t)) = t
    BY SubSeqEmpty, SubSeqFull
  <1>5. s \o t \in Seq(Rows)
    OBVIOUS
  <1>6. s \o <<>> = s /\ (s \o t) \o <<>> = s \o t
    BY <1>5, ConcatEmptySeq
  <1> QED
    BY <1>3, <1>4, <1>6

\* What a writer that ends leaves: a part of the waiting rows t behind the log.
LEMMA LeftBehind ==
    ASSUME rows \in Seq(Rows), NEW t \in Seq(Rows), SortedBySeq(rows \o t),
           NEW k \in 0 .. Len(t), rows' = rows \o SubSeq(t, 1, k),
           buf' = <<>>
    PROVE  SortedBySeq(rows' \o buf')
  <1>1. SortedBySeq(rows \o SubSeq(t, 1, k))
    BY SortedPart
  <1>2. (rows \o SubSeq(t, 1, k)) \o <<>> = rows \o SubSeq(t, 1, k)
    OBVIOUS
  <1> QED
    BY <1>1, <1>2

\* The order survives every step.
LEMMA OrderStep == TypeOK /\ OrderInv /\ [Next]_vars => OrderInv'
  <1> SUFFICES ASSUME TypeOK, OrderInv, [Next]_vars PROVE OrderInv'
    OBVIOUS
  <1> DEFINE row == EventRecord(next_seq, arg.dir, arg.raw)
             b   == Append(buf, row)
  <1>1. rows \in Seq(Rows) /\ buf \in Seq(Rows) /\ next_seq \in Nat
    BY DEF TypeOK
  <1>2. row \in Rows /\ row.seq = next_seq
    BY CallType DEF TypeOK
  <1>3. b \in Seq(Rows) /\ Len(b) = Len(buf) + 1
    <2> HIDE DEF row
    <2> QED
      BY <1>1, <1>2, AppendType
  <1>4. rows \o b = Append(rows \o buf, row)
    <2> HIDE DEF row
    <2> QED
      BY <1>1, <1>2
  <1>5. pc \in Recording => SortedBySeq(rows \o b) /\ UpTo(rows \o b, next_seq)
    <2>1. rows \o buf \in Seq(Rows)
      BY <1>1
    <2> HIDE DEF row, b
    <2> QED
      BY <1>2, <1>4, <2>1, SortedAppend DEF OrderInv
  <1>6. \A n \in Nat : UpTo(rows \o b, n) => UpTo(rows \o b, n + 1)
    <2>1. rows \o b \in Seq(Rows)
      BY <1>1, <1>3
    <2> HIDE DEF b
    <2>2. \A e \in Rows : e.seq \in Nat
      BY DEF Rows
    <2>3. \A i \in DOMAIN (rows \o b) : (rows \o b)[i] \in Rows
      BY <2>1
    <2>4. \A i \in DOMAIN (rows \o b) : (rows \o b)[i].seq \in Nat
      BY <2>2, <2>3
    <2> QED
      BY <2>4 DEF UpTo
  <1> HIDE DEF row, b
  <1>7. CASE UNCHANGED <<rows, buf, next_seq>> /\
             (pc' \in Recording \cup Finishing => pc \in Recording \cup Finishing)
    BY <1>7 DEF OrderInv
  <1>8. CASE CreateEvents /\ pc' = "idle"
    <2>1. rows' = <<>> /\ buf' = <<>>
      BY <1>8 DEF CreateEvents, EventsOpened
    <2> QED
      BY <2>1 DEF OrderInv, SortedBySeq, UpTo
  <1>9. CASE RecordAppend
    <2>1. pc = "append" /\ pc \in Recording
      BY <1>9 DEF RecordAppend, Recording
    <2>2. CASE FlushAll(b) /\ buf' = <<>> /\ next_seq' = next_seq + 1
      <3>1. rows' \o buf' = rows \o b
        BY <1>1, <1>3, <2>2, Regrouped DEF FlushAll
      <3> QED
        BY <1>1, <1>5, <1>6, <2>1, <2>2, <3>1 DEF OrderInv
    <2>3. ASSUME NEW k \in 0 .. Len(buf), FlushPart(b, k), next_seq' = next_seq,
                 buf' = SubSeq(b, k + 1, Len(b))
          PROVE  OrderInv'
      <3>1. k \in 0 .. Len(b)
        BY <1>1, <1>3
      <3>2. rows' \o buf' = rows \o b
        BY <1>1, <1>3, <2>3, <3>1, Regrouped DEF FlushPart
      <3> QED
        BY <1>5, <2>1, <2>3, <3>2 DEF OrderInv
    <2> QED
      BY <1>9, <2>2, <2>3 DEF RecordAppend, row, b
  <1>10. CASE FinalizeFlush \/ DropWriter
    <2>1. pc = "idle" /\ buf' = <<>> /\ next_seq' = next_seq
      BY <1>10 DEF FinalizeFlush, DropWriter
    <2>2. CASE rows' = rows \o buf
      <3>1. rows' \o buf' = rows \o buf
        BY <1>1, <2>1, <2>2
      <3> QED
        BY <2>1, <3>1 DEF OrderInv, Recording
    <2>3. CASE rows' = rows /\ buf = <<>>
      BY <2>1, <2>3 DEF OrderInv, Recording
    <2>4. ASSUME pc' = "none", NEW k \in 0 .. Len(buf) - 1,
                 rows' = rows \o SubSeq(buf, 1, k)
          PROVE  OrderInv'
      <3>1. k \in 0 .. Len(buf)
        BY <1>1
      <3>2. SortedBySeq(rows' \o buf')
        BY <1>1, <2>1, <2>4, <3>1, LeftBehind DEF OrderInv
      <3> QED
        BY <2>4, <3>2 DEF OrderInv, Recording, Finishing
    <2> QED
      BY <1>10, <2>2, <2>3, <2>4 DEF FinalizeFlush, DropWriter, FlushAll, FlushPart
  <1>11. CASE Crash
    <2>1. pc' = "none" /\ buf' = <<>>
      BY <1>11 DEF Crash
    <2>2. CASE rows' = rows
      <3>1. rows' = rows \o SubSeq(buf, 1, 0) /\ 0 \in 0 .. Len(buf)
        BY <1>1, <2>2, Regrouped
      <3>2. SortedBySeq(rows' \o buf')
        BY <1>1, <2>1, <3>1, LeftBehind DEF OrderInv
      <3> QED
        BY <2>1, <3>2 DEF OrderInv, Recording, Finishing
    <2>3. ASSUME pc = "append", NEW k \in 0 .. Len(b), rows' = rows \o SubSeq(b, 1, k)
          PROVE  OrderInv'
      <3>1. SortedBySeq(rows' \o buf')
        BY <1>1, <1>3, <1>5, <2>1, <2>3, LeftBehind DEF Recording
      <3> QED
        BY <2>1, <3>1 DEF OrderInv, Recording, Finishing
    <2>4. ASSUME NEW k \in 0 .. Len(buf) - 1, rows' = rows \o SubSeq(buf, 1, k)
          PROVE  OrderInv'
      <3>1. k \in 0 .. Len(buf)
        BY <1>1
      <3>2. SortedBySeq(rows' \o buf')
        BY <1>1, <2>1, <2>4, <3>1, LeftBehind DEF OrderInv
      <3> QED
        BY <2>1, <3>2 DEF OrderInv, Recording, Finishing
    <2>5. CASE pc = "append" /\ rows' = rows \o b
      <3>1. rows' = rows \o SubSeq(b, 1, Len(b)) /\ Len(b) \in 0 .. Len(b)
        BY <1>1, <1>3, <2>5, Regrouped
      <3> QED
        BY <2>3, <2>5, <3>1
    <2>6. \A k \in 0 .. Len(buf) : k \in 0 .. Len(b)
      BY <1>1, <1>3
    <2> QED
      BY <1>11, <2>2, <2>3, <2>4, <2>5, <2>6 DEF Crash, FlushAll, FlushPart, row, b
  <1> QED
    BY <1>7, <1>8, <1>9, <1>10, <1>11
       DEF Next, vars, disk, bounds, Recording, Finishing, Return, CreateTruncateManifest,
           CreateWriteManifest, CreateEvents, RecordOpenBlob, RecordWriteBlob,
           FinalizeTruncateManifest, FinalizeWriteManifest, Finished

\* No failed call, crash or reuse of the directory makes the log run backwards.
THEOREM SeqAlwaysNeverDecreases == Spec => []SeqNeverDecreases
  <1>1. Init => OrderInv
    <2> SUFFICES ASSUME Init PROVE OrderInv
      OBVIOUS
    <2>1. DOMAIN (rows \o buf) = {} /\ pc = "none"
      BY DEF Init
    <2> QED
      BY <2>1 DEF OrderInv, SortedBySeq, Recording, Finishing
  <1>2. TypeOK /\ OrderInv => SeqNeverDecreases
    <2> SUFFICES ASSUME TypeOK, OrderInv, NEW i \in DOMAIN rows, NEW j \in DOMAIN rows, i < j
                 PROVE  rows[i].seq <= rows[j].seq
      BY DEF SeqNeverDecreases
    <2>1. rows \in Seq(Rows) /\ buf \in Seq(Rows)
      BY DEF TypeOK
    <2>2. /\ i \in DOMAIN (rows \o buf) /\ j \in DOMAIN (rows \o buf)
          /\ (rows \o buf)[i] = rows[i] /\ (rows \o buf)[j] = rows[j]
      BY <2>1
    <2> QED
      BY <2>2 DEF OrderInv, SortedBySeq
  <1> QED
    BY <1>1, <1>2, TypeCorrect, OrderStep, PTL DEF Spec

-----------------------------------------------------------------------------
(***************************************************************************)
(* Reading along.  LiveTraceReadable is inductive once it says where the   *)
(* manifest becomes valid, given that the BufWriter is empty.              *)
(***************************************************************************)

LiveInv ==
    /\ pc = "create_events" => manifest.state = "valid"
    /\ LiveTraceReadable

\* One more acknowledged row, on disk as in the acknowledgements.
LEMMA AckedAppend ==
    ASSUME NEW s \in Seq(Rows), NEW a \in Seq(Acks), NEW e \in Acks,
           s = [i \in DOMAIN a |-> a[i].row]
    PROVE  Append(s, e.row) = [i \in DOMAIN Append(a, e) |-> Append(a, e)[i].row]
  <1>1. DOMAIN a = 1 .. Len(a) /\ DOMAIN s = 1 .. Len(s) /\ DOMAIN s = DOMAIN a
    OBVIOUS
  <1>2. Len(s) = Len(a)
    BY <1>1
  <1>3. e.row \in Rows
    BY DEF Acks
  <1>4. /\ DOMAIN Append(s, e.row) = 1 .. Len(a) + 1
        /\ DOMAIN Append(a, e) = 1 .. Len(a) + 1
    BY <1>2, <1>3
  <1>5. ASSUME NEW i \in 1 .. Len(a) + 1
        PROVE  Append(s, e.row)[i] = Append(a, e)[i].row
    <2>1. CASE i \in 1 .. Len(a)
      BY <1>1, <1>2, <1>3, <2>1
    <2>2. CASE i = Len(a) + 1
      BY <1>2, <1>3, <2>2
    <2> QED
      BY <2>1, <2>2
  <1>6. Append(s, e.row) = [i \in 1 .. Len(a) + 1 |-> Append(s, e.row)[i]]
    BY <1>2, <1>3
  <1> QED
    BY <1>4, <1>5, <1>6

\* The recording stays readable, one system call after the other.
LEMMA LiveStep == TypeOK /\ SealInv /\ LiveInv /\ [Next]_vars => LiveInv'
  <1> SUFFICES ASSUME TypeOK, SealInv, LiveInv, [Next]_vars PROVE LiveInv'
    OBVIOUS
  <1>0. TypeOK /\ [Next]_vars
    OBVIOUS
  <1>1. faults' = 0 => faults = 0
    BY <1>0, FaultsOnlyGrow
  <1>2. rows \in Seq(Rows) /\ buf \in Seq(Rows) /\ acked \in Seq(Acks)
    BY DEF TypeOK
  <1>3. NewManifest.state = "valid"
    BY DEF NewManifest
  <1>4. pc' = "create_events" => manifest'.state = "valid"
    BY <1>3 DEF LiveInv, Next, vars, disk, bounds, Return, CreateTruncateManifest,
           CreateWriteManifest, CreateEvents, RecordOpenBlob, RecordWriteBlob, RecordAppend,
           FinalizeFlush, FinalizeTruncateManifest, FinalizeWriteManifest, DropWriter,
           Crash, Finished
  <1> SUFFICES ASSUME faults' = 0, pc' \in {"idle", "blob_write", "append", "fin_flushed"}
               PROVE  /\ manifest'.state = "valid" /\ tail' = "clean"
                      /\ rows' = [i \in DOMAIN acked' |-> acked'[i].row]
    BY <1>4 DEF LiveInv, LiveTraceReadable, Opens
  <1>5. faults = 0 /\ ~Fails
    BY <1>1 DEF Fails, TypeOK
  <1>6. CASE UNCHANGED <<manifest, tail, rows, acked, pc>>
    BY <1>5, <1>6 DEF LiveInv, LiveTraceReadable, Opens
  <1>7. CASE CreateEvents
    <2>1. rows' = <<>> /\ acked' = <<>> /\ tail' = "clean" /\ manifest'.state = "valid"
      BY <1>5, <1>7 DEF CreateEvents, EventsOpened, LiveInv
    <2> QED
      BY <2>1
  <1>8. CASE RecordWriteBlob \/ \E d \in Directions, r \in Frames : RecordOpenBlob(d, r)
    BY <1>5, <1>8
       DEF RecordWriteBlob, RecordOpenBlob, LiveInv, LiveTraceReadable, Opens
  <1>9. CASE RecordAppend
    <2> DEFINE row == EventRecord(next_seq, arg.dir, arg.raw)
               ack == [row |-> row, raw |-> arg.raw]
    <2>1. row \in Rows /\ ack \in Acks
      BY CallType DEF TypeOK
    <2>2. buf = <<>> /\ pc = "append"
      BY <1>5, <1>9, BufferEmpty DEF RecordAppend, Recording
    <2>3. FlushAll(Append(buf, row)) /\ acked' = Append(acked, ack) /\ manifest' = manifest
      BY <1>5, <1>9 DEF RecordAppend
    <2>4. manifest.state = "valid" /\ rows = [i \in DOMAIN acked |-> acked[i].row]
      BY <1>5, <2>2 DEF LiveInv, LiveTraceReadable, Opens
    <2>5. ack.row = row
      OBVIOUS
    <2> HIDE DEF row, ack
    <2>6. rows' = Append(rows, row) /\ tail' = "clean"
      BY <1>2, <2>1, <2>2, <2>3, OneRow DEF FlushAll
    <2>7. Append(rows, ack.row) = [i \in DOMAIN Append(acked, ack) |-> Append(acked, ack)[i].row]
      BY <1>2, <2>1, <2>4, AckedAppend
    <2> QED
      BY <2>3, <2>4, <2>5, <2>6, <2>7
  <1>10. CASE FinalizeFlush
    <2>1. buf = <<>> /\ pc = "idle"
      BY <1>5, <1>10, BufferEmpty DEF FinalizeFlush, Recording
    <2> QED
      BY <1>5, <1>10, <2>1 DEF FinalizeFlush, LiveInv, LiveTraceReadable, Opens
  <1> QED
    BY <1>6, <1>7, <1>8, <1>9, <1>10
       DEF Next, vars, disk, bounds, CreateTruncateManifest, CreateWriteManifest,
           FinalizeTruncateManifest, FinalizeWriteManifest, DropWriter, Crash, Finished

\* As long as no call has failed, a recording in progress opens and shows
\* exactly the acknowledged rows.
THEOREM LiveTraceAlwaysReadable == Spec => []LiveTraceReadable
  <1>1. Init => LiveInv
    BY DEF Init, LiveInv, LiveTraceReadable
  <1>2. LiveInv => LiveTraceReadable
    BY DEF LiveInv
  <1> QED
    BY <1>1, <1>2, TypedAndSealed, LiveStep, PTL DEF Spec

-----------------------------------------------------------------------------
(***************************************************************************)
(* Payloads.  A blob that cannot be loaded comes from a failed call or     *)
(* from a process that died in record(), and only a later session can meet *)
(* what the dead one left.                                                 *)
(***************************************************************************)

\* No two recorded frames are layouts of the same JSON value.
OneLayout ==
    \A r, s \in Frames : payload_hash(r) = payload_hash(s) => r = s

\* Each blob file, but the one being written, holds a frame with its hash.
BlobsWhole ==
    \A h \in DOMAIN blobs :
        \/ pc = "blob_write" /\ h = payload_hash(arg.raw)
        \/ blobs[h] \in Frames /\ payload_hash(blobs[h]) = h

\* ExactUntilFailure, strengthened to be inductive: a process that dies in
\* the first session is the last of it, and leaves the acknowledged blobs.
ExactInv ==
    /\ sessions = 0 => pc = "none" /\ crashes = 0
    /\ sessions = 1 /\ crashes # 0 => pc = "none"
    /\ faults = 0 /\ crashes = 0 => BlobsWhole
    /\ ExactUntilFailure

\* The counters of failures never go back.
LEMMA CrashesOnlyGrow == TypeOK /\ [Next]_vars /\ crashes' = 0 => crashes = 0
  BY DEF TypeOK, Next, vars, bounds, CreateTruncateManifest, CreateWriteManifest,
         CreateEvents, RecordOpenBlob, RecordWriteBlob, RecordAppend, FinalizeFlush,
         FinalizeTruncateManifest, FinalizeWriteManifest, DropWriter, Crash, Finished

\* Sessions and crashes are counted as they happen.
LEMMA SessionStep ==
    ASSUME TypeOK, ExactInv, [Next]_vars
    PROVE  /\ sessions' = 0 => pc' = "none" /\ crashes' = 0
           /\ sessions' = 1 /\ crashes' # 0 => pc' = "none"
  BY DEF ExactInv, TypeOK, Next, vars, bounds, CreateTruncateManifest, CreateWriteManifest,
         CreateEvents, RecordOpenBlob, RecordWriteBlob, RecordAppend, Return, FinalizeFlush,
         FinalizeTruncateManifest, FinalizeWriteManifest, DropWriter, Crash, Finished

\* Without failures, each blob that is not being written stays whole.
LEMMA BlobsWholeStep ==
    ASSUME TypeOK, BlobsWhole, [Next]_vars, faults' = 0, crashes' = 0
    PROVE  BlobsWhole'
  <1>1. ASSUME NEW d \in Directions, NEW r \in Frames, RecordOpenBlob(d, r)
        PROVE  BlobsWhole'
    <2>1. pc = "idle" /\ faults \in Nat
      BY <1>1 DEF RecordOpenBlob, TypeOK
    <2>2. CASE UNCHANGED blobs
      BY <2>1, <2>2 DEF BlobsWhole
    <2>3. CASE /\ blobs' = StoreBlob(blobs, payload_hash(r), Torn)
               /\ pc' = "blob_write" /\ arg' = [dir |-> d, raw |-> r]
      BY <2>1, <2>3 DEF BlobsWhole, StoreBlob
    <2> QED
      BY <1>1, <2>2, <2>3 DEF RecordOpenBlob
  <1>2. CASE RecordWriteBlob
    <2>1. pc = "blob_write" /\ arg.raw \in Frames /\ faults \in Nat
      BY <1>2 DEF RecordWriteBlob, TypeOK, Calls
    <2>2. blobs' = StoreBlob(blobs, payload_hash(arg.raw), arg.raw)
      BY <1>2, <2>1 DEF RecordWriteBlob, Fails
    <2> QED
      BY <2>1, <2>2 DEF BlobsWhole, StoreBlob
  <1>3. CASE UNCHANGED blobs /\ pc # "blob_write"
    BY <1>3 DEF BlobsWhole
  <1>4. CASE UNCHANGED vars
    BY <1>4 DEF BlobsWhole, vars, disk, call
  <1>5. CASE Crash
    BY <1>5 DEF Crash, TypeOK
  <1> QED
    BY <1>1, <1>2, <1>3, <1>4, <1>5
       DEF Next, CreateTruncateManifest, CreateWriteManifest, CreateEvents, RecordAppend,
           FinalizeFlush, FinalizeTruncateManifest, FinalizeWriteManifest, DropWriter,
           Finished

\* A call is acknowledged by the step that ends it; other steps keep the
\* acknowledgements or, at a new session's start, drop them.
LEMMA AckedChange ==
    ASSUME [Next]_vars
    PROVE  \/ acked' = acked \/ acked' = <<>>
           \/ /\ pc = "append" /\ UNCHANGED blobs
              /\ acked' = Append(acked, [row |-> EventRecord(next_seq, arg.dir, arg.raw),
                                         raw |-> arg.raw])
  BY DEF Next, vars, CreateTruncateManifest, CreateWriteManifest, CreateEvents,
         RecordOpenBlob, RecordWriteBlob, RecordAppend, FinalizeFlush,
         FinalizeTruncateManifest, FinalizeWriteManifest, DropWriter, Crash, Finished

\* A blob that holds a frame stays as it is; so do the acknowledged ones.
LEMMA ExactKept ==
    ASSUME TypeOK, AckedFramesExact, WritesFreshBlob, [Next]_vars, NEW i \in DOMAIN acked
    PROVE  /\ Loads(blobs', acked[i].row)
           /\ blobs'[acked[i].row.hash] = acked[i].raw
  <1>1. Loads(blobs, acked[i].row) /\ blobs[acked[i].row.hash] = acked[i].raw
    BY DEF AckedFramesExact, load_blob
  <1>2. blobs[acked[i].row.hash] # Torn
    BY <1>1 DEF Loads, Parses, Torn
  <1>3. acked[i].row.hash \in DOMAIN blobs
    BY <1>1 DEF Loads
  <1>4. /\ acked[i].row.hash \in DOMAIN blobs'
        /\ blobs'[acked[i].row.hash] = blobs[acked[i].row.hash]
    BY <1>2, <1>3, ImmutableStep
  <1> QED
    BY <1>1, <1>4 DEF Loads

\* The acknowledged frames stay exact as long as no failure tears a blob.
LEMMA ExactStep ==
    ASSUME OneLayout, TypeOK, BlobInv, WritesFreshBlob, ExactInv, [Next]_vars
    PROVE  ExactInv'
  <1>1. faults' = 0 /\ crashes' = 0 => BlobsWhole'
    BY FaultsOnlyGrow, CrashesOnlyGrow, BlobsWholeStep DEF ExactInv
  <1>2. ASSUME faults' = 0, crashes' = 0 \/ sessions' = 1
        PROVE  AckedFramesExact'
    <2>1. faults = 0 /\ (crashes = 0 \/ sessions = 1)
      <3>1. sessions' = 1 => crashes = 0 \/ sessions = 1
        BY DEF ExactInv, TypeOK, Next, vars, bounds, CreateTruncateManifest,
               CreateWriteManifest, CreateEvents, RecordOpenBlob, RecordWriteBlob,
               RecordAppend, FinalizeFlush, FinalizeTruncateManifest,
               FinalizeWriteManifest, DropWriter, Crash, Finished
      <3> QED
        BY <1>2, <3>1, FaultsOnlyGrow, CrashesOnlyGrow
    <2>2. AckedFramesExact
      BY <2>1 DEF ExactInv, ExactUntilFailure
    <2>3. CASE acked' = acked
      BY <2>2, <2>3, ExactKept DEF AckedFramesExact, load_blob
    <2>4. CASE acked' = <<>>
      BY <2>4 DEF AckedFramesExact
    <2>5. CASE /\ pc = "append" /\ UNCHANGED blobs
               /\ acked' = Append(acked, [row |-> EventRecord(next_seq, arg.dir, arg.raw),
                                          raw |-> arg.raw])
      <3> DEFINE row == EventRecord(next_seq, arg.dir, arg.raw)
                 h   == payload_hash(arg.raw)
                 ack == [row |-> row, raw |-> arg.raw]
      <3>1. arg.raw \in Frames /\ row.hash = h /\ acked \in Seq(Acks) /\ ack \in Acks
        BY CallType DEF TypeOK
      <3>2. crashes = 0
        BY <2>1, <2>5 DEF ExactInv
      <3>3. h \in DOMAIN blobs /\ blobs[h] \in Frames /\ payload_hash(blobs[h]) = h
        BY <2>1, <2>5, <3>2 DEF BlobInv, ExactInv, BlobsWhole
      <3>4. blobs[h] = arg.raw
        BY <3>1, <3>3 DEF OneLayout
      <3>5. Parses(arg.raw)
        BY <3>1, FramesAssumption DEF Raws
      <3>6. Loads(blobs, ack.row) /\ blobs[ack.row.hash] = ack.raw
        BY <3>1, <3>3, <3>4, <3>5 DEF Loads
      <3>7. \A i \in DOMAIN acked' :
                 \/ i \in DOMAIN acked /\ acked'[i] = acked[i]
                 \/ acked'[i] = ack
        <4> HIDE DEF ack
        <4>1. acked' = Append(acked, ack)
          BY <2>5 DEF ack
        <4> QED
          BY <3>1, <4>1
      <3> QED
        BY <2>2, <2>5, <3>6, <3>7 DEF AckedFramesExact, load_blob
    <2> QED
      BY <2>3, <2>4, <2>5, AckedChange
  <1> QED
    BY <1>1, <1>2, SessionStep DEF ExactInv, ExactUntilFailure

\* Where each JSON value is recorded in one layout, every acknowledged frame
\* loads byte for byte until a call fails or a second session follows a crash.
THEOREM ExactAlwaysUntilFailure ==
    ASSUME OneLayout
    PROVE  Spec => []ExactUntilFailure
  <1>1. Init => BlobInv /\ WritesFreshBlob /\ ExactInv
    BY DEF Init, BlobInv, RowsHaveBlobs, WritesFreshBlob, ExactInv, BlobsWhole,
           ExactUntilFailure, AckedFramesExact
  <1>2. /\ TypeOK /\ BlobInv /\ WritesFreshBlob /\ ExactInv /\ [Next]_vars
        => ExactInv'
    BY ExactStep
  <1>3. ExactInv => ExactUntilFailure
    BY DEF ExactInv
  <1> QED
    BY <1>1, <1>2, <1>3, TypeInit, TypeStep, BlobStep, FreshStep, PTL DEF Spec

-----------------------------------------------------------------------------
(* TraceStore implements TraceLog: seen through the mapping Trace, every   *)
(* system call, crash and failure is one step of the atomic log or none.   *)

\* The parts of the mapping that are more than a renaming.
MappedCas ==
    IF InFlight
    THEN [h \in DOMAIN blobs \ {payload_hash(arg.raw)} |-> blobs[h]]
    ELSE blobs

MappedPhase ==
    IF pc \in {"idle", "blob_write", "append", "fin_flushed", "fin_write"}
    THEN "open" ELSE IF Sealed THEN "sealed" ELSE "closed"

MappedCount == IF Sealed THEN manifest.event_count ELSE 0

\* What the mapping needs to know of the call under way: its blob is on disk,
\* empty until it has been written; and of a writer that is not recording: it
\* has nothing left to flush.
CallInv ==
    /\ pc = "blob_write" => fresh
    /\ pc = "append" =>
         /\ payload_hash(arg.raw) \in DOMAIN blobs
         /\ fresh => blobs[payload_hash(arg.raw)] = arg.raw
    /\ WritesFreshBlob
    /\ pc \notin Recording => buf = <<>>

\* The call's blob and the BufWriter stay as CallInv says.
LEMMA CallStep == TypeOK /\ CallInv /\ [Next]_vars => CallInv'
  <1> SUFFICES ASSUME TypeOK, CallInv, [Next]_vars PROVE CallInv'
    OBVIOUS
  <1>1. ASSUME NEW d \in Directions, NEW r \in Frames, RecordOpenBlob(d, r)
        PROVE  CallInv'
    BY <1>1, FreshStep DEF RecordOpenBlob, AlreadyExists, Return, CallInv, Recording
  <1>2. CASE RecordWriteBlob
    BY <1>2, FreshStep DEF RecordWriteBlob, StoreBlob, Return, CallInv, Recording,
       WritesFreshBlob, call
  <1>3. CASE RecordAppend
    BY <1>3 DEF RecordAppend, Return, CallInv, Recording, WritesFreshBlob
  <1>4. CASE UNCHANGED vars
    BY <1>4 DEF vars, disk, call, CallInv, WritesFreshBlob
  <1>5. CASE UNCHANGED buf /\ pc \notin Recording /\ pc' \notin {"blob_write", "append"}
    BY <1>5 DEF CallInv, Recording, WritesFreshBlob
  <1>6. CASE buf' = <<>> /\ pc' \notin {"blob_write", "append"}
    BY <1>6 DEF CallInv, Recording, WritesFreshBlob
  <1> QED
    BY <1>1, <1>2, <1>3, <1>4, <1>5, <1>6
       DEF Next, Finished, CreateTruncateManifest, CreateWriteManifest, CreateEvents,
           FinalizeFlush, FinalizeTruncateManifest, FinalizeWriteManifest, DropWriter,
           Crash, Recording

\* The abstract log's operators on frames and stores are the detailed ones.
LEMMA SameFormat ==
    /\ Trace!Torn = Torn /\ Trace!Directions = Directions
    /\ \A r : Trace!payload_hash(r) = payload_hash(r)
    /\ \A n, d, r : Trace!EventRecord(n, d, r) = EventRecord(n, d, r)
    /\ \A s, h, b : Trace!AddBlob(s, h, b) = AddBlob(s, h, b)
  <1>1. \A r : Trace!payload_hash(r) = payload_hash(r)
    BY DEF Trace!payload_hash, payload_hash
  <1>2. Trace!None = None
    BY DEF Trace!None, None
  <1>3. \A i : Trace!from_value(i) = from_value(i)
    BY <1>2 DEF Trace!from_value, from_value
  <1>4. Trace!Torn = Torn /\ Trace!Directions = Directions
    BY DEF Trace!Torn, Torn, Trace!Directions, Directions
  <1>5. \A r : Trace!kind(r) = kind(r)
    BY <1>2, <1>3 DEF Trace!kind, kind
  <1>6. \A n, d, r : Trace!EventRecord(n, d, r) = EventRecord(n, d, r)
    BY <1>1, <1>3, <1>5 DEF Trace!EventRecord, EventRecord
  <1>7. \A s, h, b : Trace!AddBlob(s, h, b) = AddBlob(s, h, b)
    BY DEF Trace!AddBlob, AddBlob, Trace!StoreBlob, StoreBlob
  <1> QED
    BY <1>1, <1>4, <1>6, <1>7

-----------------------------------------------------------------------------
(* The actions of the log, said of the mapped state.  Each lemma unfolds one *)
(* action of TraceLog under the mapping, so that the steps below need not.   *)

\* record() acknowledges.
LEMMA MappedRecord ==
    ASSUME NEW d \in Directions, NEW r \in Frames,
           MappedPhase = "open", MappedPhase' = "open", MappedCount' = MappedCount,
           MappedCas' = AddBlob(MappedCas, payload_hash(r), r),
           rows' = rows \o buf \o <<EventRecord(next_seq, d, r)>>,
           buf' = <<>>, next_seq' = next_seq + 1
    PROVE  Trace!Next
  BY SameFormat DEF Trace!Next, Trace!Record, MappedPhase, MappedCount, MappedCas

\* record() fails in writing the blob.
LEMMA MappedRecordBlobErr ==
    ASSUME NEW r \in Frames,
           MappedPhase = "open", MappedPhase' = "open", MappedCount' = MappedCount,
           MappedCas' \in {MappedCas, AddBlob(MappedCas, payload_hash(r), Torn)},
           rows' = rows, buf' = buf, next_seq' = next_seq
    PROVE  Trace!Next
  <1>1. "c2a" \in Directions
    BY DEF Directions
  <1> QED
    BY <1>1, SameFormat
       DEF Trace!Next, Trace!RecordBlobErr, MappedPhase, MappedCount, MappedCas

\* record() fails in flushing the row.
LEMMA MappedRecordFlushErr ==
    ASSUME NEW d \in Directions, NEW r \in Frames, NEW k \in 0 .. Len(buf),
           MappedPhase = "open", MappedPhase' = "open", MappedCount' = MappedCount,
           MappedCas' = AddBlob(MappedCas, payload_hash(r), r),
           next_seq' = next_seq,
           rows' = rows \o SubSeq(Append(buf, EventRecord(next_seq, d, r)), 1, k),
           buf' = SubSeq(Append(buf, EventRecord(next_seq, d, r)), k + 1,
                         Len(Append(buf, EventRecord(next_seq, d, r))))
    PROVE  Trace!Next
  <1>1. Trace!RecordFlushErr(d, r)
    BY SameFormat DEF Trace!RecordFlushErr, MappedPhase, MappedCount, MappedCas
  <1> QED
    BY <1>1, SameFormat DEF Trace!Next

\* finalize() flushes.
LEMMA MappedFlush ==
    ASSUME MappedPhase = "open", MappedPhase' = "open", MappedCount' = MappedCount,
           MappedCas' = MappedCas, rows' = rows \o buf, buf' = <<>>,
           next_seq' = next_seq
    PROVE  Trace!Next
  BY DEF Trace!Next, Trace!Flush, MappedPhase, MappedCount, MappedCas

\* finalize() seals.
LEMMA MappedSeal ==
    ASSUME MappedPhase = "open", MappedPhase' = "sealed", MappedCount' = next_seq,
           MappedCas' = MappedCas, rows' = rows \o buf, buf' = <<>>,
           next_seq' = next_seq
    PROVE  Trace!Next
  BY DEF Trace!Next, Trace!Seal, MappedPhase, MappedCount, MappedCas

\* The writer goes away between calls, with a part of what it held.
LEMMA MappedAbandon ==
    ASSUME MappedPhase = "open", MappedPhase' = "closed", MappedCount' = MappedCount,
           MappedCas' = MappedCas, NEW k \in 0 .. Len(buf),
           rows' = rows \o SubSeq(buf, 1, k), buf' = <<>>, next_seq' = next_seq
    PROVE  Trace!Next
  BY DEF Trace!Next, Trace!Abandon, MappedPhase, MappedCount, MappedCas

\* It goes away while record() writes the blob.
LEMMA MappedAbandonBlob ==
    ASSUME MappedPhase = "open", MappedPhase' = "closed", MappedCount' = MappedCount,
           NEW r \in Frames, MappedCas' = AddBlob(MappedCas, payload_hash(r), Torn),
           rows' = rows, buf' = <<>>, next_seq' = next_seq
    PROVE  Trace!Next
  <1>1. "c2a" \in Directions
    BY DEF Directions
  <1>2. Trace!Abandon
    BY <1>1, SameFormat DEF Trace!Abandon, MappedPhase, MappedCount, MappedCas
  <1> QED
    BY <1>2 DEF Trace!Next

\* It goes away while record() writes the row.
LEMMA MappedAbandonRow ==
    ASSUME MappedPhase = "open", MappedPhase' = "closed", MappedCount' = MappedCount,
           NEW d \in Directions, NEW r \in Frames,
           MappedCas' = AddBlob(MappedCas, payload_hash(r), r),
           NEW k \in 0 .. Len(Append(buf, EventRecord(next_seq, d, r))),
           rows' = rows \o SubSeq(Append(buf, EventRecord(next_seq, d, r)), 1, k),
           buf' = <<>>, next_seq' = next_seq
    PROVE  Trace!Next
  <1>1. Trace!Abandon
    BY SameFormat DEF Trace!Abandon, MappedPhase, MappedCount, MappedCas
  <1> QED
    BY <1>1 DEF Trace!Next

\* create empties the log.
LEMMA MappedBegin ==
    ASSUME MappedPhase = "closed", MappedPhase' = "open", MappedCount' = MappedCount,
           MappedCas' = MappedCas, rows' = <<>>, buf' = <<>>, next_seq' = 0
    PROVE  Trace!Next
  BY DEF Trace!Next, Trace!Begin, MappedPhase, MappedCount, MappedCas

\* create takes the end data from an older trace.
LEMMA MappedReset ==
    ASSUME MappedPhase = "sealed", MappedPhase' = "closed", MappedCount' = 0,
           MappedCas' = MappedCas, rows' = rows, buf' = buf, next_seq' = next_seq
    PROVE  Trace!Next
  BY DEF Trace!Next, Trace!Reset, MappedPhase, MappedCount, MappedCas

\* Nothing a caller could see has happened.
LEMMA MappedStutter ==
    ASSUME MappedPhase' = MappedPhase, MappedCount' = MappedCount,
           MappedCas' = MappedCas, rows' = rows, buf' = buf, next_seq' = next_seq
    PROVE  UNCHANGED Trace!traceVars
  BY DEF Trace!traceVars, MappedPhase, MappedCount, MappedCas

-----------------------------------------------------------------------------
(* The mapping. *)

\* While there is a writer the trace is open, and its manifest carries no end.
LEMMA OpenPhase ==
    ASSUME SealInv
    PROVE  /\ pc \in Recording \cup Finishing => MappedPhase = "open"
           /\ pc # "none" => ~Sealed /\ MappedCount = 0
           /\ pc \in {"create_manifest", "create_events"} => MappedPhase = "closed"
  BY DEF SealInv, Recording, Finishing, MappedPhase, MappedCount

\* Between calls the mapped store is the directory.
LEMMA IdleCas == pc \notin {"blob_write", "append"} => MappedCas = blobs
  BY DEF MappedCas, InFlight

\* A call under way has added its blob, empty or complete, to the mapped store.
LEMMA CallCas ==
    ASSUME TypeOK, CallInv, pc \in {"blob_write", "append"}
    PROVE  /\ pc = "blob_write" =>
                blobs = AddBlob(MappedCas, payload_hash(arg.raw), Torn)
           /\ pc = "append" =>
                blobs = AddBlob(MappedCas, payload_hash(arg.raw), arg.raw)
  <1> DEFINE h    == payload_hash(arg.raw)
             rest == [x \in DOMAIN blobs \ {h} |-> blobs[x]]
  <1>1. h \in DOMAIN blobs /\ blobs = [x \in DOMAIN blobs |-> blobs[x]]
    BY DEF CallInv, WritesFreshBlob, TypeOK, IsBlobStore
  <1>2. AddBlob(rest, h, blobs[h]) = blobs
    <2>1. AddBlob(rest, h, blobs[h])
            = [x \in DOMAIN blobs |-> IF x = h THEN blobs[h] ELSE rest[x]]
      BY <1>1 DEF AddBlob, StoreBlob
    <2> QED
      BY <1>1, <2>1
  <1>3. AddBlob(blobs, h, arg.raw) = blobs
    BY <1>1 DEF AddBlob
  <1>4. CASE fresh
    <2>1. MappedCas = rest
      BY <1>4 DEF MappedCas, InFlight
    <2>2. blobs[h] = IF pc = "append" THEN arg.raw ELSE Torn
      BY <1>4 DEF CallInv, WritesFreshBlob
    <2> QED
      BY <1>2, <2>1, <2>2
  <1>5. CASE ~fresh
    <2>1. MappedCas = blobs /\ pc = "append"
      BY <1>5 DEF MappedCas, InFlight, CallInv
    <2> QED
      BY <1>3, <2>1
  <1> QED
    BY <1>4, <1>5 DEF TypeOK

\* A flush of the rows b, whatever becomes of it, writes the first of them.
LEMMA FlushOutcome ==
    ASSUME rows \in Seq(Rows), NEW b \in Seq(Rows),
           \/ UNCHANGED rows \/ FlushAll(b)
           \/ \E k \in 0 .. Len(b) - 1 : FlushPart(b, k)
    PROVE  \E k \in 0 .. Len(b) : rows' = rows \o SubSeq(b, 1, k)
  <1>1. /\ SubSeq(b, 1, Len(b)) = b /\ Len(b) \in 0 .. Len(b)
        /\ SubSeq(b, 1, 0) = <<>> /\ 0 \in 0 .. Len(b)
    BY SubSeqFull, SubSeqEmpty
  <1>2. rows \o <<>> = rows
    BY ConcatEmptySeq
  <1>3. CASE UNCHANGED rows
    BY <1>1, <1>2, <1>3
  <1>4. CASE FlushAll(b)
    BY <1>1, <1>4 DEF FlushAll
  <1>5. ASSUME NEW k \in 0 .. Len(b) - 1, FlushPart(b, k)
        PROVE  \E j \in 0 .. Len(b) : rows' = rows \o SubSeq(b, 1, j)
    <2>1. rows' = rows \o SubSeq(b, 1, k)
      BY <1>5 DEF FlushPart
    <2>2. Len(b) \in Nat
      OBVIOUS
    <2>3. k \in 0 .. Len(b)
      BY <2>2
    <2> QED
      BY <2>1, <2>3
  <1> QED
    BY <1>3, <1>4, <1>5

\* After a step, as before it: the phase follows pc, and only an ended trace
\* has a count.
LEMMA NextPhase ==
    ASSUME SealInv'
    PROVE  /\ pc' \in Recording \cup Finishing => MappedPhase' = "open"
           /\ pc' # "none" => ~Sealed' /\ MappedCount' = 0
           /\ pc' \in {"create_manifest", "create_events"} => MappedPhase' = "closed"
           /\ pc' = "none" /\ ~Sealed' => MappedPhase' = "closed" /\ MappedCount' = 0
           /\ pc' \notin {"blob_write", "append"} => MappedCas' = blobs'
  BY DEF SealInv, Recording, Finishing, MappedPhase, MappedCount, MappedCas, InFlight

\* Each system call, crash or failure is a step of the atomic log, or none.
LEMMA RefinementStep ==
    ASSUME TypeOK, SealInv, CallInv, [Next]_vars
    PROVE  [Trace!Next]_(Trace!traceVars)
  <1> USE OpenPhase, NextPhase, IdleCas
  <1>a. SealInv'
    BY SealStep
  <1>b. TypeOK'
    BY TypeStep
  <1>c. rows \in Seq(Rows) /\ buf \in Seq(Rows) /\ next_seq \in Nat /\ arg \in Calls
    BY DEF TypeOK
  <1>d. pc \notin Recording => buf = <<>>
    BY DEF CallInv
  <1>1. CASE CreateTruncateManifest
    <2>1. /\ pc = "none" /\ pc' = "create_manifest"
          /\ rows' = rows /\ buf' = buf /\ next_seq' = next_seq /\ blobs' = blobs
      BY <1>1 DEF CreateTruncateManifest
    <2>2. MappedPhase' = "closed" /\ MappedCount' = 0 /\ MappedCas' = MappedCas
      BY <1>a, <2>1
    <2>3. CASE Sealed
      <3>1. MappedPhase = "sealed"
        BY <2>1, <2>3 DEF MappedPhase
      <3> QED
        BY <2>1, <2>2, <3>1, MappedReset
    <2>4. CASE ~Sealed
      <3>1. MappedPhase = "closed" /\ MappedCount = 0
        BY <2>1, <2>4 DEF MappedPhase, MappedCount
      <3> QED
        BY <2>1, <2>2, <3>1, MappedStutter
    <2> QED
      BY <2>3, <2>4
  <1>2. CASE CreateWriteManifest
    <2>1. /\ pc = "create_manifest" /\ pc' \in {"create_events", "none"}
          /\ manifest' \in {NewManifest, TornManifest}
          /\ rows' = rows /\ buf' = buf /\ next_seq' = next_seq /\ blobs' = blobs
      BY <1>2 DEF CreateWriteManifest
    <2>2. ~Sealed'
      BY <2>1, Unsealed DEF Sealed
    <2>3. MappedPhase = "closed" /\ MappedCount = 0 /\ MappedCas = blobs
      BY <2>1
    <2>4. MappedPhase' = "closed" /\ MappedCount' = 0 /\ MappedCas' = blobs
      BY <1>a, <2>1, <2>2
    <2> QED
      BY <2>1, <2>3, <2>4, MappedStutter
  <1>3. CASE CreateEvents
    <2>1. /\ pc = "create_events" /\ pc' \in {"idle", "none"}
          /\ manifest' = manifest /\ blobs' = blobs
      BY <1>3 DEF CreateEvents
    <2>2. MappedPhase = "closed" /\ MappedCount = 0 /\ MappedCas = blobs
      BY <2>1
    <2>3. ~Sealed' /\ MappedCount' = 0 /\ MappedCas' = blobs
      BY <1>a, <2>1 DEF Sealed
    <2>4. CASE pc' = "idle"
      <3>1. rows' = <<>> /\ buf' = <<>> /\ next_seq' = 0
        BY <1>3, <2>4 DEF CreateEvents, EventsOpened
      <3>2. MappedPhase' = "open"
        BY <1>a, <2>4 DEF Recording
      <3> QED
        BY <2>2, <2>3, <3>1, <3>2, MappedBegin
    <2>5. CASE pc' = "none"
      <3>1. rows' = rows /\ buf' = buf /\ next_seq' = next_seq
        BY <1>3, <2>5 DEF CreateEvents
      <3>2. MappedPhase' = "closed"
        BY <1>a, <2>3, <2>5
      <3> QED
        BY <2>2, <2>3, <3>1, <3>2, MappedStutter
    <2> QED
      BY <2>1, <2>4, <2>5
  <1>4. ASSUME NEW d \in Directions, NEW r \in Frames, RecordOpenBlob(d, r)
        PROVE  [Trace!Next]_(Trace!traceVars)
    <2>1. /\ pc = "idle" /\ pc' \in Recording
          /\ rows' = rows /\ buf' = buf /\ next_seq' = next_seq
      BY <1>4 DEF RecordOpenBlob, Return, Recording
    <2>2. /\ MappedPhase = "open" /\ MappedCount = 0 /\ MappedCas = blobs
          /\ MappedPhase' = "open" /\ MappedCount' = 0
      BY <1>a, <2>1 DEF Recording
    <2>3. MappedCas' = blobs
      <3>1. CASE UNCHANGED blobs /\ (pc' = "idle" \/ fresh' = FALSE)
        BY <3>1 DEF MappedCas, InFlight
      <3>2. CASE /\ ~AlreadyExists(payload_hash(r))
                 /\ blobs' = StoreBlob(blobs, payload_hash(r), Torn)
                 /\ arg' = [dir |-> d, raw |-> r] /\ fresh' = TRUE /\ pc' = "blob_write"
        <4>1. blobs = [x \in DOMAIN blobs |-> blobs[x]]
          BY DEF TypeOK, IsBlobStore
        <4>2. MappedCas' = [x \in DOMAIN blobs' \ {payload_hash(r)} |-> blobs'[x]]
          BY <3>2 DEF MappedCas, InFlight
        <4>3. /\ DOMAIN blobs' \ {payload_hash(r)} = DOMAIN blobs
              /\ \A x \in DOMAIN blobs : blobs'[x] = blobs[x]
          BY <3>2 DEF StoreBlob, AlreadyExists
        <4> QED
          BY <4>1, <4>2, <4>3
      <3> QED
        BY <1>4, <3>1, <3>2 DEF RecordOpenBlob, Return
    <2> QED
      BY <2>1, <2>2, <2>3, MappedStutter
  <1>5. CASE RecordWriteBlob
    <2>1. /\ pc = "blob_write" /\ pc' \in {"append", "idle"} /\ arg.raw \in Frames
          /\ rows' = rows /\ buf' = buf /\ next_seq' = next_seq
      BY <1>5 DEF RecordWriteBlob, Return, TypeOK, Calls
    <2>2. /\ MappedPhase = "open" /\ MappedCount = 0
          /\ MappedPhase' = "open" /\ MappedCount' = 0
      BY <1>a, <2>1 DEF Recording
    <2>3. CASE pc' = "append"
      <3>1. /\ blobs' = StoreBlob(blobs, payload_hash(arg.raw), arg.raw)
            /\ arg' = arg /\ fresh' = fresh /\ fresh
        BY <1>5, <2>1, <2>3 DEF RecordWriteBlob, Return, call, CallInv
      <3>2. /\ MappedCas' = [x \in DOMAIN blobs' \ {payload_hash(arg.raw)} |-> blobs'[x]]
            /\ MappedCas = [x \in DOMAIN blobs \ {payload_hash(arg.raw)} |-> blobs[x]]
        BY <2>1, <2>3, <3>1 DEF MappedCas, InFlight
      <3>3. MappedCas' = MappedCas
        BY <3>1, <3>2 DEF StoreBlob
      <3> QED
        BY <2>1, <2>2, <3>3, MappedStutter
    <2>4. CASE pc' = "idle"
      <3>1. blobs' = blobs
        BY <1>5, <2>4 DEF RecordWriteBlob
      <3>2. MappedCas' = AddBlob(MappedCas, payload_hash(arg.raw), Torn)
        BY <1>a, <2>1, <2>4, <3>1, CallCas
      <3> QED
        BY <2>1, <2>2, <3>2, MappedRecordBlobErr
    <2> QED
      BY <2>1, <2>3, <2>4
  <1>6. CASE RecordAppend
    <2> DEFINE row == EventRecord(next_seq, arg.dir, arg.raw)
               b   == Append(buf, row)
    <2>1. /\ pc = "append" /\ pc' = "idle" /\ blobs' = blobs
          /\ arg.dir \in Directions /\ arg.raw \in Frames /\ row \in Rows
      BY <1>6, <1>c, CallType DEF RecordAppend, Return
    <2>2. /\ MappedPhase = "open" /\ MappedCount = 0
          /\ MappedPhase' = "open" /\ MappedCount' = 0
      BY <1>a, <2>1 DEF Recording
    <2>3. MappedCas' = AddBlob(MappedCas, payload_hash(arg.raw), arg.raw)
      BY <1>a, <2>1, CallCas
    <2>4. CASE Works /\ FlushAll(b) /\ buf' = <<>> /\ next_seq' = next_seq + 1
      <3>1. rows' = rows \o buf \o <<row>>
        <4> HIDE DEF row
        <4>1. rows \o Append(buf, row) = rows \o buf \o <<row>>
          BY <1>c, <2>1
        <4> QED
          BY <2>4, <4>1 DEF FlushAll
      <3> QED
        BY <2>1, <2>2, <2>3, <2>4, <3>1, MappedRecord
    <2>5. CASE /\ \E k \in 0 .. Len(buf) :
                    FlushPart(b, k) /\ buf' = SubSeq(b, k + 1, Len(b))
               /\ next_seq' = next_seq
      BY <2>1, <2>2, <2>3, <2>5, MappedRecordFlushErr DEF FlushPart
    <2> QED
      BY <1>6, <2>4, <2>5 DEF RecordAppend
  <1>7. CASE FinalizeFlush
    <2>1. /\ pc = "idle" /\ pc' \in {"fin_flushed", "none"} /\ buf' = <<>>
          /\ manifest' = manifest /\ blobs' = blobs /\ next_seq' = next_seq
      BY <1>7 DEF FinalizeFlush
    <2>2. /\ MappedPhase = "open" /\ MappedCount = 0 /\ MappedCas = blobs
          /\ ~Sealed /\ MappedCas' = blobs
      BY <1>a, <2>1 DEF Recording
    <2>3. ~Sealed'
      BY <2>1, <2>2 DEF Sealed
    <2>4. CASE pc' = "fin_flushed"
      <3>1. MappedPhase' = "open" /\ MappedCount' = 0
        BY <1>a, <2>4 DEF Finishing
      <3>2. rows' = rows \o buf
        <4>1. rows \o <<>> = rows
          BY <1>c, ConcatEmptySeq
        <4> QED
          BY <1>7, <2>4, <4>1 DEF FinalizeFlush, FlushAll
      <3> QED
        BY <2>1, <2>2, <3>1, <3>2, MappedFlush
    <2>5. CASE pc' = "none"
      <3>1. MappedPhase' = "closed" /\ MappedCount' = 0
        BY <1>a, <2>3, <2>5
      <3>2. PICK k \in 0 .. Len(buf) : rows' = rows \o SubSeq(buf, 1, k)
        BY <1>7, <1>c, <2>5, FlushOutcome DEF FinalizeFlush
      <3> QED
        BY <2>1, <2>2, <3>1, <3>2, MappedAbandon
    <2> QED
      BY <2>1, <2>4, <2>5
  <1>8. CASE FinalizeTruncateManifest
    <2>1. /\ pc = "fin_flushed" /\ pc' \in {"fin_write", "none"} /\ buf = <<>>
          /\ rows' = rows /\ buf' = buf /\ blobs' = blobs /\ next_seq' = next_seq
          /\ pc' = "none" => manifest' = manifest
      BY <1>8, <1>d DEF FinalizeTruncateManifest, Recording
    <2>2. /\ MappedPhase = "open" /\ MappedCount = 0 /\ MappedCas = blobs
          /\ ~Sealed /\ MappedCas' = blobs
      BY <1>a, <2>1 DEF Finishing
    <2>3. CASE pc' = "fin_write"
      <3>1. MappedPhase' = "open" /\ MappedCount' = 0
        BY <1>a, <2>3 DEF Finishing
      <3> QED
        BY <2>1, <2>2, <3>1, MappedStutter
    <2>4. CASE pc' = "none"
      <3>1. MappedPhase' = "closed" /\ MappedCount' = 0
        BY <1>a, <2>1, <2>2, <2>4 DEF Sealed
      <3>2. PICK k \in 0 .. Len(buf) : rows' = rows \o SubSeq(buf, 1, k)
        BY <1>c, <2>1, FlushOutcome
      <3> QED
        BY <2>1, <2>2, <3>1, <3>2, MappedAbandon
    <2> QED
      BY <2>1, <2>3, <2>4
  <1>9. CASE FinalizeWriteManifest
    <2>1. /\ pc = "fin_write" /\ pc' = "none" /\ buf = <<>> /\ manifest' \in {ended, TornManifest}
          /\ rows' = rows /\ buf' = buf /\ blobs' = blobs /\ next_seq' = next_seq
      BY <1>9, <1>d DEF FinalizeWriteManifest, Recording
    <2>2. /\ MappedPhase = "open" /\ MappedCount = 0 /\ MappedCas = blobs
          /\ MappedCas' = blobs
      BY <1>a, <2>1 DEF Finishing
    <2>3. CASE manifest' = ended
      <3>1. manifest' = SealedManifest(next_seq, rows)
        BY <2>1, <2>3 DEF SealInv
      <3>2. Sealed' /\ manifest'.event_count = next_seq
        BY <3>1 DEF Sealed, SealedManifest
      <3>3. MappedPhase' = "sealed" /\ MappedCount' = next_seq
        BY <2>1, <3>2 DEF MappedPhase, MappedCount
      <3>4. rows' = rows \o buf
        BY <1>c, <2>1, ConcatEmptySeq
      <3> QED
        BY <2>1, <2>2, <3>3, <3>4, MappedSeal
    <2>4. CASE manifest' = TornManifest
      <3>1. MappedPhase' = "closed" /\ MappedCount' = 0
        BY <1>a, <2>1, <2>4, Unsealed DEF Sealed
      <3>2. PICK k \in 0 .. Len(buf) : rows' = rows \o SubSeq(buf, 1, k)
        BY <1>c, <2>1, FlushOutcome
      <3> QED
        BY <2>1, <2>2, <3>1, <3>2, MappedAbandon
    <2> QED
      BY <2>1, <2>3, <2>4
  <1>10. CASE DropWriter
    <2>1. /\ pc = "idle" /\ pc' = "none" /\ buf' = <<>>
          /\ manifest' = manifest /\ blobs' = blobs /\ next_seq' = next_seq
      BY <1>10 DEF DropWriter
    <2>2. /\ MappedPhase = "open" /\ MappedCount = 0 /\ MappedCas = blobs
          /\ MappedCas' = blobs /\ ~Sealed
      BY <1>a, <2>1 DEF Recording
    <2>3. MappedPhase' = "closed" /\ MappedCount' = 0
      BY <1>a, <2>1, <2>2 DEF Sealed
    <2>4. PICK k \in 0 .. Len(buf) : rows' = rows \o SubSeq(buf, 1, k)
      BY <1>10, <1>c, FlushOutcome DEF DropWriter
    <2> QED
      BY <2>1, <2>2, <2>3, <2>4, MappedAbandon
  <1>11. CASE Crash
    <2> DEFINE row == EventRecord(next_seq, arg.dir, arg.raw)
               b   == Append(buf, row)
    <2>1. /\ pc # "none" /\ pc' = "none" /\ buf' = <<>>
          /\ manifest' = manifest /\ blobs' = blobs /\ next_seq' = next_seq
      BY <1>11 DEF Crash
    <2>2. ~Sealed /\ MappedCount = 0 /\ MappedCas' = blobs
      BY <1>a, <2>1
    <2>3. MappedPhase' = "closed" /\ MappedCount' = 0
      BY <1>a, <2>1, <2>2 DEF Sealed
    <2>4. CASE pc \in {"create_manifest", "create_events"}
      <3>1. rows' = rows /\ buf = <<>>
        BY <1>11, <1>d, <2>4 DEF Crash, Recording
      <3>2. MappedPhase = "closed" /\ MappedCas = blobs
        BY <2>4
      <3> QED
        BY <2>1, <2>2, <2>3, <3>1, <3>2, MappedStutter
    <2>5. CASE pc \in {"idle", "fin_flushed", "fin_write"}
      <3>1. MappedPhase = "open" /\ MappedCas = blobs
        BY <2>5 DEF Recording, Finishing
      <3>2. UNCHANGED rows \/ \E k \in 0 .. Len(buf) - 1 : FlushPart(buf, k)
        BY <1>11, <2>5 DEF Crash
      <3>3. PICK k \in 0 .. Len(buf) : rows' = rows \o SubSeq(buf, 1, k)
        BY <1>c, <3>2, FlushOutcome
      <3> QED
        BY <2>1, <2>2, <2>3, <3>1, <3>3, MappedAbandon
    <2>6. CASE pc = "blob_write"
      <3>1. MappedPhase = "open" /\ rows' = rows /\ arg.raw \in Frames
        BY <1>11, <2>6 DEF Crash, Recording, TypeOK, Calls
      <3>2. MappedCas' = AddBlob(MappedCas, payload_hash(arg.raw), Torn)
        BY <2>2, <2>6, CallCas
      <3> QED
        BY <2>1, <2>2, <2>3, <3>1, <3>2, MappedAbandonBlob
    <2>7. CASE pc = "append"
      <3>1. MappedPhase = "open"
        BY <2>7 DEF Recording
      <3>2. arg.dir \in Directions /\ arg.raw \in Frames /\ row \in Rows
        BY <1>c, CallType
      <3>3. MappedCas' = AddBlob(MappedCas, payload_hash(arg.raw), arg.raw)
        BY <2>2, <2>7, CallCas
      <3>4. b \in Seq(Rows) /\ Len(b) = Len(buf) + 1
        BY <1>c, <3>2, AppendType
      <3>5. \A k \in 0 .. Len(buf) : k \in 0 .. Len(b) - 1
        BY <1>c, <3>4
      <3>6. UNCHANGED rows \/ FlushAll(b) \/ \E k \in 0 .. Len(b) - 1 : FlushPart(b, k)
        BY <1>11, <2>7, <3>5 DEF Crash
      <3>7. PICK k \in 0 .. Len(b) : rows' = rows \o SubSeq(b, 1, k)
        BY <1>c, <3>4, <3>6, FlushOutcome
      <3> QED
        BY <2>1, <2>2, <2>3, <3>1, <3>2, <3>3, <3>7, MappedAbandonRow
    <2> QED
      BY <2>1, <2>4, <2>5, <2>6, <2>7 DEF TypeOK
  <1>12. CASE UNCHANGED vars
    <2>1. /\ MappedPhase' = MappedPhase /\ MappedCount' = MappedCount
          /\ MappedCas' = MappedCas
          /\ rows' = rows /\ buf' = buf /\ next_seq' = next_seq
      BY <1>12 DEF vars, disk, call, MappedPhase, MappedCount, MappedCas, InFlight, Sealed
    <2> QED
      BY <2>1, MappedStutter
  <1> QED
    BY <1>1, <1>2, <1>3, <1>4, <1>5, <1>6, <1>7, <1>8, <1>9, <1>10, <1>11, <1>12
       DEF Next, Finished

\* The writer, one system call at a time, implements the atomic log: what the
\* callers of TraceWriter rely on holds whatever is interrupted or fails.
THEOREM StoreImplementsLog == Spec => ImplementsTraceLog
  <1>1. Init => SealInv /\ CallInv
    BY Unsealed DEF Init, SealInv, SealMatchesLog, Sealed, Recording, Finishing,
       CallInv, WritesFreshBlob
  <1>2. Init => Trace!Init
    BY Unsealed DEF Init, Trace!Init, Sealed, InFlight, Torn, Trace!Torn
  <1>3. Spec => [](TypeOK /\ SealInv /\ CallInv)
    BY <1>1, TypeInit, TypeStep, SealStep, CallStep, PTL DEF Spec
  <1> QED
    BY <1>2, <1>3, RefinementStep, PTL DEF Spec, ImplementsTraceLog, Trace!Spec

=============================================================================
