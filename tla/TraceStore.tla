----------------------------- MODULE TraceStore -----------------------------
(***************************************************************************)
(* TraceWriter and the trace directory, one file-system call at a time     *)
(* (crates/acp-trace).  A process may die between any two calls, a call    *)
(* may fail (disk full, I/O error), and a directory may be used again by a *)
(* later recording, as ProxyConfig.trace_dir allows.                       *)
(*                                                                         *)
(* On disk:                                                                *)
(*   manifest  manifest.json: missing, torn (truncated or partly written), *)
(*             or valid, with or without the data finalize adds            *)
(*   tail      how events.jsonl ends: missing (no file), clean, or torn    *)
(*             (part of a row)                                             *)
(*   rows      the complete rows of events.jsonl                           *)
(*   blobs     the files under blobs/, a partial function from hashes      *)
(* In memory:                                                              *)
(*   pc        where the writer is; "none" when there is no writer         *)
(*   arg       direction and frame of the record() call under way          *)
(*   fresh     that call took the create_new arm (no dedup hit)            *)
(*   buf       rows in the BufWriter; when tail is torn, the first of them *)
(*             is partly in the file                                       *)
(*   next_seq  TraceWriter.next_seq                                        *)
(*   ended     the manifest finalize has built and not yet written         *)
(* History:                                                                *)
(*   acked     row and bytes of each record() that returned Ok, this       *)
(*             session                                                     *)
(*   sessions, calls, crashes, faults: counters that the bounds limit      *)
(*                                                                         *)
(* The payload of the event log's hash is the log itself: blake3 is taken  *)
(* to be collision free.                                                   *)
(***************************************************************************)
EXTENDS TraceFormat, SequencesExt

CONSTANTS
    MaxSessions,  \* recordings made into the same directory
    MaxCalls,     \* record() calls per session
    MaxCrashes,   \* process deaths
    MaxFaults     \* file-system calls that fail

ASSUME BoundsAssumption ==
    /\ MaxSessions \in Nat /\ MaxCalls \in Nat
    /\ MaxCrashes \in Nat /\ MaxFaults \in Nat

VARIABLES manifest, tail, rows, blobs, pc, arg, fresh, buf, next_seq, ended,
          acked, sessions, calls, crashes, faults

disk   == <<manifest, tail, rows, blobs>>
call   == <<arg, fresh>>
bounds == <<sessions, calls, crashes, faults>>
vars   == <<disk, pc, call, buf, next_seq, ended, acked, bounds>>

NoManifest   == [state |-> "missing"]
TornManifest == [state |-> "torn"]
NewManifest  == [state |-> "valid", ended |-> FALSE]
\* Mutant: the count is the last sequence number.
SealedManifestLastSeq(n, log) ==
    [state |-> "valid", ended |-> TRUE, event_count |-> n - 1, events_hash |-> log]
SealedManifest(n, log) ==
    [state |-> "valid", ended |-> TRUE, event_count |-> n, events_hash |-> log]
SealedManifests ==
    [state : {"valid"}, ended : {TRUE}, event_count : Nat, events_hash : Seq(Rows)]

\* Arguments of record(), and its acknowledgements.
Calls == [dir : Directions, raw : Frames]
Acks  == [row : Rows, raw : Frames]

NoCall == [dir |-> "c2a", raw |-> CHOOSE r \in Frames : TRUE]

TypeOK ==
    /\ manifest \in {NoManifest, TornManifest, NewManifest} \cup SealedManifests
    /\ tail \in {"missing", "clean", "torn"}
    /\ rows \in Seq(Rows)
    /\ IsBlobStore(blobs)
    /\ pc \in {"none", "create_manifest", "create_events", "idle", "blob_write",
               "append", "fin_flushed", "fin_write"}
    /\ arg \in Calls
    /\ fresh \in BOOLEAN
    /\ buf \in Seq(Rows)
    /\ next_seq \in Nat
    /\ ended \in {NewManifest} \cup SealedManifests
    /\ acked \in Seq(Acks)
    /\ sessions \in Nat /\ calls \in Nat /\ crashes \in Nat /\ faults \in Nat

Init ==
    /\ manifest = NoManifest /\ tail = "missing" /\ rows = <<>>
    /\ blobs = [h \in {} |-> Torn]
    /\ pc = "none" /\ arg = NoCall /\ fresh = FALSE
    /\ buf = <<>> /\ next_seq = 0 /\ ended = NewManifest
    /\ acked = <<>>
    /\ sessions = 0 /\ calls = 0 /\ crashes = 0 /\ faults = 0

-----------------------------------------------------------------------------
(* A call fails, or does not. *)
Works  == UNCHANGED faults
Fails  == faults < MaxFaults /\ faults' = faults + 1

\* A record() call ends: its locals go out of scope.
Return == pc' = "idle" /\ arg' = NoCall /\ fresh' = FALSE

\* Mutant: the flush after a row is forgotten.
FlushAllForgotten(b) == b \in Seq(Rows) /\ UNCHANGED <<rows, tail>>

\* A flush of the rows b writes them all.
FlushAll(b) ==
    /\ rows' = rows \o b
    /\ tail' = "clean"

\* A flush of the rows b stops after the first k, with or without a part of
\* the next one.
FlushPart(b, k) ==
    /\ rows' = rows \o SubSeq(b, 1, k)
    /\ tail' \in IF k = 0 THEN {tail, "torn"} ELSE {"clean", "torn"}

-----------------------------------------------------------------------------
(* create_with_clock: fs::write of the manifest (open with truncation, then
   write), then events.jsonl is opened with truncation.  blobs/ is kept. *)

CreateTruncateManifest ==
    /\ pc = "none" /\ sessions < MaxSessions
    /\ sessions' = sessions + 1 /\ calls' = 0
    /\ manifest' = TornManifest
    /\ pc' = "create_manifest"
    /\ UNCHANGED <<tail, rows, blobs, call, buf, next_seq, ended, acked, crashes, faults>>

CreateWriteManifest ==
    /\ pc = "create_manifest"
    /\ \/ Works /\ manifest' = NewManifest /\ pc' = "create_events"
       \/ Fails /\ manifest' = TornManifest /\ pc' = "none"
    /\ UNCHANGED <<tail, rows, blobs, call, buf, next_seq, ended, acked,
                   sessions, calls, crashes>>

\* Mutant: events.jsonl is opened for appending.
EventsOpenedAppend == tail' = "clean" /\ UNCHANGED rows

\* events.jsonl is opened with truncate(true).
EventsOpened == tail' = "clean" /\ rows' = <<>>

CreateEvents ==
    /\ pc = "create_events"
    /\ \/ /\ Works
          /\ EventsOpened
          /\ buf' = <<>> /\ next_seq' = 0 /\ ended' = NewManifest
          /\ acked' = <<>>
          /\ pc' = "idle"
       \/ /\ Fails
          /\ pc' = "none"
          /\ UNCHANGED <<tail, rows, buf, next_seq, ended, acked>>
    /\ UNCHANGED <<manifest, blobs, call, sessions, calls, crashes>>

-----------------------------------------------------------------------------
(* record(dir, frame): the blob, then the row. *)

\* Mutants: any result of the open counts as a dedup hit; none does, and an
\* existing blob is truncated and written again.
AlreadyExistsAlways(h) == h \in Hashes
AlreadyExistsNever(h)  == h \notin Hashes

\* The open of the blob path reports ErrorKind::AlreadyExists.
AlreadyExists(h) == h \in DOMAIN blobs

\* create_new on the blob path: a new empty file, a dedup hit, or an error.
RecordOpenBlob(d, r) ==
    /\ pc = "idle" /\ calls < MaxCalls
    /\ calls' = calls + 1
    /\ LET h == payload_hash(r)
       IN  \/ /\ Works
              /\ ~AlreadyExists(h)
              /\ blobs' = StoreBlob(blobs, h, Torn)
              /\ pc' = "blob_write"
              /\ arg' = [dir |-> d, raw |-> r] /\ fresh' = TRUE
           \/ /\ Works
              /\ AlreadyExists(h)
              /\ pc' = "append"
              /\ arg' = [dir |-> d, raw |-> r] /\ fresh' = FALSE
              /\ UNCHANGED blobs
           \/ Fails /\ Return /\ UNCHANGED blobs
    /\ UNCHANGED <<manifest, tail, rows, buf, next_seq, ended, acked, sessions, crashes>>

RecordWriteBlob ==
    /\ pc = "blob_write"
    /\ \/ /\ Works
          /\ blobs' = StoreBlob(blobs, payload_hash(arg.raw), arg.raw)
          /\ pc' = "append"
          /\ UNCHANGED call
       \/ Fails /\ Return /\ UNCHANGED blobs
    /\ UNCHANGED <<manifest, tail, rows, buf, next_seq, ended, acked,
                   sessions, calls, crashes>>

\* The row goes into the BufWriter, which is flushed; next_seq moves on only
\* if that worked, and the BufWriter keeps what it could not write.
RecordAppend ==
    /\ pc = "append"
    /\ LET row == EventRecord(next_seq, arg.dir, arg.raw)
           b   == Append(buf, row)
       IN  \/ /\ Works
              /\ FlushAll(b) /\ buf' = <<>>
              /\ next_seq' = next_seq + 1
              /\ acked' = Append(acked, [row |-> row, raw |-> arg.raw])
           \/ /\ Fails
              /\ \E k \in 0 .. Len(buf) :
                   FlushPart(b, k) /\ buf' = SubSeq(b, k + 1, Len(b))
              /\ UNCHANGED <<next_seq, acked>>
    /\ Return
    /\ UNCHANGED <<manifest, blobs, ended, sessions, calls, crashes>>

-----------------------------------------------------------------------------
(* finalize(self). *)

\* Mutant: finalize hashes the log without flushing it first.
FinalizeFlushForgotten ==
    /\ pc = "idle"
    /\ pc' = "fin_flushed" /\ buf' = <<>>
    /\ UNCHANGED <<disk, call, next_seq, ended, acked, bounds>>

\* The flush; when it fails, finalize returns Err and dropping the BufWriter
\* tries once more, with any result.
FinalizeFlush ==
    /\ pc = "idle"
    /\ \/ /\ Works
          /\ IF buf = <<>> THEN UNCHANGED <<rows, tail>> ELSE FlushAll(buf)
          /\ pc' = "fin_flushed"
       \/ /\ Fails
          /\ buf # <<>>
          /\ FlushAll(buf) \/ \E k \in 0 .. Len(buf) - 1 : FlushPart(buf, k)
          /\ pc' = "none"
    /\ buf' = <<>>
    /\ UNCHANGED <<manifest, blobs, call, next_seq, ended, acked,
                   sessions, calls, crashes>>

\* events.jsonl is read back and hashed; fs::write then truncates the
\* manifest (either step may fail).
FinalizeTruncateManifest ==
    /\ pc = "fin_flushed"
    /\ \/ /\ Works
          /\ ended' = SealedManifest(next_seq, rows)
          /\ manifest' = TornManifest
          /\ pc' = "fin_write"
       \/ Fails /\ pc' = "none" /\ UNCHANGED <<ended, manifest>>
    /\ UNCHANGED <<tail, rows, blobs, call, buf, next_seq, acked,
                   sessions, calls, crashes>>

FinalizeWriteManifest ==
    /\ pc = "fin_write"
    /\ \/ Works /\ manifest' = ended
       \/ Fails /\ manifest' = TornManifest
    /\ pc' = "none"
    /\ UNCHANGED <<tail, rows, blobs, call, buf, next_seq, ended, acked,
                   sessions, calls, crashes>>

\* The writer is dropped without finalize (the proxy could not spawn the
\* agent): the BufWriter's drop flushes what is left.
DropWriter ==
    /\ pc = "idle"
    /\ \/ /\ Works
          /\ IF buf = <<>> THEN UNCHANGED <<rows, tail>> ELSE FlushAll(buf)
       \/ Fails /\ \E k \in 0 .. Len(buf) - 1 : FlushPart(buf, k)
    /\ buf' = <<>> /\ pc' = "none"
    /\ UNCHANGED <<manifest, blobs, call, next_seq, ended, acked,
                   sessions, calls, crashes>>

-----------------------------------------------------------------------------
\* The process dies.  What was only in memory is lost; a flush under way, of
\* record(), finalize() or the drop, may have written any part of its rows.
Crash ==
    /\ pc # "none" /\ crashes < MaxCrashes
    /\ crashes' = crashes + 1
    /\ \/ UNCHANGED <<rows, tail>>
       \/ /\ pc = "append"
          /\ LET b == Append(buf, EventRecord(next_seq, arg.dir, arg.raw))
             IN  FlushAll(b) \/ \E k \in 0 .. Len(buf) : FlushPart(b, k)
       \/ pc = "idle" /\ \E k \in 0 .. Len(buf) - 1 : FlushPart(buf, k)
    /\ pc' = "none" /\ arg' = NoCall /\ fresh' = FALSE /\ buf' = <<>>
    /\ UNCHANGED <<manifest, blobs, next_seq, ended, acked, sessions, calls, faults>>

\* All recordings allowed by the bound have been made.
Finished == pc = "none" /\ sessions = MaxSessions /\ UNCHANGED vars

Next ==
    \/ CreateTruncateManifest \/ CreateWriteManifest \/ CreateEvents
    \/ \E d \in Directions, r \in Frames : RecordOpenBlob(d, r)
    \/ RecordWriteBlob \/ RecordAppend
    \/ FinalizeFlush \/ FinalizeTruncateManifest \/ FinalizeWriteManifest
    \/ DropWriter \/ Crash
    \/ Finished

Spec == Init /\ [][Next]_vars

-----------------------------------------------------------------------------
(* TraceReader *)

Sealed == manifest.state = "valid" /\ manifest.ended

\* TraceReader::open returns Ok: both files are there and every line parses.
\* Neither events_hash nor event_count is looked at.
Opens == manifest.state = "valid" /\ tail = "clean"

load_blob(row) == Loads(blobs, row)

\* The trace as callers see it.  A blob created by the call under way belongs
\* to it only once that call returns.
InFlight == pc \in {"blob_write", "append"} /\ fresh

Trace == INSTANCE TraceLog WITH
    log   <- rows,
    pend  <- buf,
    cas   <- IF InFlight
             THEN [h \in DOMAIN blobs \ {payload_hash(arg.raw)} |-> blobs[h]]
             ELSE blobs,
    next  <- next_seq,
    phase <- IF pc \in {"idle", "blob_write", "append", "fin_flushed", "fin_write"}
             THEN "open" ELSE IF Sealed THEN "sealed" ELSE "closed",
    count <- IF Sealed THEN manifest.event_count ELSE 0

-----------------------------------------------------------------------------
(* Properties *)

\* Every row, on disk or still buffered, has its blob file: record() creates
\* the blob before it builds the row, and no step between them (a crash, an
\* I/O error, a new session in the directory) can leave a row without one.
RowsHaveBlobs ==
    /\ \A i \in DOMAIN rows : rows[i].hash \in DOMAIN blobs
    /\ \A i \in DOMAIN buf : buf[i].hash \in DOMAIN blobs

\* A manifest that claims an end describes the event log beside it: its hash
\* is the hash of the complete log, never of the log of an earlier or later
\* session, and without I/O errors its count is the number of rows.
SealMatchesLog ==
    Sealed => /\ manifest.events_hash = rows
              /\ tail = "clean"
              /\ faults = 0 => manifest.event_count = Len(rows)

\* EventRecord.seq is the "monotonic position in the event log, starting at
\* 0" (record() takes it from next_seq).
SeqIsPosition == \A i \in DOMAIN rows : rows[i].seq = i - 1

\* Without I/O errors it is just that, across crashes and sessions.
NumberedUntilFault == faults = 0 => SeqIsPosition

\* Whatever fails, seq never decreases along the log.
SeqNeverDecreases ==
    \A i, j \in DOMAIN rows : i < j => rows[i].seq <= rows[j].seq

\* Each record() that returned Ok has its row in events.jsonl, in the order
\* of the calls, until the next session truncates the file: no crash, failed
\* call or retry loses or reorders it.
AckedDurable ==
    \E pos \in [DOMAIN acked -> DOMAIN rows] :
        /\ \A i \in DOMAIN acked : rows[pos[i]] = acked[i].row
        /\ \A i, j \in DOMAIN acked : i < j => pos[i] < pos[j]

\* While no system call has failed, a recording in progress can be opened by
\* a reader at any moment and shows exactly the acknowledged rows (record()
\* flushes before it returns).
LiveTraceReadable ==
    pc \in {"idle", "blob_write", "append", "fin_flushed"} /\ faults = 0
        => Opens /\ rows = [i \in DOMAIN acked |-> acked[i].row]

\* The payload of every acknowledged row loads and is byte for byte the
\* frame that was recorded.
AckedFramesExact ==
    \A i \in DOMAIN acked :
        load_blob(acked[i].row) /\ blobs[acked[i].row.hash] = acked[i].raw

\* It is as long as nothing has torn a blob it may use: no I/O error, and no
\* crash of an earlier recording into the same directory.
ExactUntilFailure ==
    faults = 0 /\ (crashes = 0 \/ sessions = 1) => AckedFramesExact

\* A recording that acknowledged at least one event can be opened once its
\* process is gone.
CrashedRecordingOpens == pc = "none" /\ acked # <<>> => Opens

\* The payload of every acknowledged row loads.
AckedFramesLoad == \A i \in DOMAIN acked : load_blob(acked[i].row)

\* A blob that was completely written keeps its bytes for ever: later
\* sessions and later frames with the same canonical form never rewrite it.
BlobsImmutable ==
    [][\A h \in DOMAIN blobs :
          h \in DOMAIN blobs' /\ (blobs[h] # Torn => blobs'[h] = blobs[h])]_vars

\* The writer, one system call at a time, implements the atomic TraceLog.
ImplementsTraceLog == Trace!Spec

=============================================================================
