------------------------------ MODULE TraceLog ------------------------------
(***************************************************************************)
(* What a TraceWriter (crates/acp-trace) promises its callers: create,     *)
(* record, finalize and dropping the writer each act on the trace in ONE   *)
(* step, which either takes effect or fails in one of the listed ways.     *)
(* TraceStore, which models the same functions one system call at a time   *)
(* with crashes and I/O errors in between, implements this specification;  *)
(* Proxy calls these actions under its mutex.                              *)
(*                                                                         *)
(*   log    the rows of events.jsonl                                       *)
(*   pend   rows still in the BufWriter because a flush failed             *)
(*   cas    blobs/: the bytes stored under each payload hash               *)
(*   next   TraceWriter.next_seq                                           *)
(*   phase  "closed": no writer, manifest without end data (or no trace);  *)
(*          "open": a writer exists; "sealed": finalize has completed      *)
(*   count  manifest.event_count of the sealed manifest                    *)
(***************************************************************************)
EXTENDS TraceFormat

VARIABLES log, pend, cas, next, phase, count

traceVars == <<log, pend, cas, next, phase, count>>

-----------------------------------------------------------------------------
Init ==
    /\ log = <<>> /\ pend = <<>> /\ next = 0
    /\ cas = [h \in {} |-> Torn]
    /\ phase = "closed" /\ count = 0

\* TraceWriter::create_with_clock over a directory that may hold an older
\* trace: first the manifest loses its end data ...
Reset ==
    /\ phase = "sealed"
    /\ phase' = "closed" /\ count' = 0
    /\ UNCHANGED <<log, pend, cas, next>>

\* ... then events.jsonl is truncated.  Blobs of the older trace stay.
Begin ==
    /\ phase = "closed"
    /\ phase' = "open"
    /\ log' = <<>> /\ pend' = <<>> /\ next' = 0
    /\ UNCHANGED <<cas, count>>

\* record() returns Ok: the payload is stored unless its hash is already
\* there, the row is appended behind any rows an earlier failure left.
Record(d, r) ==
    /\ phase = "open"
    /\ cas' = AddBlob(cas, payload_hash(r), r)
    /\ log' = log \o pend \o <<EventRecord(next, d, r)>>
    /\ pend' = <<>>
    /\ next' = next + 1
    /\ UNCHANGED <<phase, count>>

\* record() returns Err before the row is built: creating the blob failed,
\* or writing its bytes did and a torn file stays behind.
RecordBlobErr(r) ==
    /\ phase = "open"
    /\ cas' \in {cas, AddBlob(cas, payload_hash(r), Torn)}
    /\ UNCHANGED <<log, pend, next, phase, count>>

\* record() returns Err because writing or flushing the row failed.  The
\* first k waiting rows are out; the others, the new row last, stay in the
\* BufWriter; next_seq is not incremented.
RecordFlushErr(d, r) ==
    /\ phase = "open"
    /\ cas' = AddBlob(cas, payload_hash(r), r)
    /\ LET all == Append(pend, EventRecord(next, d, r))
       IN  \E k \in 0 .. Len(pend) :
             /\ log' = log \o SubSeq(all, 1, k)
             /\ pend' = SubSeq(all, k + 1, Len(all))
    /\ UNCHANGED <<next, phase, count>>

\* A flush outside record(): the first one of finalize().
Flush ==
    /\ phase = "open"
    /\ log' = log \o pend
    /\ pend' = <<>>
    /\ UNCHANGED <<cas, next, phase, count>>

\* finalize() returns Ok.
Seal ==
    /\ phase = "open"
    /\ log' = log \o pend
    /\ pend' = <<>>
    /\ phase' = "sealed"
    /\ count' = next
    /\ UNCHANGED <<cas, next>>

\* The writer goes away without sealing: finalize() returned Err, it was
\* dropped, or the process died.  A prefix of what was buffered may be out,
\* and a record() under way may have stored its payload, wholly or in part,
\* and its row.
Abandon ==
    /\ phase = "open"
    /\ phase' = "closed"
    /\ pend' = <<>>
    /\ \/ /\ cas' = cas
          /\ \E k \in 0 .. Len(pend) : log' = log \o SubSeq(pend, 1, k)
       \/ \E d \in Directions, r \in Frames :
            LET h   == payload_hash(r)
                all == Append(pend, EventRecord(next, d, r))
            IN  \/ /\ cas' = AddBlob(cas, h, Torn)
                   /\ log' = log
                \/ /\ cas' = AddBlob(cas, h, r)
                   /\ \E k \in 0 .. Len(all) : log' = log \o SubSeq(all, 1, k)
    /\ UNCHANGED <<next, count>>

Next ==
    \/ Reset \/ Begin \/ Flush \/ Seal \/ Abandon
    \/ \E d \in Directions, r \in Frames :
         Record(d, r) \/ RecordBlobErr(r) \/ RecordFlushErr(d, r)

Spec == Init /\ [][Next]_traceVars

=============================================================================
