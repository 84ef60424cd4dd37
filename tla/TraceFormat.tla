---------------------------- MODULE TraceFormat ----------------------------
(***************************************************************************)
(* The trace format (crates/acp-trace): rows of events.jsonl, the          *)
(* content-addressed blob store, and what loading a row's payload takes.   *)
(* Constant level; shared by TraceLog, TraceStore, Proxy and Replay.       *)
(***************************************************************************)
EXTENDS Wire

CONSTANT Frames   \* the raw frames that are recorded

ASSUME FramesAssumption == Frames \subseteq Raws /\ Frames # {}

Directions == {"c2a", "a2c"}

\* The contents of a blob file that was created but not completely written:
\* bytes that Frame::parse rejects.
Torn == [shape |-> "garbage"]

Rows ==
    [seq : Nat, dir : Directions, kind : {"request", "notification", "response"},
     method : Methods \cup {None}, id : Ids \cup {None}, hash : Hashes]
RowsOf(d) == {row \in Rows : row.dir = d}

\* Mutant: sequence numbers start at 1.
EventRecordFromOne(seq, d, r) ==
    [seq |-> seq + 1, dir |-> d, kind |-> kind(r), method |-> r.method,
     id |-> from_value(r.id), hash |-> payload_hash(r)]

\* The EventRecord that record() builds.
EventRecord(seq, d, r) ==
    [seq |-> seq, dir |-> d, kind |-> kind(r), method |-> r.method,
     id |-> from_value(r.id), hash |-> payload_hash(r)]

\* Contents of blobs/: hashes to complete or torn files.
IsBlobStore(store) ==
    DOMAIN store \subseteq Hashes /\ store \in [DOMAIN store -> Raws \cup {Torn}]

\* A blob store with the file h written, over whatever it held.
StoreBlob(store, h, bytes) ==
    [x \in DOMAIN store \cup {h} |-> IF x = h THEN bytes ELSE store[x]]

\* CAS write of record(): create-new only, "already exists" is a dedup hit.
AddBlob(store, h, bytes) ==
    IF h \in DOMAIN store THEN store ELSE StoreBlob(store, h, bytes)

\* load_blob: the file exists, parses, and hashes to the row's hash.
Loads(store, row) ==
    /\ row.hash \in DOMAIN store
    /\ Parses(store[row.hash])
    /\ payload_hash(store[row.hash]) = row.hash

=============================================================================
