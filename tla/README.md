# acp-core in TLA+

acp-core records the JSON-RPC traffic between an ACP client and an ACP agent
into a trace directory, and plays such traces back. This directory holds TLA+
models of it, TLC configurations that check them on small instances, and
TLAPS proofs, for every value of the constants, of every safety property those
configurations check. Paths below are relative to the repository.

## 1. Inventory

| component | state | operations | talks to |
|---|---|---|---|
| **wire** (`crates/acp-wire/src/lib.rs`) | `FrameReader`'s buffer | `Frame::parse`, `read_frame`, `write_frame`, `write_line`, `payload_hash` | everything reads and writes lines through it |
| **canonical JSON** (`crates/acp-wire/src/canonical.rs`) | none | `canonicalize` | `payload_hash` |
| **trace writer** (`crates/acp-trace/src/lib.rs`) | manifest, `events.jsonl` behind a `BufWriter`, `blobs/`, `next_seq` | `create_with_clock`, `record`, `finalize`, drop | the file system; called by the proxy under a mutex |
| **trace reader** (same file) | manifest and rows, read once | `open`, `load_blob` | the directory; called by replay, diff and the CLI |
| **clock, recording environment** (same file) | a fixed time, a snapshot | timestamps, environment capture | the manifest and `t_wall_ns` |
| **proxy** (`crates/acp-proxy/src/lib.rs`) | three threads, `Arc<Mutex<Option<TraceWriter>>>`, child process | `run` | client and agent through pipes, the writer through the slot |
| **echo agent** (`crates/acp-cli/src/bin/echo_agent.rs`) | two counters | one turn of its loop per frame | behind the proxy's pipes |
| **replay engine** (`crates/acp-replay/src/lib.rs`) | `cursor`, `id_map`, counters | `replay_offline`, `replay_interactive_with` | a trace reader and a live client |
| **divergence analysis** (`crates/acp-diverge/src/lib.rs`) | none | `diff_steps`, `diff_two`, renderers | two trace readers |
| **command line** (`crates/acp-cli/src/main.rs`) | none | `record`, `replay`, `emit`, `inspect`, `diff` | the libraries |

What is hard in it, and what would make each part correct:

* **Proxy.** Two forwarding threads share one writer, forward before they
  record, and stop silently on an error; `run` waits for the child, then for
  some threads, seals the trace, then waits for the last thread. Correct means:
  nothing is lost, changed or reordered on the wire; the trace is what crossed
  the wire; the trace is sealed and `run` returns.
* **Trace writer.** Three kinds of files are written by separate system calls,
  any of which may fail or be the last one the process makes; a row stays in
  the `BufWriter` when its flush fails; blobs are created once and trusted
  ever after; a directory may be used again. Correct means: an acknowledged
  frame is in the log and loads, rows are numbered by position, a sealed
  manifest describes the log beside it, a crashed recording can be opened.
* **Replay.** An arbitrary client drives a cursor through an arbitrary
  recording; ids are compared away and mapped back. Correct means: nothing is
  emitted early, strict replay is byte for byte, remapping touches ids only
  and gives each answer the id the client used.
* **A session as a whole.** What the interleaving of the recording's threads
  leaves in the trace decides how a replay to the same client goes. Correct
  means: the client gets the lines it got before, and gets all of them.
* **Framing.** Bytes are cut into lines that may end in LF, CRLF or nothing.
  Correct means: no frame is lost, split, merged or made up, also when a peer
  dies within a line.
* **Canonical JSON, divergence.** Pure algorithms; correct means: equal values
  and only those have equal canonical forms; the alignment contains both
  traces, and no other has more in common.
* **Command line.** Exit codes are all a script sees of a run; `inspect` cuts
  long tables. Correct means: 0 only for what succeeded or is equal, and every
  row accounted for.

`PROJECT.json` lists every component with its status, every hazard at its
line with the properties aimed at it, and maps each definition to the code.

## 2. Modules

```
  Wire ─┬─ EchoAgent ─────────────┐
        └─ TraceFormat ─┬─────────┴── Proxy ──────┬─ MCProxy
              ▲         ├─ TraceLog ◁─(INSTANCE)──┤
              │         │     △                   │
              │         │     │ implements        │
              │         ├─ TraceStore ── MCTraceStore
              │         ├─ Replay ─┬─ MCReplay    │
              │         │          └◁─(INSTANCE)─ Session ── MCSession
              │         ├─ CommandLine ───────────┘
              │         └─ Diverge ───┐
              │  FrameReader ─────────┼── MCAlgorithms
              │  Canonical ───────────┘
     TraceFormatProofs ─┬─ TraceStoreProofs               (of TraceStore)
                        ├─ ProxyProofs ── SessionProofs   (of Proxy, Session)
                        ├─ ReplayProofs                   (of Replay)
                        ├─ DivergeProofs                  (of Diverge)
                        ├─ FrameReaderProofs              (of FrameReader)
                        └─ CanonicalProofs                (of Canonical)
     Projection (used by Proxy, Replay, Session, FrameReader)
```

* **Wire** – a line as a record of what the tools tell apart (shape, method,
  id, outcome, body, layout, line ending); `from_value`, `kind` (the
  classification table of `Frame::parse`), `raw` (what `read_frame` keeps),
  `payload_hash`. `layout` is what canonicalisation forgets; the hash is
  represented by the value it is a hash of, so collisions are excluded. All
  parse errors are one case because every caller handles them alike.
* **TraceFormat** – rows, blob stores, the create-only CAS write, `load_blob`.
* **Projection** – `Only(s, T)`: the elements of `s` that are in `T`, in order, as
  the loops over a trace's rows pick those of one direction. It is `SelectSeq`
  written as a recursive function, which the prover can reason about.
* **TraceLog** – the abstract writer: create, record, finalize and drop each
  take effect in one step or fail in a listed way.
* **TraceStore** – the same functions one file-system call per action.
  `fs::write` is two actions (truncate, write), `create_new` and `write_all` of
  a blob are two, the row's flush may stop after any row or inside one.
  Between any two calls the process may die (`Crash`). `Trace!Spec` is the
  refinement: a blob belongs to the abstract store once its call returns, the
  writer exists from the truncation of `events.jsonl` to the end of `finalize`.
* **EchoAgent** – what acp-echo-agent answers to one frame.
* **Proxy** – `run()` statement by statement (`Main*`), its forwarding threads
  (one set of actions `Thread*`, indexed by direction, because the two
  closures differ only in their pipes), the stderr thread (which ends with the agent
  or when the parent's stderr refuses a chunk), the agent process
  (`Agent*`), the client (`Client*`). Pipes are bounded sequences. The trace
  is the state of TraceLog and the writer slot is `Some` exactly while `phase`
  is `"open"`; a critical section is one action, which is what the mutex gives.
* **Replay** – `replay_interactive_with`: `EmitRow`/`EmitDone` are the loop of
  `emit_a2c_block`, `ReadFrame` the match with its fast path, remapping arm
  and divergences. `Init` chooses any recording over `Tape` in which the
  client numbers its requests legally.

* **Session** – Proxy and Replay composed. One client runs a script: it is
  recorded (`Recording`: all actions of Proxy, the agent's sudden death
  `AgentDie` among them, with `RecordingClient` in place of the arbitrary client;
  with `ClientMayQuit` the client may also go away at any point of its script), then `StartReplay`, then it runs the same script against
  the engine (`Replaying`: the actions of Replay through `R == INSTANCE Replay`, with
  the proxy's log and blobs as the recording). `mode` says whether the client waits
  for its answers, `remap` whether it numbers its requests anew (`Renumber`; its
  answers to requests of the agent keep the ids they answer). A
  line of the replay is seen as soon as it is written, and a line of the client
  handed over when the engine reads: neither side can tell the difference, because
  what a waiting client needs to see only grows.
* **FrameReader** – `read_frame` and `write_frame` on bytes: a reader over any
  stream, and the pipe its frames are forwarded to. Its properties compare it with
  `FramesOf`, which goes through a stream byte by byte and looks for no line ends.
  `ParsesBytes` reads a line as the JSON parser does: an object with any white space
  (LF, CR, space, tab) around and in it.
* **Canonical** – `canonicalize` over values whose text is a sequence of Unicode
  scalars. No state but the two values that are compared. `Nested[d]` is the set of
  values at most `d` containers deep; `write_value`, which calls itself in the code,
  takes the texts of the values inside as a function, and `Written[d]` is that
  function for depth `d`.
* **Diverge** – `lcs_diff`'s table as a recursive function, one action per turn of
  the backtracking loops, `stats` for `diff_steps`, `cmd_diff` for the exit code. An
  op holds positions where the code copies fields of the step at that position.
* **CommandLine** – exit codes and `cmd_inspect`; its limits of 20 and 10 rows are
  `2 * Ends` and `Ends`. Session applies it to the trace as it is being recorded.
* **MCAlgorithms** – Diverge, FrameReader and Canonical side by side: a behaviour runs
  one of them.

`AlreadyExistsNever`, `MainWaitThenSeal` and the other definitions commented as
"Mutant" are deliberate bugs: each property of a passing run has one that
violates it, listed in `PROJECT.json`, and they are used nowhere else.

## 3. Runs

Run one with `tlc -config <run>.cfg <module>`.

| run | module | bounds | shows |
|---|---|---|---|
| StoreFaults | MCTraceStore | 2 sessions, 3 records each, 2 crashes, 2 failing calls | `TypeOK`, `RowsHaveBlobs`, `SealMatchesLog`, `SeqNeverDecreases`, `AckedDurable`, `BlobsImmutable` hold whatever fails, `LiveTraceReadable` and `NumberedUntilFault` until a call fails, `ExactUntilFailure` until something tears a blob; `ImplementsTraceLog` |
| ProxySafety | MCProxy | 2 client lines out of 5, 1 line or chunk of the agent's own, pipes of one line, sudden death | `ForwardedIntact`, `TraceMirrorsWire`, `SealedHasAgentFrames`, `OfflineReplayIsPrefix`, `SeqIsPosition` |
| ProxyLiveness | MCProxy | 2 client lines out of 2, 2 lines or chunks of the agent's own, 1 failing trace or spawn call | `ReturnsOnceClientCloses`, `SealsOnceAgentGone`; `ForwardedIntact` and `TraceMirrorsWire` in spite of the failing call |
| Session | MCSession | 5 scripts of 2 or 3 frames, waiting or not, renumbering or not, an agent killed and a client gone at any point, pipes of one line, `Ends` = 2 | `ReplayGivesRecordedAnswers`, `CompleteAfterCleanExit`, `InspectAccountsForAll`, `RecordingReturns`, `CompleteTracesReplay` |
| Algorithms | MCAlgorithms | two traces of up to 4 of 3 steps; streams of up to 6 of 6 bytes; all pairs of about 180 JSON values of depth 2 | `AlignmentComplete`, `MostCommon`, `ExitTellsDifference`; `ReadsEveryLine`, `RelayReadsBack`; `CanonicalIdentity`, `KeysInRfcOrder`, `CanonicalOneLine` |
| ReplaySession | MCReplay | recordings of up to 4 of 8 frames, 1 lost blob, 9 client lines | `RecordedOrder`, `StrictReplayExact`, `RemapChangesIdsOnly`, `AnswersCarryClientIds` |

Six more runs end in a violation, each of one
statement that a doc or comment of the repository makes and the code does not
keep. `PROJECT.json` quotes them under "findings":

| run | what happens |
|---|---|
| StoreCrashOpens | a death inside `finalize` leaves an empty manifest: the recording does not open |
| StoreTornBlob | a torn blob is a dedup hit later: `record` returns Ok for a frame that never loads |
| StoreLayouts | of two frames with one canonical form only the first one's bytes survive |
| SessionRaced | a forwarded and answered shutdown request is missing from the sealed trace, and the same client's replay fails with TraceExhausted |
| ProxyHang | `run` does not return after the agent's exit while the client keeps stdin open |
| ReplayReusedIds | after a legal reuse of an id, an answer carries the id of an older request |

What the models show beyond the runs:

* The two directions are recorded in no causal order, because a frame is forwarded
  before it is recorded although `crates/acp-proxy/README.md` lists the writing
  first. `CompleteTracesReplay` says which orders matter: if an answer is behind
  the client's next request, a replayed client that waits for it waits for ever;
  with remap_ids also if it is before its own request, as it is then sent with
  the recorded id.
* When `record()` fails to flush, the row stays in the `BufWriter` and `next_seq`
  does not move: the next successful call writes two rows of one `seq`.
  `NumberedUntilFault` holds until then.
* An agent killed by a signal is reported as exit code 0 (`MainJoinC2a`), and
  `cmd_record`'s clamp turns a negative code into 0.
* `first_divergence` is not symmetric: for steps x,x against x,y it is 1, for the
  traces swapped 0, because ties go to the first trace;
  the head of `crates/acp-diverge/tests/lcs_stress.rs` says that `diff_steps` must
  be symmetric, and its test of it has no ties. The counts are symmetric (`MostCommon`). A trace that
  extends another one by repeating its last step is reported as
  diverging before that step's first occurrence; `ExitTellsDifference` says what
  can be relied on: `first_divergence` is never behind the first difference.
* A trace may be sealed without the client's last frames although the proxy has
  forwarded them. A shutdown request does it (SessionRaced), and so does an agent
  that is killed, or that exits with 1 because it cannot write: `run` takes the
  writer while c2a is between `write_frame` and `record`. `CompleteAfterCleanExit`
  says when that cannot happen; the exit code of `acp record` does not tell, as a
  killed agent counts as 0. A frame the client sends behind its shutdown may not even be
  forwarded: the replay of such a session ends in TraceExhausted.
* A client that waits for the answer of an agent that has died does not close its
  end, and `run` waits for c2a, which waits for the client: the case
  `RecordingReturns` leaves out (`Deserted`), and ProxyHang once more.
* A frame whose last bytes are spaces or tabs and whose writer dies before them is
  read as a frame without them: same JSON value, same hash, other bytes.
  `RelayReadsBack` says that nothing more than white space can be missing.
* A frame whose raw bytes end in CR, from a line that ended in two of them or in
  one without a newline, loses that CR on its next reading. It is white space:
  the hash does not change (`RelayReadsBack`).
* The comment at the head of `canonical.rs` announces surrogate escapes beyond
  the BMP; the code passes such characters through, as RFC 8785 asks.

### Why the bounds are enough

Each run lets every interesting case happen at least twice where two are
needed for interference. *Store*: two sessions make reuse of the log, the
manifest and the blobs meet; three records with two failures give the
`BufWriter` two rows to keep; frames are a request and its answer, each of which
can be new or a dedup hit. *Proxy*: a pipe of one line is full after one, so
all ways of blocking occur; two prompts make four lines from the agent; one
malformed line ends a thread; two stderr chunks are one more than the pipe
holds. *Replay*: four rows are enough for a request, its answer, and one
frame between or around them in either direction; the client has the recorded
ids, another one (`"7"`) and one that `Id::from_value` rejects. *Session*: two
requests are enough for an answer to be overtaken by the next request and by
its own; the scripts add a shutdown at the end and one with a request behind it, a
notification between requests and two requests that differ only in their ids; the
agent may be killed and the client go away in every state of the recording. The traces have up to seven rows, three more
than `inspect` shows uncut with `Ends` = 2. *Algorithms*: four steps hold a common
subsequence of two with a tie on either side of it, and repeated steps; six bytes
hold two frames with one line ending of each kind, or a blank line between
them; the bytes are the braces, a letter, LF, CR and a space, and a tab is
treated as a space is; the strings of two characters contain each pair of a quote, a backslash, a
comma, control characters with and without a short escape, and
characters on both sides of the surrogates.

### Fairness

`FairSpec` of Proxy is weak fairness of each thread of the proxy, of the agent's
loop and of the client's reading. The first is the operating system's
scheduler; the others say that the peers do not stop reading for ever, without
which no proxy could return. Nothing is assumed of the client's writing,
closing or leaving: the two liveness properties have the client's close, or the agent's end, as their
premise. The agent of that run ends at the end of its input, or with 1 when its
stdout is gone; to the proxy a killed agent looks the same, its pipes close. The
weak fairness of a thread is that of a disjunction of actions of
which one at most is enabled at a time.

`FairSessionSpec` adds that the client of a session works through its script and
closes its end, as the clients of the repository's tests do, and that the replay is
started and runs; an engine and a client that wait for each other stay `Stuck`
under it. Nothing makes the agent of a session die or its client go away, and nothing
prevents them. SessionRaced has neither: there the shutdown alone makes the difference.

## 4. Proofs

Every invariant and every action property of a passing run, and the refinement, is
a theorem. `TraceStoreProofs` proves all ten
properties of the run StoreFaults, for all sets of frames and all numbers of
sessions, calls, crashes and faults (`tlapm TraceStoreProofs.tla`). The
assumptions are those of the constants: ids and methods differ from `None`,
the recorded frames are parsed raw lines, the bounds are naturals.

| theorem | property | argument |
|---|---|---|
| `TypeCorrect` | `TypeOK` | inductive as it stands; one step per action |
| `RowsAlwaysHaveBlobs` | `RowsHaveBlobs` | `BlobInv` adds that the blob of the call under way exists when its row is appended: RowsHaveBlobs alone says nothing about the row `record` is about to build |
| `SealAlwaysMatchesLog` | `SealMatchesLog` | `SealInv` adds that a sealed manifest exists only without a writer, that the manifest under construction describes the log as it stands, that a torn row is always the head of what the `BufWriter` still holds (so the flush in `finalize` repairs it), and that without I/O errors `next_seq` counts the rows |
| `BlobsAlwaysImmutable` | `BlobsImmutable` (an action property) | `WritesFreshBlob`: `write_all` only ever goes to a file that is not complete |
| `AckedAlwaysDurable` | `AckedDurable` | inductive as it stands: the log only grows at its end (`EmbeddedGrows`) and the acknowledged row is put last (`EmbeddedExtends`) |
| `NumberedAlwaysUntilFault` | `NumberedUntilFault` | with `SealInv`: as long as no call failed the `BufWriter` is empty between calls and `next_seq` is the number of rows, so a step leaves the log alone, empties it or adds the row with the next number (`FaultlessStep`) |
| `SeqAlwaysNeverDecreases` | `SeqNeverDecreases` | `OrderInv`: the rows on disk and those in the `BufWriter` form one sorted sequence, and while there is a writer none exceeds `next_seq`; a failed flush that is repeated later repeats a number but never goes below it |
| `LiveTraceAlwaysReadable` | `LiveTraceReadable` | `LiveInv` adds that the manifest is valid when `events.jsonl` is created; the `BufWriter` is empty as above |
| `ExactAlwaysUntilFailure` | `ExactUntilFailure` | under the further assumption `OneLayout` (no two recorded frames are layouts of one JSON value; the finding of StoreLayouts is what happens without it). `ExactInv`: without failures every blob but the one being written holds a frame with its hash, and a process that dies in the first session leaves the acknowledged blobs as they are (`ImmutableStep`) |
| `StoreImplementsLog` | `ImplementsTraceLog` (the refinement) | step by step: each action of TraceLog is unfolded once over the mapped state (`MappedRecord`, `MappedAbandon`, ...); `CallInv` says that the blob of the call under way is on disk, empty until written, so that the call's effect on the mapped store is one `AddBlob` or nothing |

`DivergeProofs` proves all properties of `acp diff` that the run Algorithms checks,
for all traces of every length.

| theorem | property | argument |
|---|---|---|
| `AlignmentAlwaysComplete` | `AlignmentComplete` | `DiffInv` says of every state that the steps behind the positions `ia` and `jb` are aligned, and that all positions in `ops` are behind them, so that an op put in front keeps both orders. This needs nothing of the table |
| `DiffTypesCorrect` | `DiffTypeOK` | the first conjunct of `DiffInv` |
| `DiffExitTellsDifference` | `ExitTellsDifference` | `ReadInStep`: up to the first op that shows one step only, op k shows step k of both traces. `Diagonal`: where backtracking has met common ops only, what is left is as long in both, so that traces with the same steps yield no other op |
| `AlignmentMostCommon` | `MostCommon` | the table first: it is total and each entry follows from its neighbours (`TableExists`, `TableCell`, by induction over the number of filled rows and columns); no order-preserving pairing of equal steps of two prefixes is larger than their entry (`TableBounds`), and one has that size (`TableReached`). Then the backtracking: `FollowsTable` says that the common ops so far and the entry at `ia`, `jb` add up to the last entry in every state, and the entry at 0, 0 is 0 |

`ProxyProofs` proves the five safety properties of the run ProxySafety and type
correctness, for every set of client lines, every pipe capacity, every number of
steps and, where nothing else is said, of failing calls.

| theorem | property | argument |
|---|---|---|
| `ProxyTypeOK` | `TypeOK` | `Types`: TypeOK with the records of the agent, the pipes as sequences of lines no longer than their capacity, `Held` (the rows on disk and in the `BufWriter`) as rows; the agent's counters are bounded by what it has read, so that what it writes are lines (`EchoAssumption`) |
| `ProxyForwardsIntact` | `ForwardedIntact` | `ForwardInv` says in each state of a thread what it has written: exactly the frames of the lines it took, all but the one in its hands, or, once it has stopped, those of some prefix |
| `ProxyTraceMirrorsWire` | `TraceMirrorsWire` | `MirrorInv` is about `Held`, as a row that was not flushed may reach the log with the next one: the hashes held for a direction are those of its forwarded frames, without the last one while a thread is about to record it; the log is a prefix of what is held |
| `ProxySealsAgentFrames` | `SealedHasAgentFrames` | from `MirrorInv` and that `run` has joined the a2c thread before it takes the writer |
| `ProxyReplaysOffline` | `faults = 0 => OfflineReplayIsPrefix` | under `OneLayout`; `BlobsMatch`: until a call fails the blob of each row is a frame with the row's hash, and one layout makes it the frame that was forwarded |
| `ProxyNumbersByPosition` | `faults = 0 => SeqIsPosition` | as long as no call has failed; `NumberInv` adds that nothing waits in the `BufWriter` and that `next_seq` is the log's length while the writer is in its slot |
| `ProxyKeepsTraceLog` | `Spec => T!Spec` | each step does to the trace what TraceLog allows: the two places where a writer is dropped unsealed (a failed spawn, a failed `finalize`) are `Abandon`, as `WriterOwned` says that the writer is there and, before the spawn, holds nothing. With `StoreImplementsLog` both sides of the abstract writer are proved: what `run` relies on is what the system calls implement |

Two assumptions on Proxy's constants were made for these proofs and are checked by
TLC: whatever parses can be recorded (`FramesComplete`), and the bodies the echo
agent writes within the bounds are bodies (`EchoAssumption`).
`OneLayout` is what the finding of StoreLayouts is about; with a failing call the
row's blob may be torn (StoreTornBlob), so that the conclusion of `ProxyReplaysOffline`
needs `faults = 0`.

`ReplayProofs` proves all properties of the run ReplaySession, for every
recording, every client and every set of lost blobs.

| theorem | property | argument |
|---|---|---|
| `ReplayTypeOK` | `TypeOK` | `RecordingOK` and `EngineOK`: rows are what `record` makes of the recorded frames, each stored blob is a recorded frame with the hash it is stored under (`BlobsAreRecorded`), so what is emitted is a frame, renumbered or not |
| `ReplayKeepsOrder` | `RecordedOrder` | `Ordered`: the numbers of lines emitted and frames accepted are those of the rows before the cursor. Every step emits the next row, takes a frame for the next row of the client, or leaves both alone (`StepKinds`); before the engine reads there is no row of the agent left between the cursor and the client's next one |
| `ReplayChangesIdsOnly` | `RemapChangesIdsOnly` | `Alike`, one conjunct for each side |
| `ReplayIsExact` | `StrictReplayExact` | without `remap_ids` the id map stays empty, so a line emitted for a row is its blob, which is what `replay_offline` writes for it; a blob that does not load stops both at the same row |
| `ReplayAnswersClientIds` | `AnswersCarryClientIds` | if no recorded request reuses an id (`~ReuseIds`; ReplayReusedIds shows what happens otherwise) and the client answers the agent's requests under their own ids (`AnswersKeepIds`, which JSON-RPC asks of it and the client of ReplaySession does). `IdsMapped`: the map takes the id of each request of the client that was passed to the id the live client used for it |

`SessionProofs` proves the three safety properties of the run Session, for every set of
scripts, every agent output, interleaving, pipe capacity and renumbering.

| theorem | property | argument |
|---|---|---|
| `SessionRecords` | `SessionSpec => Spec` | a session is a run of Proxy, step by step (`RecordingIsNext`): all theorems of `ProxyProofs` and their invariants hold of its recording |
| `SessionCompleteAfterCleanExit` | `faults = 0 => CompleteAfterCleanExit` | whatever the agent writes besides its answers, and although it may be killed. `CompleteInv`, for scripts without a shutdown: no line on its way to the agent makes it leave (`StaysOn`), so it can exit with 0 at the end of its stdin only, which c2a closes behind its last `record` (`EndsInOrder`); then everything the client has written is forwarded (`AllForwardedAtEof`, with `ForwardInv` and `ClientLineParses`) and recorded (`MirrorInv`), and the agent's frames are recorded as `run` joins the a2c thread first. An agent that ends in another way falsifies the premise and has nothing to show |
| `SessionReplaysAnswers` | `faults = 0 => ReplayGivesRecordedAnswers` | under `OneLayout`. `RecordedInv` and the invariants of Proxy say what the replay finds (`Taped`): the client's rows are its script as far as they go, the agent's rows load what the client got, rows are numbered by position. `ReplayInv` says of the engine that what is behind the cursor was accepted or emitted as expected, and that the id map has the new id of each request passed (`IdsKnown`). So the next frame of the script always matches the next client row, at once or with its id mapped (`LiveLine`, `SendOutcomes`), and the engine ends at the end of the trace only (`TraceAtEnd`) |
| `SessionInspects` | `faults = 0 => InspectAccountsForAll` | from `AlwaysNumbered` (the rows are numbered by position and a sealed manifest counts them), for every `Ends`: a cut table is two disjoint ranges of the log (`EndsShown`), and the two directions partition its rows (`DirsAddUp`) |

Without failing calls `SessionReplaysAnswers` needs nothing of the interleaving: also a trace that
lacks the client's last frames (SessionRaced) replays without a divergence, up
to its end. Whether the replay gets there is liveness (`CompleteTracesReplay`) and stays
with TLC. `OneLayout` is needed for "byte by byte" only; without it the stored
bytes may be those of another layout (StoreLayouts).

`FrameReaderProofs` proves the three properties of framing, for streams of every
length over every set of bytes.

| theorem | property | argument |
|---|---|---|
| `ReaderTypeCorrect` | `ReaderTypeOK` | inductive as it stands, once the line that is cut from the input and what `StripEol` leaves of it are byte strings within it |
| `ReaderReadsEveryLine` | `ReadsEveryLine` | at the position the reader has reached, the reference is at the start of a text and has found the same frames (`ReadInv`); bytes that are no newline only lengthen the text, the newline behind them ends it (`ScanText`), and the reader's cut and strip take the same text (`ScanLine`) |
| `RelayIsReadBack` | `RelayReadsBack` | `RelayInv`: the reference, on the pipe, finds the frames without their final CR, and on any part of the pipe a prefix of them up to white space at the end of the last. A part of a frame that is itself a frame lacks only white space (`NoPartParses`), and trimming makes that equal (`TrimmedPart`), so a cut makes up no other JSON value (`SinkGrows`) |

`CanonicalProofs` proves the three properties of canonical JSON, for every set of
values, nested to any depth, with texts of any length.

| theorem | property | argument |
|---|---|---|
| `KeysAreInRfcOrder` | `KeysInRfcOrder` | two different texts differ at a first scalar or one is the beginning of the other (`HowTheyDiffer`); the code units in front of that scalar are the same, so the loop of `utf16_cmp` decides at its first differing unit, which is ordered as `Rank` orders the scalars, within the BMP, beyond it and across |
| `CanonicalTextIsOneLine` | `CanonicalOneLine` | `WrittenType`, by induction over the depth: each text is made of visible characters, as an escape never leaves a control character (`EscapeCases`) |
| `CanonicalIsIdentity` | `CanonicalIdentity` | `Faithful`, by induction over the depth, says three things of the values of a depth. *Opens*: no text starts with what may follow a value. *Tells*: of a text with a comma, a bracket or nothing behind it, the value's meaning and what is behind it can be told; the first character tells the kind (`StartsTell`), a string ends at its first quote that no backslash stands before (`StringReads`), a list is read element by element (`ReadBack`, `ListReads`). *Alike*: values that mean the same have the same text; the members of an object have distinct keys, the order of keys is total (`LessOrder`), so the sorted entries are determined by the set of members (`SortedSame`) |

For the last theorem the values of a depth have to exist as a set and the functions of the
depth to be total: `NestedUnfold`, `WrittenUnfold` and `MeantUnfold` derive from the
definitions, by induction over the number of levels, what each level is made of.
`sort_entries` is a `CHOOSE`; `SortExists` shows by induction over the number of
members that there is something to choose.

All of these but `TraceStoreProofs` rest on the second part of
`TraceFormatProofs`: induction over numbers and sequences, and what `Only` keeps of a sequence extended by one
element, of a concatenation and of a prefix. The library's induction theorems take an operator as a parameter, so
`SetInduction` and `SeqSetInduction` say the same of sets and follow from the
well-foundedness of `<`.

Only model-checked: liveness (`ReturnsOnceClientCloses`, `SealsOnceAgentGone`,
`RecordingReturns`, `CompleteTracesReplay`), as the prover has no support for fairness and
ENABLED. The theorems with a premise (`faults = 0`, `OneLayout`) state it where
the property without it does not hold: with a failing call or two layouts the findings of
StoreTornBlob and StoreLayouts apply.

## 5. What is not modelled, and why

* Clock, environment capture, RFC 3339, `bytes`, `t_wall_ns`, wording, the two
  renderers of a diff, `inspect`'s layout: data that no control depends on.
* Parsing of the command line, and the checks of `record`'s arguments, which
  return before anything is touched.
* How numbers are written (`serde_json`): a number is opaque text, so that 1 and
  1.0, whose texts differ, are different values to Canonical, as they are to the
  code.
* `events_hash` and `event_count` on the reading side: `open` does not look at them.
* A lost write-back cache: the code flushes and never fsyncs; the disk here
  keeps every completed system call, so only process deaths are covered, not
  power failures.
* Rows longer than the `BufWriter`'s 8 KiB, which go to the file without
  being buffered, and the separate write of the newline: a row is one unit
  that may be torn anywhere.
* Errors in opening `manifest.json` and in creating directories: `create`
  returns before it has changed anything the trace consists of.
* The agent's own child processes, which could keep its pipes open.
* Errors writing to the replaying client.
* Stack depth of `read_frame` over blank lines.

## 6. Plan

1. *Done*: Wire, TraceFormat, TraceLog, TraceStore, EchoAgent,
   Proxy, Replay, FrameReader, Canonical, Diverge, CommandLine, Session.
2. *Done*: the proofs about TraceStore, Diverge, Proxy, Replay, Session, FrameReader
   and Canonical.
3. Open: a reader that races a writer (`TraceReader::open` during `finalize`);
   a replay whose client can no longer be written to.
