------------------------------- MODULE Proxy -------------------------------
(***************************************************************************)
(* The recording proxy (crates/acp-proxy): run() with its two forwarding   *)
(* threads and its stderr thread, between a client and an agent, writing   *)
(* the trace through a mutex-protected TraceWriter slot.                   *)
(*                                                                         *)
(* The two forwarding threads are the same code on different pipes, so     *)
(* they are indexed by the direction they record:                          *)
(*   sent[d]    every line written into the thread's source pipe           *)
(*   taken[d]   how many of them the thread has read                       *)
(*   out[d]     every line the thread has written to its sink              *)
(*   drained[d] how many of those the receiver has read                    *)
(*   tpc[d], hand[d]  where the thread is and the frame it holds           *)
(* A pipe holds sent minus taken (or out minus drained) lines, at most     *)
(* PipeCap; a writer blocks when it is full.  d = "c2a" runs from the      *)
(* client's stdin pipe to the agent's stdin; d = "a2c" from the agent's    *)
(* stdout to the client.                                                   *)
(*   mpc        where run() is; code its return value                      *)
(*   spc, err   the stderr thread and the chunks in its pipe               *)
(*   client     which of its two pipe ends the client keeps open           *)
(*   agent      the agent process (acp-echo-agent, with the extra output   *)
(*              and sudden death other agents are capable of)              *)
(*   log, pend, cas, next, phase, count   the trace, as in TraceLog; the   *)
(*              writer slot is Some exactly while phase = "open"           *)
(***************************************************************************)
EXTENDS TraceFormat, EchoAgent, Projection, SequencesExt

CONSTANTS
    ClientLines,   \* lines a client may write
    AgentExtras,   \* stdout lines an agent may add of its own accord
    MaxSent,       \* lines the client writes
    MaxExtras,     \* extra agent output, stdout lines and stderr chunks
    MaxFaults,     \* trace or spawn calls that fail
    PipeCap,       \* lines a pipe holds
    AgentMayDie    \* whether a signal may kill the agent

ASSUME ProxyAssumption ==
    /\ ClientLines \subseteq Lines /\ AgentExtras \subseteq Lines
    /\ MaxSent \in Nat /\ MaxExtras \in Nat /\ MaxFaults \in Nat
    /\ PipeCap \in Nat \ {0}
    /\ AgentMayDie \in BOOLEAN

\* Whatever parses is recorded, and the lines the agent writes are lines.
ASSUME FramesComplete == Raws \subseteq Frames
ASSUME EchoAssumption ==
    "session/update" \in Methods /\ EchoBodies(MaxSent) \subseteq Bodies

VARIABLES sent, taken, out, drained, tpc, hand, mpc, code, spc, err, client,
          agent, extras, faults, log, pend, cas, next, phase, count

T == INSTANCE TraceLog

pipes   == <<sent, taken, out, drained>>
threads == <<tpc, hand>>
trace   == <<log, pend, cas, next, phase, count>>
others  == <<mpc, code, spc, err, client, agent>>
vars    == <<pipes, threads, others, extras, faults, trace>>

NoHand == CHOOSE r \in Frames : TRUE
Chunk  == [chan |-> "stderr"]
OnStdout(l) == [chan |-> "stdout", line |-> l]

Alive == agent.status = "running"

TypeOK ==
    /\ sent \in [Directions -> Seq(Lines)] /\ out \in [Directions -> Seq(Frames)]
    /\ taken \in [Directions -> Nat] /\ drained \in [Directions -> Nat]
    /\ \A d \in Directions :
         /\ taken[d] <= Len(sent[d]) /\ drained[d] <= Len(out[d])
         /\ Len(sent[d]) - taken[d] <= PipeCap
         /\ Len(out[d]) - drained[d] <= PipeCap
    /\ tpc \in [Directions -> {"unborn", "read", "forward", "record", "done"}]
    /\ hand \in [Directions -> Frames]
    /\ mpc \in {"create", "spawn", "wait", "join_a2c", "join_stderr", "finalize",
                "join_c2a", "returned", "failed"}
    /\ code \in Nat
    /\ spc \in {"unborn", "read", "done"} /\ err \in 0 .. PipeCap
    /\ client \in [writes : BOOLEAN, reads : BOOLEAN]
    /\ agent.status \in {"unborn", "running", "code", "signal"}
    /\ agent.code \in 0 .. 1 /\ agent.leaving \in BOOLEAN
    /\ agent.state \in EchoState
    /\ \A i \in DOMAIN agent.outq :
         agent.outq[i] = Chunk \/ agent.outq[i] \in [chan : {"stdout"}, line : Lines]
    /\ extras \in Nat /\ faults \in Nat
    /\ log \in Seq(Rows) /\ pend \in Seq(Rows)
    /\ DOMAIN cas \subseteq Hashes /\ cas \in [DOMAIN cas -> Frames \cup {Torn}]
    /\ next \in Nat /\ count \in Nat /\ phase \in {"closed", "open", "sealed"}

Init ==
    /\ sent = [d \in Directions |-> <<>>] /\ out = [d \in Directions |-> <<>>]
    /\ taken = [d \in Directions |-> 0] /\ drained = [d \in Directions |-> 0]
    /\ tpc = [d \in Directions |-> "unborn"] /\ hand = [d \in Directions |-> NoHand]
    /\ mpc = "create" /\ code = 0
    /\ spc = "unborn" /\ err = 0
    /\ client = [writes |-> TRUE, reads |-> TRUE]
    /\ agent = [status |-> "unborn", code |-> 0, leaving |-> FALSE,
                state |-> EchoStart, outq |-> <<>>]
    /\ extras = 0 /\ faults = 0
    /\ T!Init

Works == UNCHANGED faults
Fails == faults < MaxFaults /\ faults' = faults + 1

\* The write end of the thread's source, and the read end of its sink.
SourceOpen(d) == IF d = "c2a" THEN client.writes ELSE Alive
SinkOpen(d)   == IF d = "c2a" THEN Alive ELSE client.reads

\* run() returned an error: the process ends, and its threads with it.
Running == mpc \notin {"returned", "failed"}

-----------------------------------------------------------------------------
(* The closures of the c2a and a2c threads. *)

\* read_frame: blank lines are skipped, a line that does not parse ends the
\* thread with an error nobody looks at.
ThreadRead(d) ==
    /\ Running /\ tpc[d] = "read" /\ taken[d] < Len(sent[d])
    /\ taken' = [taken EXCEPT ![d] = @ + 1]
    /\ LET l == sent[d][taken[d] + 1]
       IN  \/ IsBlank(l) /\ UNCHANGED threads
           \/ /\ ~IsBlank(l) /\ Parses(l)
              /\ hand' = [hand EXCEPT ![d] = raw(l)]
              /\ tpc' = [tpc EXCEPT ![d] = "forward"]
           \/ /\ ~IsBlank(l) /\ ~Parses(l)
              /\ tpc' = [tpc EXCEPT ![d] = "done"]
              /\ UNCHANGED hand
    /\ UNCHANGED <<sent, out, drained, others, extras, faults, trace>>

\* Mutant: the end of input is taken for a blank line.
ThreadEofIgnored(d) ==
    /\ Running /\ tpc[d] = "read" /\ taken[d] = Len(sent[d]) /\ ~SourceOpen(d)
    /\ UNCHANGED vars

\* End of input: the loop ends, dropping the sink (the agent's stdin).
ThreadEof(d) ==
    /\ Running /\ tpc[d] = "read" /\ taken[d] = Len(sent[d]) /\ ~SourceOpen(d)
    /\ tpc' = [tpc EXCEPT ![d] = "done"]
    /\ UNCHANGED <<pipes, hand, others, extras, faults, trace>>

\* Mutant: the result of write_frame is ignored.
ThreadForwardUnchecked(d) ==
    /\ Running /\ tpc[d] = "forward"
    /\ \/ SinkOpen(d) /\ Len(out[d]) - drained[d] < PipeCap
          /\ out' = [out EXCEPT ![d] = Append(@, hand[d])]
       \/ ~SinkOpen(d) /\ UNCHANGED out
    /\ tpc' = [tpc EXCEPT ![d] = "record"]
    /\ UNCHANGED <<sent, taken, drained, hand, others, extras, faults, trace>>

\* write_frame to the sink: the frame's bytes and one LF, or a broken pipe.
ThreadForward(d) ==
    /\ Running /\ tpc[d] = "forward"
    /\ \/ /\ SinkOpen(d) /\ Len(out[d]) - drained[d] < PipeCap
          /\ out' = [out EXCEPT ![d] = Append(@, hand[d])]
          /\ tpc' = [tpc EXCEPT ![d] = "record"]
       \/ /\ ~SinkOpen(d)
          /\ tpc' = [tpc EXCEPT ![d] = "done"]
          /\ UNCHANGED out
    /\ UNCHANGED <<sent, taken, drained, hand, others, extras, faults, trace>>

\* Mutant: the thread goes on after an error of record().
ThreadRecordUnchecked(d) ==
    /\ Running /\ tpc[d] = "record"
    /\ \/ /\ Works
          /\ IF phase = "open" THEN T!Record(d, hand[d]) ELSE UNCHANGED trace
       \/ Fails /\ (T!RecordBlobErr(hand[d]) \/ T!RecordFlushErr(d, hand[d]))
    /\ tpc' = [tpc EXCEPT ![d] = "read"]
    /\ hand' = [hand EXCEPT ![d] = NoHand]
    /\ UNCHANGED <<pipes, others, extras>>

\* Lock the slot; record if the writer is still there.  An error of record()
\* ends the thread.
ThreadRecord(d) ==
    /\ Running /\ tpc[d] = "record"
    /\ \/ /\ Works
          /\ IF phase = "open" THEN T!Record(d, hand[d]) ELSE UNCHANGED trace
          /\ tpc' = [tpc EXCEPT ![d] = "read"]
       \/ /\ Fails
          /\ T!RecordBlobErr(hand[d]) \/ T!RecordFlushErr(d, hand[d])
          /\ tpc' = [tpc EXCEPT ![d] = "done"]
    /\ hand' = [hand EXCEPT ![d] = NoHand]
    /\ UNCHANGED <<pipes, others, extras>>

\* Mutant: the agent's stderr is piped and never read.
StderrCopyNever == err < 0 /\ UNCHANGED vars

\* The stderr thread copies chunks until the agent is gone; one that cannot
\* be written to the parent's stderr ends it, with its end of the pipe.
StderrCopy ==
    /\ Running /\ spc = "read" /\ err > 0
    /\ err' = err - 1
    /\ spc' \in {"read", "done"}
    /\ UNCHANGED <<pipes, threads, mpc, code, client, agent, extras, faults, trace>>

StderrEof ==
    /\ Running /\ spc = "read" /\ err = 0 /\ ~Alive
    /\ spc' = "done"
    /\ UNCHANGED <<pipes, threads, mpc, code, err, client, agent, extras, faults, trace>>

-----------------------------------------------------------------------------
(* run() itself. *)

MainCreate ==
    /\ mpc = "create"
    /\ \/ Works /\ T!Begin /\ mpc' = "spawn"
       \/ Fails /\ mpc' = "failed" /\ UNCHANGED trace
    /\ UNCHANGED <<pipes, threads, code, spc, err, client, agent, extras>>

\* A failed spawn returns at once: the trace stays without an end.
MainSpawn ==
    /\ mpc = "spawn"
    /\ \/ /\ Works
          /\ agent' = [agent EXCEPT !.status = "running"]
          /\ tpc' = [d \in Directions |-> "read"] /\ spc' = "read"
          /\ mpc' = "wait"
          /\ UNCHANGED trace
       \/ /\ Fails
          /\ phase' = "closed" /\ mpc' = "failed"
          /\ UNCHANGED <<agent, tpc, spc, log, pend, cas, next, count>>
    /\ UNCHANGED <<pipes, hand, code, err, client, extras>>

\* Mutant: the trace is sealed without joining a2c.
MainWaitThenSeal ==
    /\ mpc = "wait" /\ ~Alive
    /\ mpc' = "finalize"
    /\ UNCHANGED <<pipes, threads, code, spc, err, client, agent, extras, faults, trace>>

MainWait ==
    /\ mpc = "wait" /\ ~Alive
    /\ mpc' = "join_a2c"
    /\ UNCHANGED <<pipes, threads, code, spc, err, client, agent, extras, faults, trace>>

MainJoinA2c ==
    /\ mpc = "join_a2c" /\ tpc["a2c"] = "done"
    /\ mpc' = "join_stderr"
    /\ UNCHANGED <<pipes, threads, code, spc, err, client, agent, extras, faults, trace>>

\* Mutant: c2a is joined before the trace is sealed.
MainJoinStderrAndC2a ==
    /\ mpc = "join_stderr" /\ spc = "done" /\ tpc["c2a"] = "done"
    /\ mpc' = "finalize"
    /\ UNCHANGED <<pipes, threads, code, spc, err, client, agent, extras, faults, trace>>

MainJoinStderr ==
    /\ mpc = "join_stderr" /\ spc = "done"
    /\ mpc' = "finalize"
    /\ UNCHANGED <<pipes, threads, code, spc, err, client, agent, extras, faults, trace>>

\* Take the writer out of the slot and finalize it; an error returns without
\* joining c2a, after the BufWriter's drop has flushed what it could.
MainFinalize ==
    /\ mpc = "finalize"
    /\ \/ Works /\ T!Seal /\ mpc' = "join_c2a"
       \/ /\ Fails
          /\ phase' = "closed" /\ mpc' = "failed"
          /\ \E k \in 0 .. Len(pend) : log' = log \o SubSeq(pend, 1, k)
          /\ pend' = <<>>
          /\ UNCHANGED <<cas, next, count>>
    /\ UNCHANGED <<pipes, threads, code, spc, err, client, agent, extras>>

\* c2a.join(), then status.code().unwrap_or(0).
MainJoinC2a ==
    /\ mpc = "join_c2a" /\ tpc["c2a"] = "done"
    /\ mpc' = "returned"
    /\ code' = IF agent.status = "code" THEN agent.code ELSE 0
    /\ UNCHANGED <<pipes, threads, spc, err, client, agent, extras, faults, trace>>

-----------------------------------------------------------------------------
(* The agent process.  Its stdin is out["c2a"], its stdout sent["a2c"]. *)

AgentExits(c) == agent' = [agent EXCEPT !.status = "code", !.code = c, !.outq = <<>>]

\* One turn of the echo agent's loop; other agents also write lines and
\* stderr chunks of their own before they answer.
AgentRead ==
    /\ Alive /\ agent.outq = <<>> /\ ~agent.leaving
    /\ drained["c2a"] < Len(out["c2a"])
    /\ drained' = [drained EXCEPT !["c2a"] = @ + 1]
    /\ LET f      == out["c2a"][drained["c2a"] + 1]
           ans    == EchoAnswer(agent.state, f)
           answer == [i \in DOMAIN ans |-> OnStdout(ans[i])]
           Turn(x) == agent' = [agent EXCEPT !.state = EchoNext(@, f),
                                             !.leaving = EchoLeaves(f),
                                             !.outq = x \o answer]
       IN  \/ Turn(<<>>) /\ UNCHANGED extras
           \/ /\ extras < MaxExtras /\ extras' = extras + 1
              /\ \/ Turn(<<Chunk>>)
                 \/ \E l \in AgentExtras : Turn(<<OnStdout(l)>>)
    /\ UNCHANGED <<sent, taken, out, threads, mpc, code, spc, err, client, faults, trace>>

\* Write the next line or stderr chunk; the agent blocks while that pipe is
\* full.  When nobody reads it any more the agent exits with 1, or goes on
\* without its stderr.
AgentWrite ==
    /\ Alive /\ agent.outq # <<>>
    /\ \/ /\ Head(agent.outq).chan = "stdout" /\ tpc["a2c"] # "done"
          /\ Len(sent["a2c"]) - taken["a2c"] < PipeCap
          /\ sent' = [sent EXCEPT !["a2c"] = Append(@, Head(agent.outq).line)]
          /\ agent' = [agent EXCEPT !.outq = Tail(@)]
          /\ UNCHANGED err
       \/ /\ Head(agent.outq).chan = "stdout" /\ tpc["a2c"] = "done"
          /\ AgentExits(1)
          /\ UNCHANGED <<sent, err>>
       \/ /\ Head(agent.outq).chan = "stderr" /\ spc # "done" /\ err < PipeCap
          /\ err' = err + 1
          /\ agent' = [agent EXCEPT !.outq = Tail(@)]
          /\ UNCHANGED sent
       \/ /\ Head(agent.outq).chan = "stderr" /\ spc = "done"
          /\ AgentExits(1) \/ agent' = [agent EXCEPT !.outq = Tail(@)]
          /\ UNCHANGED <<sent, err>>
    /\ UNCHANGED <<taken, out, drained, threads, mpc, code, spc, client,
                   extras, faults, trace>>

\* Its loop is over: end of stdin, or shutdown has been answered.
AgentExit ==
    /\ Alive /\ agent.outq = <<>>
    /\ agent.leaving \/ (drained["c2a"] = Len(out["c2a"]) /\ tpc["c2a"] = "done")
    /\ AgentExits(0)
    /\ UNCHANGED <<pipes, threads, mpc, code, spc, err, client, extras, faults, trace>>

AgentDie ==
    /\ AgentMayDie /\ Alive
    /\ agent' = [agent EXCEPT !.status = "signal", !.outq = <<>>]
    /\ UNCHANGED <<pipes, threads, mpc, code, spc, err, client, extras, faults, trace>>

-----------------------------------------------------------------------------
(* The client. *)

ClientSend(l) ==
    /\ client.writes /\ Len(sent["c2a"]) < MaxSent
    /\ Len(sent["c2a"]) - taken["c2a"] < PipeCap
    /\ sent' = [sent EXCEPT !["c2a"] = Append(@, l)]
    /\ UNCHANGED <<taken, out, drained, threads, others, extras, faults, trace>>

ClientRead ==
    /\ client.reads /\ drained["a2c"] < Len(out["a2c"])
    /\ drained' = [drained EXCEPT !["a2c"] = @ + 1]
    /\ UNCHANGED <<sent, taken, out, threads, others, extras, faults, trace>>

ClientClose ==
    /\ client.writes
    /\ client' = [client EXCEPT !.writes = FALSE]
    /\ UNCHANGED <<pipes, threads, mpc, code, spc, err, agent, extras, faults, trace>>

\* The client goes away: both its pipe ends close.
ClientQuit ==
    /\ client.reads
    /\ client' = [writes |-> FALSE, reads |-> FALSE]
    /\ UNCHANGED <<pipes, threads, mpc, code, spc, err, agent, extras, faults, trace>>

-----------------------------------------------------------------------------
Thread(d) == ThreadRead(d) \/ ThreadEof(d) \/ ThreadForward(d) \/ ThreadRecord(d)
Stderr    == StderrCopy \/ StderrEof
Main      == \/ MainCreate \/ MainSpawn \/ MainWait \/ MainJoinA2c \/ MainJoinStderr
             \/ MainFinalize \/ MainJoinC2a
Agent     == AgentRead \/ AgentWrite \/ AgentExit
Client    == (\E l \in ClientLines : ClientSend(l)) \/ ClientRead \/ ClientClose \/ ClientQuit

\* run() has returned and the process is gone.
Stopped == ~Running /\ UNCHANGED vars

Next ==
    \/ \E d \in Directions : Thread(d)
    \/ Stderr \/ Main \/ Agent \/ AgentDie \/ Client \/ Stopped

Spec == Init /\ [][Next]_vars

\* Every thread of the proxy is scheduled, the agent keeps running its loop
\* and the client keeps reading; nothing makes the client write or close.
FairSpec ==
    /\ Spec
    /\ \A d \in Directions : WF_vars(Thread(d))
    /\ WF_vars(Stderr) /\ WF_vars(Main) /\ WF_vars(Agent) /\ WF_vars(ClientRead)

-----------------------------------------------------------------------------
(* Properties *)

\* The frames among a sequence of lines, as read_frame delivers them.
FrameLines == {l \in Lines : ~IsBlank(l) /\ Parses(l)}
FramesIn(s) ==
    LET ok == Only(s, FrameLines) IN [i \in DOMAIN ok |-> raw(ok[i])]

\* The payload hashes of the rows of one direction, and of forwarded frames.
RowHashes(s) == [i \in DOMAIN s |-> s[i].hash]
Logged(d)    == RowHashes(Only(log, RowsOf(d)))
HashesOf(s)  == [i \in DOMAIN s |-> payload_hash(s[i])]

\* What replay_offline would emit from the trace as it stands.
OfflineReplay ==
    LET mine == Only(log, RowsOf("a2c")) IN [i \in DOMAIN mine |-> cas[mine[i].hash]]

\* Bytes are forwarded intact: each receiver gets a prefix of the frames its
\* peer wrote, unchanged, none lost, doubled or reordered, and a thread that
\* is ready to read has forwarded everything it took.
ForwardedIntact ==
    \A d \in Directions :
        /\ IsPrefix(out[d], FramesIn(sent[d]))
        /\ tpc[d] \in {"read", "record"} =>
             out[d] = FramesIn(SubSeq(sent[d], 1, taken[d]))

\* The rows of each direction are, in order, the frames forwarded in that
\* direction, whatever the interleaving of the threads and whichever trace
\* call fails; a thread that is ready to read has all of its frames in the
\* log as long as the writer is open.
TraceMirrorsWire ==
    \A d \in Directions :
        /\ IsPrefix(Logged(d), HashesOf(out[d]))
        /\ tpc[d] = "read" /\ phase = "open" /\ faults = 0 =>
             Logged(d) = HashesOf(out[d])

\* A sealed trace holds every frame the client was given: run() joins a2c
\* before it takes the writer.
SealedHasAgentFrames ==
    phase = "sealed" /\ faults = 0 => Logged("a2c") = HashesOf(out["a2c"])

\* Offline replay of the trace, finished or not, emits a prefix of the lines
\* the client was given, byte for byte.
OfflineReplayIsPrefix == IsPrefix(OfflineReplay, out["a2c"])

\* Rows are numbered by their position, across both threads.
SeqIsPosition == \A i \in DOMAIN log : log[i].seq = i - 1

\* Once the client has closed its end, run() returns: no full pipe, blocked
\* peer, malformed line, exiting agent or failed trace call hangs it.
ReturnsOnceClientCloses == ~client.writes ~> ~Running

\* Once the agent is gone the trace is sealed (or run() has returned an I/O
\* error), even if the client never closes its end and c2a stays blocked.
SealsOnceAgentGone ==
    agent.status \in {"code", "signal"} ~> phase = "sealed" \/ mpc = "failed"

\* Once the agent is gone, run() returns.
ReturnsOnceAgentGone == agent.status \in {"code", "signal"} ~> ~Running

=============================================================================
