------------------------------ MODULE Session ------------------------------
(***************************************************************************)
(* A session recorded by `acp record` and then replayed by `acp replay` to *)
(* the same client: Proxy and Replay composed through the trace.           *)
(*                                                                         *)
(*   script   the frames the client sends, in order                        *)
(*   mode     "pipelined": it never waits, as the end-to-end tests;        *)
(*            "lockstep": it sends a frame once its earlier requests are   *)
(*            answered                                                     *)
(*   remap, cursor, id_map, pc, emitted, rout, accepted                    *)
(*            the replay, as in Replay (rout is its out); pc = "off"       *)
(*            before it starts.  With remap_ids the client numbers its     *)
(*            requests anew.                                               *)
(***************************************************************************)
EXTENDS Proxy, CommandLine

CONSTANTS
    Scripts,       \* sessions: frames the client sends
    Renumber,      \* the id a live client uses for each recorded one
    ClientMayQuit  \* whether the recorded client may go away before its end

ASSUME SessionAssumption ==
    /\ Scripts \subseteq Seq(Raws \cap ClientLines)
    /\ Renumber \in [Ids -> Ids]
    /\ \A i, j \in Ids : Renumber[i] = Renumber[j] => i = j
    /\ ClientMayQuit \in BOOLEAN

VARIABLES script, mode, remap, cursor, id_map, pc, emitted, rout, accepted

plan        == <<script, mode>>
replay      == <<remap, cursor, id_map, pc, emitted, rout, accepted>>
sessionVars == <<vars, plan, replay>>

\* The rows of the finished trace with the payloads they load.
Recorded == [i \in DOMAIN log |-> <<log[i].dir, cas[log[i].hash]>>]

R == INSTANCE Replay WITH
       taped <- Recorded, rows <- log, store <- cas, out <- rout,
       Tape <- Directions \X Frames, MaxTape <- 0, Remaps <- BOOLEAN,
       MaxLost <- 0, ReuseIds <- FALSE

SessionInit ==
    /\ Init
    /\ script \in Scripts /\ mode \in {"pipelined", "lockstep"}
    /\ remap = FALSE /\ cursor = 0 /\ id_map = [i \in {} |-> None]
    /\ pc = "off" /\ emitted = 0 /\ rout = <<>> /\ accepted = <<>>

\* The script as the client sends it now.
Live(l) == IF remap /\ kind(l) = "request" THEN [l EXCEPT !.id = Renumber[@]] ELSE l

\* Whether a client that has sent n frames and seen these lines goes on.
Ready(n, seen) ==
    mode = "lockstep" =>
      \A i \in 1 .. n : kind(script[i]) = "request" =>
        \E k \in DOMAIN seen : kind(seen[k]) = "response" /\ seen[k].id = Live(script[i]).id

-----------------------------------------------------------------------------
(* The recording: Proxy, with this client.  The agent may be killed at any *)
(* point of it, and the client may go away.                                *)

Sent == Len(sent["c2a"])
Seen == SubSeq(out["a2c"], 1, drained["a2c"])

RecordingSend  == Sent < Len(script) /\ Ready(Sent, Seen) /\ ClientSend(script[Sent + 1])
RecordingClose == Sent = Len(script) /\ Ready(Sent, Seen) /\ ClientClose
RecordingQuit  == ClientMayQuit /\ ClientQuit
RecordingClient == RecordingSend \/ ClientRead \/ RecordingClose \/ RecordingQuit

Recording ==
    /\ \/ \E d \in Directions : Thread(d)
       \/ Stderr \/ Main \/ Agent \/ AgentDie \/ RecordingClient
    /\ UNCHANGED <<plan, replay>>

\* `acp record` is over and `acp replay` opens the trace.
StartReplay ==
    /\ mpc = "returned" /\ pc = "off"
    /\ remap' \in BOOLEAN
    /\ pc' = "emit"
    /\ UNCHANGED <<vars, plan, cursor, id_map, emitted, rout, accepted>>

-----------------------------------------------------------------------------
(* The replay: Replay, with the same client. *)

ReplaySend ==
    /\ Len(accepted) < Len(script) /\ Ready(Len(accepted), rout)
    /\ R!ReadFrame(Live(script[Len(accepted) + 1]))

ReplayClose ==
    /\ Len(accepted) = Len(script) /\ Ready(Len(accepted), rout)
    /\ R!ReadEof

Replaying ==
    /\ UNCHANGED <<vars, plan, remap>>
    /\ R!EmitRow \/ R!EmitDone \/ ReplaySend \/ ReplayClose

\* Client and engine wait for each other.
Stuck == pc = "read" /\ ~Ready(Len(accepted), rout)

Ended == (Stuck \/ pc \in {"ok", "diverged", "exhausted", "failed"}) /\ UNCHANGED sessionVars

SessionNext == Recording \/ StartReplay \/ Replaying \/ Ended

SessionSpec == SessionInit /\ [][SessionNext]_sessionVars

\* The threads of the proxy are scheduled, the agent runs its loop, the
\* client works through its script, the replay is started and runs.  Nothing
\* makes the agent die or the client go away.
FairSessionSpec ==
    /\ SessionSpec
    /\ \A d \in Directions : WF_vars(Thread(d))
    /\ WF_vars(Stderr) /\ WF_vars(Main) /\ WF_vars(Agent)
    /\ WF_vars(ClientRead) /\ WF_vars(RecordingSend \/ RecordingClose)
    /\ WF_sessionVars(StartReplay) /\ WF_sessionVars(Replaying)

-----------------------------------------------------------------------------
(* Properties *)

ShutsDown == \E i \in DOMAIN script : EchoLeaves(script[i])

\* All the client has to send is recorded, and all it was given.
Complete == Logged("c2a") = HashesOf(script) /\ Logged("a2c") = HashesOf(out["a2c"])

Asks(q, row)    == q.dir = "c2a" /\ q.kind = "request" /\ row.dir = "a2c"
                     /\ row.kind = "response" /\ row.id = q.id

\* Every request is answered before the client's next frame in the trace and,
\* where ids are mapped, after itself.
AnsweredInTurn ==
    \A q \in DOMAIN log : log[q].dir = "c2a" /\ log[q].kind = "request" =>
      \E k \in DOMAIN log :
        /\ Asks(log[q], log[k]) /\ (remap => q < k)
        /\ \A p \in q + 1 .. Len(log) : log[p].dir = "c2a" => k < p

\* What the replayed client gets is what the recorded one got, line by line
\* and byte by byte, also when the trace misses client frames and the replay
\* ends in TraceExhausted; with remap_ids every answer recorded behind its
\* request has the new id.  No interleaving of the recording makes the same
\* client diverge or a payload fail to load.
ReplayGivesRecordedAnswers ==
    LET AskedBefore(row) ==
          \E q \in DOMAIN log : Asks(log[q], row) /\ log[q].seq < row.seq
        mine == Only(log, RowsOf("a2c"))
        Expected(i) ==
          IF remap /\ AskedBefore(mine[i])
          THEN [out["a2c"][i] EXCEPT !.id = Renumber[@]] ELSE out["a2c"][i]
    IN  /\ pc \notin {"diverged", "failed"}
        /\ pc \in {"ok", "exhausted"} =>
             rout = [i \in DOMAIN out["a2c"] |-> Expected(i)]

\* An agent that exits with 0 and was not asked to shut down leaves a trace
\* of all the client has written, as far as it got in its script, and all it
\* was given: such an agent has met the end of its stdin, which c2a closes
\* behind its last record().  One that is asked to shut down, is killed or
\* cannot write its output ends while c2a may have frames yet to record.
CompleteAfterCleanExit ==
    phase = "sealed" /\ agent.status = "code" /\ agent.code = 0 /\ ~ShutsDown =>
      /\ Logged("c2a") = HashesOf(sent["c2a"])
      /\ Logged("a2c") = HashesOf(out["a2c"])

\* The agent is gone and the client waits for an answer it cannot get.
Deserted ==
    agent.status \in {"code", "signal"} /\ client.writes /\ ~Ready(Sent, Seen)

\* Recording a session comes to an end, unless the agent has gone without
\* answering a client that waits for the answer; in particular it does for
\* every client that does not wait.
RecordingReturns == <>(mpc = "returned") \/ <>[]Deserted

\* A complete trace replays to the end: always for a client that does not
\* wait; for one that does, if its answers were recorded in turn.
CompleteTracesReplay ==
    pc # "off" /\ Complete /\ (mode = "pipelined" \/ AnsweredInTurn) ~> pc = "ok"

\* A session that `acp record` has recorded without an error replays to the
\* same client without an error, and with the same output.
SameClientReplays ==
    pc \in {"ok", "diverged", "exhausted", "failed"} /\ ~remap /\ cmd_record(TRUE, code) = 0 =>
      cmd_replay(pc = "ok") = 0 /\ rout = out["a2c"]

\* `acp inspect`, on the trace at any moment of its recording and after it,
\* accounts for every row: the table and "N events not shown" add up, no row
\* is shown twice or out of order, the first and the last are there, and the
\* two directions add up to event_count, whether the manifest has it or not.
InspectAccountsForAll ==
    \A full \in BOOLEAN :
      LET r == cmd_inspect(IF phase = "sealed" THEN <<count>> ELSE <<>>, log, full)
      IN  /\ Len(r.shown) + r.not_shown = r.event_count
          /\ \A k, l \in DOMAIN r.shown : k < l => r.shown[k].seq < r.shown[l].seq
          /\ log # <<>> => Head(r.shown) = Head(log) /\ Last(r.shown) = Last(log)
          /\ r.dirs["c2a"] + r.dirs["a2c"] = r.event_count
          /\ full => r.not_shown = 0

=============================================================================
