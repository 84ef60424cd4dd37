--------------------------- MODULE SessionProofs ---------------------------
(***************************************************************************)
(* Proofs about Session.  A session is a run of the proxy, so all that     *)
(* ProxyProofs shows holds of it.  Then what only a session has: which     *)
(* traces are complete, what a replay gives, what `acp inspect` counts.    *)
(***************************************************************************)
EXTENDS Session, ProxyProofs, FiniteSetTheorems

-----------------------------------------------------------------------------
(* A session is a run of the proxy *)

PlanOK == script \in Scripts /\ mode \in {"pipelined", "lockstep"}

LEMMA PlanStep == PlanOK /\ [SessionNext]_sessionVars => PlanOK'
  BY DEF PlanOK, SessionNext, Recording, StartReplay, Replaying, Ended, sessionVars, plan

LEMMA ScriptIsFrames ==
    ASSUME PlanOK
    PROVE  /\ script \in Seq(Raws) /\ Len(script) \in Nat
           /\ \A i \in 1 .. Len(script) : script[i] \in Raws /\ script[i] \in ClientLines
  <1>1. script \in Seq(Raws \cap ClientLines)
    BY SessionAssumption DEF PlanOK
  <1> QED
    BY <1>1

\* What the client, the threads, the agent and run() do in a session, Proxy
\* allows them to do.
LEMMA RecordingIsNext ==
    ASSUME PlanOK, Types, [SessionNext]_sessionVars PROVE [Next]_vars
  <1>1. CASE UNCHANGED vars
    BY <1>1
  <1>2. CASE Recording
    <2>1. CASE RecordingSend
      <3>1. Sent \in Nat /\ Sent < Len(script)
        BY <2>1 DEF RecordingSend, Sent, Types, PipesOK, Directions
      <3>2. Sent + 1 \in 1 .. Len(script)
        BY <3>1, ScriptIsFrames
      <3>3. script[Sent + 1] \in ClientLines /\ ClientSend(script[Sent + 1])
        BY <2>1, <3>2, ScriptIsFrames DEF RecordingSend
      <3> QED
        BY <3>3 DEF Next, Client
    <2> QED
      BY <1>2, <2>1 DEF Recording, RecordingClient, RecordingClose, RecordingQuit, Next, Client
  <1> QED
    BY <1>1, <1>2 DEF SessionNext, StartReplay, Replaying, Ended, sessionVars

\* Whatever holds of Proxy holds of the recording of a session.
THEOREM SessionRecords == SessionSpec => Spec
  <1>1. SessionInit => Init /\ PlanOK
    BY DEF SessionInit, PlanOK
  <1>2. PlanOK /\ Types /\ [SessionNext]_sessionVars => [Next]_vars
    BY RecordingIsNext
  <1>3. Types /\ [Next]_vars => Types'
    BY TypesStep
  <1> QED
    BY <1>1, <1>2, <1>3, TypesInit, PlanStep, PTL DEF SessionSpec, Spec

LEMMA AlwaysRecords ==
    SessionSpec => [](PlanOK /\ Types /\ ForwardInv /\ MirrorInv)
  <1>1. SessionInit => PlanOK
    BY DEF SessionInit, PlanOK
  <1>2. SessionSpec => []PlanOK
    BY <1>1, PlanStep, PTL DEF SessionSpec
  <1> QED
    BY <1>2, SessionRecords, AlwaysMirrorInv, PTL

-----------------------------------------------------------------------------
(* What a recording tells.  A row's kind and id are those of its payload,  *)
(* run() returns only once the trace is sealed, and what the client has    *)
(* sent is the beginning of its script.                                    *)

TellingRows ==
    {row \in Rows : row.kind = kind(row.hash) /\ row.id = from_value(row.hash.id)}

RecordedInv ==
    /\ Held \in Seq(TellingRows)
    /\ mpc \in {"join_c2a", "returned"} => phase = "sealed"
    /\ Len(sent["c2a"]) <= Len(script)
    /\ \A i \in 1 .. Len(sent["c2a"]) : sent["c2a"][i] = script[i]

LEMMA RowTells ==
    ASSUME NEW n \in Nat, NEW d \in Directions, NEW f \in Frames
    PROVE  EventRecord(n, d, f) \in TellingRows
  <1>1. EventRecord(n, d, f) \in Rows
    BY EventRecordType
  <1>2. kind(payload_hash(f)) = kind(f) /\ payload_hash(f).id = f.id
    BY DEF payload_hash, kind
  <1> QED
    BY <1>1, <1>2 DEF EventRecord, TellingRows

LEMMA HeldTells ==
    ASSUME Types, Held \in Seq(TellingRows), ~Fails, [Next]_vars
    PROVE  Held' \in Seq(TellingRows)
  <1>0. log \in Seq(Rows) /\ pend \in Seq(Rows) /\ TraceOK /\ next \in Nat
        /\ hand \in [Directions -> Frames]
    BY DEF Types, TraceOK, ThreadsOK
  <1>1. CASE UNCHANGED <<log, pend>>
    BY <1>1 DEF Held
  <1>2. ASSUME NEW d \in Directions, ThreadRecord(d) PROVE Held' \in Seq(TellingRows)
    <2>1. CASE T!Record(d, hand[d])
      <3> DEFINE row == EventRecord(next, d, hand[d])
      <3>1. hand[d] \in Frames /\ row \in TellingRows
        BY <1>0, RowTells
      <3>2. Held' = Append(Held, row)
        BY <1>0, <2>1, <3>1, RecordOutcomes
      <3> HIDE DEF row
      <3> QED
        BY <3>1, <3>2
    <2>2. CASE UNCHANGED trace
      BY <1>1, <2>2 DEF trace
    <2> QED
      BY <1>2, <2>1, <2>2 DEF ThreadRecord
  <1>3. CASE MainCreate
    <2>1. log' = <<>> /\ pend' = <<>>
      BY <1>3 DEF MainCreate, T!Begin
    <2>2. Held' = <<>>
      BY <2>1 DEF Held
    <2>3. <<>> \in Seq(TellingRows)
      OBVIOUS
    <2> QED
      BY <2>2, <2>3
  <1>4. CASE MainFinalize
    <2>1. log' = log \o pend /\ pend' = <<>>
      BY <1>4 DEF MainFinalize, T!Seal
    <2>2. Held' = log' \o <<>> /\ log' = Held
      BY <2>1 DEF Held
    <2>3. Held \in Seq(Rows)
      BY <1>0 DEF Held
    <2> QED
      BY <2>2, <2>3, ConcatEmptySeq
  <1> QED
    BY <1>1, <1>2, <1>3, <1>4
       DEF Next, Thread, Stderr, Main, Agent, Client, Stopped, vars, trace,
           ThreadRead, ThreadEof, ThreadForward, StderrCopy, StderrEof, MainSpawn, MainWait,
           MainJoinA2c, MainJoinStderr, MainJoinC2a, AgentRead, AgentWrite, AgentExit,
           AgentDie, ClientSend, ClientRead, ClientClose, ClientQuit

LEMMA SealedStep ==
    ASSUME Types, MirrorInv, ~Fails, mpc \in {"join_c2a", "returned"} => phase = "sealed",
           [Next]_vars
    PROVE  mpc' \in {"join_c2a", "returned"} => phase' = "sealed"
  <1>1. CASE UNCHANGED <<mpc, phase>>
    BY <1>1
  <1>2. ASSUME NEW d \in Directions, Thread(d) PROVE UNCHANGED <<mpc, phase>>
    BY <1>2 DEF Thread, ThreadRead, ThreadEof, ThreadForward, ThreadRecord, others, trace,
                T!Record, T!RecordBlobErr, T!RecordFlushErr
  <1>3. CASE Main
    BY <1>3 DEF Main, MainCreate, MainSpawn, MainWait, MainJoinA2c, MainJoinStderr,
                MainFinalize, MainJoinC2a, trace, T!Seal
  <1> QED
    BY <1>1, <1>2, <1>3
       DEF Next, Stderr, Agent, Client, Stopped, vars, others, trace, StderrCopy, StderrEof,
           AgentRead, AgentWrite, AgentExit, AgentDie, ClientSend, ClientRead, ClientClose,
           ClientQuit

LEMMA SentStep ==
    ASSUME PlanOK, Types, Recording,
           Len(sent["c2a"]) <= Len(script),
           \A i \in 1 .. Len(sent["c2a"]) : sent["c2a"][i] = script[i]
    PROVE  /\ Len(sent'["c2a"]) <= Len(script')
           /\ \A i \in 1 .. Len(sent'["c2a"]) : sent'["c2a"][i] = script'[i]
  <1>1. script' = script /\ sent \in [Directions -> Seq(Lines)] /\ Directions = {"c2a", "a2c"}
    BY DEF Recording, plan, Types, PipesOK, Directions
  <1>2. CASE sent'["c2a"] = sent["c2a"]
    BY <1>1, <1>2
  <1>3. CASE RecordingSend
    <2>1. /\ sent'["c2a"] = Append(sent["c2a"], script[Len(sent["c2a"]) + 1])
          /\ Len(sent["c2a"]) < Len(script)
      BY <1>1, <1>3 DEF RecordingSend, ClientSend, Sent
    <2>2. Len(sent["c2a"]) \in Nat /\ Len(script) \in Nat
      BY <1>1, ScriptIsFrames
    <2>3. PICK s \in Seq(Lines) : s = sent["c2a"]
      BY <1>1
    <2>4. Len(s) + 1 \in 1 .. Len(script)
      BY <2>1, <2>2, <2>3
    <2>5. script[Len(s) + 1] \in Lines
      BY <2>4, ScriptIsFrames DEF Raws
    <2> QED
      BY <1>1, <2>1, <2>2, <2>3, <2>5
  <1>4. CASE AgentWrite
    BY <1>1, <1>2, <1>4 DEF AgentWrite
  <1> QED
    BY <1>1, <1>2, <1>3, <1>4
       DEF Recording, Thread, Stderr, Main, Agent, RecordingClient, ThreadRead, ThreadEof,
           ThreadForward, ThreadRecord, StderrCopy, StderrEof, MainCreate, MainSpawn, MainWait,
           MainJoinA2c, MainJoinStderr, MainFinalize, MainJoinC2a, AgentRead, AgentExit,
           AgentDie, ClientRead, RecordingClose, ClientClose, RecordingQuit, ClientQuit, pipes

LEMMA RecordedStart ==
    ASSUME SessionInit PROVE RecordedInv
  <1>1. /\ log = <<>> /\ pend = <<>> /\ mpc = "create" /\ sent["c2a"] = <<>> /\ PlanOK
    BY DEF SessionInit, Init, T!Init, Directions, PlanOK
  <1>2. Held = <<>> /\ <<>> \in Seq(TellingRows) /\ Len(script) \in Nat
    BY <1>1, ScriptIsFrames DEF Held
  <1> QED
    BY <1>1, <1>2 DEF RecordedInv

LEMMA RecordedStep ==
    ASSUME PlanOK, Types, MirrorInv, RecordedInv, ~Fails, [SessionNext]_sessionVars
    PROVE  RecordedInv'
  <1>1. [Next]_vars
    BY RecordingIsNext
  <1>2. Held' \in Seq(TellingRows) /\ (mpc' \in {"join_c2a", "returned"} => phase' = "sealed")
    BY <1>1, HeldTells, SealedStep DEF RecordedInv
  <1>3. /\ Len(sent'["c2a"]) <= Len(script')
        /\ \A i \in 1 .. Len(sent'["c2a"]) : sent'["c2a"][i] = script'[i]
    <2>1. CASE Recording
      BY <2>1, SentStep DEF RecordedInv
    <2>2. CASE UNCHANGED <<vars, plan>>
      BY <2>2 DEF RecordedInv, vars, pipes, plan
    <2> QED
      BY <2>1, <2>2 DEF SessionNext, StartReplay, Replaying, Ended, sessionVars
  <1> QED
    BY <1>2, <1>3 DEF RecordedInv

\* A frame of the script reaches the agent as it is.
LEMMA FramesInScript ==
    ASSUME NEW s \in Seq(Raws)
    PROVE  FramesIn(s) = s
  <1>1. \A l \in Raws : l \in FrameLines /\ raw(l) = l
    BY DEF Raws, FrameLines, Parses, IsBlank, raw, Lines
  <1> DEFINE P == {t \in Seq(Raws) : Only(t, FrameLines) = t}
  <1>2. <<>> \in P
    <2>1. <<>> \in Seq(Raws)
      OBVIOUS
    <2> QED
      BY <2>1, OnlyEmpty
  <1>3. ASSUME NEW t \in Seq(Raws), NEW e \in Raws, t \in P PROVE Append(t, e) \in P
    <2>1. Only(Append(t, e), FrameLines) = Append(Only(t, FrameLines), e)
      BY <1>1, OnlyAppend
    <2>2. Append(t, e) \in Seq(Raws)
      OBVIOUS
    <2> QED
      BY <1>3, <2>1, <2>2
  <1>4. Only(s, FrameLines) = s
    <2> HIDE DEF P
    <2>1. Seq(Raws) \subseteq P
      BY <1>2, <1>3, SeqSetInduction
    <2> QED
      BY <2>1 DEF P
  <1>5. FramesIn(s) = [i \in DOMAIN s |-> raw(s[i])]
    BY <1>4 DEF FramesIn
  <1>6. [i \in DOMAIN s |-> raw(s[i])] = [i \in DOMAIN s |-> s[i]]
    BY <1>1
  <1> QED
    BY <1>5, <1>6

-----------------------------------------------------------------------------
(* Complete traces.  An agent that is not told to leave exits with 0 only  *)
(* at the end of its stdin, when c2a is done; and c2a, as long as there is *)
(* an agent to write to and no call fails, is done only when it has        *)
(* recorded all that the client has written.                               *)

StaysOn ==
    /\ \A i \in DOMAIN sent["c2a"] : ~EchoLeaves(sent["c2a"][i])
    /\ tpc["c2a"] \in {"forward", "record"} => ~EchoLeaves(hand["c2a"])
    /\ \A i \in DOMAIN out["c2a"] : ~EchoLeaves(out["c2a"][i])
    /\ ~agent.leaving

CleanExit    == agent.status = "code" /\ agent.code = 0
AllForwarded == ~client.writes /\ out["c2a"] = sent["c2a"]

EndsInOrder ==
    /\ agent.status = "unborn" => mpc \in {"create", "spawn", "failed"}
    /\ mpc \in {"join_a2c", "join_stderr", "finalize", "join_c2a", "returned"} =>
         agent.status \in {"code", "signal"}
    /\ tpc["c2a"] = "done" /\ (Alive \/ CleanExit) => AllForwarded
    /\ CleanExit => tpc["c2a"] = "done"
    /\ phase = "sealed" /\ CleanExit => HeldHashes("c2a") = HashesOf(out["c2a"])

CompleteInv == faults = 0 => RecordedInv /\ (~ShutsDown => StaysOn /\ EndsInOrder)

LEMMA RawLeaves ==
    ASSUME NEW l \in Lines
    PROVE  EchoLeaves(raw(l)) <=> EchoLeaves(l)
  BY DEF Lines, raw, EchoLeaves

\* One turn of the agent.
LEMMA AgentTurn ==
    ASSUME Types, AgentRead
    PROVE  LET f == out["c2a"][drained["c2a"] + 1]
           IN  agent'.leaving = EchoLeaves(f) /\ agent'.status = agent.status
                 /\ agent'.code = agent.code
  <1> DEFINE f    == out["c2a"][drained["c2a"] + 1]
             ans  == EchoAnswer(agent.state, f)
             said == [i \in DOMAIN ans |-> OnStdout(ans[i])]
  <1>1. PICK x \in {<<>>, <<Chunk>>} \cup {<<OnStdout(l)>> : l \in AgentExtras} :
          agent' = [agent EXCEPT !.state = EchoNext(@, f), !.leaving = EchoLeaves(f),
                                 !.outq = x \o said]
    BY DEF AgentRead
  <1> HIDE DEF f, ans, said
  <1> QED
    BY <1>1 DEF Types, AgentOK, AgentRecords, f

LEMMA StaysOnStep ==
    ASSUME PlanOK, Types, ~ShutsDown, StaysOn, Recording
    PROVE  StaysOn'
  <1>0. /\ tpc \in [Directions -> {"unborn", "read", "forward", "record", "done"}]
        /\ hand \in [Directions -> Frames] /\ out \in [Directions -> Seq(Frames)]
        /\ sent \in [Directions -> Seq(Lines)] /\ taken \in [Directions -> Nat]
        /\ Directions = {"c2a", "a2c"}
    BY DEF Types, ThreadsOK, PipesOK, Directions
  <1>1. CASE UNCHANGED <<sent, out, tpc, hand>> /\ agent'.leaving = agent.leaving
    BY <1>1 DEF StaysOn
  <1>2. ASSUME NEW d \in Directions, Thread(d) PROVE StaysOn'
    <2>1. UNCHANGED <<sent, agent>>
      BY <1>2 DEF Thread, ThreadRead, ThreadEof, ThreadForward, ThreadRecord, pipes, others
    <2>2. CASE d = "a2c"
      <3>1. /\ tpc'["c2a"] = tpc["c2a"] /\ hand'["c2a"] = hand["c2a"]
            /\ out'["c2a"] = out["c2a"]
        BY <1>0, <1>2, <2>2 DEF Thread, ThreadRead, ThreadEof, ThreadForward, ThreadRecord,
                                threads, pipes
      <3> QED
        BY <2>1, <3>1 DEF StaysOn
    <2>3. CASE d = "c2a"
      <3>1. CASE ThreadRead("c2a")
        <4> DEFINE l == sent["c2a"][taken["c2a"] + 1]
        <4>1. l \in Lines /\ ~EchoLeaves(l)
          <5>1. taken["c2a"] + 1 \in DOMAIN sent["c2a"]
            BY <1>0, <3>1 DEF ThreadRead
          <5> QED
            BY <1>0, <5>1 DEF StaysOn
        <4>2. ~EchoLeaves(raw(l))
          BY <4>1, RawLeaves
        <4>3. /\ out' = out
              /\ \/ UNCHANGED <<tpc, hand>>
                 \/ tpc'["c2a"] = "forward" /\ hand'["c2a"] = raw(l)
                 \/ tpc'["c2a"] = "done"
          BY <1>0, <3>1 DEF ThreadRead, threads
        <4> HIDE DEF l
        <4> QED
          BY <2>1, <4>2, <4>3 DEF StaysOn
      <3>2. CASE ThreadForward("c2a")
        <4>1. /\ hand' = hand /\ ~EchoLeaves(hand["c2a"])
              /\ out'["c2a"] = out["c2a"] \/ out'["c2a"] = Append(out["c2a"], hand["c2a"])
          BY <1>0, <3>2 DEF ThreadForward, StaysOn
        <4>2. out["c2a"] \in Seq(Frames) /\ hand["c2a"] \in Frames
          BY <1>0
        <4>3. \A i \in DOMAIN out'["c2a"] : ~EchoLeaves(out'["c2a"][i])
          BY <4>1, <4>2 DEF StaysOn
        <4> QED
          BY <2>1, <4>1, <4>3 DEF StaysOn
      <3>3. CASE ThreadEof("c2a") \/ ThreadRecord("c2a")
        <4>1. tpc'["c2a"] \in {"read", "done"} /\ out' = out
          BY <1>0, <3>3 DEF ThreadEof, ThreadRecord, pipes
        <4> QED
          BY <2>1, <4>1 DEF StaysOn
      <3> QED
        BY <1>2, <2>3, <3>1, <3>2, <3>3 DEF Thread
    <2> QED
      BY <1>0, <2>2, <2>3
  <1>3. CASE RecordingSend
    <2>1. Sent \in Nat /\ Sent + 1 \in 1 .. Len(script)
      BY <1>0, <1>3, ScriptIsFrames DEF RecordingSend, Sent
    <2>2. PICK l \in Lines : l = script[Sent + 1] /\ ~EchoLeaves(l)
      BY <2>1, ScriptIsFrames DEF ShutsDown, Raws
    <2>3. /\ sent'["c2a"] = Append(sent["c2a"], l)
          /\ UNCHANGED <<out, tpc, hand, agent>>
      BY <1>0, <1>3, <2>2 DEF RecordingSend, ClientSend, threads, others
    <2>4. \A i \in DOMAIN sent'["c2a"] : ~EchoLeaves(sent'["c2a"][i])
      <3>1. sent["c2a"] \in Seq(Lines)
        BY <1>0
      <3> QED
        BY <2>2, <2>3, <3>1 DEF StaysOn
    <2> QED
      BY <2>3, <2>4 DEF StaysOn
  <1>4. CASE AgentRead
    <2> DEFINE f == out["c2a"][drained["c2a"] + 1]
    <2>1. ~EchoLeaves(f)
      <3>1. drained["c2a"] + 1 \in DOMAIN out["c2a"]
        <4>1. drained["c2a"] \in Nat /\ Len(out["c2a"]) \in Nat
          BY <1>0 DEF Types, PipesOK
        <4>2. drained["c2a"] < Len(out["c2a"])
          BY <1>4 DEF AgentRead
        <4> QED
          BY <1>0, <4>1, <4>2
      <3> QED
        BY <3>1 DEF StaysOn
    <2>2. agent'.leaving = EchoLeaves(f) /\ UNCHANGED <<sent, out, tpc, hand>>
      BY <1>4, AgentTurn DEF AgentRead, threads
    <2> HIDE DEF f
    <2> QED
      BY <2>1, <2>2 DEF StaysOn
  <1>5. CASE AgentWrite \/ AgentExit \/ AgentDie
    <2>1. /\ UNCHANGED <<out, tpc, hand>> /\ agent'.leaving = agent.leaving
          /\ sent'["c2a"] = sent["c2a"]
      BY <1>0, <1>5 DEF AgentWrite, AgentExit, AgentExits, AgentDie, threads, pipes, Types, AgentOK,
                        AgentRecords
    <2> QED
      BY <2>1 DEF StaysOn
  <1>6. CASE Main
    <2>1. CASE MainSpawn
      <3>1. /\ UNCHANGED <<sent, out, hand>> /\ agent'.leaving = agent.leaving
            /\ tpc'["c2a"] = "read" \/ tpc' = tpc
        BY <2>1 DEF MainSpawn, pipes, Directions, Types, AgentOK, AgentRecords
      <3> QED
        BY <3>1 DEF StaysOn
    <2>2. CASE ~MainSpawn
      BY <1>1, <1>6, <2>2 DEF Main, MainCreate, MainWait, MainJoinA2c, MainJoinStderr,
                 MainFinalize, MainJoinC2a, pipes, threads
    <2> QED
      BY <2>1, <2>2
  <1>7. CASE Stderr \/ ClientRead \/ RecordingClose \/ RecordingQuit
    BY <1>1, <1>7 DEF Stderr, StderrCopy, StderrEof, ClientRead, RecordingClose, ClientClose,
                      RecordingQuit, ClientQuit, pipes, threads, others
  <1> QED
    BY <1>2, <1>3, <1>4, <1>5, <1>6, <1>7 DEF Recording, Agent, RecordingClient

\* At the end of its input c2a has forwarded the client's lines as they are.
LEMMA AllForwardedAtEof ==
    ASSUME PlanOK, Types, ForwardInv, RecordedInv, ThreadEof("c2a")
    PROVE  AllForwarded
  <1>1. PICK s \in Seq(Lines) : s = sent["c2a"]
    BY DEF Types, PipesOK, Directions
  <1>2. s \in Seq(Raws)
    <2>1. \A i \in 1 .. Len(s) : s[i] \in Raws
      BY <1>1, ScriptIsFrames DEF RecordedInv
    <2> QED
      BY <1>1, <2>1
  <1>3. taken["c2a"] = Len(s) /\ tpc["c2a"] = "read" /\ ~client.writes
    BY <1>1 DEF ThreadEof, SourceOpen
  <1>4. SubSeq(s, 1, Len(s)) = s
    BY <1>1
  <1>5. Got("c2a") = s
    BY <1>1, <1>2, <1>3, <1>4, FramesInScript DEF Got
  <1>6. out["c2a"] = Got("c2a")
    BY <1>3 DEF ForwardInv, Forwarding, Directions
  <1> QED
    BY <1>1, <1>3, <1>5, <1>6 DEF AllForwarded

\* Every line of the client's is a frame.
LEMMA ClientLineParses ==
    ASSUME PlanOK, Types, RecordedInv, ThreadRead("c2a")
    PROVE  tpc'["c2a"] # "done"
  <1> DEFINE l == sent["c2a"][taken["c2a"] + 1]
  <1>1. /\ sent["c2a"] \in Seq(Lines) /\ taken["c2a"] \in Nat
        /\ tpc \in [Directions -> {"unborn", "read", "forward", "record", "done"}]
        /\ "c2a" \in Directions
    BY DEF Types, PipesOK, ThreadsOK, Directions
  <1>2. taken["c2a"] + 1 \in 1 .. Len(sent["c2a"]) /\ tpc["c2a"] = "read"
    BY <1>1 DEF ThreadRead
  <1>3. l \in Raws
    <2>1. PICK k \in 1 .. Len(sent["c2a"]) : k = taken["c2a"] + 1
      BY <1>2
    <2>2. Len(sent["c2a"]) <= Len(script) /\ sent["c2a"][k] = script[k]
      BY DEF RecordedInv
    <2>3. Len(sent["c2a"]) \in Nat
      BY <1>1
    <2>4. k \in 1 .. Len(script)
      BY <2>2, <2>3, ScriptIsFrames
    <2> QED
      BY <2>1, <2>2, <2>4, ScriptIsFrames
  <1>4. ~IsBlank(l) /\ Parses(l)
    BY <1>3 DEF Raws, Parses, IsBlank
  <1> HIDE DEF l
  <1>5. tpc' = [tpc EXCEPT !["c2a"] = "forward"]
    BY <1>4 DEF ThreadRead, l
  <1> QED
    BY <1>1, <1>5

LEMMA EndsInOrderStep ==
    ASSUME PlanOK, Types, ForwardInv, MirrorInv, RecordedInv, faults = 0, ~Fails,
           StaysOn, EndsInOrder, Recording
    PROVE  EndsInOrder'
  <1>0. /\ tpc \in [Directions -> {"unborn", "read", "forward", "record", "done"}]
        /\ sent \in [Directions -> Seq(Lines)] /\ out \in [Directions -> Seq(Frames)]
        /\ Directions = {"c2a", "a2c"}
        /\ agent \in AgentRecords /\ client \in [writes : BOOLEAN, reads : BOOLEAN]
        /\ log \in Seq(Rows) /\ pend \in Seq(Rows)
    BY DEF Types, ThreadsOK, PipesOK, Directions, AgentOK, TraceOK, RunOK
  <1>1. CASE /\ UNCHANGED <<agent, mpc, phase, log, pend>> /\ tpc'["c2a"] = tpc["c2a"]
             /\ sent'["c2a"] = sent["c2a"] /\ out'["c2a"] = out["c2a"]
             /\ client'.writes = client.writes \/ ~client'.writes
    BY <1>1 DEF EndsInOrder, AllForwarded, CleanExit, Alive, HeldHashes, Held, HashesOf
  <1>2. CASE Thread("c2a")
    <2>1. tpc["c2a"] # "done" /\ ~CleanExit
      BY <1>2 DEF Thread, ThreadRead, ThreadEof, ThreadForward, ThreadRecord, EndsInOrder
    <2>2. UNCHANGED <<client, agent, mpc>> /\ sent' = sent
      BY <1>2 DEF Thread, ThreadRead, ThreadEof, ThreadForward, ThreadRecord, others, pipes
    <2>3. tpc'["c2a"] = "done" /\ Alive => AllForwarded /\ out' = out
      <3>1. CASE ThreadRead("c2a")
        BY <3>1, ClientLineParses
      <3>2. CASE ThreadEof("c2a")
        BY <3>2, AllForwardedAtEof DEF ThreadEof, pipes
      <3>3. CASE ThreadForward("c2a")
        BY <1>0, <3>3 DEF ThreadForward, SinkOpen
      <3>4. CASE ThreadRecord("c2a")
        BY <1>0, <3>4 DEF ThreadRecord
      <3> QED
        BY <1>2, <3>1, <3>2, <3>3, <3>4 DEF Thread
    <2> QED
      BY <2>1, <2>2, <2>3 DEF EndsInOrder, AllForwarded, CleanExit, Alive
  <1>3. CASE Thread("a2c")
    <2>1. /\ UNCHANGED <<client, agent, mpc, phase>> /\ tpc'["c2a"] = tpc["c2a"]
          /\ sent' = sent /\ out'["c2a"] = out["c2a"]
          /\ phase # "open" => UNCHANGED <<log, pend>>
      BY <1>0, <1>3 DEF Thread, ThreadRead, ThreadEof, ThreadForward, ThreadRecord, others,
                   threads, pipes, trace, T!Record
    <2> QED
      BY <2>1 DEF EndsInOrder, AllForwarded, CleanExit, Alive, HeldHashes, Held, HashesOf
  <1>4. CASE AgentRead \/ AgentWrite \/ AgentExit \/ AgentDie
    <2>1. /\ Alive /\ UNCHANGED <<client, mpc, tpc, phase, log, pend>> /\ out' = out
          /\ sent'["c2a"] = sent["c2a"]
      BY <1>0, <1>4 DEF AgentRead, AgentWrite, AgentExit, AgentDie, threads, trace, pipes
    <2>2. phase # "sealed" /\ ~CleanExit
          /\ mpc \notin {"join_a2c", "join_stderr", "finalize", "join_c2a", "returned"}
      BY <2>1 DEF EndsInOrder, MirrorInv, Phases, Alive, CleanExit
    <2>3. (CleanExit' => tpc["c2a"] = "done") /\ agent'.status # "unborn"
      <3>1. CASE AgentRead
        BY <2>1, <3>1, AgentTurn DEF Alive, CleanExit
      <3>2. CASE AgentWrite
        <4>1. \/ agent' = [agent EXCEPT !.outq = Tail(agent.outq)]
              \/ agent' = [agent EXCEPT !.status = "code", !.code = 1, !.outq = <<>>]
          BY <3>2 DEF AgentWrite, AgentExits
        <4>2. \/ agent'.status = agent.status
              \/ agent'.status = "code" /\ agent'.code = 1
          BY <1>0, <4>1 DEF AgentRecords
        <4> QED
          BY <2>1, <4>2 DEF CleanExit, Alive
      <3>3. CASE AgentExit
        BY <1>0, <3>3 DEF AgentExit, AgentExits, AgentRecords, StaysOn
      <3>4. CASE AgentDie
        BY <1>0, <3>4 DEF AgentDie, AgentRecords, CleanExit
      <3> QED
        BY <1>4, <3>1, <3>2, <3>3, <3>4
    <2>4. tpc["c2a"] = "done" => AllForwarded
      BY <2>1 DEF EndsInOrder
    <2> QED
      BY <2>1, <2>2, <2>3, <2>4 DEF EndsInOrder, AllForwarded
  <1>5. CASE MainFinalize
    <2>1. /\ mpc = "finalize" /\ T!Seal /\ mpc' = "join_c2a"
          /\ UNCHANGED <<out, sent, tpc, client, agent>>
      BY <1>5 DEF MainFinalize, pipes, threads
    <2>2. phase = "open" /\ log' = log \o pend /\ pend' = <<>>
      BY <2>1 DEF T!Seal
    <2>3. Held' = Held
      <3>1. Held' = log' \o <<>> /\ log' = Held
        BY <2>2 DEF Held
      <3>2. Held \in Seq(Rows)
        BY <1>0 DEF Held
      <3> QED
        BY <3>1, <3>2, ConcatEmptySeq
    <2>4. CleanExit => HeldHashes("c2a") = HashesOf(out["c2a"])
      BY <1>0, <2>2 DEF EndsInOrder, MirrorInv, Mirroring
    <2>5. HeldHashes("c2a")' = HeldHashes("c2a") /\ HashesOf(out["c2a"])' = HashesOf(out["c2a"])
      BY <2>1, <2>3 DEF HeldHashes, HashesOf
    <2> QED
      BY <2>1, <2>4, <2>5 DEF EndsInOrder, CleanExit, Alive, AllForwarded
  <1>6. CASE Main /\ ~MainFinalize
    <2>1. CASE MainCreate
      <3>1. tpc["c2a"] = "unborn"
        BY <1>0, <2>1 DEF MainCreate, NotSpawned, ForwardInv
      <3>2. mpc' = "spawn" /\ phase' = "open" /\ UNCHANGED <<tpc, agent>>
        BY <2>1 DEF MainCreate, T!Begin, threads
      <3> QED
        BY <3>1, <3>2 DEF EndsInOrder, CleanExit
    <2>2. CASE MainSpawn
      <3>1. /\ mpc' = "wait" /\ agent'.status = "running" /\ tpc'["c2a"] = "read"
        BY <1>0, <2>2 DEF MainSpawn, AgentRecords
      <3> QED
        BY <3>1 DEF EndsInOrder, CleanExit
    <2>3. CASE MainWait
      <3>1. mpc' = "join_a2c" /\ UNCHANGED <<pipes, threads, client, agent, trace>>
        BY <2>3 DEF MainWait
      <3>2. mpc = "wait" /\ agent.status # "running"
        BY <2>3 DEF MainWait, Alive
      <3>3. agent.status \in {"code", "signal"}
        BY <1>0, <3>2 DEF AgentRecords, EndsInOrder
      <3> QED
        BY <3>1, <3>3 DEF EndsInOrder, AllForwarded, CleanExit, Alive, HeldHashes, Held,
                          HashesOf, pipes, threads, trace
    <2>4. CASE MainJoinA2c \/ MainJoinStderr \/ MainJoinC2a
      <3>1. /\ UNCHANGED <<pipes, threads, client, agent, trace>>
            /\ mpc \in {"join_a2c", "join_stderr", "join_c2a"}
        BY <2>4 DEF MainJoinA2c, MainJoinStderr, MainJoinC2a
      <3> QED
        BY <3>1 DEF EndsInOrder, AllForwarded, CleanExit, Alive, HeldHashes, Held,
                    HashesOf, pipes, threads, trace
    <2> QED
      BY <1>6, <2>1, <2>2, <2>3, <2>4 DEF Main
  <1>7. CASE RecordingSend
    <2>1. /\ client.writes /\ UNCHANGED <<client, agent, mpc, tpc, phase, log, pend, out>>
      BY <1>7 DEF RecordingSend, ClientSend, threads, others, trace
    <2> QED
      BY <2>1 DEF EndsInOrder, AllForwarded, CleanExit, Alive, HeldHashes, Held, HashesOf
  <1>8. CASE ClientRead \/ RecordingClose \/ RecordingQuit
    BY <1>0, <1>1, <1>8 DEF ClientRead, RecordingClose, ClientClose, RecordingQuit, ClientQuit,
                       threads, others, trace, pipes
  <1>9. CASE Stderr
    BY <1>1, <1>9 DEF Stderr, StderrCopy, StderrEof, threads, trace, pipes
  <1> QED
    BY <1>0, <1>2, <1>3, <1>4, <1>5, <1>6, <1>7, <1>8, <1>9
       DEF Recording, Agent, RecordingClient

\* If no call fails and the agent, not asked to shut down, exits with 0, a
\* sealed trace holds every frame the client has written and every frame it
\* was given: for all scripts, agent outputs, pipes and interleavings, and
\* also if the client has gone away in the middle.
THEOREM SessionCompleteAfterCleanExit ==
    SessionSpec => [](faults = 0 => CompleteAfterCleanExit)
  <1>1. SessionInit => CompleteInv
    <2> SUFFICES ASSUME SessionInit PROVE RecordedInv /\ StaysOn /\ EndsInOrder
      BY DEF CompleteInv
    <2>1. /\ sent["c2a"] = <<>> /\ out["c2a"] = <<>> /\ tpc["c2a"] = "unborn"
          /\ mpc = "create" /\ phase = "closed"
          /\ agent.status = "unborn" /\ ~agent.leaving
      BY DEF SessionInit, Init, T!Init, Directions
    <2> QED
      BY <2>1, RecordedStart DEF StaysOn, EndsInOrder, CleanExit
  <1>2. PlanOK /\ Types /\ ForwardInv /\ MirrorInv /\ CompleteInv /\ [SessionNext]_sessionVars
          => CompleteInv'
    <2> SUFFICES ASSUME PlanOK, Types, ForwardInv, MirrorInv, CompleteInv,
                        [SessionNext]_sessionVars, faults' = 0
                 PROVE  RecordedInv' /\ (~ShutsDown' => (StaysOn /\ EndsInOrder)')
      BY DEF CompleteInv
    <2>1. faults = 0 /\ ~Fails
      BY RecordingIsNext, NoFault
    <2>2. RecordedInv /\ RecordedInv'
      BY <2>1, RecordedStep DEF CompleteInv
    <2>3. SUFFICES ASSUME ~ShutsDown' PROVE (StaysOn /\ EndsInOrder)'
      BY <2>2
    <2>4. ~ShutsDown
      BY <2>3 DEF SessionNext, Recording, StartReplay, Replaying, Ended, sessionVars, plan,
                  ShutsDown
    <2>5. StaysOn /\ EndsInOrder
      BY <2>1, <2>4 DEF CompleteInv
    <2>6. CASE UNCHANGED vars
      BY <2>5, <2>6 DEF vars, pipes, threads, others, trace, StaysOn, EndsInOrder, CleanExit,
                        Alive, AllForwarded, HeldHashes, Held, HashesOf
    <2>7. CASE Recording
      BY <2>1, <2>2, <2>4, <2>5, <2>7, StaysOnStep, EndsInOrderStep
    <2> QED
      BY <2>6, <2>7 DEF SessionNext, StartReplay, Replaying, Ended, sessionVars
  <1>3. Types /\ MirrorInv /\ CompleteInv => (faults = 0 => CompleteAfterCleanExit)
    <2> SUFFICES ASSUME Types, MirrorInv, CompleteInv, faults = 0, phase = "sealed", CleanExit,
                        ~ShutsDown
                 PROVE  /\ Logged("c2a") = HashesOf(sent["c2a"])
                        /\ Logged("a2c") = HashesOf(out["a2c"])
      BY DEF CompleteAfterCleanExit, CleanExit
    <2>1. /\ HeldHashes("c2a") = HashesOf(out["c2a"]) /\ out["c2a"] = sent["c2a"]
          /\ HeldHashes("a2c") = HashesOf(out["a2c"])
      BY DEF MirrorInv, Mirroring, CompleteInv, EndsInOrder, AllForwarded, Directions
    <2>2. \A d \in Directions : Logged(d) = HeldHashes(d)
      BY LoggedIsHeld
    <2> QED
      BY <2>1, <2>2 DEF Directions
  <1> QED
    BY <1>1, <1>2, <1>3, AlwaysRecords, PTL DEF SessionSpec

-----------------------------------------------------------------------------
(* The finished trace *)

\* What run() has returned with: rows numbered by their position, each with
\* a blob that loads; those of the client are its script as far as they go,
\* those of the agent what the client was given.
Finished == mpc = "returned" /\ faults = 0

Taped ==
    /\ log \in Seq(TellingRows)
    /\ \A i \in 1 .. Len(log) : log[i].seq = i - 1 /\ Loads(cas, log[i])
    /\ \A h \in DOMAIN cas : cas[h] \in Frames
    /\ Len(Only(log, RowsOf("c2a"))) <= Len(script)
    /\ \A k \in 1 .. Len(Only(log, RowsOf("c2a"))) :
         Only(log, RowsOf("c2a"))[k].hash = payload_hash(script[k])
    /\ out["a2c"] \in Seq(Frames) /\ Len(Only(log, RowsOf("a2c"))) = Len(out["a2c"])
    /\ \A k \in 1 .. Len(out["a2c"]) :
         cas[Only(log, RowsOf("a2c"))[k].hash] = out["a2c"][k]

LEMMA FinishedTaped ==
    ASSUME OneLayout, PlanOK, Types, ForwardInv, MirrorInv, BlobsMatch, SeqIsPosition,
           RecordedInv, Finished
    PROVE  Taped
  <1>1. /\ faults = 0 /\ phase = "sealed" /\ "a2c" \in Directions /\ "c2a" \in Directions
        /\ out \in [Directions -> Seq(Frames)] /\ sent \in [Directions -> Seq(Lines)]
        /\ log \in Seq(Rows)
    BY DEF Finished, RecordedInv, Directions, Types, PipesOK, TraceOK
  <1>2. Held = log
    BY <1>1, ConcatEmptySeq DEF MirrorInv, NothingWaits, Held
  <1>3. log \in Seq(TellingRows) /\ log \in Seq(Backed)
    BY <1>1, <1>2 DEF RecordedInv, BlobsMatch
  <1>4. \A h \in DOMAIN cas : cas[h] \in Frames /\ payload_hash(cas[h]) = h
    BY <1>1 DEF BlobsMatch
  <1>5. \A i \in 1 .. Len(log) : log[i].seq = i - 1 /\ Loads(cas, log[i])
    <2> SUFFICES ASSUME NEW i \in 1 .. Len(log) PROVE log[i].seq = i - 1 /\ Loads(cas, log[i])
      OBVIOUS
    <2>1. i \in DOMAIN log /\ log[i] \in Backed
      BY <1>3
    <2>2. log[i].hash \in DOMAIN cas /\ cas[log[i].hash] \in Raws
      BY <1>4, <2>1, FramesAssumption DEF Backed
    <2> QED
      BY <1>4, <2>1, <2>2 DEF SeqIsPosition, Loads, Raws
  <1>6. \A d \in Directions :
          /\ Only(log, RowsOf(d)) \in Seq(Backed \cap RowsOf(d))
          /\ Logged(d) = HeldHashes(d)
          /\ Len(Logged(d)) = Len(Only(log, RowsOf(d)))
          /\ \A k \in 1 .. Len(Logged(d)) : Logged(d)[k] = Only(log, RowsOf(d))[k].hash
    <2> SUFFICES ASSUME NEW d \in Directions
                 PROVE  /\ Only(log, RowsOf(d)) \in Seq(Backed \cap RowsOf(d))
                        /\ Logged(d) = HeldHashes(d)
                        /\ Len(Logged(d)) = Len(Only(log, RowsOf(d)))
                        /\ \A k \in 1 .. Len(Logged(d)) : Logged(d)[k] = Only(log, RowsOf(d))[k].hash
      OBVIOUS
    <2>1. PICK mine : mine = Only(log, RowsOf(d))
      OBVIOUS
    <2>2. mine \in Seq(Backed \cap RowsOf(d))
      BY <1>3, <2>1, OnlyType
    <2>3. Logged(d) = [i \in DOMAIN mine |-> mine[i].hash]
      BY <2>1 DEF Logged, RowHashes
    <2>4. Len(Logged(d)) = Len(mine) /\ \A k \in 1 .. Len(mine) : Logged(d)[k] = mine[k].hash
      BY <2>2, <2>3
    <2> QED
      BY <1>1, <2>1, <2>2, <2>4, LoggedIsHeld
  <1>7. \A d \in Directions : \A k \in DOMAIN out[d] : HashesOf(out[d])[k] = payload_hash(out[d][k])
    BY DEF HashesOf
  <1>8. \A d \in Directions : Len(HashesOf(out[d])) = Len(out[d])
    BY <1>1 DEF HashesOf
  <1>9. /\ Len(Only(log, RowsOf("c2a"))) <= Len(script)
        /\ \A k \in 1 .. Len(Only(log, RowsOf("c2a"))) :
             Only(log, RowsOf("c2a"))[k].hash = payload_hash(script[k])
    <2>1. PICK mine : mine = Only(log, RowsOf("c2a"))
      OBVIOUS
    <2>2. PICK o \in Seq(Frames) : o = out["c2a"]
      BY <1>1
    <2>3. PICK s \in Seq(Lines) : s = sent["c2a"]
      BY <1>1
    <2>4. Len(s) <= Len(script) /\ \A i \in 1 .. Len(s) : s[i] = script[i]
      BY <2>3 DEF RecordedInv
    <2>5. s \in Seq(Raws)
      <3>1. \A i \in 1 .. Len(s) : s[i] \in Raws
        BY <2>4, ScriptIsFrames
      <3> QED
        BY <2>3, <3>1
    <2>6. FramesIn(s) = s
      BY <2>5, FramesInScript
    <2>7. Len(o) <= Len(s) /\ \A i \in 1 .. Len(o) : o[i] = s[i]
      BY <1>1, <2>2, <2>3, <2>6, ForwardedPrefix
    <2>8. /\ Len(mine) <= Len(o)
          /\ \A i \in 1 .. Len(mine) : mine[i].hash = HashesOf(o)[i]
      <3>1. Logged("c2a") = HeldHashes("c2a") /\ Len(HashesOf(o)) = Len(o)
            /\ Len(Logged("c2a")) = Len(mine)
            /\ \A k \in 1 .. Len(Logged("c2a")) : Logged("c2a")[k] = mine[k].hash
        BY <1>1, <1>6, <1>8, <2>1, <2>2
      <3>2. /\ Len(HeldHashes("c2a")) <= Len(HashesOf(o))
            /\ \A i \in 1 .. Len(HeldHashes("c2a")) : HeldHashes("c2a")[i] = HashesOf(o)[i]
        BY <1>1, <2>2 DEF MirrorInv, Mirroring
      <3> QED
        BY <3>1, <3>2
    <2>9. Len(mine) \in Nat /\ Len(o) \in Nat /\ Len(s) \in Nat /\ Len(script) \in Nat
      BY <1>1, <1>6, <2>1, ScriptIsFrames
    <2>10. \A i \in 1 .. Len(o) : HashesOf(o)[i] = payload_hash(o[i])
      BY DEF HashesOf
    <2> QED
      BY <2>1, <2>4, <2>7, <2>8, <2>9, <2>10
  <1>10. /\ Len(Only(log, RowsOf("a2c"))) = Len(out["a2c"])
         /\ \A k \in 1 .. Len(out["a2c"]) : cas[Only(log, RowsOf("a2c"))[k].hash] = out["a2c"][k]
    <2>1. PICK mine : mine = Only(log, RowsOf("a2c"))
      OBVIOUS
    <2>2. PICK o \in Seq(Frames) : o = out["a2c"]
      BY <1>1
    <2>3. Logged("a2c") = HashesOf(o)
      BY <1>1, <1>6, <2>2 DEF MirrorInv, Mirroring
    <2>4. mine \in Seq(Backed \cap RowsOf("a2c")) /\ Len(mine) = Len(o)
      BY <1>1, <1>6, <1>8, <2>1, <2>2, <2>3
    <2>5. ASSUME NEW k \in 1 .. Len(o) PROVE cas[mine[k].hash] = o[k]
      <3>1. k \in DOMAIN o /\ o[k] \in Frames /\ mine[k] \in Backed
        BY <2>4
      <3>2. mine[k].hash = payload_hash(o[k])
        BY <1>1, <1>6, <1>7, <2>1, <2>2, <2>3, <2>4, <3>1
      <3>3. cas[mine[k].hash] \in Frames /\ payload_hash(cas[mine[k].hash]) = payload_hash(o[k])
        BY <1>4, <3>1, <3>2 DEF Backed
      <3> QED
        BY <3>1, <3>3 DEF OneLayout
    <2> QED
      BY <2>1, <2>2, <2>4, <2>5
  <1>11. out["a2c"] \in Seq(Frames)
    BY <1>1
  <1> QED
    BY <1>3, <1>4, <1>5, <1>9, <1>10, <1>11 DEF Taped

-----------------------------------------------------------------------------
(* The replay *)

\* The rows of one direction, those among the first n, and whether the
\* client has asked something as x in them.
Mine(d)      == Only(log, RowsOf(d))
MineIn(n, d) == Only(SubSeq(log, 1, n), RowsOf(d))
AsksAt(x, q) == log[q].dir = "c2a" /\ log[q].kind = "request" /\ log[q].id = x
Asked(x, n)  == \E q \in 1 .. n : AsksAt(x, q)

\* The line the replay writes for the i-th row of the agent.
AskedBefore(row) == \E q \in DOMAIN log : Asks(log[q], row) /\ log[q].seq < row.seq
Expected(i) ==
    IF remap /\ AskedBefore(Mine("a2c")[i])
    THEN [out["a2c"][i] EXCEPT !.id = Renumber[@]] ELSE out["a2c"][i]

\* The id map knows the new id of every request passed, unless it is the old.
IdsKnown ==
    /\ DOMAIN id_map \subseteq Ids
    /\ ~remap => DOMAIN id_map = {}
    /\ \A x \in DOMAIN id_map : id_map[x] = Renumber[x] /\ Asked(x, cursor)
    /\ remap => \A x \in Ids : Asked(x, cursor) => x \in DOMAIN id_map \/ Renumber[x] = x

\* Everything before the cursor was taken from the client or written to it
\* as expected, and the engine ends at the end of the trace only.
ReplayInv ==
    /\ remap \in BOOLEAN
    /\ pc = "off" => cursor = 0 /\ rout = <<>> /\ accepted = <<>> /\ DOMAIN id_map = {}
    /\ pc # "off" =>
         /\ mpc = "returned"
         /\ pc \in {"emit", "read", "ok", "exhausted"}
         /\ cursor \in 0 .. Len(log)
         /\ accepted \in Seq(Lines) /\ Len(accepted) = Len(MineIn(cursor, "c2a"))
         /\ rout \in Seq(Lines) /\ Len(rout) = Len(MineIn(cursor, "a2c"))
         /\ \A i \in 1 .. Len(rout) : rout[i] = Expected(i)
         /\ IdsKnown
         /\ pc = "read" => ~R!AtAgentRow
         /\ pc \in {"ok", "exhausted"} => cursor = Len(log)

\* Replay reads rows and lines as Proxy writes them.
LEMMA ReplayFormat ==
    /\ \A i : R!from_value(i) = from_value(i)
    /\ R!None = None
    /\ \A l : R!payload_hash(l) = payload_hash(l) /\ R!raw(l) = raw(l)
    /\ \A c, row : R!Loads(c, row) <=> Loads(c, row)
    /\ \A S : R!Min(S) = Min(S)
  <1>1. R!None = None
    BY DEF R!None, None
  <1>2. \A i : R!from_value(i) = from_value(i)
    BY <1>1 DEF R!from_value, from_value
  <1>3. \A l : R!payload_hash(l) = payload_hash(l) /\ R!raw(l) = raw(l)
    BY DEF R!payload_hash, payload_hash, R!raw, raw
  <1>4. \A l : R!kind(l) = kind(l)
    BY <1>1, <1>2 DEF R!kind, kind
  <1>5. \A l : R!Parses(l) <=> Parses(l)
    BY <1>4 DEF R!Parses, Parses
  <1>6. \A c, row : R!Loads(c, row) <=> Loads(c, row)
    BY <1>3, <1>5 DEF R!Loads, Loads
  <1>7. \A S : R!Min(S) = Min(S)
    BY DEF R!Min, Min
  <1> QED
    BY <1>1, <1>2, <1>3, <1>6, <1>7

\* Once run() has returned, nothing writes to the trace or to the client.
LEMMA Frozen ==
    ASSUME mpc = "returned", [Next]_vars
    PROVE  UNCHANGED <<mpc, log, cas, out>>
  BY DEF Next, Thread, Stderr, Main, Agent, Client, Stopped, vars, trace, pipes, others, Running,
         ThreadRead, ThreadEof, ThreadForward, ThreadRecord, StderrCopy, StderrEof,
         MainCreate, MainSpawn, MainWait, MainJoinA2c, MainJoinStderr, MainFinalize,
         MainJoinC2a, AgentRead, AgentWrite, AgentExit, AgentDie, ClientSend, ClientRead,
         ClientClose, ClientQuit

\* Passing the row c + 1.
LEMMA PassRow ==
    ASSUME log \in Seq(TellingRows), NEW c \in 0 .. Len(log) - 1, NEW d \in Directions
    PROVE  /\ Len(MineIn(c, d)) \in Nat
           /\ Len(MineIn(c + 1, d)) =
                 Len(MineIn(c, d)) + (IF log[c + 1].dir = d THEN 1 ELSE 0)
           /\ log[c + 1].dir = d =>
                /\ Len(MineIn(c, d)) + 1 \in 1 .. Len(Mine(d))
                /\ Mine(d)[Len(MineIn(c, d)) + 1] = log[c + 1]
  <1>1. log[c + 1] \in TellingRows
    BY DEF TellingRows
  <1>2. log[c + 1] \in RowsOf(d) <=> log[c + 1].dir = d
    BY <1>1 DEF TellingRows, RowsOf
  <1>3. PICK p : p = Only(SubSeq(log, 1, c), RowsOf(d))
    OBVIOUS
  <1>4. PICK q : q = Only(log, RowsOf(d))
    OBVIOUS
  <1>5. /\ Only(SubSeq(log, 1, c + 1), RowsOf(d)) =
             IF log[c + 1] \in RowsOf(d) THEN Append(p, log[c + 1]) ELSE p
        /\ log[c + 1] \in RowsOf(d) => Len(p) + 1 \in DOMAIN q /\ q[Len(p) + 1] = log[c + 1]
    BY <1>3, <1>4, OnlyNext
  <1>6. p \in Seq(TellingRows \cap RowsOf(d)) /\ q \in Seq(TellingRows \cap RowsOf(d))
    BY <1>3, <1>4, OnlyBefore
  <1>7. Len(p) \in Nat /\ DOMAIN q = 1 .. Len(q) /\ Len(Append(p, log[c + 1])) = Len(p) + 1
    BY <1>6
  <1>8. MineIn(c, d) = p /\ Mine(d) = q
    BY <1>3, <1>4 DEF MineIn, Mine
  <1>9. MineIn(c + 1, d) = IF log[c + 1].dir = d THEN Append(p, log[c + 1]) ELSE p
    BY <1>2, <1>5 DEF MineIn
  <1>10. Len(MineIn(c + 1, d)) = Len(p) + (IF log[c + 1].dir = d THEN 1 ELSE 0)
    <2>1. CASE log[c + 1].dir = d
      BY <1>7, <1>9, <2>1
    <2>2. CASE log[c + 1].dir # d
      <3>1. MineIn(c + 1, d) = p
        BY <1>9, <2>2
      <3> QED
        BY <1>7, <2>2, <3>1
    <2> QED
      BY <2>1, <2>2
  <1>11. log[c + 1].dir = d => Len(p) + 1 \in 1 .. Len(q) /\ q[Len(p) + 1] = log[c + 1]
    BY <1>2, <1>5, <1>7
  <1> QED
    BY <1>7, <1>8, <1>10, <1>11

LEMMA RowPassed ==
    ASSUME log \in Seq(TellingRows), NEW c \in 0 .. Len(log) - 1
    PROVE  /\ log[c + 1].dir = "a2c" =>
                /\ Len(MineIn(c + 1, "c2a")) = Len(MineIn(c, "c2a"))
                /\ Len(MineIn(c + 1, "a2c")) = Len(MineIn(c, "a2c")) + 1
           /\ log[c + 1].dir = "c2a" =>
                /\ Len(MineIn(c + 1, "c2a")) = Len(MineIn(c, "c2a")) + 1
                /\ Len(MineIn(c + 1, "a2c")) = Len(MineIn(c, "a2c"))
  <1>1. "c2a" \in Directions /\ "a2c" \in Directions /\ "c2a" # "a2c"
    BY DEF Directions
  <1>2. /\ Len(MineIn(c, "c2a")) \in Nat
        /\ Len(MineIn(c + 1, "c2a")) =
              Len(MineIn(c, "c2a")) + (IF log[c + 1].dir = "c2a" THEN 1 ELSE 0)
    BY <1>1, PassRow
  <1>3. /\ Len(MineIn(c, "a2c")) \in Nat
        /\ Len(MineIn(c + 1, "a2c")) =
              Len(MineIn(c, "a2c")) + (IF log[c + 1].dir = "a2c" THEN 1 ELSE 0)
    BY <1>1, PassRow
  <1> QED
    BY <1>1, <1>2, <1>3

\* Requests have ids.
LEMMA RequestHasId ==
    ASSUME log \in Seq(TellingRows), NEW q \in 1 .. Len(log), log[q].kind = "request"
    PROVE  log[q].id \in Ids
  <1>1. log[q] \in TellingRows
    OBVIOUS
  <1> QED
    BY <1>1 DEF TellingRows, kind, from_value

LEMMA AskedNext ==
    ASSUME NEW c \in Nat, NEW x
    PROVE  Asked(x, c + 1) <=> Asked(x, c) \/ AsksAt(x, c + 1)
  <1>1. 1 .. c + 1 = (1 .. c) \cup {c + 1}
    OBVIOUS
  <1> QED
    BY <1>1 DEF Asked

LEMMA FramesCompact ==
    ASSUME OneLayout, NEW f \in Frames PROVE f.layout = "compact" /\ f \in Lines
  <1> DEFINE g == [f EXCEPT !.layout = "compact"]
  <1>1. f \in Lines /\ f.eol = "lf" /\ Parses(f)
    BY FramesAssumption DEF Raws
  <1>2. g \in Lines /\ g.layout = "compact" /\ g.eol = "lf"
        /\ g.shape = f.shape /\ g.method = f.method /\ g.id = f.id /\ g.outcome = f.outcome
        /\ g.body = f.body
    BY <1>1, WireAssumption DEF Lines
  <1> HIDE DEF g
  <1>3. Parses(g) /\ payload_hash(g) = payload_hash(f)
    BY <1>1, <1>2 DEF Parses, kind, payload_hash
  <1>4. g \in Frames
    BY <1>2, <1>3, FramesComplete DEF Raws
  <1>5. g = f
    BY <1>3, <1>4 DEF OneLayout
  <1> QED
    BY <1>1, <1>2, <1>5

\* What is written for the next row of the agent is what is expected.
LEMMA EmitsExpected ==
    ASSUME OneLayout, Taped, IdsKnown, remap \in BOOLEAN, cursor \in 0 .. Len(log) - 1,
           log[cursor + 1].dir = "a2c"
    PROVE  /\ R!Emission(log[cursor + 1]) = Expected(Len(MineIn(cursor, "a2c")) + 1)
           /\ R!Emission(log[cursor + 1]) \in Lines
  <1>1. PICK row \in TellingRows : row = log[cursor + 1]
    BY DEF Taped
  <1>2. PICK i : i = Len(MineIn(cursor, "a2c")) + 1
    OBVIOUS
  <1>3. i \in 1 .. Len(out["a2c"]) /\ Mine("a2c")[i] = row
    BY <1>1, <1>2, PassRow DEF Taped, Directions, Mine
  <1>4. PICK b : b = cas[row.hash]
    OBVIOUS
  <1>5. b = out["a2c"][i] /\ b \in Frames
    BY <1>3, <1>4 DEF Taped, Mine
  <1>6. b \in Lines /\ b.layout = "compact"
    BY <1>5, FramesCompact
  <1>7. payload_hash(b) = row.hash
    BY <1>1, <1>4 DEF Taped, Loads
  <1>8. row.id = from_value(b.id) /\ row.dir = "a2c"
    BY <1>1, <1>7 DEF TellingRows, payload_hash
  <1>9. AskedBefore(row) <=> row.kind = "response" /\ Asked(row.id, cursor)
    <2>1. /\ DOMAIN log = 1 .. Len(log) /\ Len(log) \in Nat
          /\ \A q \in 1 .. Len(log) : log[q].seq = q - 1
          /\ row.seq = cursor
      <3>1. DOMAIN log = 1 .. Len(log) /\ Len(log) \in Nat
        BY DEF Taped
      <3>2. \A q \in 1 .. Len(log) : log[q].seq = q - 1
        BY DEF Taped
      <3>3. cursor + 1 \in 1 .. Len(log) /\ (cursor + 1) - 1 = cursor
        BY <3>1
      <3>4. row.seq = (cursor + 1) - 1
        BY <1>1, <3>2, <3>3
      <3> QED
        BY <3>1, <3>2, <3>3, <3>4
    <2>2. \A q \in DOMAIN log : log[q].seq < row.seq <=> q \in 1 .. cursor
      BY <2>1
    <2>3. \A q : Asks(log[q], row) <=> row.kind = "response" /\ AsksAt(row.id, q)
      BY <1>8 DEF Asks, AsksAt
    <2>4. 1 .. cursor \subseteq DOMAIN log
      BY <2>1
    <2> QED
      BY <2>2, <2>3, <2>4, Zenon DEF AskedBefore, Asked
  <1>10. R!Emission(row) =
           IF remap /\ row.kind = "response" /\ row.id \in DOMAIN id_map
           THEN [b EXCEPT !.id = id_map[row.id], !.layout = "compact"] ELSE b
    BY <1>4, <1>8, ReplayFormat DEF R!Emission, R!rewrite_id_in_value
  <1>11. Expected(i) =
           IF remap /\ row.kind = "response" /\ Asked(row.id, cursor)
           THEN [b EXCEPT !.id = Renumber[b.id]] ELSE b
    BY <1>3, <1>5, <1>9 DEF Expected
  <1>12. CASE remap /\ row.kind = "response" /\ row.id \in DOMAIN id_map
    <2>1. row.id \in Ids /\ id_map[row.id] = Renumber[row.id] /\ Asked(row.id, cursor)
      BY <1>12 DEF IdsKnown
    <2>2. b.id = row.id /\ Renumber[row.id] \in Ids
      BY <1>8, <2>1, WireAssumption, SessionAssumption DEF from_value
    <2>3. [b EXCEPT !.id = Renumber[row.id], !.layout = "compact"] = [b EXCEPT !.id = Renumber[b.id]]
      BY <1>6, <2>2 DEF Lines
    <2>4. [b EXCEPT !.id = Renumber[b.id]] \in Lines
      BY <1>6, <2>2 DEF Lines
    <2> QED
      BY <1>1, <1>2, <1>10, <1>11, <1>12, <2>1, <2>3, <2>4
  <1>13. CASE ~(remap /\ row.kind = "response" /\ row.id \in DOMAIN id_map)
    <2>1. R!Emission(row) = b
      BY <1>10, <1>13
    <2>2. Expected(i) = b
      <3>1. CASE remap /\ row.kind = "response" /\ Asked(row.id, cursor)
        <4>1. row.id \in Ids
          <5>1. PICK q \in 1 .. cursor : AsksAt(row.id, q)
            BY <3>1 DEF Asked
          <5>2. q \in 1 .. Len(log)
            BY <5>1 DEF Taped
          <5> QED
            BY <5>1, <5>2, RequestHasId DEF AsksAt, Taped
        <4>2. Renumber[row.id] = row.id
          BY <1>13, <3>1, <4>1 DEF IdsKnown
        <4>3. b.id = row.id
          BY <1>8, <4>1, WireAssumption DEF from_value
        <4>4. [b EXCEPT !.id = b.id] = b
          BY <1>6 DEF Lines
        <4> QED
          BY <1>11, <3>1, <4>2, <4>3, <4>4
      <3>2. CASE ~(remap /\ row.kind = "response" /\ Asked(row.id, cursor))
        BY <1>11, <3>2
      <3> QED
        BY <3>1, <3>2
    <2> QED
      BY <1>1, <1>2, <1>6, <2>1, <2>2
  <1> QED
    BY <1>12, <1>13

\* The row that the next frame of the script is compared with.
LEMMA NextScripted ==
    ASSUME PlanOK, Taped, pc = "read", ReplayInv, cursor < Len(log)
    PROVE  /\ log[cursor + 1].dir = "c2a" /\ log[cursor + 1] \in TellingRows
           /\ Min(R!NextC2a) = cursor + 1 /\ R!NextC2a # {}
           /\ Len(accepted) + 1 \in 1 .. Len(script)
           /\ log[cursor + 1].hash = payload_hash(script[Len(accepted) + 1])
  <1>1. /\ cursor \in 0 .. Len(log) - 1 /\ log \in Seq(TellingRows) /\ Len(log) \in Nat
        /\ Len(accepted) = Len(MineIn(cursor, "c2a"))
    BY DEF ReplayInv, Taped
  <1>2. log[cursor + 1] \in TellingRows
    BY <1>1
  <1>3. log[cursor + 1].dir = "c2a"
    <2>1. log[cursor + 1].dir \in {"c2a", "a2c"}
      BY <1>2 DEF TellingRows, Rows, Directions
    <2>2. log[cursor + 1].dir # "a2c"
      BY <1>1 DEF ReplayInv, R!AtAgentRow
    <2> QED
      BY <2>1, <2>2
  <1>4. cursor + 1 \in R!NextC2a /\ R!NextC2a \subseteq Nat
        /\ \A y \in R!NextC2a : cursor + 1 <= y
    BY <1>1, <1>3 DEF R!NextC2a
  <1>5. Min(R!NextC2a) \in R!NextC2a /\ \A y \in R!NextC2a : Min(R!NextC2a) <= y
    <2>1. PICK N : N = R!NextC2a
      OBVIOUS
    <2>2. N \subseteq Nat /\ N # {}
      BY <1>4, <2>1
    <2> QED
      BY <2>1, <2>2, LeastIsThere
  <1>6. Min(R!NextC2a) = cursor + 1
    <2>1. PICK m : m = Min(R!NextC2a)
      OBVIOUS
    <2>2. m \in Nat /\ cursor + 1 <= m /\ m <= cursor + 1
      BY <1>4, <1>5, <2>1
    <2> QED
      BY <1>1, <2>1, <2>2
  <1>7. /\ Len(accepted) + 1 \in 1 .. Len(Mine("c2a"))
        /\ Mine("c2a")[Len(accepted) + 1] = log[cursor + 1]
    BY <1>1, <1>3, PassRow DEF Directions
  <1>8. Len(Mine("c2a")) <= Len(script) /\ Len(script) \in Nat
        /\ Mine("c2a")[Len(accepted) + 1].hash = payload_hash(script[Len(accepted) + 1])
    BY <1>7, ScriptIsFrames DEF Taped, Mine
  <1> QED
    BY <1>2, <1>3, <1>4, <1>6, <1>7, <1>8

\* At the end of the engine's input the trace is at its end as well.
LEMMA TraceAtEnd ==
    ASSUME PlanOK, Taped, pc = "read", ReplayInv,
           Len(accepted) = Len(script) \/ R!NextC2a = {}
    PROVE  cursor = Len(log)
  <1>1. cursor \in 0 .. Len(log) /\ Len(log) \in Nat
    BY DEF ReplayInv, Taped
  <1>2. CASE cursor < Len(log)
    BY <1>2, NextScripted
  <1> QED
    BY <1>1, <1>2

\* What is said of the rows before the cursor, when the cursor moves to c.
LEMMA MovesTo ==
    ASSUME UNCHANGED <<log, out, remap>>, NEW c, cursor' = c
    PROVE  /\ (MineIn(cursor, "c2a"))' = MineIn(c, "c2a")
           /\ (MineIn(cursor, "a2c"))' = MineIn(c, "a2c")
           /\ \A i : (Expected(i))' = Expected(i)
           /\ \A x : (Asked(x, cursor))' <=> Asked(x, c)
  BY DEF MineIn, Expected, AskedBefore, Mine, Asks, Asked, AsksAt

\* One iteration of emit_a2c_block.
LEMMA EmitStep ==
    ASSUME OneLayout, Taped, ReplayInv, R!EmitRow, UNCHANGED <<vars, plan, remap>>
    PROVE  ReplayInv'
  <1>0. UNCHANGED <<log, cas, out, mpc, remap>> /\ Len(log) \in Nat
    BY DEF vars, pipes, others, trace, Taped
  <1>1. pc = "emit" /\ cursor \in 0 .. Len(log) - 1 /\ log[cursor + 1].dir = "a2c"
    BY <1>0 DEF R!EmitRow, R!AtAgentRow, ReplayInv
  <1>2. /\ mpc = "returned" /\ remap \in BOOLEAN /\ IdsKnown
        /\ accepted \in Seq(Lines) /\ Len(accepted) = Len(MineIn(cursor, "c2a"))
        /\ rout \in Seq(Lines) /\ Len(rout) = Len(MineIn(cursor, "a2c"))
        /\ \A i \in 1 .. Len(rout) : rout[i] = Expected(i)
    BY <1>1 DEF ReplayInv
  <1>3. R!Loads(cas, log[cursor + 1])
    <2>1. cursor + 1 \in 1 .. Len(log)
      BY <1>0, <1>1
    <2> QED
      BY <2>1, ReplayFormat DEF Taped
  <1>4. PICK e : e = R!Emission(log[cursor + 1])
    OBVIOUS
  <1>5. /\ rout' = Append(rout, e) /\ cursor' = cursor + 1
        /\ UNCHANGED <<pc, id_map, accepted>>
    BY <1>3, <1>4 DEF R!EmitRow
  <1>6. e \in Lines /\ e = Expected(Len(rout) + 1)
    BY <1>1, <1>2, <1>4, EmitsExpected
  <1>7. /\ Len(MineIn(cursor + 1, "c2a")) = Len(MineIn(cursor, "c2a"))
        /\ Len(MineIn(cursor + 1, "a2c")) = Len(MineIn(cursor, "a2c")) + 1
    BY <1>1, RowPassed DEF Taped
  <1>8. /\ rout' \in Seq(Lines) /\ Len(rout') = Len(rout) + 1
        /\ \A i \in 1 .. Len(rout') : rout'[i] = Expected(i)
    BY <1>2, <1>5, <1>6
  <1>9. \A x : Asked(x, cursor + 1) <=> Asked(x, cursor)
    BY <1>1, AskedNext DEF AsksAt
  <1>10. PICK c : c = cursor + 1
    OBVIOUS
  <1>11. /\ (MineIn(cursor, "c2a"))' = MineIn(c, "c2a")
         /\ (MineIn(cursor, "a2c"))' = MineIn(c, "a2c")
         /\ \A i : (Expected(i))' = Expected(i)
         /\ \A x : (Asked(x, cursor))' <=> Asked(x, c)
    BY <1>0, <1>5, <1>10, MovesTo
  <1>12. IdsKnown'
    BY <1>0, <1>2, <1>5, <1>9, <1>10, <1>11 DEF IdsKnown
  <1>13. cursor' \in 0 .. Len(log')
    BY <1>0, <1>1, <1>5
  <1> QED
    BY <1>0, <1>1, <1>2, <1>5, <1>7, <1>8, <1>10, <1>11, <1>12, <1>13 DEF ReplayInv

LEMMA RecordingRests == UNCHANGED vars => UNCHANGED <<mpc, log, out>>
  BY DEF vars, pipes, others, trace

\* The engine stops, at a row of the client or at the end.
LEMMA StandsStill ==
    ASSUME ReplayInv, pc # "off",
           UNCHANGED <<mpc, log, out, remap, cursor, id_map, rout, accepted>>,
           pc' \in {"emit", "read", "ok", "exhausted"},
           pc' = "read" => ~R!AtAgentRow,
           pc' \in {"ok", "exhausted"} => cursor = Len(log)
    PROVE  ReplayInv'
  <1>1. UNCHANGED <<log, out, mpc, remap>>
    OBVIOUS
  <1>2. PICK c : c = cursor
    OBVIOUS
  <1>3. /\ (MineIn(cursor, "c2a"))' = MineIn(c, "c2a")
        /\ (MineIn(cursor, "a2c"))' = MineIn(c, "a2c")
        /\ \A i : (Expected(i))' = Expected(i)
        /\ \A x : (Asked(x, cursor))' <=> Asked(x, c)
    BY <1>1, <1>2, MovesTo
  <1>4. IdsKnown'
    BY <1>1, <1>2, <1>3 DEF IdsKnown, ReplayInv
  <1>5. R!AtAgentRow' <=> R!AtAgentRow
    BY <1>1 DEF R!AtAgentRow
  <1> QED
    BY <1>1, <1>2, <1>3, <1>4, <1>5 DEF ReplayInv

\* The line the client sends now for the frame f of its script, against the
\* row recorded for f.
LEMMA LiveLine ==
    ASSUME NEW f \in Raws, NEW row \in TellingRows, row.hash = payload_hash(f),
           remap \in BOOLEAN
    PROVE  /\ Live(f) \in Lines /\ raw(Live(f)) \in Lines
           /\ ~(remap /\ row.kind = "request") => payload_hash(Live(f)) = row.hash
           /\ remap /\ row.kind = "request" =>
                /\ row.id \in Ids /\ Live(f).id = Renumber[row.id] /\ Live(f).id \in Ids
                /\ R!hash_with_id(Live(f), row.id) = row.hash
                /\ payload_hash(Live(f)) = row.hash => Renumber[row.id] = row.id
  <1>1. f \in Lines
    BY DEF Raws
  <1>2. row.kind = kind(f) /\ row.id = from_value(f.id)
    BY DEF TellingRows, payload_hash, kind
  <1>3. CASE ~(remap /\ row.kind = "request")
    <2>1. Live(f) = f
      BY <1>2, <1>3 DEF Live
    <2>2. raw(f) \in Lines
      BY <1>1 DEF raw, Lines
    <2> QED
      BY <1>1, <1>3, <2>1, <2>2
  <1>4. CASE remap /\ row.kind = "request"
    <2>1. f.id \in Ids /\ row.id = f.id
      BY <1>2, <1>4 DEF kind, from_value
    <2>2. PICK i : i = Renumber[f.id]
      OBVIOUS
    <2>3. i \in Ids
      BY <2>1, <2>2, SessionAssumption
    <2>4. Live(f) = [f EXCEPT !.id = i]
      BY <1>2, <1>4, <2>2 DEF Live
    <2>5. PICK l : l = [f EXCEPT !.id = i]
      OBVIOUS
    <2>6. /\ l \in Lines /\ l.id = i /\ raw(l) \in Lines
          /\ [l EXCEPT !.id = f.id] = f
      BY <1>1, <2>3, <2>5 DEF Lines, raw
    <2>7. l.id # None
      BY <2>3, <2>6, WireAssumption
    <2>8. R!hash_with_id(l, f.id) = payload_hash(f)
      BY <2>6, <2>7, ReplayFormat DEF R!hash_with_id
    <2>9. payload_hash(l) = payload_hash(f) => i = f.id
      BY <2>6 DEF payload_hash
    <2> QED
      BY <1>4, <2>1, <2>2, <2>3, <2>4, <2>5, <2>6, <2>8, <2>9
  <1> QED
    BY <1>3, <1>4

\* The client sends its next frame: it is taken for the next row, or the
\* trace is exhausted.  It never diverges.
LEMMA SendOutcomes ==
    ASSUME PlanOK, Taped, ReplayInv, ReplaySend
    PROVE  LET row == log[cursor + 1]
               l   == Live(script[Len(accepted) + 1])
           IN  /\ UNCHANGED rout
               /\ \/ /\ cursor = Len(log) /\ pc' = "exhausted"
                     /\ UNCHANGED <<cursor, id_map, accepted>>
                  \/ /\ cursor < Len(log) /\ pc' = "emit" /\ cursor' = cursor + 1
                     /\ accepted' = Append(accepted, raw(l))
                     /\ \/ payload_hash(l) = row.hash /\ UNCHANGED id_map
                        \/ /\ remap /\ row.kind = "request"
                           /\ id_map' = [x \in DOMAIN id_map \cup {row.id} |->
                                           IF x = row.id THEN l.id ELSE id_map[x]]
  <1> DEFINE row == log[cursor + 1]
             k   == Len(accepted) + 1
             l   == Live(script[k])
  <1>1. pc = "read" /\ R!ReadFrame(l) /\ UNCHANGED rout
    BY DEF ReplaySend, R!ReadFrame
  <1>2. CASE R!NextC2a = {}
    <2>1. cursor = Len(log)
      BY <1>1, <1>2, TraceAtEnd
    <2> QED
      BY <1>1, <1>2, <2>1 DEF R!ReadFrame
  <1>3. CASE R!NextC2a # {}
    <2>1. cursor < Len(log)
      BY <1>3 DEF R!NextC2a, ReplayInv, Taped
    <2>2. /\ row \in TellingRows /\ Min(R!NextC2a) = cursor + 1
          /\ k \in 1 .. Len(script) /\ row.hash = payload_hash(script[k])
      BY <1>1, <2>1, NextScripted
    <2>3. script[k] \in Raws /\ remap \in BOOLEAN
      BY <2>2, ScriptIsFrames DEF ReplayInv
    <2>4. /\ ~(remap /\ row.kind = "request") => payload_hash(l) = row.hash
          /\ remap /\ row.kind = "request" =>
               row.id \in Ids /\ l.id \in Ids /\ R!hash_with_id(l, row.id) = row.hash
      BY <2>2, <2>3, LiveLine
    <2>5. payload_hash(l) # row.hash => remap /\ row.kind = "request" /\ R!BothIds(row, l)
                                          /\ R!hash_with_id(l, row.id) = row.hash
      BY <2>4, WireAssumption, ReplayFormat DEF R!BothIds, from_value
    <2> HIDE DEF k, l
    <2>6. /\ R!Min(R!NextC2a) = cursor + 1 /\ row = log[cursor + 1]
          /\ R!payload_hash(l) = payload_hash(l) /\ R!raw(l) = raw(l)
      BY <2>2, ReplayFormat
    <2> HIDE DEF row
    <2>7. \/ /\ payload_hash(l) = row.hash /\ R!Accept(l, cursor + 1) /\ UNCHANGED id_map
          \/ /\ payload_hash(l) # row.hash
             /\ R!Accept(l, cursor + 1)
             /\ id_map' = [x \in DOMAIN id_map \cup {row.id} |->
                             IF x = row.id THEN l.id ELSE id_map[x]]
      BY <1>1, <1>3, <2>5, <2>6 DEF R!ReadFrame
    <2>8. R!Accept(l, cursor + 1) =>
            pc' = "emit" /\ cursor' = cursor + 1 /\ accepted' = Append(accepted, raw(l))
      BY <2>6 DEF R!Accept
    <2> QED
      BY <1>1, <2>1, <2>5, <2>7, <2>8 DEF k, l, row
  <1> QED
    BY <1>2, <1>3

LEMMA SendStep ==
    ASSUME PlanOK, Taped, ReplayInv, ReplaySend, UNCHANGED <<vars, plan, remap>>
    PROVE  ReplayInv'
  <1>0. UNCHANGED <<log, out, mpc, remap>> /\ Len(log) \in Nat
    BY DEF vars, pipes, others, trace, Taped
  <1>1. pc = "read" /\ UNCHANGED rout
    BY SendOutcomes DEF ReplaySend, R!ReadFrame
  <1>2. CASE pc' = "exhausted"
    BY <1>0, <1>1, <1>2, SendOutcomes, StandsStill
  <1>3. CASE pc' # "exhausted"
    <2> DEFINE row == log[cursor + 1]
               f   == script[Len(accepted) + 1]
    <2>1. PICK l : l = Live(f)
      OBVIOUS
    <2>2. /\ cursor < Len(log) /\ pc' = "emit" /\ cursor' = cursor + 1
          /\ accepted' = Append(accepted, raw(l))
          /\ \/ payload_hash(l) = row.hash /\ UNCHANGED id_map
             \/ /\ remap /\ row.kind = "request"
                /\ id_map' = [x \in DOMAIN id_map \cup {row.id} |->
                                IF x = row.id THEN l.id ELSE id_map[x]]
      BY <1>3, <2>1, SendOutcomes
    <2>3. /\ cursor \in 0 .. Len(log) - 1 /\ mpc = "returned" /\ remap \in BOOLEAN /\ IdsKnown
          /\ accepted \in Seq(Lines) /\ Len(accepted) = Len(MineIn(cursor, "c2a"))
          /\ rout \in Seq(Lines) /\ Len(rout) = Len(MineIn(cursor, "a2c"))
          /\ \A i \in 1 .. Len(rout) : rout[i] = Expected(i)
      BY <1>0, <1>1, <2>2 DEF ReplayInv
    <2>4. /\ row.dir = "c2a" /\ row \in TellingRows /\ f \in Raws
          /\ row.hash = payload_hash(f)
      BY <1>1, <2>2, NextScripted, ScriptIsFrames
    <2>5. /\ raw(l) \in Lines
          /\ remap /\ row.kind = "request" =>
               /\ row.id \in Ids /\ l.id = Renumber[row.id]
               /\ payload_hash(l) = row.hash => Renumber[row.id] = row.id
      BY <2>1, <2>3, <2>4, LiveLine
    <2>6. accepted' \in Seq(Lines) /\ Len(accepted') = Len(accepted) + 1
      BY <2>2, <2>3, <2>5
    <2>7. /\ Len(MineIn(cursor + 1, "c2a")) = Len(MineIn(cursor, "c2a")) + 1
          /\ Len(MineIn(cursor + 1, "a2c")) = Len(MineIn(cursor, "a2c"))
      BY <2>3, <2>4, RowPassed DEF Taped
    <2>8. PICK c : c = cursor + 1
      OBVIOUS
    <2>9. /\ (MineIn(cursor, "c2a"))' = MineIn(c, "c2a")
          /\ (MineIn(cursor, "a2c"))' = MineIn(c, "a2c")
          /\ \A i : (Expected(i))' = Expected(i)
          /\ \A x : (Asked(x, cursor))' <=> Asked(x, c)
      BY <1>0, <2>2, <2>8, MovesTo
    <2>10. /\ \A x : Asked(x, c) <=> Asked(x, cursor) \/ AsksAt(x, c)
           /\ \A x : AsksAt(x, c) <=> row.kind = "request" /\ x = row.id
      <3>1. cursor \in Nat
        BY <2>3
      <3> QED
        BY <2>4, <2>8, <3>1, AskedNext DEF AsksAt
    <2> HIDE DEF row, f
    <2>11. IdsKnown'
      <3>1. CASE payload_hash(l) = row.hash /\ UNCHANGED id_map
        BY <1>0, <2>3, <2>5, <2>9, <2>10, <3>1 DEF IdsKnown
      <3>2. CASE /\ remap /\ row.kind = "request"
                 /\ id_map' = [x \in DOMAIN id_map \cup {row.id} |->
                                 IF x = row.id THEN l.id ELSE id_map[x]]
        <4>1. /\ DOMAIN id_map' = DOMAIN id_map \cup {row.id}
              /\ \A x \in DOMAIN id_map' : id_map'[x] = IF x = row.id THEN l.id ELSE id_map[x]
          BY <3>2
        <4>2. DOMAIN id_map' \subseteq Ids
          BY <2>3, <2>5, <3>2, <4>1 DEF IdsKnown
        <4>3. \A x \in DOMAIN id_map' : id_map'[x] = Renumber[x] /\ Asked(x, c)
          BY <2>3, <2>5, <2>10, <3>2, <4>1 DEF IdsKnown
        <4>4. \A x \in Ids : Asked(x, c) => x \in DOMAIN id_map' \/ Renumber[x] = x
          BY <2>3, <2>10, <3>2, <4>1 DEF IdsKnown
        <4> QED
          BY <1>0, <2>9, <3>2, <4>2, <4>3, <4>4 DEF IdsKnown
      <3> QED
        BY <2>2, <3>1, <3>2
    <2>12. cursor' \in 0 .. Len(log')
      BY <1>0, <2>2, <2>3
    <2> QED
      BY <1>0, <1>1, <2>2, <2>3, <2>6, <2>7, <2>8, <2>9, <2>11, <2>12 DEF ReplayInv
  <1> QED
    BY <1>2, <1>3

\* `acp replay` starts at the first row, with an empty id map.
LEMMA StartStep ==
    ASSUME Taped, ReplayInv, StartReplay PROVE ReplayInv'
  <1>1. /\ pc' = "emit" /\ mpc' = "returned" /\ remap' \in BOOLEAN
        /\ cursor' = 0 /\ rout' = <<>> /\ accepted' = <<>> /\ DOMAIN id_map' = {}
        /\ UNCHANGED <<log, out, mpc>>
    BY DEF StartReplay, ReplayInv, vars, pipes, others, trace
  <1>2. \A d : (MineIn(cursor, d))' = <<>>
    <2>1. SubSeq(log, 1, 0) = <<>>
      BY DEF Taped
    <2> QED
      BY <1>1, <2>1, OnlyEmpty DEF MineIn
  <1>3. \A x : ~(Asked(x, cursor))'
    BY <1>1 DEF Asked
  <1>4. IdsKnown'
    BY <1>1, <1>3 DEF IdsKnown
  <1>5. cursor' \in 0 .. Len(log')
    BY <1>1 DEF Taped
  <1>6. <<>> \in Seq(Lines) /\ Len(<<>>) = 0
    OBVIOUS
  <1> QED
    BY <1>1, <1>2, <1>4, <1>5, <1>6 DEF ReplayInv

LEMMA ReplayStep ==
    ASSUME OneLayout, PlanOK, Types, ForwardInv, MirrorInv, BlobsMatch, SeqIsPosition,
           RecordedInv, ReplayInv, faults = 0, [SessionNext]_sessionVars
    PROVE  ReplayInv'
  <1>1. CASE UNCHANGED sessionVars
    <2>1. CASE pc = "off"
      BY <1>1, <2>1 DEF sessionVars, replay, ReplayInv
    <2>2. CASE pc # "off"
      BY <1>1, <2>2, StandsStill, RecordingRests DEF sessionVars, replay, ReplayInv, R!AtAgentRow
    <2> QED
      BY <2>1, <2>2
  <1>2. CASE Recording
    <2>1. CASE pc = "off"
      BY <1>2, <2>1 DEF Recording, replay, ReplayInv
    <2>2. CASE pc # "off"
      <3>1. mpc = "returned" /\ [Next]_vars
        BY <2>2, RecordingIsNext DEF ReplayInv
      <3>2. UNCHANGED <<mpc, log, out, replay>>
        BY <1>2, <3>1, Frozen DEF Recording
      <3> QED
        BY <2>2, <3>2, StandsStill DEF replay, ReplayInv, R!AtAgentRow
    <2> QED
      BY <2>1, <2>2
  <1>3. CASE StartReplay
    <2>1. Taped
      BY <1>3, FinishedTaped DEF StartReplay, Finished
    <2> QED
      BY <1>3, <2>1, StartStep
  <1>4. CASE Replaying
    <2>1. pc \in {"emit", "read"} /\ UNCHANGED <<vars, plan, remap, mpc, log, out>>
      BY <1>4, RecordingRests DEF Replaying, R!EmitRow, R!EmitDone, ReplaySend, ReplayClose,
                                  R!ReadFrame, R!ReadEof
    <2>2. Taped
      BY <2>1, FinishedTaped DEF ReplayInv, Finished
    <2>3. CASE R!EmitRow
      BY <2>1, <2>2, <2>3, EmitStep
    <2>4. CASE R!EmitDone
      BY <2>1, <2>4, StandsStill DEF R!EmitDone
    <2>5. CASE ReplaySend
      BY <2>1, <2>2, <2>5, SendStep
    <2>6. CASE ReplayClose
      <3>1. cursor = Len(log)
        BY <2>2, <2>6, TraceAtEnd DEF ReplayClose, R!ReadEof
      <3> QED
        BY <2>1, <2>6, <3>1, StandsStill DEF ReplayClose, R!ReadEof
    <2> QED
      BY <1>4, <2>3, <2>4, <2>5, <2>6 DEF Replaying
  <1> QED
    BY <1>1, <1>2, <1>3, <1>4 DEF SessionNext, Ended

\* At the end of a replay the client has been given all that the recorded
\* one was given.
LEMMA ReplayGives ==
    ASSUME OneLayout, PlanOK, Types, ForwardInv, MirrorInv, BlobsMatch, SeqIsPosition,
           RecordedInv, ReplayInv, faults = 0
    PROVE  ReplayGivesRecordedAnswers
  <1>1. pc \notin {"diverged", "failed"}
    BY DEF ReplayInv
  <1>2. ASSUME pc \in {"ok", "exhausted"}
        PROVE  rout = [i \in DOMAIN out["a2c"] |-> Expected(i)]
    <2>1. /\ cursor = Len(log) /\ mpc = "returned"
          /\ rout \in Seq(Lines) /\ Len(rout) = Len(MineIn(cursor, "a2c"))
          /\ \A i \in 1 .. Len(rout) : rout[i] = Expected(i)
      BY <1>2 DEF ReplayInv
    <2>2. Taped
      BY <2>1, FinishedTaped DEF Finished
    <2>3. log \in Seq(TellingRows) /\ out["a2c"] \in Seq(Frames)
          /\ Len(Only(log, RowsOf("a2c"))) = Len(out["a2c"])
      BY <2>2 DEF Taped
    <2>4. SubSeq(log, 1, Len(log)) = log
      BY <2>3
    <2>5. Len(rout) = Len(out["a2c"])
      BY <2>1, <2>3, <2>4 DEF MineIn
    <2>6. DOMAIN rout = DOMAIN out["a2c"] /\ rout = [i \in DOMAIN rout |-> rout[i]]
      BY <2>1, <2>3, <2>5
    <2>7. \A i \in DOMAIN rout : rout[i] = Expected(i)
      BY <2>1
    <2> QED
      BY <2>6, <2>7
  <1> QED
    BY <1>1, <1>2 DEF ReplayGivesRecordedAnswers, Expected, AskedBefore, Mine

SessionInv ==
    /\ BlobsMatch /\ Numbered
    /\ faults = 0 => RecordedInv /\ ReplayInv

\* Until a call of the recording fails, no interleaving of it can make the
\* same client diverge, or miss a line, when it is replayed: what it gets is
\* what the recorded client got, with its own ids.
THEOREM SessionReplaysAnswers ==
    ASSUME OneLayout
    PROVE  SessionSpec => [](faults = 0 => ReplayGivesRecordedAnswers)
  <1>1. SessionInit => SessionInv
    <2>1. SessionInit => BlobsMatch /\ Numbered
      BY BlobsMatchInit, NumberInvInit DEF SessionInit, Numbered
    <2>2. SessionInit => RecordedInv
      BY RecordedStart
    <2>3. SessionInit => ReplayInv
      BY DEF SessionInit, ReplayInv
    <2> QED
      BY <2>1, <2>2, <2>3 DEF SessionInv
  <1>2. PlanOK /\ Types /\ ForwardInv /\ MirrorInv /\ SessionInv /\ [SessionNext]_sessionVars
          => SessionInv'
    <2> SUFFICES ASSUME PlanOK, Types, ForwardInv, MirrorInv, SessionInv,
                        [SessionNext]_sessionVars
                 PROVE  SessionInv'
      OBVIOUS
    <2>1. [Next]_vars
      BY RecordingIsNext
    <2>2. BlobsMatch'
      BY <2>1, BlobsMatchStep DEF SessionInv
    <2>3. ASSUME faults' = 0 PROVE NumberInv' /\ RecordedInv' /\ ReplayInv'
      <3>1. faults = 0 /\ ~Fails
        BY <2>1, <2>3, NoFault
      <3>2. NumberInv /\ RecordedInv /\ ReplayInv /\ BlobsMatch
        BY <3>1 DEF SessionInv, Numbered
      <3>3. NumberInv'
        BY <2>1, <3>1, <3>2, NumberStep
      <3>4. RecordedInv'
        BY <3>1, <3>2, RecordedStep
      <3>5. ReplayInv'
        BY <3>1, <3>2, ReplayStep DEF NumberInv
      <3> QED
        BY <3>3, <3>4, <3>5
    <2> QED
      BY <2>2, <2>3 DEF SessionInv, Numbered
  <1>3. PlanOK /\ Types /\ ForwardInv /\ MirrorInv /\ SessionInv
          => (faults = 0 => ReplayGivesRecordedAnswers)
    BY ReplayGives DEF SessionInv, Numbered, NumberInv
  <1> QED
    BY <1>1, <1>2, <1>3, AlwaysRecords, PTL DEF SessionSpec

-----------------------------------------------------------------------------
(* The figures of `acp inspect` *)

\* Every row is of one of the two directions.
LEMMA DirsAddUp ==
    ASSUME NEW s \in Seq(Rows)
    PROVE  count_dirs(s)["c2a"] + count_dirs(s)["a2c"] = Len(s)
  <1> DEFINE D == 1 .. Len(s)
             A == {k \in DOMAIN s : s[k].dir = "c2a"}
             B == {k \in DOMAIN s : s[k].dir = "a2c"}
  <1>1. DOMAIN s = D /\ Len(s) \in Nat /\ \A k \in D : s[k] \in Rows
    OBVIOUS
  <1>2. \A k \in D : s[k].dir \in {"c2a", "a2c"}
    BY <1>1 DEF Rows, Directions
  <1>3. A \cup B = D /\ A \cap B = {} /\ A \subseteq D /\ B \subseteq D
    BY <1>1, <1>2
  <1>4. IsFiniteSet(D) /\ Cardinality(D) = Len(s)
    <2>1. PICK n \in Nat : n = Len(s)
      BY <1>1
    <2>2. IsFiniteSet(1 .. n) /\ Cardinality(1 .. n) = IF 1 > n THEN 0 ELSE n - 1 + 1
      BY FS_Interval
    <2>3. Cardinality(1 .. n) = n
      BY <2>2
    <2> QED
      BY <2>1, <2>2, <2>3
  <1> HIDE DEF A, B, D
  <1>5. IsFiniteSet(A) /\ IsFiniteSet(B)
    BY <1>3, <1>4, FS_Subset
  <1>6. Cardinality(A \cup B) = Cardinality(A) + Cardinality(B) - Cardinality(A \cap B)
    BY <1>5, FS_Union
  <1>7. Cardinality(A \cap B) = 0 /\ Cardinality(A) \in Nat /\ Cardinality(B) \in Nat
    BY <1>3, <1>5, FS_EmptySet, FS_CardinalityType
  <1>8. Cardinality(A) + Cardinality(B) = Len(s)
    <2>1. Cardinality(A \cup B) = Len(s)
      BY <1>3, <1>4, Zenon
    <2> QED
      BY <1>6, <1>7, <2>1
  <1>9. count_dirs(s)["c2a"] = Cardinality(A) /\ count_dirs(s)["a2c"] = Cardinality(B)
    BY DEF count_dirs, Directions, A, B
  <1> QED
    BY <1>8, <1>9

\* The two ends of a table that is longer than both.
LEMMA EndsShown ==
    ASSUME NEW s \in Seq(Rows), Len(s) > 2 * Ends,
           \A i \in DOMAIN s : s[i].seq = i - 1,
           NEW v, v = SubSeq(s, 1, Ends) \o SubSeq(s, Len(s) - Ends + 1, Len(s))
    PROVE  /\ Len(v) = 2 * Ends /\ v \in Seq(Rows)
           /\ \A k, l \in DOMAIN v : k < l => v[k].seq < v[l].seq
           /\ Head(v) = Head(s) /\ Last(v) = Last(s)
  <1> DEFINE n == Len(s)
             a == SubSeq(s, 1, Ends)
             b == SubSeq(s, n - Ends + 1, n)
  <1>1. Ends \in Nat /\ Ends >= 1 /\ n \in Nat /\ n > 2 * Ends
    BY CommandLineAssumption
  <1>2. a \in Seq(Rows) /\ Len(a) = Ends /\ \A k \in 1 .. Ends : a[k] = s[k]
    BY <1>1
  <1>3. b \in Seq(Rows) /\ Len(b) = Ends /\ \A k \in 1 .. Ends : b[k] = s[n - Ends + k]
    BY <1>1
  <1>4. v = a \o b
    OBVIOUS
  <1> HIDE DEF a, b, n
  <1>5. /\ v \in Seq(Rows) /\ Len(v) = Ends + Ends /\ DOMAIN v = 1 .. Ends + Ends
        /\ \A k \in 1 .. Ends + Ends :
             v[k] = IF k <= Ends THEN a[k] ELSE b[k - Ends]
    <2>1. /\ a \o b \in Seq(Rows) /\ Len(a \o b) = Len(a) + Len(b)
          /\ \A k \in 1 .. Len(a) + Len(b) :
               (a \o b)[k] = IF k <= Len(a) THEN a[k] ELSE b[k - Len(a)]
      BY <1>2, <1>3, ConcatProperties
    <2>2. v \in Seq(Rows) /\ Len(v) = Ends + Ends
      BY <1>2, <1>3, <1>4, <2>1, Zenon
    <2>3. \A k \in 1 .. Ends + Ends : v[k] = IF k <= Ends THEN a[k] ELSE b[k - Ends]
      BY <1>2, <1>3, <1>4, <2>1, Zenon
    <2>4. DOMAIN v = 1 .. Ends + Ends
      BY <2>2
    <2> QED
      BY <2>2, <2>3, <2>4
  <1>6. \A k \in 1 .. Ends : s[k].seq = k - 1 /\ s[n - Ends + k].seq = n - Ends + k - 1
    BY <1>1 DEF n
  <1>7. \A k \in 1 .. Ends + Ends :
          v[k].seq = IF k <= Ends THEN k - 1 ELSE n - Ends + (k - Ends) - 1
    <2> SUFFICES ASSUME NEW k \in 1 .. Ends + Ends
                 PROVE  v[k].seq = IF k <= Ends THEN k - 1 ELSE n - Ends + (k - Ends) - 1
      OBVIOUS
    <2>1. CASE k <= Ends
      <3>1. k \in 1 .. Ends /\ v[k] = s[k]
        BY <1>1, <1>2, <1>5, <2>1
      <3> QED
        BY <1>6, <2>1, <3>1
    <2>2. CASE k > Ends
      <3>1. PICK j \in 1 .. Ends : j = k - Ends
        BY <1>1, <2>2
      <3>2. v[k] = b[k - Ends]
        <4>1. ~(k <= Ends)
          BY <1>1, <2>2
        <4> QED
          BY <1>5, <4>1, Zenon
      <3>3. v[k] = s[n - Ends + j]
        BY <1>3, <3>1, <3>2
      <3>4. v[k].seq = n - Ends + j - 1
        BY <1>6, <3>3
      <3>5. n - Ends + j - 1 = IF k <= Ends THEN k - 1 ELSE n - Ends + (k - Ends) - 1
        <4> HIDE <3>2, <3>3, <3>4
        <4> QED
          BY <1>1, <2>2, <3>1
      <3> QED
        BY <3>4, <3>5, Zenon
    <2>3. k <= Ends \/ k > Ends
      BY <1>1
    <2> QED
      BY <2>1, <2>2, <2>3, Zenon
  <1>8. \A k, l \in DOMAIN v : k < l => v[k].seq < v[l].seq
    <2> SUFFICES ASSUME NEW k \in 1 .. Ends + Ends, NEW l \in 1 .. Ends + Ends, k < l
                 PROVE  v[k].seq < v[l].seq
      BY <1>5
    <2>1. /\ v[k].seq = IF k <= Ends THEN k - 1 ELSE n - Ends + (k - Ends) - 1
          /\ v[l].seq = IF l <= Ends THEN l - 1 ELSE n - Ends + (l - Ends) - 1
      BY <1>7
    <2>2. (IF k <= Ends THEN k - 1 ELSE n - Ends + (k - Ends) - 1)
            < (IF l <= Ends THEN l - 1 ELSE n - Ends + (l - Ends) - 1)
      BY <1>1
    <2> QED
      BY <2>1, <2>2, Zenon
  <1>9. Head(v) = Head(s) /\ Last(v) = Last(s)
    <2>1. v[1] = s[1] /\ v[Ends + Ends] = s[n]
      <3>1. 1 \in 1 .. Ends /\ Ends \in 1 .. Ends
        BY <1>1
      <3>2. v[1] = a[1]
        BY <1>1, <1>5
      <3>3. v[Ends + Ends] = b[Ends]
        BY <1>1, <1>5
      <3> QED
        BY <1>1, <1>2, <1>3, <3>1, <3>2, <3>3
    <2>2. Head(v) = v[1] /\ Head(s) = s[1]
      BY <1>1, <1>5 DEF n
    <2> QED
      BY <1>5, <2>1, <2>2 DEF Last, n
  <1>10. Ends + Ends = 2 * Ends
    BY <1>1
  <1> QED
    BY <1>5, <1>8, <1>9, <1>10

LEMMA InspectAccounts ==
    ASSUME log \in Seq(Rows), SeqIsPosition, phase = "sealed" => count = Len(log)
    PROVE  InspectAccountsForAll
  <1> SUFFICES ASSUME NEW full \in BOOLEAN,
                      NEW c, c = IF phase = "sealed" THEN <<count>> ELSE <<>>,
                      NEW r, r = cmd_inspect(c, log, full)
               PROVE  /\ Len(r.shown) + r.not_shown = r.event_count
                      /\ \A k, l \in DOMAIN r.shown : k < l => r.shown[k].seq < r.shown[l].seq
                      /\ log # <<>> => Head(r.shown) = Head(log) /\ Last(r.shown) = Last(log)
                      /\ r.dirs["c2a"] + r.dirs["a2c"] = r.event_count
                      /\ full => r.not_shown = 0
    BY DEF InspectAccountsForAll
  <1>1. r.event_count = Len(log) /\ r.dirs = count_dirs(log)
    BY DEF cmd_inspect
  <1>2. r.dirs["c2a"] + r.dirs["a2c"] = r.event_count
    BY <1>1, DirsAddUp
  <1>3. \A i \in DOMAIN log : log[i].seq = i - 1
    BY DEF SeqIsPosition
  <1>4. CASE full \/ ~TooLong(log)
    <2>1. r.shown = log /\ r.not_shown = 0
      BY <1>4 DEF cmd_inspect
    <2>2. DOMAIN log = 1 .. Len(log) /\ Len(log) \in Nat
      OBVIOUS
    <2>3. \A k, l \in DOMAIN log : k < l => log[k].seq < log[l].seq
      BY <1>3, <2>2
    <2>4. \A k, l \in DOMAIN r.shown : k < l => r.shown[k].seq < r.shown[l].seq
      BY <2>1, <2>3, Zenon
    <2>5. Len(r.shown) + r.not_shown = r.event_count
      BY <1>1, <2>1, <2>2
    <2>6. Head(r.shown) = Head(log) /\ Last(r.shown) = Last(log)
      BY <2>1, Zenon
    <2> QED
      BY <1>2, <2>1, <2>4, <2>5, <2>6, Zenon
  <1>5. CASE ~full /\ TooLong(log)
    <2>1. /\ r.shown = SubSeq(log, 1, Ends) \o SubSeq(log, Len(log) - Ends + 1, Len(log))
          /\ r.not_shown = Len(log) - 2 * Ends
      BY <1>5 DEF cmd_inspect
    <2>2. Len(log) > 2 * Ends
      BY <1>5 DEF TooLong
    <2>v. PICK v : v = r.shown
      OBVIOUS
    <2>w. v = SubSeq(log, 1, Ends) \o SubSeq(log, Len(log) - Ends + 1, Len(log))
      BY <2>1, <2>v, Zenon
    <2>x. /\ Len(v) = 2 * Ends
          /\ \A k, l \in DOMAIN v : k < l => v[k].seq < v[l].seq
          /\ Head(v) = Head(log) /\ Last(v) = Last(log)
      BY <1>3, <2>2, <2>w, EndsShown
    <2>3. /\ Len(r.shown) = 2 * Ends
          /\ \A k, l \in DOMAIN r.shown : k < l => r.shown[k].seq < r.shown[l].seq
          /\ Head(r.shown) = Head(log) /\ Last(r.shown) = Last(log)
      BY <2>v, <2>x, Zenon
    <2>4. Len(log) \in Nat /\ Ends \in Nat
      BY CommandLineAssumption
    <2>5. Len(r.shown) + r.not_shown = Len(log)
      BY <2>1, <2>3, <2>4
    <2> QED
      BY <1>1, <1>2, <1>5, <2>3, <2>5, Zenon
  <1> QED
    BY <1>4, <1>5

\* As long as no call of the recording has failed, `acp inspect` accounts for
\* every row of the trace, finished or not, however long the table and its
\* ends are.
THEOREM SessionInspects ==
    SessionSpec => [](faults = 0 => InspectAccountsForAll)
  <1>1. Types /\ Numbered => (faults = 0 => InspectAccountsForAll)
    BY InspectAccounts DEF Types, TraceOK, Numbered, NumberInv
  <1> QED
    BY <1>1, SessionRecords, AlwaysNumbered, AlwaysRecords, PTL

=============================================================================
