---------------------------- MODULE ProxyProofs ----------------------------
(***************************************************************************)
(* Proofs about Proxy, in six parts.                                       *)
(*   Types           Types strengthens TypeOK: what the agent writes are   *)
(*                   lines, and it counts no more than it has read.        *)
(*   Forwarding      what a thread has written is what it has read, but    *)
(*                   for the frame in its hand (ForwardInv).               *)
(*   Recording       the rows of a direction, in the file or waiting, are  *)
(*                   what its thread has forwarded, but for the frame in   *)
(*                   its hand (MirrorInv).                                 *)
(*   Offline replay  every row has a complete blob under its own hash      *)
(*                   until a call fails (BlobsMatch).                      *)
(*   Numbering       the one writer numbers the rows of both threads by    *)
(*                   their position (NumberInv).                           *)
(*   Writer          every step does to the trace what TraceLog allows     *)
(*                   (WriterOwned).                                        *)
(* The first four invariants rest on the ones before them.                 *)
(***************************************************************************)
EXTENDS Proxy, TraceFormatProofs, SequenceTheorems, TLAPS

-----------------------------------------------------------------------------
(* Types *)

Outputs == {Chunk} \cup [chan : {"stdout"}, line : Lines]

AgentRecords ==
    [status : {"unborn", "running", "code", "signal"}, code : 0 .. 1,
     leaving : BOOLEAN, state : EchoState, outq : Seq(Outputs)]
AgentOK == agent \in AgentRecords

RunOK ==
    /\ mpc \in {"create", "spawn", "wait", "join_a2c", "join_stderr", "finalize",
                "join_c2a", "returned", "failed"}
    /\ code \in Nat
    /\ spc \in {"unborn", "read", "done"} /\ err \in 0 .. PipeCap
    /\ client \in [writes : BOOLEAN, reads : BOOLEAN]
    /\ extras \in Nat /\ faults \in Nat

ThreadsOK ==
    /\ tpc \in [Directions -> {"unborn", "read", "forward", "record", "done"}]
    /\ hand \in [Directions -> Frames]

PipeOK(d) ==
    /\ taken[d] <= Len(sent[d]) /\ drained[d] <= Len(out[d])
    /\ Len(sent[d]) - taken[d] <= PipeCap
    /\ Len(out[d]) - drained[d] <= PipeCap
    /\ Len(out[d]) <= taken[d]
    /\ tpc[d] = "forward" => Len(out[d]) < taken[d]

\* The agent has counted at most the frames it has read, of MaxSent.
CountersOK ==
    /\ Len(sent["c2a"]) <= MaxSent
    /\ agent.state.prompts + agent.state.sessions <= drained["c2a"]

PipesOK ==
    /\ sent \in [Directions -> Seq(Lines)] /\ out \in [Directions -> Seq(Frames)]
    /\ taken \in [Directions -> Nat] /\ drained \in [Directions -> Nat]
    /\ \A d \in Directions : PipeOK(d)
    /\ CountersOK

TraceOK ==
    /\ log \in Seq(Rows) /\ pend \in Seq(Rows)
    /\ DOMAIN cas \subseteq Hashes /\ cas \in [DOMAIN cas -> Frames \cup {Torn}]
    /\ next \in Nat /\ count \in Nat /\ phase \in {"closed", "open", "sealed"}

Types == AgentOK /\ RunOK /\ ThreadsOK /\ PipesOK /\ TraceOK

LEMMA RawIsFrame == \A l \in Lines : Parses(l) => raw(l) \in Frames
  <1> SUFFICES ASSUME NEW l \in Lines, Parses(l) PROVE raw(l) \in Raws
    BY FramesComplete
  <1>1. raw(l) \in Lines /\ raw(l).eol = "lf"
    BY DEF raw, Lines
  <1>2. /\ raw(l).shape = l.shape /\ raw(l).method = l.method
        /\ raw(l).id = l.id /\ raw(l).outcome = l.outcome
    BY DEF raw, Lines
  <1>3. kind(raw(l)) = kind(l)
    BY <1>2 DEF kind
  <1> QED
    BY <1>1, <1>2, <1>3 DEF Raws, Parses

LEMMA NoHandIsFrame == NoHand \in Frames
  BY FramesAssumption DEF NoHand

LEMMA FrameFields ==
    \A r \in Frames : r \in Lines /\ r.id \in Ids \cup {OddId, None}
                        /\ from_value(r.id) \in Ids \cup {None}
  BY FramesAssumption DEF Raws, Lines, from_value

\* The agent counts a frame at most once and answers it with lines.
LEMMA EchoTypes ==
    ASSUME NEW f \in Frames, NEW st \in EchoState, st.prompts + st.sessions < MaxSent
    PROVE  /\ EchoNext(st, f) \in EchoState
           /\ EchoNext(st, f).prompts + EchoNext(st, f).sessions
                <= st.prompts + st.sessions + 1
           /\ EchoAnswer(st, f) \in Seq(Lines)
  <1> DEFINE n == EchoNext(st, f)
             i == from_value(f.id)
  <1>1. st.prompts \in Nat /\ st.sessions \in Nat /\ MaxSent \in Nat
    BY ProxyAssumption DEF EchoState
  <1>2. n \in EchoState /\ n.prompts + n.sessions <= st.prompts + st.sessions + 1
    BY <1>1 DEF EchoNext, EchoState
  <1>3. n.prompts \in 0 .. MaxSent /\ n.sessions \in 0 .. MaxSent
    BY <1>1, <1>2 DEF EchoState
  <1>4. /\ f.method = "session/new" /\ i # None => n.sessions > 0
        /\ f.method = "session/prompt" /\ i # None => n.prompts > 0
    BY <1>1 DEF EchoNext, EchoState
  <1>5. /\ <<"capabilities", 0>> \in Bodies /\ <<"end_turn", 0>> \in Bodies
        /\ <<"null", 0>> \in Bodies /\ <<"method not found", 0>> \in Bodies
        /\ \A k \in 1 .. MaxSent : <<"sess", k>> \in Bodies /\ <<"echo", k>> \in Bodies
    BY EchoAssumption DEF EchoBodies
  <1>6. i \in Ids \cup {None}
    BY FrameFields
  <1>7. \A b \in Bodies : /\ i # None => send_result(i, b) \in Lines
                          /\ i # None => send_error(i, b) \in Lines
                          /\ send_notification("session/update", b) \in Lines
    BY <1>6, EchoAssumption, WireAssumption
       DEF send_result, send_error, send_notification, Envelope, Lines
  <1> SUFFICES EchoAnswer(st, f) \in Seq(Lines)
    BY <1>2
  <1> HIDE DEF n, i
  <1>8. \A x \in Lines : <<x>> \in Seq(Lines)
    OBVIOUS
  <1>9. \A x, y \in Lines : <<x, y>> \in Seq(Lines)
    OBVIOUS
  <1>10. CASE i = None
    BY <1>10 DEF EchoAnswer, i
  <1>11. CASE i # None
    <2>1. CASE f.method = "initialize"
      <3>1. EchoAnswer(st, f) = <<send_result(i, <<"capabilities", 0>>)>>
        BY <1>11, <2>1 DEF EchoAnswer, i
      <3> QED
        BY <1>5, <1>7, <1>11, <1>8, <3>1, Zenon
    <2>2. CASE f.method = "session/new"
      <3>1. EchoAnswer(st, f) = <<send_result(i, <<"sess", n.sessions>>)>>
        BY <1>11, <2>2 DEF EchoAnswer, i, n
      <3>2. <<"sess", n.sessions>> \in Bodies
        <4>1. n.sessions \in 1 .. MaxSent
          BY <1>1, <1>3, <1>4, <1>11, <2>2
        <4> QED
          BY <1>5, <4>1, Zenon
      <3> QED
        BY <1>7, <1>11, <1>8, <3>1, <3>2, Zenon
    <2>3. CASE f.method = "session/prompt"
      <3>1. EchoAnswer(st, f) =
              << send_notification("session/update", <<"echo", n.prompts>>),
                 send_result(i, <<"end_turn", 0>>) >>
        BY <1>11, <2>3 DEF EchoAnswer, i, n
      <3>2. <<"echo", n.prompts>> \in Bodies
        <4>1. n.prompts \in 1 .. MaxSent
          BY <1>1, <1>3, <1>4, <1>11, <2>3
        <4> QED
          BY <1>5, <4>1, Zenon
      <3> QED
        BY <1>5, <1>7, <1>11, <1>9, <3>1, <3>2, Zenon
    <2>4. CASE f.method = "shutdown"
      <3>1. EchoAnswer(st, f) = <<send_result(i, <<"null", 0>>)>>
        BY <1>11, <2>4 DEF EchoAnswer, i
      <3> QED
        BY <1>5, <1>7, <1>11, <1>8, <3>1, Zenon
    <2>5. CASE f.method \notin {"initialize", "session/new", "session/prompt", "shutdown"}
      <3>1. EchoAnswer(st, f) = <<send_error(i, <<"method not found", 0>>)>>
        BY <1>11, <2>5 DEF EchoAnswer, i
      <3> QED
        BY <1>5, <1>7, <1>11, <1>8, <3>1, Zenon
    <2> QED
      BY <2>1, <2>2, <2>3, <2>4, <2>5
  <1> QED
    BY <1>10, <1>11

LEMMA TypesInit == Init => Types
  <1> SUFFICES ASSUME Init PROVE Types
    OBVIOUS
  <1>1. AgentOK
    BY DEF Init, AgentOK, AgentRecords, EchoState, EchoStart
  <1>2. RunOK
    BY ProxyAssumption DEF Init, RunOK
  <1>3. ThreadsOK
    BY NoHandIsFrame DEF Init, ThreadsOK
  <1>4. PipesOK
    BY ProxyAssumption DEF Init, PipesOK, PipeOK, CountersOK, EchoStart, Directions
  <1>5. TraceOK
    BY DEF Init, TraceOK, T!Init
  <1> QED
    BY <1>1, <1>2, <1>3, <1>4, <1>5 DEF Types

\* The frame that the agent reads next, and the room left for counting it.
LEMMA NextFrame ==
    ASSUME Types, drained["c2a"] < Len(out["c2a"])
    PROVE  /\ out["c2a"][drained["c2a"] + 1] \in Frames
           /\ agent.state \in EchoState
           /\ agent.state.prompts + agent.state.sessions < MaxSent
  <1> USE DEF Types
  <1>1. "c2a" \in Directions
    BY DEF Directions
  <1>2. /\ out["c2a"] \in Seq(Frames) /\ drained["c2a"] \in Nat /\ taken["c2a"] \in Nat
        /\ sent["c2a"] \in Seq(Lines)
    BY <1>1 DEF PipesOK
  <1>3. out["c2a"][drained["c2a"] + 1] \in Frames
    BY <1>2
  <1>4. Len(out["c2a"]) <= taken["c2a"] /\ taken["c2a"] <= Len(sent["c2a"])
    BY <1>1 DEF PipesOK, PipeOK
  <1>5. /\ agent.state \in EchoState
        /\ agent.state.prompts \in Nat /\ agent.state.sessions \in Nat
    BY DEF AgentOK, AgentRecords, EchoState
  <1>6. /\ Len(sent["c2a"]) <= MaxSent /\ MaxSent \in Nat
        /\ agent.state.prompts + agent.state.sessions <= drained["c2a"]
    BY ProxyAssumption DEF PipesOK, CountersOK
  <1>7. Len(out["c2a"]) \in Nat /\ Len(sent["c2a"]) \in Nat
    BY <1>2
  <1>8. agent.state.prompts + agent.state.sessions < MaxSent
    BY <1>2, <1>4, <1>5, <1>6, <1>7, SMTT(30)
  <1> QED
    BY <1>3, <1>5, <1>8

LEMMA AgentUpdates ==
    ASSUME AgentOK
    PROVE  /\ \A q \in Seq(Outputs) : [agent EXCEPT !.outq = q] \in AgentRecords
           /\ \A c \in 0 .. 1 : [agent EXCEPT !.status = "code", !.code = c, !.outq = <<>>]
                                  \in AgentRecords
           /\ [agent EXCEPT !.status = "signal", !.outq = <<>>] \in AgentRecords
  <1> DEFINE Q == Seq(Outputs)
  <1>1. <<>> \in Q
    OBVIOUS
  <1> HIDE DEF Q
  <1> QED
    BY <1>1 DEF AgentOK, AgentRecords, Q

LEMMA AgentStep ==
    ASSUME Types, [Next]_vars PROVE AgentOK'
  <1> USE DEF Types
  <1>1. CASE UNCHANGED agent
    BY <1>1 DEF AgentOK
  <1>2. CASE MainSpawn
    <2>1. agent' = agent \/ agent' = [agent EXCEPT !.status = "running"]
      BY <1>2 DEF MainSpawn
    <2> QED
      BY <1>1, <2>1 DEF AgentOK, AgentRecords
  <1>3. CASE AgentRead
    <2> DEFINE f   == out["c2a"][drained["c2a"] + 1]
               ans == EchoAnswer(agent.state, f)
               answer == [i \in DOMAIN ans |-> OnStdout(ans[i])]
    <2>1. f \in Frames /\ agent.state.prompts + agent.state.sessions < MaxSent
      BY <1>3, NextFrame DEF AgentRead
    <2>2. /\ EchoNext(agent.state, f) \in EchoState
          /\ ans \in Seq(Lines)
      BY <2>1, EchoTypes DEF AgentOK, AgentRecords
    <2>3. EchoLeaves(f) \in BOOLEAN
      BY DEF EchoLeaves
    <2>4. \A l \in Lines : OnStdout(l) \in Outputs
      BY DEF OnStdout, Outputs
    <2> HIDE DEF f, ans
    <2>5. answer \in Seq(Outputs)
      BY <2>2, <2>4
    <2>6. Chunk \in Outputs
      BY DEF Outputs
    <2>7. PICK x \in Seq(Outputs) :
            agent' = [agent EXCEPT !.state = EchoNext(@, f), !.leaving = EchoLeaves(f),
                                   !.outq = x \o answer]
      <3>1. <<>> \in Seq(Outputs) /\ <<Chunk>> \in Seq(Outputs)
        BY <2>6
      <3>2. \A l \in AgentExtras : <<OnStdout(l)>> \in Seq(Outputs)
        BY <2>4, ProxyAssumption
      <3> QED
        BY <1>3, <3>1, <3>2 DEF AgentRead, f, ans
    <2>8. x \o answer \in Seq(Outputs)
      BY <2>5
    <2> HIDE DEF answer
    <2> QED
      BY <2>2, <2>3, <2>7, <2>8 DEF AgentOK, AgentRecords
  <1>4. CASE AgentWrite
    <2>1. agent.outq \in Seq(Outputs) /\ agent.outq # <<>>
      BY <1>4 DEF AgentWrite, AgentOK, AgentRecords
    <2>2. Tail(agent.outq) \in Seq(Outputs)
      BY <2>1
    <2>3. \/ agent' = [agent EXCEPT !.outq = Tail(agent.outq)]
          \/ agent' = [agent EXCEPT !.status = "code", !.code = 1, !.outq = <<>>]
      BY <1>4 DEF AgentWrite, AgentExits
    <2>4. 1 \in 0 .. 1
      OBVIOUS
    <2> QED
      BY <2>2, <2>3, <2>4, AgentUpdates, Zenon DEF AgentOK
  <1>5. CASE AgentExit
    <2>1. 0 \in 0 .. 1
      OBVIOUS
    <2> QED
      BY <1>5, <2>1, AgentUpdates DEF AgentExit, AgentExits, AgentOK
  <1>6. CASE AgentDie
    BY <1>6, AgentUpdates DEF AgentDie, AgentOK
  <1> QED
    BY <1>1, <1>2, <1>3, <1>4, <1>5, <1>6
       DEF Next, Thread, Stderr, Main, Agent, Client, Stopped, vars, others,
           ThreadRead, ThreadEof, ThreadForward, ThreadRecord, StderrCopy, StderrEof,
           MainCreate, MainWait, MainJoinA2c, MainJoinStderr, MainFinalize, MainJoinC2a,
           ClientSend, ClientRead, ClientClose, ClientQuit

LEMMA RunStep ==
    ASSUME Types, [Next]_vars PROVE RunOK'
  <1> USE DEF Types, others
  <1>1. CASE UNCHANGED <<mpc, code, spc, err, client, extras, faults>>
    BY <1>1 DEF RunOK
  <1>2. CASE StderrCopy
    BY <1>2, ProxyAssumption DEF StderrCopy, RunOK
  <1>3. CASE StderrEof
    BY <1>3 DEF StderrEof, RunOK
  <1>4. CASE Main
    <2>1. faults' \in Nat
      BY <1>4 DEF Main, MainCreate, MainSpawn, MainWait, MainJoinA2c, MainJoinStderr,
                  MainFinalize, MainJoinC2a, Works, Fails, RunOK
    <2>2. code' \in Nat
      BY <1>4 DEF Main, MainCreate, MainSpawn, MainWait, MainJoinA2c, MainJoinStderr,
                  MainFinalize, MainJoinC2a, RunOK, AgentOK,
                  AgentRecords
    <2>3. UNCHANGED <<err, client, extras>>
      BY <1>4 DEF Main, MainCreate, MainSpawn, MainWait, MainJoinA2c, MainJoinStderr,
                  MainFinalize, MainJoinC2a
    <2>4. spc' \in {"unborn", "read", "done"}
      BY <1>4 DEF Main, MainCreate, MainSpawn, MainWait, MainJoinA2c, MainJoinStderr,
                  MainFinalize, MainJoinC2a, RunOK
    <2>5. mpc' \in {"create", "spawn", "wait", "join_a2c", "join_stderr", "finalize",
                    "join_c2a", "returned", "failed"}
      BY <1>4 DEF Main, MainCreate, MainSpawn, MainWait, MainJoinA2c, MainJoinStderr,
                  MainFinalize, MainJoinC2a
    <2> QED
      BY <2>1, <2>2, <2>3, <2>4, <2>5 DEF RunOK
  <1>5. ASSUME NEW d \in Directions, ThreadRecord(d) PROVE RunOK'
    BY <1>5 DEF ThreadRecord, Works, Fails, RunOK
  <1>6. CASE AgentRead
    <2>1. UNCHANGED <<mpc, code, spc, err, client, faults>>
      BY <1>6 DEF AgentRead
    <2>2. extras' = extras \/ extras' = extras + 1
      BY <1>6 DEF AgentRead
    <2> QED
      BY <2>1, <2>2 DEF RunOK
  <1>7. CASE AgentWrite
    BY <1>7, ProxyAssumption DEF AgentWrite, RunOK
  <1>8. CASE ClientClose \/ ClientQuit
    <2>1. UNCHANGED <<mpc, code, spc, err, extras, faults>>
      BY <1>8 DEF ClientClose, ClientQuit
    <2>2. \/ client' = [client EXCEPT !.writes = FALSE]
          \/ client' = [writes |-> FALSE, reads |-> FALSE]
      BY <1>8 DEF ClientClose, ClientQuit
    <2>3. client' \in [writes : BOOLEAN, reads : BOOLEAN]
      <3>1. client \in [writes : BOOLEAN, reads : BOOLEAN]
        BY DEF RunOK
      <3>2. [client EXCEPT !.writes = FALSE] \in [writes : BOOLEAN, reads : BOOLEAN]
        BY <3>1
      <3> QED
        <4>1. [writes |-> FALSE, reads |-> FALSE] \in [writes : BOOLEAN, reads : BOOLEAN]
          OBVIOUS
        <4> QED
          BY <2>2, <3>2, <4>1, Zenon
    <2> QED
      BY <2>1, <2>3 DEF RunOK
  <1> QED
    BY <1>1, <1>2, <1>3, <1>4, <1>5, <1>6, <1>7, <1>8
       DEF Next, Thread, Stderr, Agent, Client, Stopped, vars,
           ThreadRead, ThreadEof, ThreadForward, AgentExit, AgentDie,
           ClientSend, ClientRead

LEMMA ThreadsStep ==
    ASSUME Types, [Next]_vars PROVE ThreadsOK'
  <1> USE DEF Types, threads
  <1>1. CASE UNCHANGED threads
    BY <1>1 DEF ThreadsOK
  <1>2. ASSUME NEW d \in Directions, ThreadRead(d) PROVE ThreadsOK'
    <2>1. sent[d][taken[d] + 1] \in Lines
      BY <1>2 DEF ThreadRead, PipesOK
    <2> QED
      BY <1>2, <2>1, RawIsFrame DEF ThreadRead, ThreadsOK
  <1>3. ASSUME NEW d \in Directions, ThreadEof(d) \/ ThreadForward(d) PROVE ThreadsOK'
    BY <1>3 DEF ThreadEof, ThreadForward, ThreadsOK
  <1>4. ASSUME NEW d \in Directions, ThreadRecord(d) PROVE ThreadsOK'
    BY <1>4, NoHandIsFrame DEF ThreadRecord, ThreadsOK
  <1>5. CASE MainSpawn
    BY <1>5 DEF MainSpawn, ThreadsOK
  <1> QED
    BY <1>1, <1>2, <1>3, <1>4, <1>5
       DEF Next, Thread, Stderr, Main, Agent, Client, Stopped, vars,
           StderrCopy, StderrEof, MainCreate, MainWait, MainJoinA2c, MainJoinStderr,
           MainFinalize, MainJoinC2a, AgentRead, AgentWrite, AgentExit, AgentDie,
           ClientSend, ClientRead, ClientClose, ClientQuit

\* A pipe whose thread does not take up a frame.
LEMMA PipeKept ==
    ASSUME NEW d \in Directions, PipeOK(d), sent'[d] = sent[d], out'[d] = out[d],
           taken'[d] = taken[d], drained'[d] = drained[d],
           tpc'[d] = tpc[d] \/ tpc'[d] # "forward"
    PROVE  PipeOK(d)'
  BY DEF PipeOK

LEMMA PipesStep ==
    ASSUME Types, [Next]_vars PROVE PipesOK'
  <1> USE DEF Types
  <1>0. /\ PipesOK /\ PipeCap \in Nat \ {0} /\ MaxSent \in Nat
        /\ tpc \in [Directions -> {"unborn", "read", "forward", "record", "done"}]
        /\ hand \in [Directions -> Frames]
        /\ "c2a" \in Directions /\ "a2c" \in Directions
    BY ProxyAssumption DEF ThreadsOK, Directions
  <1>a. ASSUME NEW d \in Directions
        PROVE  /\ PipeOK(d) /\ sent[d] \in Seq(Lines) /\ out[d] \in Seq(Frames)
               /\ taken[d] \in Nat /\ drained[d] \in Nat
               /\ Len(sent[d]) \in Nat /\ Len(out[d]) \in Nat
    BY <1>0 DEF PipesOK
  <1>1. CASE UNCHANGED <<pipes, tpc>> /\ agent'.state = agent.state
    BY <1>1 DEF pipes, PipesOK, PipeOK, CountersOK
  <1>2. ASSUME NEW d \in Directions, ThreadRead(d) PROVE PipesOK'
    <2>1. /\ taken' = [taken EXCEPT ![d] = @ + 1] /\ taken[d] < Len(sent[d])
          /\ tpc[d] = "read" /\ UNCHANGED <<sent, out, drained, agent>>
          /\ tpc' \in {tpc, [tpc EXCEPT ![d] = "forward"], [tpc EXCEPT ![d] = "done"]}
      BY <1>2 DEF ThreadRead, others, threads
    <2>2. taken' \in [Directions -> Nat] /\ taken'[d] = taken[d] + 1
      BY <1>0, <2>1 DEF PipesOK
    <2>3. PipeOK(d)'
      BY <1>0, <1>a, <2>1, <2>2 DEF PipeOK
    <2>4. \A e \in Directions \ {d} : PipeOK(e)'
      BY <1>0, <1>a, <2>1, PipeKept DEF PipesOK
    <2> QED
      BY <1>0, <2>1, <2>2, <2>3, <2>4 DEF PipesOK, CountersOK
  <1>3. ASSUME NEW d \in Directions, ThreadEof(d) PROVE PipesOK'
    <2>1. tpc' = [tpc EXCEPT ![d] = "done"] /\ UNCHANGED <<pipes, agent>>
      BY <1>3 DEF ThreadEof, others
    <2>2. \A e \in Directions : PipeOK(e)'
      BY <1>0, <1>a, <2>1, PipeKept DEF pipes
    <2> QED
      BY <1>0, <2>1, <2>2 DEF pipes, PipesOK, CountersOK
  <1>4. ASSUME NEW d \in Directions, ThreadForward(d) PROVE PipesOK'
    <2>1. UNCHANGED <<sent, taken, drained, agent>> /\ tpc[d] = "forward"
      BY <1>4 DEF ThreadForward, others
    <2>2. CASE out' = out /\ tpc' = [tpc EXCEPT ![d] = "done"]
      <3>1. \A e \in Directions : PipeOK(e)'
        BY <1>0, <1>a, <2>1, <2>2, PipeKept
      <3> QED
        BY <1>0, <2>1, <2>2, <3>1 DEF PipesOK, CountersOK
    <2>3. CASE /\ out' = [out EXCEPT ![d] = Append(@, hand[d])]
               /\ Len(out[d]) - drained[d] < PipeCap
               /\ tpc' = [tpc EXCEPT ![d] = "record"]
      <3> DEFINE more == Append(out[d], hand[d])
      <3>1. more \in Seq(Frames) /\ Len(more) = Len(out[d]) + 1
        BY <1>0, <1>a
      <3> HIDE DEF more
      <3>2. out' = [out EXCEPT ![d] = more]
        BY <2>3 DEF more
      <3>3. out' \in [Directions -> Seq(Frames)] /\ out'[d] = more
        BY <1>0, <3>1, <3>2 DEF PipesOK
      <3>4. PipeOK(d)'
        BY <1>0, <1>a, <2>1, <2>3, <3>1, <3>3 DEF PipeOK
      <3>5. \A e \in Directions \ {d} : PipeOK(e)'
        BY <1>0, <1>a, <2>1, <2>3, <3>2, PipeKept DEF PipesOK
      <3> QED
        BY <1>0, <2>1, <3>3, <3>4, <3>5 DEF PipesOK, CountersOK
    <2> QED
      BY <1>4, <2>2, <2>3 DEF ThreadForward
  <1>5. ASSUME NEW d \in Directions, ThreadRecord(d) PROVE PipesOK'
    <2>1. UNCHANGED <<pipes, agent>>
      BY <1>5 DEF ThreadRecord, others
    <2>2. tpc' = [tpc EXCEPT ![d] = "read"] \/ tpc' = [tpc EXCEPT ![d] = "done"]
      BY <1>5 DEF ThreadRecord
    <2>3. \A e \in Directions : PipeOK(e)'
      BY <1>0, <1>a, <2>1, <2>2, PipeKept DEF pipes
    <2> QED
      BY <1>0, <2>1, <2>3 DEF pipes, PipesOK, CountersOK
  <1>6. CASE MainSpawn
    <2>1. UNCHANGED pipes /\ agent'.state = agent.state
      BY <1>6 DEF MainSpawn, AgentOK, AgentRecords
    <2>2. tpc' = tpc \/ tpc' = [d \in Directions |-> "read"]
      BY <1>6 DEF MainSpawn
    <2>3. \A e \in Directions : PipeOK(e)'
      BY <1>0, <1>a, <2>1, <2>2, PipeKept DEF pipes
    <2> QED
      BY <1>0, <2>1, <2>3 DEF pipes, PipesOK, CountersOK
  <1>7. CASE AgentRead
    <2> DEFINE f == out["c2a"][drained["c2a"] + 1]
               n == EchoNext(agent.state, f)
    <2>1. /\ drained["c2a"] < Len(out["c2a"])
          /\ drained' = [drained EXCEPT !["c2a"] = @ + 1]
          /\ UNCHANGED <<sent, taken, out, tpc>>
      BY <1>7 DEF AgentRead, threads
    <2>2. /\ f \in Frames /\ agent.state \in EchoState
          /\ agent.state.prompts + agent.state.sessions < MaxSent
      BY <2>1, NextFrame
    <2>3. agent'.state = n
      BY <1>7 DEF AgentRead, AgentOK, AgentRecords
    <2>4. n \in EchoState /\ n.prompts + n.sessions <= agent.state.prompts + agent.state.sessions + 1
      BY <2>2, EchoTypes
    <2> HIDE DEF f, n
    <2>5. n.prompts + n.sessions <= drained["c2a"] + 1
      <3>1. /\ agent.state.prompts \in Nat /\ agent.state.sessions \in Nat
            /\ n.prompts \in Nat /\ n.sessions \in Nat
        BY <2>2, <2>4 DEF EchoState
      <3>2. drained["c2a"] \in Nat /\ agent.state.prompts + agent.state.sessions <= drained["c2a"]
        BY <1>0, <1>a DEF PipesOK, CountersOK
      <3> QED
        BY <2>4, <3>1, <3>2
    <2>6. drained' \in [Directions -> Nat] /\ drained'["c2a"] = drained["c2a"] + 1
      BY <1>0, <2>1 DEF PipesOK
    <2>7. PipeOK("c2a")'
      BY <1>0, <1>a, <2>1, <2>6 DEF PipeOK
    <2>8. \A e \in Directions \ {"c2a"} : PipeOK(e)'
      BY <1>0, <1>a, <2>1, PipeKept DEF PipesOK
    <2> QED
      BY <1>0, <2>1, <2>3, <2>5, <2>6, <2>7, <2>8 DEF PipesOK, CountersOK
  <1>8. CASE AgentWrite
    <2>1. UNCHANGED <<taken, out, drained, tpc>> /\ agent'.state = agent.state
      BY <1>8 DEF AgentWrite, AgentExits, AgentOK, AgentRecords, threads
    <2>2. CASE sent' = sent
      BY <1>1, <2>1, <2>2 DEF pipes
    <2>3. CASE /\ Head(agent.outq).chan = "stdout" /\ agent.outq # <<>>
               /\ Len(sent["a2c"]) - taken["a2c"] < PipeCap
               /\ sent' = [sent EXCEPT !["a2c"] = Append(@, Head(agent.outq).line)]
      <3> DEFINE more == Append(sent["a2c"], Head(agent.outq).line)
      <3>1. Head(agent.outq) \in Outputs
        BY <2>3 DEF AgentOK, AgentRecords
      <3>2. Head(agent.outq).line \in Lines
        BY <2>3, <3>1 DEF Outputs, Chunk
      <3>3. more \in Seq(Lines) /\ Len(more) = Len(sent["a2c"]) + 1
        BY <1>0, <1>a, <3>2
      <3> HIDE DEF more
      <3>4. sent' = [sent EXCEPT !["a2c"] = more]
        BY <2>3 DEF more
      <3>5. sent' \in [Directions -> Seq(Lines)] /\ sent'["a2c"] = more /\ sent'["c2a"] = sent["c2a"]
        BY <1>0, <3>3, <3>4 DEF PipesOK
      <3>6. PipeOK("a2c")'
        BY <1>0, <1>a, <2>1, <2>3, <3>3, <3>5 DEF PipeOK
      <3>7. PipeOK("c2a")'
        BY <1>0, <1>a, <2>1, <3>5, PipeKept
      <3> QED
        BY <1>0, <2>1, <3>5, <3>6, <3>7 DEF PipesOK, CountersOK, Directions
    <2> QED
      BY <1>8, <2>2, <2>3 DEF AgentWrite
  <1>9. ASSUME NEW l \in ClientLines, ClientSend(l) PROVE PipesOK'
    <2> DEFINE more == Append(sent["c2a"], l)
    <2>1. /\ Len(sent["c2a"]) < MaxSent /\ Len(sent["c2a"]) - taken["c2a"] < PipeCap
          /\ sent' = [sent EXCEPT !["c2a"] = more]
          /\ UNCHANGED <<taken, out, drained, tpc, agent>>
      BY <1>9 DEF ClientSend, others, threads
    <2>2. more \in Seq(Lines) /\ Len(more) = Len(sent["c2a"]) + 1
      BY <1>0, <1>a, ProxyAssumption
    <2> HIDE DEF more
    <2>3. sent' \in [Directions -> Seq(Lines)] /\ sent'["c2a"] = more /\ sent'["a2c"] = sent["a2c"]
      BY <1>0, <2>1, <2>2 DEF PipesOK
    <2>4. PipeOK("c2a")'
      BY <1>0, <1>a, <2>1, <2>2, <2>3 DEF PipeOK
    <2>5. PipeOK("a2c")'
      BY <1>0, <1>a, <2>1, <2>3, PipeKept
    <2>6. CountersOK'
      BY <1>0, <1>a, <2>1, <2>2, <2>3 DEF PipesOK, CountersOK
    <2> QED
      BY <1>0, <2>1, <2>3, <2>4, <2>5, <2>6 DEF PipesOK, Directions
  <1>10. CASE ClientRead
    <2>1. /\ drained["a2c"] < Len(out["a2c"]) /\ drained' = [drained EXCEPT !["a2c"] = @ + 1]
          /\ UNCHANGED <<sent, taken, out, tpc, agent>>
      BY <1>10 DEF ClientRead, others, threads
    <2>2. /\ drained' \in [Directions -> Nat] /\ drained'["a2c"] = drained["a2c"] + 1
          /\ drained'["c2a"] = drained["c2a"]
      BY <1>0, <2>1 DEF PipesOK
    <2>3. PipeOK("a2c")'
      BY <1>0, <1>a, <2>1, <2>2 DEF PipeOK
    <2>4. PipeOK("c2a")'
      BY <1>0, <1>a, <2>1, <2>2, PipeKept
    <2> QED
      BY <1>0, <2>1, <2>2, <2>3, <2>4 DEF PipesOK, CountersOK, Directions
  <1>11. CASE AgentExit \/ AgentDie
    BY <1>1, <1>11 DEF AgentExit, AgentDie, AgentExits, AgentOK, AgentRecords, threads
  <1> QED
    BY <1>1, <1>2, <1>3, <1>4, <1>5, <1>6, <1>7, <1>8, <1>9, <1>10, <1>11
       DEF Next, Thread, Stderr, Main, Agent, Client, Stopped, vars, others, threads,
           StderrCopy, StderrEof, MainCreate, MainWait, MainJoinA2c, MainJoinStderr,
           MainFinalize, MainJoinC2a, ClientClose, ClientQuit

\* The operators on rows and stores that the log's actions use are those of
\* the proxy's own modules.
LEMMA SameFormat ==
    /\ T!Torn = Torn
    /\ \A r : T!payload_hash(r) = payload_hash(r)
    /\ \A n, d, r : T!EventRecord(n, d, r) = EventRecord(n, d, r)
    /\ \A s, h, b : T!AddBlob(s, h, b) = AddBlob(s, h, b)
  <1>1. \A r : T!payload_hash(r) = payload_hash(r)
    BY DEF T!payload_hash, payload_hash
  <1>2. T!None = None
    BY DEF T!None, None
  <1>3. \A i : T!from_value(i) = from_value(i)
    BY <1>2 DEF T!from_value, from_value
  <1>4. T!Torn = Torn
    BY DEF T!Torn, Torn
  <1>5. \A r : T!kind(r) = kind(r)
    BY <1>2, <1>3 DEF T!kind, kind
  <1>6. \A n, d, r : T!EventRecord(n, d, r) = EventRecord(n, d, r)
    BY <1>1, <1>3, <1>5 DEF T!EventRecord, EventRecord
  <1>7. \A s, h, b : T!AddBlob(s, h, b) = AddBlob(s, h, b)
    BY DEF T!AddBlob, AddBlob, T!StoreBlob, StoreBlob
  <1> QED
    BY <1>1, <1>4, <1>6, <1>7

\* What the three outcomes of record() do to the rows, those in the file and
\* those that wait in the BufWriter taken together, and to the blobs.
Held == log \o pend

LEMMA RecordOutcomes ==
    ASSUME TraceOK, NEW d \in Directions, NEW r \in Frames
    PROVE  LET row  == EventRecord(next, d, r)
               h    == payload_hash(r)
           IN  /\ T!Record(d, r) =>
                    /\ Held' = Append(Held, row) /\ pend' = <<>> /\ log' = Held'
                    /\ cas' = AddBlob(cas, h, r) /\ next' = next + 1
               /\ T!RecordBlobErr(r) =>
                    /\ UNCHANGED <<log, pend, next>>
                    /\ cas' \in {cas, AddBlob(cas, h, Torn)}
               /\ T!RecordFlushErr(d, r) =>
                    /\ Held' = Append(Held, row) /\ log' \in Seq(Rows) /\ pend' \in Seq(Rows)
                    /\ cas' = AddBlob(cas, h, r) /\ next' = next
  <1> DEFINE row == EventRecord(next, d, r)
             h   == payload_hash(r)
             all == Append(pend, row)
  <1>1. row \in Rows /\ log \in Seq(Rows) /\ pend \in Seq(Rows)
    BY EventRecordType DEF TraceOK
  <1> HIDE DEF row
  <1>2. ASSUME T!Record(d, r)
        PROVE  /\ Held' = Append(Held, row) /\ pend' = <<>> /\ log' = Held'
               /\ cas' = AddBlob(cas, h, r) /\ next' = next + 1
    <2>1. log' = log \o pend \o <<row>> /\ pend' = <<>> /\ next' = next + 1
          /\ cas' = AddBlob(cas, h, r)
      BY <1>2, SameFormat, Zenon DEF T!Record, row
    <2>2. log \o pend \o <<row>> = Append(log \o pend, row)
      BY <1>1
    <2>3. log' \in Seq(Rows)
      BY <1>1, <2>1
    <2>4. log' \o <<>> = log'
      BY <2>3, ConcatEmptySeq
    <2> QED
      BY <2>1, <2>2, <2>4, Zenon DEF Held
  <1>3. ASSUME T!RecordBlobErr(r)
        PROVE  UNCHANGED <<log, pend, next>> /\ cas' \in {cas, AddBlob(cas, h, Torn)}
    BY <1>3, SameFormat, Zenon DEF T!RecordBlobErr
  <1>4. ASSUME T!RecordFlushErr(d, r)
        PROVE  /\ Held' = Append(Held, row) /\ log' \in Seq(Rows) /\ pend' \in Seq(Rows)
               /\ cas' = AddBlob(cas, h, r) /\ next' = next
    <2>1. /\ next' = next /\ cas' = AddBlob(cas, h, r)
          /\ \E k \in 0 .. Len(pend) : log' = log \o SubSeq(all, 1, k)
                                       /\ pend' = SubSeq(all, k + 1, Len(all))
      BY <1>4, SameFormat, Zenon DEF T!RecordFlushErr, row
    <2>2. PICK k \in 0 .. Len(pend) : log' = log \o SubSeq(all, 1, k)
                                      /\ pend' = SubSeq(all, k + 1, Len(all))
      BY <2>1
    <2>3. all \in Seq(Rows) /\ Len(all) = Len(pend) + 1 /\ Len(pend) \in Nat
      BY <1>1
    <2>4. log \o all = Append(log \o pend, row)
      BY <1>1
    <2> HIDE DEF all
    <2>5. SubSeq(all, 1, k) \in Seq(Rows) /\ SubSeq(all, k + 1, Len(all)) \in Seq(Rows)
      BY <2>3
    <2>6. SubSeq(all, 1, k) \o SubSeq(all, k + 1, Len(all)) = all
      BY <2>3, SplitSeq, SMTT(40)
    <2>7. \A a, b \in Seq(Rows) : (log \o a) \o b = log \o (a \o b)
      BY <1>1, ConcatAssociative, SMTT(40)
    <2>8. log \o SubSeq(all, 1, k) \in Seq(Rows)
      BY <1>1, <2>5, ConcatProperties
    <2> QED
      BY <2>1, <2>2, <2>4, <2>5, <2>6, <2>7, <2>8, Zenon DEF Held
  <1> QED
    BY <1>2, <1>3, <1>4 DEF row

LEMMA AddBlobType ==
    ASSUME TraceOK, NEW h \in Hashes, NEW b \in Frames \cup {Torn}
    PROVE  /\ DOMAIN AddBlob(cas, h, b) \subseteq Hashes
           /\ AddBlob(cas, h, b) \in [DOMAIN AddBlob(cas, h, b) -> Frames \cup {Torn}]
  <1>1. CASE h \in DOMAIN cas
    BY <1>1 DEF TraceOK, AddBlob
  <1>2. CASE h \notin DOMAIN cas
    BY <1>2 DEF TraceOK, AddBlob, StoreBlob
  <1> QED
    BY <1>1, <1>2

LEMMA TraceStep ==
    ASSUME Types, [Next]_vars PROVE TraceOK'
  <1> USE DEF Types
  <1>1. CASE UNCHANGED trace
    BY <1>1 DEF trace, TraceOK
  <1>2. ASSUME NEW d \in Directions, ThreadRecord(d) PROVE TraceOK'
    <2> DEFINE r == hand[d]
    <2>1. r \in Frames /\ payload_hash(r) \in Hashes
      BY EventRecordType DEF ThreadsOK
    <2>2. EventRecord(next, d, r) \in Rows
      BY <2>1, EventRecordType DEF TraceOK
    <2> HIDE DEF r
    <2>3. CASE T!Record(d, r)
      <3>1. /\ Held' = Append(Held, EventRecord(next, d, r)) /\ pend' = <<>> /\ log' = Held'
            /\ cas' = AddBlob(cas, payload_hash(r), r) /\ next' = next + 1
        BY <2>1, <2>3, RecordOutcomes
      <3>2. UNCHANGED <<phase, count>>
        BY <2>3 DEF T!Record
      <3>3. Held \in Seq(Rows)
        BY DEF TraceOK, Held
      <3>4. log' \in Seq(Rows) /\ pend' \in Seq(Rows)
        BY <2>2, <3>1, <3>3
      <3> QED
        BY <2>1, <3>1, <3>2, <3>4, AddBlobType DEF TraceOK
    <2>4. CASE T!RecordBlobErr(r)
      <3>1. UNCHANGED <<log, pend, next, phase, count>>
        BY <2>4 DEF T!RecordBlobErr
      <3>2. cas' \in {cas, AddBlob(cas, payload_hash(r), Torn)}
        BY <2>1, <2>4, RecordOutcomes
      <3> QED
        BY <2>1, <3>1, <3>2, AddBlobType DEF TraceOK
    <2>5. CASE T!RecordFlushErr(d, r)
      <3>1. /\ log' \in Seq(Rows) /\ pend' \in Seq(Rows)
            /\ cas' = AddBlob(cas, payload_hash(r), r) /\ next' = next
        BY <2>1, <2>5, RecordOutcomes
      <3>2. UNCHANGED <<phase, count>>
        BY <2>5 DEF T!RecordFlushErr
      <3> QED
        BY <2>1, <3>1, <3>2, AddBlobType DEF TraceOK
    <2> QED
      BY <1>1, <1>2, <2>3, <2>4, <2>5 DEF ThreadRecord, r
  <1>3. CASE MainCreate
    <2>1. CASE T!Begin
      <3>1. /\ phase' = "open" /\ log' = <<>> /\ pend' = <<>> /\ next' = 0
            /\ UNCHANGED <<cas, count>>
        BY <2>1 DEF T!Begin
      <3>2. <<>> \in Seq(Rows)
        OBVIOUS
      <3> QED
        BY <3>1, <3>2 DEF TraceOK
    <2> QED
      BY <1>1, <1>3, <2>1 DEF MainCreate
  <1>4. CASE MainSpawn
    BY <1>1, <1>4 DEF MainSpawn, TraceOK
  <1>5. CASE MainFinalize
    <2>1. CASE T!Seal
      BY <2>1 DEF T!Seal, TraceOK
    <2>2. CASE /\ phase' = "closed" /\ pend' = <<>> /\ UNCHANGED <<cas, next, count>>
               /\ \E k \in 0 .. Len(pend) : log' = log \o SubSeq(pend, 1, k)
      <3>1. log' \in Seq(Rows)
        BY <2>2 DEF TraceOK
      <3> QED
        BY <2>2, <3>1 DEF TraceOK
    <2> QED
      BY <1>5, <2>1, <2>2 DEF MainFinalize
  <1> QED
    BY <1>1, <1>2, <1>3, <1>4, <1>5
       DEF Next, Thread, Stderr, Main, Agent, Client, Stopped, vars,
           ThreadRead, ThreadEof, ThreadForward, StderrCopy, StderrEof, MainWait,
           MainJoinA2c, MainJoinStderr, MainJoinC2a, AgentRead, AgentWrite, AgentExit,
           AgentDie, ClientSend, ClientRead, ClientClose, ClientQuit

LEMMA TypesGiveTypeOK == Types => TypeOK
  <1> SUFFICES ASSUME Types PROVE TypeOK
    OBVIOUS
  <1>1. \A i \in DOMAIN agent.outq :
          agent.outq[i] = Chunk \/ agent.outq[i] \in [chan : {"stdout"}, line : Lines]
    BY DEF Types, AgentOK, AgentRecords, Outputs
  <1>2. /\ agent.status \in {"unborn", "running", "code", "signal"}
        /\ agent.code \in 0 .. 1 /\ agent.leaving \in BOOLEAN /\ agent.state \in EchoState
    BY DEF Types, AgentOK, AgentRecords
  <1> QED
    BY <1>1, <1>2, Zenon DEF Types, RunOK, ThreadsOK, PipesOK, PipeOK, TraceOK, TypeOK

LEMMA TypesStep == Types /\ [Next]_vars => Types'
  BY AgentStep, RunStep, ThreadsStep, PipesStep, TraceStep DEF Types

LEMMA AlwaysTypes == Spec => []Types
  BY TypesInit, TypesStep, PTL DEF Spec

\* Every variable of the proxy keeps its type, for all clients, agents, pipe
\* sizes and failing calls; no pipe ever holds more than PipeCap lines.
THEOREM ProxyTypeOK == Spec => []TypeOK
  BY AlwaysTypes, TypesGiveTypeOK, PTL

(* Frames and hashes of sequences. *)

LEMMA FrameLineIsFrame == \A l \in FrameLines : l \in Lines /\ raw(l) \in Frames
  BY RawIsFrame DEF FrameLines

\* One more line delivers its frame, if it is one.
LEMMA FramesInNext ==
    ASSUME NEW s \in Seq(Lines), NEW n \in 0 .. Len(s) - 1
    PROVE  /\ FramesIn(SubSeq(s, 1, n)) \in Seq(Frames)
           /\ FramesIn(SubSeq(s, 1, n + 1)) =
                IF s[n + 1] \in FrameLines
                THEN Append(FramesIn(SubSeq(s, 1, n)), raw(s[n + 1]))
                ELSE FramesIn(SubSeq(s, 1, n))
  <1> DEFINE p == Only(SubSeq(s, 1, n), FrameLines)
             q == Only(SubSeq(s, 1, n + 1), FrameLines)
             e == s[n + 1]
  <1>1. q = IF e \in FrameLines THEN Append(p, e) ELSE p
    BY OnlyNext
  <1>2. p \in Seq(FrameLines)
    <2>1. SubSeq(s, 1, n) \in Seq(Lines) /\ Lines \cap FrameLines = FrameLines
      BY DEF FrameLines
    <2> QED
      BY <2>1, OnlyType
  <1> HIDE DEF p, q, e
  <1>3. [i \in DOMAIN p |-> raw(p[i])] \in Seq(Frames)
    <2>1. \A i \in DOMAIN p : p[i] \in FrameLines
      BY <1>2
    <2> QED
      BY <1>2, <2>1, FrameLineIsFrame
  <1>4. e \in FrameLines =>
          [i \in DOMAIN Append(p, e) |-> raw(Append(p, e)[i])]
            = Append([i \in DOMAIN p |-> raw(p[i])], raw(e))
    BY <1>2, FrameLineIsFrame
  <1>5. FramesIn(SubSeq(s, 1, n)) = [i \in DOMAIN p |-> raw(p[i])]
        /\ FramesIn(SubSeq(s, 1, n + 1)) = [i \in DOMAIN q |-> raw(q[i])]
    BY Zenon DEF FramesIn, p, q
  <1> QED
    BY <1>1, <1>3, <1>4, <1>5, Zenon DEF e

LEMMA FramesInPrefix ==
    ASSUME NEW s \in Seq(Lines), NEW n \in 0 .. Len(s)
    PROVE  /\ FramesIn(SubSeq(s, 1, n)) \in Seq(Frames)
           /\ FramesIn(s) \in Seq(Frames)
           /\ Len(FramesIn(SubSeq(s, 1, n))) <= Len(FramesIn(s))
           /\ \A i \in 1 .. Len(FramesIn(SubSeq(s, 1, n))) :
                FramesIn(SubSeq(s, 1, n))[i] = FramesIn(s)[i]
  <1>p. PICK p : p = Only(SubSeq(s, 1, n), FrameLines)
    OBVIOUS
  <1>q. PICK q : q = Only(s, FrameLines)
    OBVIOUS
  <1>1. Lines \cap FrameLines = FrameLines
    BY DEF FrameLines
  <1>2. /\ p \in Seq(Lines \cap FrameLines) /\ q \in Seq(Lines \cap FrameLines)
        /\ Len(p) <= Len(q) /\ \A i \in 1 .. Len(p) : p[i] = q[i]
    BY <1>p, <1>q, OnlyBefore
  <1>3. FramesIn(SubSeq(s, 1, n)) = [i \in DOMAIN p |-> raw(p[i])]
        /\ FramesIn(s) = [i \in DOMAIN q |-> raw(q[i])]
    BY <1>p, <1>q, Zenon DEF FramesIn
  <1>4. p \in Seq(FrameLines) /\ q \in Seq(FrameLines)
    BY <1>1, <1>2
  <1>5. \A i \in DOMAIN q : q[i] \in FrameLines
    BY <1>4
  <1>6. \A i \in DOMAIN p : p[i] \in FrameLines
    BY <1>4
  <1> DEFINE P == [i \in DOMAIN p |-> raw(p[i])]
             Q == [i \in DOMAIN q |-> raw(q[i])]
  <1>7. P \in Seq(Frames) /\ Len(P) = Len(p)
    <2>1. DOMAIN p = 1 .. Len(p) /\ Len(p) \in Nat
      BY <1>4
    <2>2. P \in [1 .. Len(p) -> Frames]
      BY <1>6, <2>1, FrameLineIsFrame
    <2> QED
      BY <2>1, <2>2
  <1>8. Q \in Seq(Frames) /\ Len(Q) = Len(q)
    <2>1. DOMAIN q = 1 .. Len(q) /\ Len(q) \in Nat
      BY <1>4
    <2>2. Q \in [1 .. Len(q) -> Frames]
      BY <1>5, <2>1, FrameLineIsFrame
    <2> QED
      BY <2>1, <2>2
  <1>9. \A i \in 1 .. Len(p) : P[i] = Q[i]
    BY <1>2, <1>4
  <1> HIDE DEF P, Q
  <1> QED
    BY <1>2, <1>3, <1>7, <1>8, <1>9 DEF P, Q

LEMMA FramesInNothing == FramesIn(<<>>) = <<>>
  BY OnlyEmpty DEF FramesIn

-----------------------------------------------------------------------------
(* Forwarding *)

\* What has been read of the source, as frames.
Got(d) == FramesIn(SubSeq(sent[d], 1, taken[d]))

Forwarding(d) ==
    /\ tpc[d] = "unborn" => taken[d] = 0
    /\ tpc[d] \in {"unborn", "read", "record"} => out[d] = Got(d)
    /\ tpc[d] = "forward" => Got(d) = Append(out[d], hand[d])
    /\ tpc[d] = "record" => out[d] # <<>> /\ out[d][Len(out[d])] = hand[d]
    /\ Len(out[d]) <= Len(Got(d)) /\ \A i \in 1 .. Len(out[d]) : out[d][i] = Got(d)[i]

\* The threads are spawned once.
NotSpawned == mpc \in {"create", "spawn"} => \A d \in Directions : tpc[d] = "unborn"

ForwardInv == (\A d \in Directions : Forwarding(d)) /\ NotSpawned

\* A step in which the thread of one direction neither reads nor forwards.
Idle(d) ==
    /\ out'[d] = out[d] /\ taken'[d] = taken[d] /\ hand'[d] = hand[d]
    /\ \/ tpc'[d] = tpc[d]
       \/ tpc'[d] = "done"
       \/ tpc[d] = "unborn" /\ tpc'[d] = "read"
    /\ sent'[d] = sent[d] \/ \E l \in Lines : sent'[d] = Append(sent[d], l)

LEMMA ForwardingKept ==
    ASSUME NEW d \in Directions, Types, Forwarding(d), Idle(d)
    PROVE  Forwarding(d)'
  <1>1. sent[d] \in Seq(Lines) /\ taken[d] \in 0 .. Len(sent[d])
    BY DEF Types, PipesOK, PipeOK
  <1>2. SubSeq(sent'[d], 1, taken[d]) = SubSeq(sent[d], 1, taken[d])
    BY <1>1 DEF Idle
  <1>3. Got(d)' = Got(d)
    BY <1>2 DEF Got, Idle
  <1> QED
    BY <1>3 DEF Forwarding, Idle

LEMMA LastOfAppend ==
    ASSUME NEW S, NEW s \in Seq(S), NEW e \in S
    PROVE  /\ Append(s, e) # <<>> /\ Append(s, e)[Len(Append(s, e))] = e
           /\ Append(s, e) \in Seq(S) /\ Len(Append(s, e)) \in Nat
  OBVIOUS

LEMMA ForwardStep ==
    ASSUME Types, ForwardInv, [Next]_vars PROVE \A d \in Directions : Forwarding(d)'
  <1> USE DEF ForwardInv
  <1>0. /\ sent \in [Directions -> Seq(Lines)] /\ out \in [Directions -> Seq(Frames)]
        /\ taken \in [Directions -> Nat] /\ hand \in [Directions -> Frames]
        /\ tpc \in [Directions -> {"unborn", "read", "forward", "record", "done"}]
        /\ \A d \in Directions : taken[d] <= Len(sent[d])
    BY DEF Types, PipesOK, PipeOK, ThreadsOK
  <1>1. CASE UNCHANGED <<sent, taken, out, hand, tpc>>
    BY <1>1 DEF Forwarding, Got
  <1>2. ASSUME NEW d \in Directions, ThreadRead(d) PROVE \A e \in Directions : Forwarding(e)'
    <2> DEFINE l == sent[d][taken[d] + 1]
    <2>1. /\ taken' = [taken EXCEPT ![d] = @ + 1] /\ taken[d] < Len(sent[d])
          /\ tpc[d] = "read" /\ UNCHANGED <<sent, out>>
      BY <1>2 DEF ThreadRead
    <2>2. \A e \in Directions \ {d} : Forwarding(e)'
      <3> SUFFICES ASSUME NEW e \in Directions \ {d} PROVE Forwarding(e)'
        OBVIOUS
      <3>1. Idle(e)
        BY <1>0, <1>2, <2>1 DEF ThreadRead, threads, Idle
      <3> QED
        BY <3>1, ForwardingKept
    <2>3. l \in Lines /\ taken'[d] = taken[d] + 1 /\ out'[d] = out[d] /\ sent' = sent
          /\ taken[d] \in 0 .. Len(sent[d]) - 1 /\ sent[d] \in Seq(Lines)
      BY <1>0, <2>1
    <2>4. /\ Got(d) \in Seq(Frames)
          /\ Got(d)' = IF l \in FrameLines THEN Append(Got(d), raw(l)) ELSE Got(d)
      BY <2>3, FramesInNext DEF Got
    <2>5. out[d] = Got(d)
      BY <2>1 DEF Forwarding
    <2>6. CASE IsBlank(l)
      <3>1. UNCHANGED threads
        BY <1>2, <2>6 DEF ThreadRead
      <3>2. Got(d)' = Got(d)
        BY <2>4, <2>6 DEF FrameLines
      <3>3. Forwarding(d)'
        BY <1>0, <2>1, <2>3, <2>5, <3>1, <3>2 DEF Forwarding, threads
      <3> QED
        BY <2>2, <3>3
    <2>7. CASE ~IsBlank(l) /\ Parses(l)
      <3>1. hand'[d] = raw(l) /\ tpc'[d] = "forward"
        BY <1>0, <1>2, <2>7 DEF ThreadRead
      <3>2. Got(d)' = Append(Got(d), raw(l))
        BY <2>3, <2>4, <2>7 DEF FrameLines
      <3>3. raw(l) \in Frames
        BY <2>3, <2>7, RawIsFrame
      <3>4. Len(Got(d)) <= Len(Got(d)') /\ \A i \in 1 .. Len(Got(d)) : Got(d)[i] = (Got(d)')[i]
        BY <2>4, <3>2, <3>3
      <3>5. Forwarding(d)'
        BY <2>3, <2>5, <3>1, <3>2, <3>4 DEF Forwarding
      <3> QED
        BY <2>2, <3>5
    <2>8. CASE ~IsBlank(l) /\ ~Parses(l)
      <3>1. tpc'[d] = "done"
        BY <1>0, <1>2, <2>8 DEF ThreadRead
      <3>2. Got(d)' = Got(d)
        BY <2>4, <2>8 DEF FrameLines
      <3>3. Forwarding(d)'
        BY <2>3, <2>5, <3>1, <3>2 DEF Forwarding
      <3> QED
        BY <2>2, <3>3
    <2> QED
      BY <2>6, <2>7, <2>8
  <1>3. ASSUME NEW d \in Directions, ThreadForward(d) PROVE \A e \in Directions : Forwarding(e)'
    <2>1. UNCHANGED <<sent, taken, hand>> /\ tpc[d] = "forward"
      BY <1>3 DEF ThreadForward
    <2>2. \A e \in Directions \ {d} : Forwarding(e)'
      <3> SUFFICES ASSUME NEW e \in Directions \ {d} PROVE Forwarding(e)'
        OBVIOUS
      <3>1. Idle(e)
        BY <1>0, <1>3 DEF ThreadForward, Idle
      <3> QED
        BY <3>1, ForwardingKept
    <2>3. Got(d)' = Got(d) /\ Got(d) = Append(out[d], hand[d])
      BY <2>1 DEF Got, Forwarding
    <2>4. CASE out' = out /\ tpc'[d] = "done"
      <3>1. Forwarding(d)
        OBVIOUS
      <3>2. Forwarding(d)'
        BY <2>3, <2>4, <3>1 DEF Forwarding
      <3> QED
        BY <2>2, <3>2
    <2>5. CASE out'[d] = Append(out[d], hand[d]) /\ tpc'[d] = "record"
      <3>1. out'[d] # <<>> /\ out'[d][Len(out'[d])] = hand[d] /\ Len(out'[d]) \in Nat
        <4>1. out[d] \in Seq(Frames) /\ hand[d] \in Frames
          BY <1>0
        <4>2. /\ Append(out[d], hand[d]) # <<>>
              /\ Append(out[d], hand[d])[Len(Append(out[d], hand[d]))] = hand[d]
              /\ Len(Append(out[d], hand[d])) \in Nat
          BY <4>1, LastOfAppend
        <4> QED
          BY <2>5, <4>2, Zenon
      <3>2. out'[d] = Got(d)' /\ hand'[d] = hand[d]
        BY <2>1, <2>3, <2>5
      <3>3. Forwarding(d)'
        BY <2>5, <3>1, <3>2 DEF Forwarding
      <3> QED
        BY <2>2, <3>3
    <2> QED
      BY <1>0, <1>3, <2>4, <2>5 DEF ThreadForward
  <1>4. ASSUME NEW d \in Directions, ThreadEof(d) PROVE \A e \in Directions : Forwarding(e)'
    <2>1. \A e \in Directions : Idle(e)
      BY <1>0, <1>4 DEF ThreadEof, pipes, Idle
    <2> QED
      BY <2>1, ForwardingKept
  <1>5. ASSUME NEW d \in Directions, ThreadRecord(d) PROVE \A e \in Directions : Forwarding(e)'
    <2>1. UNCHANGED <<sent, taken, out>> /\ tpc[d] = "record"
          /\ (tpc' = [tpc EXCEPT ![d] = "read"] \/ tpc' = [tpc EXCEPT ![d] = "done"])
          /\ hand' = [hand EXCEPT ![d] = NoHand]
      BY <1>5 DEF ThreadRecord, pipes
    <2>2. \A e \in Directions \ {d} : Forwarding(e)'
      <3> SUFFICES ASSUME NEW e \in Directions \ {d} PROVE Forwarding(e)'
        OBVIOUS
      <3>1. Idle(e)
        BY <1>0, <2>1 DEF Idle
      <3> QED
        BY <3>1, ForwardingKept
    <2>3. Forwarding(d)'
      BY <1>0, <2>1 DEF Forwarding, Got
    <2> QED
      BY <2>2, <2>3
  <1>6. CASE MainSpawn
    <2>1. UNCHANGED <<sent, taken, out, hand>>
          /\ (tpc' = tpc \/ tpc' = [d \in Directions |-> "read"])
      BY <1>6 DEF MainSpawn, pipes
    <2>2. CASE tpc' = tpc
      BY <1>1, <2>1, <2>2
    <2>3. CASE tpc' = [d \in Directions |-> "read"]
      <3>1. \A e \in Directions : Idle(e)
        BY <1>6, <2>1, <2>3 DEF MainSpawn, NotSpawned, Idle
      <3> QED
        BY <3>1, ForwardingKept
    <2> QED
      BY <2>1, <2>2, <2>3
  <1>7. CASE AgentWrite
    <2>1. UNCHANGED <<taken, out, hand, tpc>>
      BY <1>7 DEF AgentWrite, threads
    <2>2. CASE sent' = sent
      BY <1>1, <2>1, <2>2
    <2>3. CASE /\ Head(agent.outq).chan = "stdout" /\ agent.outq # <<>>
               /\ sent' = [sent EXCEPT !["a2c"] = Append(@, Head(agent.outq).line)]
      <3>1. Head(agent.outq).line \in Lines
        <4>1. Head(agent.outq) \in Outputs
          BY <2>3 DEF Types, AgentOK, AgentRecords
        <4> QED
          BY <2>3, <4>1 DEF Outputs, Chunk
      <3>2. \A e \in Directions : sent'[e] = sent[e] \/ \E l \in Lines : sent'[e] = Append(sent[e], l)
        BY <1>0, <2>3, <3>1
      <3>3. \A e \in Directions : Idle(e)
        BY <2>1, <3>2 DEF Idle
      <3> QED
        BY <3>3, ForwardingKept
    <2> QED
      BY <1>7, <2>2, <2>3 DEF AgentWrite
  <1>8. ASSUME NEW l \in ClientLines, ClientSend(l) PROVE \A e \in Directions : Forwarding(e)'
    <2>1. UNCHANGED <<taken, out, hand, tpc>> /\ l \in Lines
          /\ sent' = [sent EXCEPT !["c2a"] = Append(@, l)]
      BY <1>8, ProxyAssumption DEF ClientSend, threads
    <2>2. \A e \in Directions : sent'[e] = sent[e] \/ \E k \in Lines : sent'[e] = Append(sent[e], k)
      BY <1>0, <2>1
    <2>3. \A e \in Directions : Idle(e)
      BY <2>1, <2>2 DEF Idle
    <2> QED
      BY <2>3, ForwardingKept
  <1> QED
    BY <1>1, <1>2, <1>3, <1>4, <1>5, <1>6, <1>7, <1>8
       DEF Next, Thread, Stderr, Main, Agent, Client, Stopped, vars, pipes, threads,
           StderrCopy, StderrEof, MainCreate, MainWait, MainJoinA2c, MainJoinStderr,
           MainFinalize, MainJoinC2a, AgentRead, AgentExit, AgentDie, ClientRead,
           ClientClose, ClientQuit

LEMMA NotSpawnedStep ==
    ASSUME Types, NotSpawned, [Next]_vars PROVE NotSpawned'
  <1>0. tpc \in [Directions -> {"unborn", "read", "forward", "record", "done"}]
    BY DEF Types, ThreadsOK
  <1>1. CASE UNCHANGED <<mpc, tpc>>
    BY <1>1 DEF NotSpawned
  <1>2. ASSUME NEW d \in Directions, Thread(d) PROVE NotSpawned'
    BY <1>0, <1>2 DEF Thread, ThreadRead, ThreadEof, ThreadForward, ThreadRecord,
                      NotSpawned, others, threads
  <1>3. CASE Main
    BY <1>3 DEF Main, MainCreate, MainSpawn, MainWait, MainJoinA2c, MainJoinStderr,
                MainFinalize, MainJoinC2a, NotSpawned, threads
  <1> QED
    BY <1>1, <1>2, <1>3
       DEF Next, Stderr, Agent, Client, Stopped, vars, others, threads,
           StderrCopy, StderrEof, AgentRead, AgentWrite, AgentExit, AgentDie, ClientSend,
           ClientRead, ClientClose, ClientQuit

LEMMA AlwaysForwardInv == Spec => [](Types /\ ForwardInv)
  <1>1. Init => ForwardInv
    <2> SUFFICES ASSUME Init PROVE ForwardInv
      OBVIOUS
    <2>1. \A d \in Directions : /\ tpc[d] = "unborn" /\ taken[d] = 0
                                /\ out[d] = <<>> /\ sent[d] = <<>>
      BY DEF Init
    <2>2. SubSeq(<<>>, 1, 0) = <<>>
      OBVIOUS
    <2>3. \A d \in Directions : Got(d) = <<>>
      BY <2>1, <2>2, FramesInNothing, Zenon DEF Got
    <2> QED
      BY <2>1, <2>3 DEF ForwardInv, Forwarding, NotSpawned
  <1>2. Types /\ ForwardInv /\ [Next]_vars => ForwardInv'
    BY ForwardStep, NotSpawnedStep DEF ForwardInv
  <1> QED
    BY <1>1, <1>2, TypesInit, TypesStep, PTL DEF Spec

\* What was forwarded comes first among the frames that were sent.
LEMMA ForwardedPrefix ==
    ASSUME Types, ForwardInv, NEW d \in Directions
    PROVE  /\ out[d] \in Seq(Frames) /\ FramesIn(sent[d]) \in Seq(Frames)
           /\ Len(out[d]) <= Len(FramesIn(sent[d]))
           /\ \A i \in 1 .. Len(out[d]) : out[d][i] = FramesIn(sent[d])[i]
  <1>1. /\ sent[d] \in Seq(Lines) /\ taken[d] \in 0 .. Len(sent[d])
        /\ out[d] \in Seq(Frames)
    BY DEF Types, PipesOK, PipeOK
  <1>2. /\ Got(d) \in Seq(Frames) /\ FramesIn(sent[d]) \in Seq(Frames)
        /\ Len(Got(d)) <= Len(FramesIn(sent[d]))
        /\ \A i \in 1 .. Len(Got(d)) : Got(d)[i] = FramesIn(sent[d])[i]
    BY <1>1, FramesInPrefix DEF Got
  <1>3. Len(out[d]) <= Len(Got(d)) /\ \A i \in 1 .. Len(out[d]) : out[d][i] = Got(d)[i]
    BY DEF ForwardInv, Forwarding
  <1> QED
    BY <1>1, <1>2, <1>3

\* Both threads forward the frames of their source unchanged, none lost,
\* doubled or reordered, for all clients, agents and pipe sizes, whatever
\* breaks.
THEOREM ProxyForwardsIntact == Spec => []ForwardedIntact
  <1>1. Types /\ ForwardInv => ForwardedIntact
    <2> SUFFICES ASSUME Types, ForwardInv, NEW d \in Directions
                 PROVE  /\ IsPrefix(out[d], FramesIn(sent[d]))
                        /\ tpc[d] \in {"read", "record"} => out[d] = Got(d)
      BY DEF ForwardedIntact, Got
    <2>1. IsPrefix(out[d], FramesIn(sent[d]))
      BY ForwardedPrefix, PrefixAt
    <2> QED
      BY <2>1 DEF ForwardInv, Forwarding
  <1> QED
    BY <1>1, AlwaysForwardInv, PTL

-----------------------------------------------------------------------------
(* Recording *)

HeldHashes(d) == RowHashes(Only(Held, RowsOf(d)))

LEMMA RowHashesOf ==
    ASSUME NEW d, NEW s \in Seq(Rows)
    PROVE  /\ Only(s, RowsOf(d)) \in Seq(RowsOf(d))
           /\ RowHashes(Only(s, RowsOf(d))) \in Seq(Hashes)
           /\ Len(RowHashes(Only(s, RowsOf(d)))) = Len(Only(s, RowsOf(d)))
  <1>1. PICK m : m = Only(s, RowsOf(d))
    OBVIOUS
  <1>2. m \in Seq(RowsOf(d))
    <2>1. Rows \cap RowsOf(d) = RowsOf(d)
      BY DEF RowsOf
    <2>2. m \in Seq(Rows \cap RowsOf(d))
      BY <1>1, OnlyType, Zenon
    <2> QED
      BY <2>1, <2>2, Zenon
  <1>3. \A x \in RowsOf(d) : x.hash \in Hashes
    BY DEF RowsOf, Rows
  <1>4. DOMAIN m = 1 .. Len(m) /\ Len(m) \in Nat /\ \A i \in DOMAIN m : m[i] \in RowsOf(d)
    BY <1>2
  <1>5. RowHashes(m) \in [1 .. Len(m) -> Hashes]
    BY <1>3, <1>4 DEF RowHashes
  <1>6. RowHashes(m) \in Seq(Hashes) /\ Len(RowHashes(m)) = Len(m)
    BY <1>4, <1>5
  <1> QED
    BY <1>1, <1>2, <1>6, Zenon

\* One more row is one more hash of its direction.
LEMMA RowHashesNext ==
    ASSUME NEW d, NEW s \in Seq(Rows), NEW row \in Rows
    PROVE  RowHashes(Only(Append(s, row), RowsOf(d))) =
             IF row.dir = d THEN Append(RowHashes(Only(s, RowsOf(d))), row.hash)
             ELSE RowHashes(Only(s, RowsOf(d)))
  <1>1. PICK m \in Seq(RowsOf(d)) : m = Only(s, RowsOf(d))
    BY RowHashesOf, Zenon
  <1>2. Only(Append(s, row), RowsOf(d)) = IF row \in RowsOf(d) THEN Append(m, row) ELSE m
    BY <1>1, OnlyAppend, ZenonT(40)
  <1>3. row \in RowsOf(d) <=> row.dir = d
    BY DEF RowsOf
  <1>4. ASSUME row \in RowsOf(d)
        PROVE  RowHashes(Append(m, row)) = Append(RowHashes(m), row.hash)
    BY <1>4 DEF RowHashes
  <1> QED
    BY <1>1, <1>2, <1>3, <1>4, Zenon

\* The hashes of the rows of a prefix come first.
LEMMA RowHashesBefore ==
    ASSUME NEW d, NEW s \in Seq(Rows), NEW n \in 0 .. Len(s)
    PROVE  /\ Len(RowHashes(Only(SubSeq(s, 1, n), RowsOf(d)))) <= Len(RowHashes(Only(s, RowsOf(d))))
           /\ \A i \in 1 .. Len(RowHashes(Only(SubSeq(s, 1, n), RowsOf(d)))) :
                RowHashes(Only(SubSeq(s, 1, n), RowsOf(d)))[i] = RowHashes(Only(s, RowsOf(d)))[i]
  <1>1. PICK p : p = Only(SubSeq(s, 1, n), RowsOf(d))
    OBVIOUS
  <1>2. PICK q : q = Only(s, RowsOf(d))
    OBVIOUS
  <1>3. /\ p \in Seq(Rows \cap RowsOf(d)) /\ q \in Seq(Rows \cap RowsOf(d))
        /\ Len(p) <= Len(q) /\ \A i \in 1 .. Len(p) : p[i] = q[i]
    BY <1>1, <1>2, OnlyBefore
  <1>4. SubSeq(s, 1, n) \in Seq(Rows)
    OBVIOUS
  <1>5. Len(RowHashes(p)) = Len(p) /\ Len(RowHashes(q)) = Len(q)
    BY <1>1, <1>2, <1>4, RowHashesOf, Zenon
  <1>6. \A i \in 1 .. Len(p) : RowHashes(p)[i] = RowHashes(q)[i]
    BY <1>3 DEF RowHashes
  <1> QED
    BY <1>1, <1>2, <1>3, <1>5, <1>6

LEMMA HashesOfNext ==
    ASSUME NEW s \in Seq(Frames), NEW f \in Frames
    PROVE  /\ HashesOf(s) \in Seq(Hashes) /\ payload_hash(f) \in Hashes
           /\ HashesOf(Append(s, f)) = Append(HashesOf(s), payload_hash(f))
  <1>1. \A r \in Frames : payload_hash(r) \in Hashes
    <2>1. 0 \in Nat /\ "c2a" \in Directions
      BY DEF Directions
    <2> QED
      BY <2>1, EventRecordType
  <1>2. HashesOf(s) \in Seq(Hashes)
    BY <1>1 DEF HashesOf
  <1>3. HashesOf(Append(s, f)) = Append(HashesOf(s), payload_hash(f))
    BY DEF HashesOf
  <1> QED
    BY <1>1, <1>2, <1>3

\* The rows of d, in the file or waiting, are the frames it has forwarded,
\* but for the frame in the thread's hand and for what a failing call or a
\* sealed trace has lost at the end.
Mirroring(d) ==
    /\ Len(HeldHashes(d)) <= Len(HashesOf(out[d]))
    /\ \A i \in 1 .. Len(HeldHashes(d)) : HeldHashes(d)[i] = HashesOf(out[d])[i]
    /\ phase = "open" /\ tpc[d] \in {"unborn", "read", "forward"} =>
         HeldHashes(d) = HashesOf(out[d])
    /\ phase = "open" /\ tpc[d] = "record" =>
         Append(HeldHashes(d), payload_hash(hand[d])) = HashesOf(out[d])
    /\ phase = "open" /\ tpc[d] = "done" /\ faults = 0 => HeldHashes(d) = HashesOf(out[d])
    /\ phase = "sealed" /\ d = "a2c" /\ faults = 0 => HeldHashes(d) = HashesOf(out[d])

Phases ==
    /\ phase = "open" => mpc \in {"spawn", "wait", "join_a2c", "join_stderr", "finalize"}
    /\ phase = "sealed" => mpc \in {"join_c2a", "returned"}
    /\ mpc \in {"join_stderr", "finalize", "join_c2a", "returned"} => tpc["a2c"] = "done"

NothingWaits == faults = 0 => pend = <<>>

MirrorInv == (\A d \in Directions : Mirroring(d)) /\ Phases /\ NothingWaits

\* A step in which the rows and the frames of one direction stay.
Quiet(d) ==
    /\ HeldHashes(d)' = HeldHashes(d) /\ out'[d] = out[d]
    /\ faults' = 0 => faults = 0
    /\ \/ phase' = phase
       \/ phase' = "closed"
       \/ phase = "open" /\ phase' = "sealed" /\ (d = "a2c" => tpc[d] = "done")
    /\ \/ tpc'[d] = tpc[d] /\ hand'[d] = hand[d]
       \/ tpc[d] \in {"unborn", "read", "forward"} /\ tpc'[d] \in {"read", "forward", "done"}
       \/ phase # "open"
       \/ faults' # 0 /\ tpc'[d] = "done"

LEMMA MirroringKept ==
    ASSUME NEW d \in Directions, Mirroring(d), Quiet(d)
    PROVE  Mirroring(d)'
  <1>1. HashesOf(out[d])' = HashesOf(out[d])
    BY DEF HashesOf, Quiet
  <1> QED
    BY <1>1 DEF Mirroring, Quiet

\* The threads of a trace that is not open yet have forwarded nothing.
LEMMA NothingForwarded ==
    ASSUME Types, ForwardInv, mpc \in {"create", "spawn"}
    PROVE  \A d \in Directions : tpc[d] = "unborn" /\ out[d] = <<>>
  <1> SUFFICES ASSUME NEW d \in Directions PROVE tpc[d] = "unborn" /\ out[d] = <<>>
    OBVIOUS
  <1>1. tpc[d] = "unborn" /\ taken[d] = 0
    BY DEF ForwardInv, NotSpawned, Forwarding
  <1>2. out[d] \in Seq(Frames) /\ Len(out[d]) <= 0
    BY <1>1 DEF Types, PipesOK, PipeOK
  <1> QED
    BY <1>1, <1>2

\* record() by the thread of direction d: its row is the last of its
\* direction, and the other direction's rows stay.
LEMMA RecordMirrors ==
    ASSUME Types, ForwardInv, MirrorInv, NEW d \in Directions, ThreadRecord(d),
           phase = "open"
    PROVE  \A e \in Directions : Mirroring(e)'
  <1> DEFINE f == hand[d]
             row == EventRecord(next, d, f)
  <1>1. f \in Frames /\ row \in Rows /\ row.hash = payload_hash(f) /\ row.dir = d
    BY EventRecordType DEF Types, ThreadsOK, TraceOK, EventRecord
  <1>2. UNCHANGED out /\ tpc[d] = "record" /\ faults \in Nat
    BY DEF ThreadRecord, pipes, Types, RunOK
  <1>3. /\ tpc \in [Directions -> {"unborn", "read", "forward", "record", "done"}]
        /\ hand \in [Directions -> Frames]
        /\ out \in [Directions -> Seq(Frames)]
    BY DEF Types, ThreadsOK, PipesOK
  <1>4. /\ hand' = [hand EXCEPT ![d] = NoHand]
        /\ \A e \in Directions \ {d} : tpc'[e] = tpc[e] /\ hand'[e] = hand[e]
    BY <1>3 DEF ThreadRecord
  <1>5. Held \in Seq(Rows)
    BY DEF Types, TraceOK, Held
  <1> HIDE DEF row, f
  <1>6. ASSUME Held' = Append(Held, row)
        PROVE  /\ HeldHashes(d)' = HashesOf(out[d])'
               /\ \A e \in Directions \ {d} : HeldHashes(e)' = HeldHashes(e)
    <2>1. HeldHashes(d)' = Append(HeldHashes(d), payload_hash(f))
      BY <1>1, <1>5, <1>6, RowHashesNext DEF HeldHashes
    <2>2. \A e \in Directions \ {d} : HeldHashes(e)' = HeldHashes(e)
      BY <1>1, <1>5, <1>6, RowHashesNext DEF HeldHashes
    <2>3. Append(HeldHashes(d), payload_hash(f)) = HashesOf(out[d])
      BY <1>2 DEF MirrorInv, Mirroring, f
    <2> QED
      BY <1>2, <2>1, <2>2, <2>3 DEF HashesOf
  <1>7. HashesOf(out[d]) \in Seq(Hashes) /\ Len(HashesOf(out[d])) \in Nat
    BY <1>1, <1>3, HashesOfNext
  <1>8. CASE Works /\ T!Record(d, f) /\ tpc' = [tpc EXCEPT ![d] = "read"]
    <2>1. Held' = Append(Held, row)
      BY <1>1, <1>8, RecordOutcomes DEF Types, row
    <2>2. phase' = phase /\ faults' = faults
      BY <1>8 DEF T!Record, Works
    <2>3. \A e \in Directions \ {d} : Mirroring(e)'
      <3> SUFFICES ASSUME NEW e \in Directions \ {d} PROVE Mirroring(e)'
        OBVIOUS
      <3>1. Quiet(e)
        BY <1>2, <1>4, <1>6, <2>1, <2>2 DEF Quiet
      <3> QED
        BY <3>1, MirroringKept DEF MirrorInv
    <2>4. tpc'[d] = "read"
      BY <1>3, <1>8
    <2>5. Mirroring(d)'
      <3>1. HeldHashes(d)' = HashesOf(out[d])'
        BY <1>6, <2>1
      <3>2. HashesOf(out[d])' = HashesOf(out[d])
        BY <1>2 DEF HashesOf
      <3> QED
        BY <1>7, <2>4, <3>1, <3>2 DEF Mirroring
    <2> QED
      BY <2>3, <2>5
  <1>9. CASE Fails /\ T!RecordBlobErr(f) /\ tpc' = [tpc EXCEPT ![d] = "done"]
    <2>1. UNCHANGED <<log, pend, phase>> /\ faults' # 0 /\ tpc'[d] = "done"
      BY <1>2, <1>3, <1>9 DEF T!RecordBlobErr, Fails
    <2>2. \A e \in Directions : Quiet(e)
      BY <1>2, <1>4, <2>1 DEF Quiet, HeldHashes, Held
    <2> QED
      BY <2>2, MirroringKept DEF MirrorInv
  <1>10. CASE Fails /\ T!RecordFlushErr(d, f) /\ tpc' = [tpc EXCEPT ![d] = "done"]
    <2>1. Held' = Append(Held, row)
      BY <1>1, <1>10, RecordOutcomes DEF Types, row
    <2>2. phase' = phase /\ faults' # 0 /\ tpc'[d] = "done"
      BY <1>2, <1>3, <1>10 DEF T!RecordFlushErr, Fails
    <2>3. \A e \in Directions \ {d} : Mirroring(e)'
      <3> SUFFICES ASSUME NEW e \in Directions \ {d} PROVE Mirroring(e)'
        OBVIOUS
      <3>1. Quiet(e)
        BY <1>2, <1>4, <1>6, <2>1, <2>2 DEF Quiet
      <3> QED
        BY <3>1, MirroringKept DEF MirrorInv
    <2>4. Mirroring(d)'
      <3>1. HeldHashes(d)' = HashesOf(out[d])'
        BY <1>6, <2>1
      <3>2. HashesOf(out[d])' = HashesOf(out[d])
        BY <1>2 DEF HashesOf
      <3> QED
        BY <1>7, <2>2, <3>1, <3>2 DEF Mirroring
    <2> QED
      BY <2>3, <2>4
  <1> QED
    BY <1>8, <1>9, <1>10 DEF ThreadRecord, f

LEMMA MirrorStep ==
    ASSUME Types, ForwardInv, MirrorInv, [Next]_vars
    PROVE  \A e \in Directions : Mirroring(e)'
  <1>0. /\ tpc \in [Directions -> {"unborn", "read", "forward", "record", "done"}]
        /\ hand \in [Directions -> Frames] /\ out \in [Directions -> Seq(Frames)]
        /\ "a2c" \in Directions /\ Held \in Seq(Rows)
        /\ log \in Seq(Rows) /\ pend \in Seq(Rows)
    BY DEF Types, ThreadsOK, PipesOK, TraceOK, Held, Directions
  <1>a. ASSUME \A e \in Directions : Quiet(e) PROVE \A e \in Directions : Mirroring(e)'
    BY <1>a, MirroringKept DEF MirrorInv
  <1>1. CASE UNCHANGED <<trace, out, tpc, hand, faults>>
    <2>1. \A e \in Directions : Quiet(e)
      BY <1>1 DEF Quiet, trace, HeldHashes, Held
    <2> QED
      BY <1>a, <2>1
  <1>2. ASSUME NEW d \in Directions, ThreadRead(d) \/ ThreadEof(d)
        PROVE  \A e \in Directions : Mirroring(e)'
    <2>1. UNCHANGED <<out, faults, log, pend, phase>> /\ tpc[d] = "read"
      BY <1>2 DEF ThreadRead, ThreadEof, pipes, trace
    <2>2. /\ tpc' \in {tpc, [tpc EXCEPT ![d] = "forward"], [tpc EXCEPT ![d] = "done"]}
          /\ hand' = hand \/ hand' = [hand EXCEPT ![d] = raw(sent[d][taken[d] + 1])]
      BY <1>2 DEF ThreadRead, ThreadEof, threads
    <2>3. \A e \in Directions : Quiet(e)
      <3> SUFFICES ASSUME NEW e \in Directions PROVE Quiet(e)
        OBVIOUS
      <3>1. HeldHashes(e)' = HeldHashes(e)
        BY <2>1 DEF HeldHashes, Held
      <3>2. CASE e = d
        BY <1>0, <2>1, <2>2, <3>1, <3>2 DEF Quiet
      <3>3. CASE e # d
        BY <1>0, <2>1, <2>2, <3>1, <3>3 DEF Quiet
      <3> QED
        BY <3>2, <3>3
    <2> QED
      BY <1>a, <2>3
  <1>3. ASSUME NEW d \in Directions, ThreadForward(d)
        PROVE  \A e \in Directions : Mirroring(e)'
    <2>1. UNCHANGED <<hand, faults, log, pend, phase>> /\ tpc[d] = "forward"
      BY <1>3 DEF ThreadForward, trace
    <2>2. \A e \in Directions : HeldHashes(e)' = HeldHashes(e)
      BY <2>1 DEF HeldHashes, Held
    <2>3. CASE out' = out /\ tpc' = [tpc EXCEPT ![d] = "done"]
      <3>1. \A e \in Directions : Quiet(e)
        BY <1>0, <2>1, <2>2, <2>3 DEF Quiet
      <3> QED
        BY <1>a, <3>1
    <2>4. CASE out' = [out EXCEPT ![d] = Append(@, hand[d])] /\ tpc' = [tpc EXCEPT ![d] = "record"]
      <3>1. \A e \in Directions \ {d} : Mirroring(e)'
        <4> SUFFICES ASSUME NEW e \in Directions \ {d} PROVE Mirroring(e)'
          OBVIOUS
        <4>1. Quiet(e)
          BY <1>0, <2>1, <2>2, <2>4 DEF Quiet
        <4> QED
          BY <4>1, MirroringKept DEF MirrorInv
      <3>2. out'[d] = Append(out[d], hand[d]) /\ tpc'[d] = "record" /\ hand'[d] = hand[d]
        BY <1>0, <2>1, <2>4
      <3>3. /\ HashesOf(out[d]) \in Seq(Hashes) /\ payload_hash(hand[d]) \in Hashes
            /\ HashesOf(out[d])' = Append(HashesOf(out[d]), payload_hash(hand[d]))
        <4>1. out[d] \in Seq(Frames) /\ hand[d] \in Frames
          BY <1>0
        <4>2. HashesOf(out[d])' = HashesOf(out'[d])
          BY DEF HashesOf
        <4> QED
          BY <3>2, <4>1, <4>2, HashesOfNext
      <3>4. ~(phase = "sealed" /\ d = "a2c")
        BY <2>1 DEF MirrorInv, Phases
      <3>5. Mirroring(d)
        BY DEF MirrorInv
      <3>6. Len(HeldHashes(d)) \in Nat
        BY <1>0, RowHashesOf DEF HeldHashes
      <3>7. /\ Len(HeldHashes(d)) <= Len(HashesOf(out[d])')
            /\ \A i \in 1 .. Len(HeldHashes(d)) : HeldHashes(d)[i] = (HashesOf(out[d])')[i]
        BY <3>3, <3>5, <3>6 DEF Mirroring
      <3>8. phase = "open" => HeldHashes(d) = HashesOf(out[d])
        BY <2>1, <3>5 DEF Mirroring
      <3>9. Mirroring(d)'
        BY <2>1, <2>2, <3>2, <3>3, <3>4, <3>7, <3>8 DEF Mirroring
      <3> QED
        BY <3>1, <3>9
    <2> QED
      BY <1>3, <2>3, <2>4 DEF ThreadForward
  <1>4. ASSUME NEW d \in Directions, ThreadRecord(d)
        PROVE  \A e \in Directions : Mirroring(e)'
    <2>1. CASE phase = "open"
      BY <1>4, <2>1, RecordMirrors
    <2>2. CASE phase # "open"
      <3>1. UNCHANGED <<trace, out, faults>>
        BY <1>4, <2>2 DEF ThreadRecord, Works, T!RecordBlobErr, T!RecordFlushErr, pipes
      <3>2. \A e \in Directions : Quiet(e)
        BY <2>2, <3>1 DEF Quiet, trace, HeldHashes, Held
      <3> QED
        BY <1>a, <3>2
    <2> QED
      BY <2>1, <2>2
  <1>5. CASE MainCreate
    <2>1. \A e \in Directions : tpc[e] = "unborn" /\ out[e] = <<>>
      BY <1>5, NothingForwarded DEF MainCreate
    <2>2. UNCHANGED <<tpc, hand, out>>
      BY <1>5 DEF MainCreate, pipes, threads
    <2>3. CASE Works /\ T!Begin
      <3>1. log' = <<>> /\ pend' = <<>> /\ phase' = "open"
        BY <2>3 DEF T!Begin
      <3>2. Held' = <<>>
        BY <3>1 DEF Held
      <3>3. \A e \in Directions : HeldHashes(e)' = <<>>
        <4>1. RowHashes(<<>>) = <<>>
          BY DEF RowHashes
        <4> QED
          BY <3>2, <4>1, OnlyEmpty, Zenon DEF HeldHashes
      <3>4. HashesOf(<<>>) = <<>>
        BY DEF HashesOf
      <3>5. \A e \in Directions : HashesOf(out[e])' = <<>>
        BY <2>1, <2>2, <3>4, Zenon DEF HashesOf
      <3> QED
        BY <2>1, <2>2, <3>1, <3>3, <3>5 DEF Mirroring
    <2>4. CASE Fails /\ UNCHANGED trace
      <3>1. faults' # 0
        BY <2>4 DEF Fails, Types, RunOK
      <3>2. \A e \in Directions : Quiet(e)
        BY <2>2, <2>4, <3>1 DEF Quiet, trace, HeldHashes, Held
      <3> QED
        BY <1>a, <3>2
    <2> QED
      BY <1>5, <2>3, <2>4 DEF MainCreate
  <1>6. CASE MainSpawn
    <2>1. \A e \in Directions : tpc[e] = "unborn"
      BY <1>6, NothingForwarded DEF MainSpawn
    <2>2. UNCHANGED <<hand, out, log, pend>>
      BY <1>6 DEF MainSpawn, pipes, trace
    <2>3. \/ faults' = faults /\ phase' = phase /\ tpc' = [d \in Directions |-> "read"]
          \/ faults' # 0 /\ phase' = "closed" /\ tpc' = tpc
      BY <1>6 DEF MainSpawn, Works, Fails, trace, Types, RunOK
    <2>4. \A e \in Directions : Quiet(e)
      BY <2>1, <2>2, <2>3 DEF Quiet, HeldHashes, Held
    <2> QED
      BY <1>a, <2>4
  <1>7. CASE MainFinalize
    <2>1. UNCHANGED <<hand, out, tpc>> /\ tpc["a2c"] = "done" /\ mpc = "finalize"
      BY <1>7 DEF MainFinalize, pipes, threads, MirrorInv, Phases
    <2>2. CASE Works /\ T!Seal
      <3>1. /\ phase = "open" /\ phase' = "sealed" /\ faults' = faults
            /\ log' = log \o pend /\ pend' = <<>>
        BY <2>2 DEF T!Seal, Works
      <3>2. Held' = Held
        <4>1. Held' = log' \o <<>> /\ log' = Held
          BY <3>1 DEF Held
        <4> QED
          BY <1>0, <4>1, ConcatEmptySeq
      <3>3. \A e \in Directions : Quiet(e)
        BY <2>1, <3>1, <3>2 DEF Quiet, HeldHashes
      <3> QED
        BY <1>a, <3>3
    <2>3. CASE /\ Fails /\ phase' = "closed" /\ pend' = <<>>
               /\ \E k \in 0 .. Len(pend) : log' = log \o SubSeq(pend, 1, k)
      <3>1. PICK k \in 0 .. Len(pend) : log' = log \o SubSeq(pend, 1, k)
        BY <2>3
      <3>2. PICK n \in 0 .. Len(Held) : n = Len(log) + k
        BY <1>0 DEF Held
      <3>3. Held' = SubSeq(Held, 1, n)
        <4>1. log' \in Seq(Rows)
          BY <1>0, <3>1
        <4>2. Held' = log'
          BY <2>3, <4>1, ConcatEmptySeq DEF Held
        <4>3. log \o SubSeq(pend, 1, k) = SubSeq(log \o pend, 1, n)
          BY <1>0, <3>2
        <4> QED
          BY <3>1, <4>2, <4>3, Zenon DEF Held
      <3>4. \A e \in Directions :
              /\ Len(HeldHashes(e)') <= Len(HeldHashes(e))
              /\ \A i \in 1 .. Len(HeldHashes(e)') : (HeldHashes(e)')[i] = HeldHashes(e)[i]
        <4> SUFFICES ASSUME NEW e \in Directions
                     PROVE  /\ Len(HeldHashes(e)') <= Len(HeldHashes(e))
                            /\ \A i \in 1 .. Len(HeldHashes(e)') : (HeldHashes(e)')[i] = HeldHashes(e)[i]
          OBVIOUS
        <4>1. HeldHashes(e)' = RowHashes(Only(SubSeq(Held, 1, n), RowsOf(e)))
          BY <3>3, Zenon DEF HeldHashes, RowHashes
        <4> QED
          BY <1>0, <4>1, RowHashesBefore DEF HeldHashes
      <3>5. \A e \in Directions :
              /\ HashesOf(out[e])' = HashesOf(out[e])
              /\ Len(HeldHashes(e)) \in Nat /\ Len(HeldHashes(e)') \in Nat
              /\ Len(HashesOf(out[e])) \in Nat
        <4>1. Held' \in Seq(Rows)
          BY <1>0, <3>3
        <4>2. \A e \in Directions : Len(HeldHashes(e)) \in Nat /\ Len(HeldHashes(e)') \in Nat
          BY <1>0, <4>1, RowHashesOf DEF HeldHashes
        <4>3. \A e \in Directions : Len(HashesOf(out[e])) \in Nat
          BY <1>0, NoHandIsFrame, HashesOfNext
        <4> QED
          BY <2>1, <4>2, <4>3 DEF HashesOf
      <3>6. phase' # "open" /\ phase' # "sealed"
        BY <2>3
      <3> QED
        BY <3>4, <3>5, <3>6 DEF MirrorInv, Mirroring
    <2> QED
      BY <1>7, <2>2, <2>3 DEF MainFinalize
  <1> QED
    BY <1>1, <1>2, <1>3, <1>4, <1>5, <1>6, <1>7
       DEF Next, Thread, Stderr, Main, Agent, Client, Stopped, vars, pipes, threads,
           StderrCopy, StderrEof, MainWait, MainJoinA2c, MainJoinStderr, MainJoinC2a,
           AgentRead, AgentWrite, AgentExit, AgentDie, ClientSend, ClientRead,
           ClientClose, ClientQuit

LEMMA PhasesStep ==
    ASSUME Types, Phases, [Next]_vars PROVE Phases'
  <1>0. tpc \in [Directions -> {"unborn", "read", "forward", "record", "done"}]
    BY DEF Types, ThreadsOK
  <1>1. CASE UNCHANGED <<phase, mpc, tpc>>
    BY <1>1 DEF Phases
  <1>2. ASSUME NEW d \in Directions, Thread(d) PROVE Phases'
    <2>1. UNCHANGED <<phase, mpc>>
      BY <1>2 DEF Thread, ThreadRead, ThreadEof, ThreadForward, ThreadRecord, others, trace,
                  T!Record, T!RecordBlobErr, T!RecordFlushErr
    <2>2. tpc[d] # "done" /\ \A e \in Directions \ {d} : tpc'[e] = tpc[e]
      BY <1>0, <1>2 DEF Thread, ThreadRead, ThreadEof, ThreadForward, ThreadRecord, threads
    <2>3. tpc["a2c"] = "done" => tpc'["a2c"] = "done"
      BY <2>2 DEF Directions
    <2> QED
      BY <2>1, <2>3 DEF Phases
  <1>3. CASE Main
    BY <1>3 DEF Main, MainCreate, MainSpawn, MainWait, MainJoinA2c, MainJoinStderr,
                MainFinalize, MainJoinC2a, Phases, threads, trace, T!Begin, T!Seal
  <1> QED
    BY <1>1, <1>2, <1>3
       DEF Next, Stderr, Agent, Client, Stopped, vars, others, threads, trace,
           StderrCopy, StderrEof, AgentRead, AgentWrite, AgentExit, AgentDie, ClientSend,
           ClientRead, ClientClose, ClientQuit

LEMMA NothingWaitsStep ==
    ASSUME Types, NothingWaits, [Next]_vars PROVE NothingWaits'
  <1>0. faults \in Nat
    BY DEF Types, RunOK
  <1>1. CASE UNCHANGED <<faults, pend>>
    BY <1>1 DEF NothingWaits
  <1>2. CASE Fails
    BY <1>0, <1>2 DEF Fails, NothingWaits
  <1>3. ASSUME NEW d \in Directions, ThreadRecord(d) PROVE NothingWaits'
    BY <1>1, <1>2, <1>3 DEF ThreadRecord, Works, trace, T!Record, NothingWaits
  <1>4. CASE MainCreate
    BY <1>2, <1>4 DEF MainCreate, T!Begin, NothingWaits
  <1>5. CASE MainSpawn
    BY <1>1, <1>2, <1>5 DEF MainSpawn, Works, trace
  <1>6. CASE MainFinalize
    BY <1>2, <1>6 DEF MainFinalize, T!Seal, NothingWaits
  <1> QED
    BY <1>1, <1>3, <1>4, <1>5, <1>6
       DEF Next, Thread, Stderr, Main, Agent, Client, Stopped, vars, trace,
           ThreadRead, ThreadEof, ThreadForward, StderrCopy, StderrEof, MainWait,
           MainJoinA2c, MainJoinStderr, MainJoinC2a, AgentRead, AgentWrite, AgentExit,
           AgentDie, ClientSend, ClientRead, ClientClose, ClientQuit

LEMMA NothingHeld ==
    ASSUME NEW d, log = <<>>, pend = <<>> PROVE HeldHashes(d) = <<>>
  <1>1. Held = <<>>
    BY DEF Held
  <1>2. RowHashes(<<>>) = <<>>
    BY DEF RowHashes
  <1> QED
    BY <1>1, <1>2, OnlyEmpty, Zenon DEF HeldHashes

LEMMA AlwaysMirrorInv == Spec => [](Types /\ ForwardInv /\ MirrorInv)
  <1>1. Init => MirrorInv
    <2> SUFFICES ASSUME Init PROVE MirrorInv
      OBVIOUS
    <2>1. /\ \A d \in Directions : tpc[d] = "unborn" /\ out[d] = <<>>
          /\ mpc = "create" /\ phase = "closed" /\ log = <<>> /\ pend = <<>>
      BY DEF Init, T!Init
    <2>2. \A d \in Directions : HeldHashes(d) = <<>>
      BY <2>1, NothingHeld
    <2>3. HashesOf(<<>>) = <<>>
      BY DEF HashesOf
    <2>4. \A d \in Directions : Mirroring(d)
      BY <2>1, <2>2, <2>3 DEF Mirroring
    <2> QED
      BY <2>1, <2>4 DEF MirrorInv, Phases, NothingWaits
  <1>2. Types /\ ForwardInv /\ MirrorInv /\ [Next]_vars => MirrorInv'
    BY MirrorStep, PhasesStep, NothingWaitsStep DEF MirrorInv
  <1> QED
    BY <1>1, <1>2, AlwaysForwardInv, PTL DEF Spec

\* What is in the file is the beginning of what is held, and all of it
\* unless a call has failed.
LEMMA LoggedIsHeld ==
    ASSUME Types, MirrorInv, NEW d \in Directions
    PROVE  /\ Logged(d) \in Seq(Hashes) /\ HeldHashes(d) \in Seq(Hashes)
           /\ Len(Logged(d)) <= Len(HeldHashes(d))
           /\ \A i \in 1 .. Len(Logged(d)) : Logged(d)[i] = HeldHashes(d)[i]
           /\ faults = 0 => Logged(d) = HeldHashes(d)
  <1>1. log \in Seq(Rows) /\ pend \in Seq(Rows) /\ Held \in Seq(Rows)
    BY DEF Types, TraceOK, Held
  <1>2. PICK n \in 0 .. Len(Held) : n = Len(log)
    BY <1>1 DEF Held
  <1>3. SubSeq(Held, 1, n) = log
    BY <1>1, <1>2 DEF Held
  <1>4. Logged(d) = RowHashes(Only(SubSeq(Held, 1, n), RowsOf(d)))
    BY <1>3, Zenon DEF Logged
  <1>5. faults = 0 => Held = log
    BY <1>1, ConcatEmptySeq DEF MirrorInv, NothingWaits, Held
  <1>6. Logged(d) \in Seq(Hashes) /\ HeldHashes(d) \in Seq(Hashes)
    BY <1>1, RowHashesOf DEF Logged, HeldHashes
  <1>7. /\ Len(Logged(d)) <= Len(HeldHashes(d))
        /\ \A i \in 1 .. Len(Logged(d)) : Logged(d)[i] = HeldHashes(d)[i]
    BY <1>1, <1>4, RowHashesBefore DEF HeldHashes
  <1> QED
    BY <1>5, <1>6, <1>7 DEF Logged, HeldHashes

\* The rows of either direction are the frames forwarded, in their order,
\* whatever the interleaving and whichever trace call fails.
THEOREM ProxyTraceMirrorsWire == Spec => []TraceMirrorsWire
  <1>1. Types /\ MirrorInv => TraceMirrorsWire
    <2> SUFFICES ASSUME Types, MirrorInv, NEW d \in Directions
                 PROVE  /\ IsPrefix(Logged(d), HashesOf(out[d]))
                        /\ tpc[d] = "read" /\ phase = "open" /\ faults = 0 =>
                             Logged(d) = HashesOf(out[d])
      BY DEF TraceMirrorsWire
    <2>1. HashesOf(out[d]) \in Seq(Hashes)
      BY NoHandIsFrame, HashesOfNext DEF Types, PipesOK
    <2>2. /\ Len(HeldHashes(d)) <= Len(HashesOf(out[d]))
          /\ \A i \in 1 .. Len(HeldHashes(d)) : HeldHashes(d)[i] = HashesOf(out[d])[i]
      BY DEF MirrorInv, Mirroring
    <2>3. /\ Len(Logged(d)) <= Len(HashesOf(out[d]))
          /\ \A i \in 1 .. Len(Logged(d)) : Logged(d)[i] = HashesOf(out[d])[i]
          /\ Logged(d) \in Seq(Hashes)
      <3>1. /\ Logged(d) \in Seq(Hashes) /\ HeldHashes(d) \in Seq(Hashes)
            /\ Len(Logged(d)) <= Len(HeldHashes(d))
            /\ \A i \in 1 .. Len(Logged(d)) : Logged(d)[i] = HeldHashes(d)[i]
        BY LoggedIsHeld
      <3>2. /\ Len(Logged(d)) \in Nat /\ Len(HeldHashes(d)) \in Nat
            /\ Len(HashesOf(out[d])) \in Nat
        BY <2>1, <3>1
      <3> QED
        BY <2>2, <3>1, <3>2
    <2>4. IsPrefix(Logged(d), HashesOf(out[d]))
      BY <2>1, <2>3, PrefixAt
    <2>5. tpc[d] = "read" /\ phase = "open" /\ faults = 0 => Logged(d) = HashesOf(out[d])
      BY LoggedIsHeld DEF MirrorInv, Mirroring
    <2> QED
      BY <2>4, <2>5
  <1> QED
    BY <1>1, AlwaysMirrorInv, PTL

\* A trace that is sealed without a failure holds every frame the client
\* was given.
THEOREM ProxySealsAgentFrames == Spec => []SealedHasAgentFrames
  <1>1. Types /\ MirrorInv => SealedHasAgentFrames
    <2> SUFFICES ASSUME Types, MirrorInv, phase = "sealed", faults = 0
                 PROVE  Logged("a2c") = HashesOf(out["a2c"])
      BY DEF SealedHasAgentFrames
    <2>1. "a2c" \in Directions
      BY DEF Directions
    <2>2. HeldHashes("a2c") = HashesOf(out["a2c"])
      BY <2>1 DEF MirrorInv, Mirroring
    <2>3. Logged("a2c") = HeldHashes("a2c")
      BY <2>1, LoggedIsHeld
    <2> QED
      BY <2>2, <2>3
  <1> QED
    BY <1>1, AlwaysMirrorInv, PTL

-----------------------------------------------------------------------------
(* Offline replay *)

\* A payload hash determines the frame: one layout per payload.
OneLayout == \A f, g \in Frames : payload_hash(f) = payload_hash(g) => f = g

\* The rows whose blob is there.
Backed == {row \in Rows : row.hash \in DOMAIN cas}

\* Until a call fails every blob is complete and under its own hash, and
\* every row has one.
BlobsMatch ==
    faults = 0 =>
      /\ \A h \in DOMAIN cas : cas[h] \in Frames /\ payload_hash(cas[h]) = h
      /\ Held \in Seq(Backed)

\* Frames are only ever added to the store, each under its own hash.
LEMMA FrameAdded ==
    ASSUME NEW c, NEW r \in Frames,
           \A h \in DOMAIN c : c[h] \in Frames /\ payload_hash(c[h]) = h,
           NEW n, n = AddBlob(c, payload_hash(r), r)
    PROVE  /\ \A h \in DOMAIN n : n[h] \in Frames /\ payload_hash(n[h]) = h
           /\ DOMAIN c \subseteq DOMAIN n /\ payload_hash(r) \in DOMAIN n
  BY Zenon DEF AddBlob, StoreBlob

LEMMA BlobsMatchInit == Init => BlobsMatch
  <1> SUFFICES ASSUME Init PROVE BlobsMatch
    OBVIOUS
  <1>1. log = <<>> /\ pend = <<>> /\ DOMAIN cas = {}
    BY DEF Init, T!Init
  <1>2. Held = <<>>
    BY <1>1 DEF Held
  <1>3. <<>> \in Seq(Backed)
    OBVIOUS
  <1> QED
    BY <1>1, <1>2, <1>3 DEF BlobsMatch

LEMMA BlobsMatchStep ==
    ASSUME Types, BlobsMatch, [Next]_vars PROVE BlobsMatch'
  <1>0. faults \in Nat /\ log \in Seq(Rows) /\ pend \in Seq(Rows)
    BY DEF Types, RunOK, TraceOK
  <1>1. CASE UNCHANGED <<faults, log, pend, cas>>
    BY <1>1 DEF BlobsMatch, Held, Backed
  <1>2. CASE Fails
    BY <1>0, <1>2 DEF Fails, BlobsMatch
  <1>3. ASSUME NEW d \in Directions, ThreadRecord(d) PROVE BlobsMatch'
    <2> DEFINE f == hand[d]
               row == EventRecord(next, d, f)
    <2>1. f \in Frames /\ row \in Rows /\ row.hash = payload_hash(f)
      BY EventRecordType DEF Types, ThreadsOK, TraceOK
    <2> HIDE DEF f, row
    <2>2. CASE Works /\ T!Record(d, f)
      <3>1. /\ Held' = Append(Held, row) /\ cas' = AddBlob(cas, payload_hash(f), f)
            /\ faults' = faults
        BY <2>1, <2>2, RecordOutcomes DEF Types, Works, row
      <3> SUFFICES ASSUME faults = 0
                   PROVE  /\ \A h \in DOMAIN cas' : cas'[h] \in Frames /\ payload_hash(cas'[h]) = h
                          /\ Held' \in Seq(Backed')
        BY <3>1 DEF BlobsMatch
      <3>2. /\ \A h \in DOMAIN cas' : cas'[h] \in Frames /\ payload_hash(cas'[h]) = h
            /\ DOMAIN cas \subseteq DOMAIN cas' /\ payload_hash(f) \in DOMAIN cas'
        <4>1. \A h \in DOMAIN cas : cas[h] \in Frames /\ payload_hash(cas[h]) = h
          BY DEF BlobsMatch
        <4>2. PICK n : n = cas'
          OBVIOUS
        <4>3. n = AddBlob(cas, payload_hash(f), f)
          BY <3>1, <4>2
        <4>4. /\ \A h \in DOMAIN n : n[h] \in Frames /\ payload_hash(n[h]) = h
              /\ DOMAIN cas \subseteq DOMAIN n /\ payload_hash(f) \in DOMAIN n
          BY <2>1, <4>1, <4>3, FrameAdded
        <4> QED
          BY <4>2, <4>4
      <3>3. Backed \subseteq Backed' /\ row \in Backed'
        BY <2>1, <3>2 DEF Backed
      <3>4. Held \in Seq(Backed')
        BY <3>3, SeqMonotonic DEF BlobsMatch
      <3>5. Append(Held, row) \in Seq(Backed')
        BY <3>3, <3>4
      <3> QED
        BY <3>1, <3>2, <3>5
    <2>3. CASE Works /\ UNCHANGED trace
      BY <1>1, <2>3 DEF Works, trace
    <2> QED
      BY <1>2, <1>3, <2>2, <2>3 DEF ThreadRecord, f
  <1>4. CASE MainCreate
    <2>1. CASE Works /\ T!Begin
      <3>1. log' = <<>> /\ pend' = <<>> /\ cas' = cas /\ faults' = faults
        BY <2>1 DEF T!Begin, Works
      <3>2. Held' = <<>>
        BY <3>1 DEF Held
      <3>3. <<>> \in Seq(Backed')
        OBVIOUS
      <3> QED
        BY <3>1, <3>2, <3>3 DEF BlobsMatch
    <2> QED
      BY <1>2, <1>4, <2>1 DEF MainCreate
  <1>5. CASE MainSpawn
    BY <1>1, <1>2, <1>5 DEF MainSpawn, Works, trace
  <1>6. CASE MainFinalize
    <2>1. CASE Works /\ T!Seal
      <3>1. log' = log \o pend /\ pend' = <<>> /\ cas' = cas /\ faults' = faults
        BY <2>1 DEF T!Seal, Works
      <3>2. Held' = Held
        <4>1. Held' = log' \o <<>> /\ log' = Held
          BY <3>1 DEF Held
        <4>2. Held \in Seq(Rows)
          BY <1>0 DEF Held
        <4> QED
          BY <4>1, <4>2, ConcatEmptySeq
      <3> QED
        BY <3>1, <3>2 DEF BlobsMatch, Backed
    <2> QED
      BY <1>2, <1>6, <2>1 DEF MainFinalize
  <1> QED
    BY <1>1, <1>3, <1>4, <1>5, <1>6
       DEF Next, Thread, Stderr, Main, Agent, Client, Stopped, vars, trace,
           ThreadRead, ThreadEof, ThreadForward, StderrCopy, StderrEof, MainWait,
           MainJoinA2c, MainJoinStderr, MainJoinC2a, AgentRead, AgentWrite, AgentExit,
           AgentDie, ClientSend, ClientRead, ClientClose, ClientQuit

\* Until a call fails, offline replay of the trace as it stands emits the
\* lines the client was given, byte for byte, as far as it goes.
THEOREM ProxyReplaysOffline ==
    ASSUME OneLayout
    PROVE  Spec => [](faults = 0 => OfflineReplayIsPrefix)
  <1>1. Types /\ MirrorInv /\ BlobsMatch => (faults = 0 => OfflineReplayIsPrefix)
    <2> SUFFICES ASSUME Types, MirrorInv, BlobsMatch, faults = 0 PROVE OfflineReplayIsPrefix
      OBVIOUS
    <2>1. PICK mine : mine = Only(log, RowsOf("a2c"))
      OBVIOUS
    <2>2. PICK sink : sink = out["a2c"]
      OBVIOUS
    <2>3. sink \in Seq(Frames) /\ "a2c" \in Directions
      BY <2>2 DEF Types, PipesOK, Directions
    <2>4. log \in Seq(Backed)
      <3>1. Held = log
        BY ConcatEmptySeq DEF MirrorInv, NothingWaits, Held, Types, TraceOK
      <3> QED
        BY <3>1 DEF BlobsMatch
    <2>5. mine \in Seq(Backed \cap RowsOf("a2c"))
      BY <2>1, <2>4, OnlyType, Zenon
    <2>6. /\ Len(RowHashes(mine)) <= Len(HashesOf(sink))
          /\ \A i \in 1 .. Len(RowHashes(mine)) : RowHashes(mine)[i] = HashesOf(sink)[i]
      BY <2>1, <2>2, <2>3, LoggedIsHeld DEF MirrorInv, Mirroring, Logged
    <2>7. Len(RowHashes(mine)) = Len(mine) /\ Len(HashesOf(sink)) = Len(sink)
      BY <2>3, <2>5 DEF RowHashes, HashesOf
    <2>8. \A i \in 1 .. Len(mine) :
            /\ mine[i].hash = payload_hash(sink[i]) /\ sink[i] \in Frames
            /\ mine[i].hash \in DOMAIN cas
      <3> SUFFICES ASSUME NEW i \in 1 .. Len(mine)
                   PROVE  /\ mine[i].hash = payload_hash(sink[i]) /\ sink[i] \in Frames
                          /\ mine[i].hash \in DOMAIN cas
        OBVIOUS
      <3>1. i \in DOMAIN mine /\ i \in DOMAIN sink /\ mine[i] \in Backed
        BY <2>3, <2>5, <2>6, <2>7
      <3>2. RowHashes(mine)[i] = mine[i].hash /\ HashesOf(sink)[i] = payload_hash(sink[i])
        BY <3>1 DEF RowHashes, HashesOf
      <3>3. sink[i] \in Frames
        BY <2>3, <3>1
      <3> QED
        BY <2>6, <2>7, <3>1, <3>2, <3>3 DEF Backed
    <2>9. \A i \in 1 .. Len(mine) : cas[mine[i].hash] = sink[i]
      BY <2>8 DEF BlobsMatch, OneLayout
    <2>10. OfflineReplay = [i \in 1 .. Len(mine) |-> sink[i]]
      <3>1. DOMAIN mine = 1 .. Len(mine)
        BY <2>5
      <3> QED
        BY <2>1, <2>9, <3>1 DEF OfflineReplay
    <2>11. /\ OfflineReplay \in Seq(Frames) /\ Len(OfflineReplay) = Len(mine)
           /\ \A i \in 1 .. Len(mine) : OfflineReplay[i] = sink[i]
      <3>1. Len(mine) \in Nat
        BY <2>5
      <3> QED
        BY <2>8, <2>10, <3>1
    <2>12. IsPrefix(OfflineReplay, sink)
      BY <2>3, <2>6, <2>7, <2>11, PrefixAt
    <2> QED
      BY <2>2, <2>12 DEF OfflineReplayIsPrefix
  <1>2. Types /\ BlobsMatch /\ [Next]_vars => BlobsMatch'
    BY BlobsMatchStep
  <1> QED
    BY <1>1, <1>2, BlobsMatchInit, AlwaysMirrorInv, PTL DEF Spec

-----------------------------------------------------------------------------
(* Numbering *)

\* The log is a sequence, the writer numbers the next row by its length, and
\* the sealed manifest counts its rows.
NumberInv ==
    /\ faults = 0
    /\ log \in Seq({log[i] : i \in DOMAIN log})
    /\ SeqIsPosition
    /\ phase = "open" => pend = <<>> /\ next = Len(log)
    /\ phase = "sealed" => count = Len(log)
Numbered == faults = 0 => NumberInv

\* A row put behind a log is its last, and the others stay.
LEMMA OneMoreRow ==
    ASSUME NEW S, NEW s \in Seq(S), NEW e
    PROVE  /\ s \o <<>> \o <<e>> \in Seq(S \cup {e})
           /\ Len(s \o <<>> \o <<e>>) = Len(s) + 1
           /\ \A i \in 1 .. Len(s) : (s \o <<>> \o <<e>>)[i] = s[i]
           /\ (s \o <<>> \o <<e>>)[Len(s) + 1] = e
  <1> DEFINE R == S \cup {e}
  <1>1. s \in Seq(R) /\ <<e>> \in Seq(R)
    <2>1. S \subseteq R
      OBVIOUS
    <2> QED
      BY <2>1, SeqMonotonic
  <1>2. s \o <<>> = s
    BY ConcatEmptySeq
  <1> HIDE DEF R
  <1>3. s \o <<e>> \in Seq(R) /\ Len(s \o <<e>>) = Len(s) + 1
        /\ \A i \in 1 .. Len(s) : (s \o <<e>>)[i] = s[i]
        /\ (s \o <<e>>)[Len(s) + 1] = e
    BY <1>1
  <1> QED
    BY <1>2, <1>3 DEF R

\* A sequence is one over its own elements.
LEMMA OwnElements ==
    ASSUME NEW S, NEW s \in Seq(S)
    PROVE  s \in Seq({s[i] : i \in DOMAIN s})
  BY IsASeq

\* record(), by either thread, takes the number its row's position asks for.
LEMMA RecordNumbers ==
    ASSUME NumberInv, phase = "open", NEW d, NEW r, T!Record(d, r), faults' = faults
    PROVE  NumberInv'
  <1> DEFINE row == T!EventRecord(next, d, r)
             S   == {log[i] : i \in DOMAIN log}
  <1>1. /\ log' = log \o <<>> \o <<row>> /\ pend' = <<>> /\ next' = next + 1
        /\ next = Len(log) /\ log \in Seq(S) /\ phase' = phase
    BY DEF NumberInv, T!Record
  <1>2. row.seq = next
    BY DEF T!EventRecord
  <1> HIDE DEF row, S
  <1>3. /\ log' \in Seq(S \cup {row}) /\ Len(log') = Len(log) + 1
        /\ \A i \in 1 .. Len(log) : log'[i] = log[i]
        /\ log'[Len(log) + 1] = row
    BY <1>1, OneMoreRow
  <1>4. log' \in Seq({log'[i] : i \in DOMAIN log'})
    BY <1>3, OwnElements
  <1>5. DOMAIN log' = 1 .. Len(log) + 1 /\ DOMAIN log = 1 .. Len(log) /\ Len(log) \in Nat
    BY <1>1, <1>3
  <1>6. SeqIsPosition'
    <2> SUFFICES ASSUME NEW i \in DOMAIN log' PROVE log'[i].seq = i - 1
      BY DEF SeqIsPosition
    <2>1. CASE i \in 1 .. Len(log)
      BY <1>3, <1>5, <2>1 DEF NumberInv, SeqIsPosition
    <2>2. CASE i = Len(log) + 1
      BY <1>1, <1>2, <1>3, <1>5, <2>2
    <2> QED
      BY <1>5, <2>1, <2>2
  <1> QED
    BY <1>1, <1>3, <1>4, <1>6 DEF NumberInv

LEMMA NumberInvInit == Init => NumberInv
  <1> SUFFICES ASSUME Init PROVE NumberInv
    OBVIOUS
  <1>1. faults = 0 /\ log = <<>> /\ phase = "closed"
    BY DEF Init, T!Init
  <1>2. log \in Seq({log[i] : i \in DOMAIN log}) /\ DOMAIN log = {}
    BY <1>1
  <1> QED
    BY <1>1, <1>2 DEF NumberInv, SeqIsPosition

\* Calls that have failed stay failed.
LEMMA NoFault ==
    ASSUME Types, [Next]_vars, faults' = 0 PROVE faults = 0 /\ ~Fails
  <1>1. faults \in Nat
    BY DEF Types, RunOK
  <1>2. UNCHANGED faults \/ Fails
    BY DEF Next, Thread, Stderr, Main, Agent, Client, Stopped, vars, Works,
           ThreadRead, ThreadEof, ThreadForward, ThreadRecord, StderrCopy, StderrEof,
           MainCreate, MainSpawn, MainWait, MainJoinA2c, MainJoinStderr, MainFinalize,
           MainJoinC2a, AgentRead, AgentWrite, AgentExit, AgentDie, ClientSend, ClientRead,
           ClientClose, ClientQuit
  <1> QED
    BY <1>1, <1>2 DEF Fails

\* The numbering survives every step of the threads, run(), the agent and
\* the client.
LEMMA NumberStep ==
    ASSUME ~Fails, NumberInv, [Next]_vars
    PROVE  NumberInv'
  <1>1. CASE UNCHANGED <<faults, trace>>
    BY <1>1 DEF trace, NumberInv, SeqIsPosition
  <1>2. ASSUME NEW d \in Directions, ThreadRecord(d) PROVE NumberInv'
    <2>1. CASE phase = "open"
      BY <1>2, <2>1, RecordNumbers DEF ThreadRecord, Works
    <2>2. CASE phase # "open"
      BY <1>1, <1>2, <2>2 DEF ThreadRecord, Works
    <2> QED
      BY <2>1, <2>2
  <1>3. CASE MainCreate
    <2>1. /\ faults' = faults /\ log' = <<>> /\ pend' = <<>> /\ next' = 0
          /\ phase' = "open"
      BY <1>3 DEF MainCreate, Works, T!Begin
    <2>2. log' \in Seq({log'[i] : i \in DOMAIN log'}) /\ Len(log') = 0 /\ DOMAIN log' = {}
      BY <2>1
    <2> QED
      BY <2>1, <2>2 DEF NumberInv, SeqIsPosition
  <1>4. CASE MainSpawn
    BY <1>1, <1>4 DEF MainSpawn, Works
  <1>5. CASE MainFinalize
    <2>1. T!Seal /\ faults' = faults
      BY <1>5 DEF MainFinalize, Works
    <2>2. phase' = "sealed" /\ log' = log \o <<>> /\ count' = Len(log)
      BY <2>1 DEF T!Seal, NumberInv
    <2>3. log' = log
      BY <2>2, ConcatEmptySeq DEF NumberInv
    <2> QED
      BY <2>1, <2>2, <2>3 DEF NumberInv, SeqIsPosition
  <1>6. CASE UNCHANGED vars
    BY <1>1, <1>6 DEF vars
  <1> QED
    BY <1>1, <1>2, <1>3, <1>4, <1>5, <1>6
       DEF Next, Thread, Stderr, Main, Agent, Client, Stopped, ThreadRead, ThreadEof,
           ThreadForward, StderrCopy, StderrEof, MainWait, MainJoinA2c, MainJoinStderr,
           MainJoinC2a, AgentRead, AgentWrite, AgentExit, AgentDie, ClientSend,
           ClientRead, ClientClose, ClientQuit

LEMMA AlwaysNumbered == Spec => []Numbered
  <1>1. Types /\ Numbered /\ [Next]_vars => Numbered'
    BY NoFault, NumberStep DEF Numbered
  <1>2. NumberInv => Numbered
    BY DEF Numbered
  <1> QED
    BY <1>1, <1>2, NumberInvInit, AlwaysMirrorInv, PTL DEF Spec

\* Until a call fails the rows of both threads are numbered by their
\* position, for all clients, agents and pipe sizes.
THEOREM ProxyNumbersByPosition ==
    Spec => [](faults = 0 => SeqIsPosition)
  <1>1. Numbered => (faults = 0 => SeqIsPosition)
    BY DEF Numbered, NumberInv
  <1> QED
    BY <1>1, AlwaysNumbered, PTL

-----------------------------------------------------------------------------
(* Writer: the proxy keeps to what a TraceWriter promises *)

\* The writer exists from its creation to finalize, and nothing is recorded
\* before the agent is spawned.
WriterOwned ==
    /\ mpc \in {"spawn", "wait", "join_a2c", "join_stderr", "finalize"} => phase = "open"
    /\ mpc = "spawn" => pend = <<>>

LEMMA WriterOwnedStep ==
    ASSUME Types, NotSpawned, WriterOwned, [Next]_vars PROVE WriterOwned'
  <1>1. CASE UNCHANGED <<mpc, phase, pend>>
    BY <1>1 DEF WriterOwned
  <1>2. ASSUME NEW d \in Directions, ThreadRecord(d) PROVE WriterOwned'
    <2>1. UNCHANGED <<mpc, phase>>
      BY <1>2 DEF ThreadRecord, others, trace, T!Record, T!RecordBlobErr, T!RecordFlushErr
    <2>2. mpc # "spawn"
      BY <1>2 DEF ThreadRecord, NotSpawned
    <2> QED
      BY <2>1, <2>2 DEF WriterOwned
  <1>3. CASE Main
    BY <1>3 DEF Main, MainCreate, MainSpawn, MainWait, MainJoinA2c, MainJoinStderr,
                MainFinalize, MainJoinC2a, WriterOwned, trace, T!Begin, T!Seal
  <1> QED
    BY <1>1, <1>2, <1>3
       DEF Next, Thread, Stderr, Agent, Client, Stopped, vars, others, trace,
           ThreadRead, ThreadEof, ThreadForward, StderrCopy, StderrEof, AgentRead,
           AgentWrite, AgentExit, AgentDie, ClientSend, ClientRead, ClientClose, ClientQuit

LEMMA TraceKeeps ==
    ASSUME Types, NotSpawned, WriterOwned, [Next]_vars
    PROVE  [T!Next]_trace
  <1>1. ASSUME NEW d \in Directions, ThreadRecord(d) PROVE T!Next \/ UNCHANGED trace
    <2>1. hand[d] \in Frames
      BY DEF Types, ThreadsOK
    <2>2. \/ T!Record(d, hand[d]) \/ UNCHANGED trace
          \/ T!RecordBlobErr(hand[d]) \/ T!RecordFlushErr(d, hand[d])
      BY <1>1, Zenon DEF ThreadRecord
    <2>3. \A r \in Frames :
            T!Record(d, r) \/ T!RecordBlobErr(r) \/ T!RecordFlushErr(d, r) => T!Next
      BY Zenon DEF T!Next, T!Directions, Directions
    <2> QED
      BY <2>1, <2>2, <2>3, Zenon
  <1>2. CASE MainCreate
    BY <1>2, Zenon DEF MainCreate, T!Next
  <1>3. CASE MainSpawn
    <2>1. CASE UNCHANGED trace
      BY <2>1
    <2>2. CASE ~UNCHANGED trace
      <3>1. /\ phase = "open" /\ pend = <<>> /\ log \in Seq(Rows)
            /\ phase' = "closed" /\ UNCHANGED <<log, pend, cas, next, count>>
        BY <1>3, <2>2 DEF MainSpawn, WriterOwned, Types, TraceOK
      <3>2. 0 \in 0 .. Len(pend) /\ log' = log \o SubSeq(pend, 1, 0)
        BY <3>1
      <3> QED
        BY <3>1, <3>2, Zenon DEF T!Abandon, T!Next
    <2> QED
      BY <2>1, <2>2
  <1>4. CASE MainFinalize
    <2>1. phase = "open"
      BY <1>4 DEF MainFinalize, WriterOwned
    <2> QED
      BY <1>4, <2>1, Zenon DEF MainFinalize, T!Abandon, T!Next
  <1>5. CASE UNCHANGED trace
    BY <1>5
  <1> QED
    BY <1>1, <1>2, <1>3, <1>4, <1>5
       DEF Next, Thread, Stderr, Main, Agent, Client, Stopped, vars,
           ThreadRead, ThreadEof, ThreadForward, StderrCopy, StderrEof, MainWait,
           MainJoinA2c, MainJoinStderr, MainJoinC2a, AgentRead, AgentWrite, AgentExit,
           AgentDie, ClientSend, ClientRead, ClientClose, ClientQuit

\* The proxy does to its trace only what TraceLog allows, whatever its
\* threads and its failing calls do: what TraceStore implements call by call
\* is what run() relies on.
THEOREM ProxyKeepsTraceLog == Spec => T!Spec
  <1>1. Init => WriterOwned /\ T!Init
    BY DEF Init, WriterOwned
  <1>2. Types /\ NotSpawned /\ WriterOwned /\ [Next]_vars => WriterOwned' /\ [T!Next]_trace
    BY WriterOwnedStep, TraceKeeps
  <1>3. ForwardInv => NotSpawned
    BY DEF ForwardInv
  <1>4. [T!Next]_trace => [T!Next]_(T!traceVars)
    BY DEF trace, T!traceVars
  <1> QED
    BY <1>1, <1>2, <1>3, <1>4, AlwaysForwardInv, PTL DEF Spec, T!Spec

=============================================================================
