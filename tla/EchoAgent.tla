----------------------------- MODULE EchoAgent -----------------------------
(***************************************************************************)
(* acp-echo-agent (crates/acp-cli/src/bin/echo_agent.rs), the fixture that *)
(* every end-to-end test records: what it answers to one frame.  Constant  *)
(* level; Proxy runs it behind pipes.                                      *)
(*                                                                         *)
(* A body is a pair <<what, n>>: n is the counter the text contains.       *)
(***************************************************************************)
EXTENDS Wire

EchoMethods == {"initialize", "session/new", "session/prompt", "shutdown", "session/update"}

\* write_envelope serialises with serde_json::to_vec and ends the line in LF.
Envelope(m, i, out, b) ==
    [shape |-> "object", method |-> m, id |-> i, outcome |-> out, body |-> b,
     layout |-> "compact", eol |-> "lf"]

\* The bodies it writes while its counters are at most n.
EchoBodies(n) ==
    ({"sess", "echo"} \X (1 .. n))
        \cup ({"capabilities", "end_turn", "null", "method not found"} \X {0})

send_result(i, b)       == Envelope(None, i, TRUE, b)
send_error(i, b)        == Envelope(None, i, TRUE, b)
send_notification(m, b) == Envelope(m, None, FALSE, b)

EchoState == [prompts : Nat, sessions : Nat]
EchoStart == [prompts |-> 0, sessions |-> 0]

\* The counters after the frame f.
EchoNext(st, f) ==
    CASE from_value(f.id) = None       -> st
      [] f.method = "session/new"      -> [st EXCEPT !.sessions = @ + 1]
      [] f.method = "session/prompt"   -> [st EXCEPT !.prompts = @ + 1]
      [] OTHER                         -> st

\* The lines written in answer to f, each flushed on its own.  Frames without
\* an id are ignored; a client's response has no method and is answered like
\* an unknown method.
EchoAnswer(st, f) ==
    LET i == from_value(f.id)
        n == EchoNext(st, f)
    IN  CASE i = None -> <<>>
          [] i # None /\ f.method = "initialize" ->
                <<send_result(i, <<"capabilities", 0>>)>>
          [] i # None /\ f.method = "session/new" ->
                <<send_result(i, <<"sess", n.sessions>>)>>
          [] i # None /\ f.method = "session/prompt" ->
                << send_notification("session/update", <<"echo", n.prompts>>),
                   send_result(i, <<"end_turn", 0>>) >>
          [] i # None /\ f.method = "shutdown" ->
                <<send_result(i, <<"null", 0>>)>>
          [] OTHER -> <<send_error(i, <<"method not found", 0>>)>>

\* shutdown leaves the loop, after its answer.
EchoLeaves(f) == from_value(f.id) # None /\ f.method = "shutdown"

=============================================================================
