------------------------------ MODULE MCReplay ------------------------------
(* Small instances of Replay. *)
EXTENDS Replay

Line(m, i, o, b, lay) ==
    [shape |-> "object", method |-> m, id |-> i, outcome |-> o, body |-> b,
     layout |-> lay, eol |-> "lf"]

Ask(i, b) == Line("session/prompt", i, FALSE, b, "compact")
Answer(i) == Line(None, i, TRUE, "r", "spaced")
Note      == Line("session/prompt", None, FALSE, "n", "compact")
OddAsk    == Line("session/prompt", OddId, FALSE, "p", "compact")
Garbage   == [Note EXCEPT !.shape = "garbage"]

MCFrames == Raws

\* Requests, answers and notifications in both directions.  Client and agent
\* number their requests independently, so both have a request "1"; the live
\* client answers the agent's under that id and numbers its own as it likes.
MCTape ==
    {<<"c2a", Ask("1", "p")>>, <<"c2a", Ask("2", "q")>>, <<"c2a", Answer("1")>>,
     <<"c2a", Note>>, <<"a2c", Answer("1")>>, <<"a2c", Answer("2")>>,
     <<"a2c", Ask("1", "p")>>, <<"a2c", Note>>}
MCClient ==
    {Ask(i, b) : i \in {"1", "7"}, b \in {"p", "q"}}
        \cup {Answer("1"), Note, OddAsk, Garbage,
              [Ask("1", "p") EXCEPT !.layout = "spaced", !.eol = "crlf"]}

\* A recorded client that numbers every request alike.
ReuseTape == {<<"c2a", Ask("1", "p")>>, <<"c2a", Ask("1", "q")>>, <<"a2c", Answer("1")>>}

=============================================================================
