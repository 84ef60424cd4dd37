------------------------------ MODULE MCProxy ------------------------------
(* Small instances of Proxy. *)
EXTENDS Proxy

MCBodies == {<<"p", 0>>} \cup EchoBodies(MaxSent)

Ask(m, i) == Envelope(m, i, FALSE, <<"p", 0>>)
Other(s)  == [Ask(None, None) EXCEPT !.shape = s]

New      == Ask("session/new", "1")
Prompt   == Ask("session/prompt", "2")
Shutdown == Ask("shutdown", "1")
Garbage  == Other("garbage")
Blank    == Other("blank")
Crlf     == [New EXCEPT !.eol = "crlf"]

\* A request the agent sends to the client.
AgentAsks == Ask("session/update", "1")

MCFrames == Raws
ShutdownSessions == {Prompt, Shutdown}
LiveLines == {Prompt, Garbage}
RoughLines == {Prompt, Shutdown, Crlf, Garbage, Blank}
LiveAgent == {Garbage}
RoughAgent == {AgentAsks, Garbage, Blank}

=============================================================================
