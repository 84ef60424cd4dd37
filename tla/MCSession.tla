----------------------------- MODULE MCSession -----------------------------
(* Small instances of Session. *)
EXTENDS Session

MCBodies == {<<"p", 0>>} \cup EchoBodies(MaxSent)
MCFrames == Raws

Ask(m, i) == Envelope(m, i, FALSE, <<"p", 0>>)

New      == Ask("session/new", "1")
Note     == Ask("session/update", None)
Prompt   == Ask("session/prompt", "2")
Again    == Ask("session/prompt", "3")
Shutdown == Ask("shutdown", "3")

\* Two requests that differ in their ids only, a notification between
\* requests, which the agent does not answer, sessions that end in a shutdown,
\* and one whose client goes on after it.
EndInShutdown == { <<New, Prompt, Shutdown>>, <<Prompt, Note, Shutdown>> }
MCScripts     == EndInShutdown \cup
                   { <<Prompt, Again>>, <<New, Note, Prompt>>, <<New, Shutdown, Prompt>> }
NoLines   == {}

\* The live client counts down instead of up.
CountDown == [i \in Ids |-> CASE i = "1" -> "3" [] i = "2" -> "2" [] i = "3" -> "1"]

=============================================================================
