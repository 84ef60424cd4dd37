---------------------------- MODULE MCTraceStore ----------------------------
(* Small instances of TraceStore: a request and its answer, plus the answer
   once more in another byte layout. *)
EXTENDS TraceStore

ObjectLine(m, i, out, lay) ==
    [shape |-> "object", method |-> m, id |-> i, outcome |-> out,
     body |-> "p", layout |-> lay, eol |-> "lf"]

Request  == ObjectLine("session/new", "1", FALSE, "compact")
Answer   == ObjectLine(None, "1", TRUE, "compact")
Answer2  == ObjectLine(None, "1", TRUE, "spaced")

OneLayoutFrames == {Request, Answer}
TwoLayoutFrames == {Answer, Answer2}

=============================================================================
