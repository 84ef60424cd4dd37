---------------------------- MODULE MCAlgorithms ----------------------------
(* The sequential algorithms, each on all small inputs: the alignment of two
   traces, byte framing, canonical JSON.  A behaviour runs one of them while
   the others stay at their trivial ends. *)
EXTENDS Diverge, FrameReader, Canonical

vars == <<diffVars, readerVars, left, right>>

\* A frame, its echo in the other direction, and an answer.
Object(m, i, o) ==
    [shape |-> "object", method |-> m, id |-> i, outcome |-> o, body |-> "p",
     layout |-> "compact", eol |-> "lf"]
Ask      == Object("session/new", "1", FALSE)
Answer   == Object(None, "1", TRUE)
MCFrames == {Ask, Answer}
MCEntries == {<<"c2a", Ask>>, <<"a2c", Ask>>, <<"a2c", Answer>>}

MCBytes == {"{", "a", "}", LF, CR, SP}

\* Texts of up to two characters, among them the quote, the comma, the
\* backslash, two control characters, a character above the surrogates and an
\* emoji; literals, numbers, arrays and objects made of such texts; and a
\* string that, unescaped, would read as two.
Texts2 == BoundedSeq({Quote, 44, Backslash, 10, 31, 97, 57344, 128512}, 2)
Texts1 == {<<>>, <<97>>, <<Quote>>, <<57344>>, <<128512>>}
Null   == [lit |-> <<110, 117, 108, 108>>]
Atoms  == {Null, [num |-> <<49>>]} \cup {[str |-> t] : t \in Texts1}
Elems  == Atoms \cup {[arr |-> <<>>], [obj |-> <<>>],
                      [obj |-> <<<< <<97>>, [num |-> <<49>>] >>>>]}
Members == Texts1 \X {[num |-> <<49>>], [arr |-> <<>>]}
Objects == {[obj |-> ms] : ms \in {s \in BoundedSeq(Members, 2) :
                                     Len(s) = 2 => s[1][1] # s[2][1]}}
MCValues ==
    Elems \cup Objects \cup {[str |-> t] : t \in Texts2}
        \cup {[arr |-> es] : es \in BoundedSeq(Elems \ {[arr |-> <<>>]}, 1)}
        \cup {[arr |-> <<[str |-> s], [str |-> t]>>] : s, t \in {<<>>, <<Quote>>, <<97>>}}
        \cup {[arr |-> <<[str |-> <<Quote, 44, Quote>>]>>]}

DiffAtRest == ta = <<>> /\ tb = <<>> /\ ia = 0 /\ jb = 0 /\ ops = <<>> /\ dpc = "done"
ReaderAtRest == input = <<>> /\ pos = 0 /\ frames = <<>> /\ sink = <<>> /\ rpc = "eof"
CanonicalAtRest == left = Null /\ right = Null

Init ==
    \/ DiffInit /\ ReaderAtRest /\ CanonicalAtRest
    \/ DiffAtRest /\ ReaderInit /\ CanonicalAtRest
    \/ DiffAtRest /\ ReaderAtRest /\ CanonicalInit

Finished == dpc = "done" /\ rpc # "read" /\ UNCHANGED vars

Next ==
    \/ DiffNext /\ UNCHANGED <<readerVars, left, right>>
    \/ ReaderNext /\ UNCHANGED <<diffVars, left, right>>
    \/ Finished

Spec == Init /\ [][Next]_vars

=============================================================================
