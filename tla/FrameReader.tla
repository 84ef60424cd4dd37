---------------------------- MODULE FrameReader ----------------------------
(***************************************************************************)
(* Framing at the level of bytes (crates/acp-wire): FrameReader cuts a     *)
(* stream into lines, and write_frame puts a frame on the next pipe, as a  *)
(* forwarding thread of the proxy does with every frame it reads.  The     *)
(* other modules see lines only; this one justifies it.                    *)
(*                                                                         *)
(*   input    the bytes the peer wrote before its end of the pipe closed   *)
(*   pos      how many of them read_until has consumed                     *)
(*   frames   the raw bytes of the frames returned so far                  *)
(*   sink     the bytes written to the next pipe                           *)
(*   rpc      "read", or how the loop ended: "eof", "error"                *)
(***************************************************************************)
EXTENDS Naturals, Sequences, SequencesExt, Projection

CONSTANTS
    Bytes,     \* what streams are made of
    MaxInput   \* length of a stream

LF == "lf"
CR == "cr"
SP == "sp"
HT == "ht"

\* What the JSON parser skips around and between the tokens of a value.
WhiteSpace == {LF, CR, SP, HT}

ASSUME FrameReaderAssumption == {LF, CR} \subseteq Bytes /\ MaxInput \in Nat

VARIABLES input, pos, frames, sink, rpc

readerVars == <<input, pos, frames, sink, rpc>>

\* Frame::parse on a line of bytes.  Without its white space it must be one
\* object, a "{", then anything but braces, then a "}".
ParsesBytes(s) ==
    LET text == Only(s, Bytes \ WhiteSpace)
    IN  /\ Len(text) >= 2 /\ Head(text) = "{" /\ Last(text) = "}"
        /\ \A k \in 2 .. Len(text) - 1 : text[k] \notin {"{", "}"}

\* read_until: up to and with the next LF, or all that is left.
NextLine ==
    LET ends == {k \in pos + 1 .. Len(input) : input[k] = LF}
    IN  SubSeq(input, pos + 1, Min(ends \cup {Len(input)}))

\* Mutants: every CR at the end of a line is white space to drop, with or
\* without a newline; the last byte is dropped although it is no newline.
StripEolAnyCr(l) ==
    LET text == {k \in DOMAIN l : l[k] \notin {CR, LF}}
    IN  SubSeq(l, 1, IF text = {} THEN 0 ELSE Max(text))
StripEolUnchecked(l) == Front(l)

\* One LF goes, and then one CR in front of it; without LF nothing does.
StripEol(l) ==
    IF Last(l) # LF THEN l
    ELSE IF Len(l) > 1 /\ l[Len(l) - 1] = CR THEN SubSeq(l, 1, Len(l) - 2)
    ELSE Front(l)

\* Mutant: the newline is forgotten.
write_frame_bare(out, r) == out \o r

\* The bytes on the pipe once a frame has been written to it; one with an
\* embedded newline is refused (EmbeddedNewline).
write_frame(out, r) == IF Contains(r, LF) THEN out ELSE out \o r \o <<LF>>

-----------------------------------------------------------------------------
ReaderInit ==
    /\ input \in BoundedSeq(Bytes, MaxInput)
    /\ pos = 0 /\ frames = <<>> /\ sink = <<>> /\ rpc = "read"

\* Mutant: a newline is counted whether it was there or not.
ConsumeNewline == pos' = pos + Len(StripEol(NextLine)) + 1 /\ UNCHANGED input

Consume == pos' = pos + Len(NextLine) /\ UNCHANGED input

\* read_until returns 0: Ok(None).
ReadEnd ==
    /\ rpc = "read" /\ NextLine = <<>>
    /\ rpc' = "eof"
    /\ UNCHANGED <<input, pos, frames, sink>>

\* An empty line: read_frame calls itself.
ReadEmptyLine ==
    /\ rpc = "read" /\ NextLine # <<>> /\ StripEol(NextLine) = <<>>
    /\ Consume
    /\ UNCHANGED <<frames, sink, rpc>>

\* A frame: it is returned, and the caller forwards it.
ReadFrameLine ==
    /\ rpc = "read" /\ NextLine # <<>>
    /\ ParsesBytes(StripEol(NextLine))
    /\ Consume
    /\ frames' = Append(frames, StripEol(NextLine))
    /\ sink' = write_frame(sink, StripEol(NextLine))
    /\ UNCHANGED rpc

\* A line that does not parse ends the loop.
ReadBadLine ==
    /\ rpc = "read" /\ NextLine # <<>> /\ StripEol(NextLine) # <<>>
    /\ ~ParsesBytes(StripEol(NextLine))
    /\ Consume
    /\ rpc' = "error"
    /\ UNCHANGED <<frames, sink>>

ReaderNext == ReadEnd \/ ReadEmptyLine \/ ReadFrameLine \/ ReadBadLine

ReaderSpec == ReaderInit /\ [][ReaderNext]_readerVars

-----------------------------------------------------------------------------
(* Properties *)

ReaderTypeOK ==
    /\ input \in Seq(Bytes) /\ pos \in 0 .. Len(input)
    /\ frames \in Seq(Seq(Bytes)) /\ sink \in Seq(Bytes)
    /\ rpc \in {"read", "eof", "error"}

\* The reference goes byte by byte and looks for no line ends: a newline ends
\* the text before it, which gives up one CR; the end of the stream ends the
\* last text, which does not.  Empty texts are skipped, and nothing counts
\* after a text that is no frame.
Chomp(s) == IF s # <<>> /\ Last(s) = CR THEN Front(s) ELSE s
Rec(fs, t, b) == [frames |-> fs, text |-> t, bad |-> b]
EndText(r, t) ==
    IF r.bad \/ t = <<>> THEN Rec(r.frames, <<>>, r.bad)
    ELSE IF ParsesBytes(t) THEN Rec(Append(r.frames, t), <<>>, FALSE)
    ELSE Rec(r.frames, <<>>, TRUE)
ScanByte(r, c) ==
    IF c = LF THEN EndText(r, Chomp(r.text))
    ELSE Rec(r.frames, Append(r.text, c), r.bad)
Scanned(s) ==
    LET scan[n \in 0 .. Len(s)] ==
          IF n = 0 THEN Rec(<<>>, <<>>, FALSE) ELSE ScanByte(scan[n - 1], s[n])
    IN  scan[Len(s)]
FramesOf(s) == EndText(Scanned(s), Scanned(s).text).frames

\* FrameReader returns the non-empty lines of the stream up to the first one
\* that is no frame: LF and CRLF, blank lines, a last line without newline
\* and stray CRs lose no frame, split none and merge none.
ReadsEveryLine ==
    /\ IsPrefix(frames, FramesOf(input))
    /\ rpc # "read" => frames = FramesOf(input)

\* A frame up to its last byte that is no white space.
Trimmed(f) == SubSeq(f, 1, Max({k \in DOMAIN f : f[k] \notin WhiteSpace}))
AllTrimmed(fs) == [k \in DOMAIN fs |-> Trimmed(fs[k])]
AllChomped(fs) == [k \in DOMAIN fs |-> Chomp(fs[k])]

\* The next reader sees what this one saw: the sink reads back as the same
\* frames, except that a raw frame ending in CR loses that CR.  If the writer
\* dies in the middle of a write, what is on the pipe reads as a prefix of
\* the frames, the last one perhaps without white space at its end: a part of
\* a frame passes for a frame only if it holds the whole JSON value.
RelayReadsBack ==
    /\ FramesOf(sink) = AllChomped(frames)
    /\ \A n \in 0 .. Len(sink) :
         IsPrefix(AllTrimmed(FramesOf(SubSeq(sink, 1, n))), AllTrimmed(frames))

=============================================================================
