-------------------------------- MODULE Wire --------------------------------
(***************************************************************************)
(* The wire layer (crates/acp-wire): newline-delimited JSON-RPC 2.0 lines, *)
(* their classification, and the canonical payload hash.  Constant level:  *)
(* the other modules build their state out of these operators.             *)
(*                                                                         *)
(* A line is abstracted to what the tools tell apart:                      *)
(*   shape   "object" (a JSON object with jsonrpc "2.0"), "garbage" (any   *)
(*           other text: bad JSON, not an object, wrong version), "blank"  *)
(*   method  the method string, or None (absent, or not a string)          *)
(*   id      the value of the top-level "id" key, or None when absent      *)
(*   outcome whether "result" or "error" is present                        *)
(*   body    everything else the canonical form keeps                      *)
(*   layout  what it forgets: key order, white space, escapes              *)
(*   eol     the line ending as it arrived, "lf" or "crlf"                 *)
(* Every error of Frame::parse is handled alike by all callers, so errors  *)
(* are one case: a line for which Parses is FALSE.                         *)
(***************************************************************************)
EXTENDS Naturals, Sequences

CONSTANTS
    Ids,      \* "id" values Id::from_value accepts: i64 numbers, strings, null
    Methods,  \* method names
    Bodies,   \* payload contents
    Layouts   \* byte layouts of one payload; "compact" is serde_json::to_vec's

None == "none"

\* "id" values that are present but that Id::from_value turns into None:
\* floats, integers beyond i64, booleans, arrays, objects.
OddId == "odd_id"

\* None and OddId are not ids; the writer's compact layout is a layout.
ASSUME WireAssumption ==
    /\ None \notin Ids /\ OddId \notin Ids
    /\ None \notin Methods
    /\ "compact" \in Layouts

Lines ==
    [shape : {"object", "garbage", "blank"}, method : Methods \cup {None},
     id : Ids \cup {OddId, None}, outcome : BOOLEAN, body : Bodies,
     layout : Layouts, eol : {"lf", "crlf"}]

-----------------------------------------------------------------------------
\* Id::from_value, applied to the "id" key.
from_value(v) == IF v \in Ids THEN v ELSE None

\* The (method, id, result|error) table of Frame::parse.
kind(l) ==
    CASE l.method # None /\ from_value(l.id) # None /\ ~l.outcome -> "request"
      [] l.method # None /\ from_value(l.id) = None /\ ~l.outcome -> "notification"
      [] l.method = None /\ l.outcome                             -> "response"
      [] OTHER                                                    -> "unclassifiable"

\* Frame::parse returns Ok.
Parses(l) == l.shape = "object" /\ kind(l) # "unclassifiable"

\* Mutant: the CR stays in the frame.
raw_keeps_cr(l) == l

\* What read_frame keeps of a line: the bytes without LF and without one CR.
raw(l) == [l EXCEPT !.eol = "lf"]

\* read_frame skips lines that are empty once the line ending is stripped.
IsBlank(l) == l.shape = "blank"

\* Mutants: only the id is hashed; everything but the contents is.
payload_hash_id_only(l) ==
    [method |-> None, id |-> l.id, outcome |-> FALSE, body |-> None]
payload_hash_no_body(l) ==
    [method |-> l.method, id |-> l.id, outcome |-> l.outcome, body |-> CHOOSE b \in Bodies : TRUE]

\* canonicalize followed by blake3: two values collide only if they are the
\* same JSON value, so the hash is represented by that value.
payload_hash(l) ==
    [method |-> l.method, id |-> l.id, outcome |-> l.outcome, body |-> l.body]

Raws == {l \in Lines : Parses(l) /\ l.eol = "lf"}
Hashes == [method : Methods \cup {None}, id : Ids \cup {OddId, None},
           outcome : BOOLEAN, body : Bodies]

=============================================================================
