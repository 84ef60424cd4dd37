----------------------------- MODULE Canonical -----------------------------
(***************************************************************************)
(* Canonical JSON (crates/acp-wire/src/canonical.rs).  Every hash in the   *)
(* system is a hash of canonicalize's bytes; the other modules represent   *)
(* it by the JSON value itself, which is right if values have one form     *)
(* each and no two share one.                                              *)
(*                                                                         *)
(* Text is a sequence of Unicode scalar values; as UTF-8 is injective, the *)
(* bytes are represented by the scalars they encode.  A value is a record  *)
(* whose one field names its type: [lit |-> text] for null, true and       *)
(* false, [num |-> text] (what Number::to_string gives), [str |-> text],   *)
(* [arr |-> values], [obj |-> <<key, value>> pairs in the order of         *)
(* insertion, with distinct keys].  serde_json limits how deep values nest *)
(* and write_value calls itself that deep: what is recursive in the code   *)
(* is a function of the depth here.                                        *)
(*                                                                         *)
(*   left, right   two values, chosen by Init and compared                 *)
(***************************************************************************)
EXTENDS Integers, Sequences, SequencesExt

CONSTANTS
    Values,    \* the values to compare
    MaxDepth   \* how many arrays and objects enclose the innermost one

Quote     == 34
Backslash == 92

\* What serde_json::Value holds: char and str of Rust, the three literals,
\* what numbers are printed with, and containers of all that.
Char == {c \in Nat : c < 55296 \/ (57344 <= c /\ c <= 1114111)}
Text == Seq(Char)
Literals == {<<110, 117, 108, 108>>, <<116, 114, 117, 101>>, <<102, 97, 108, 115, 101>>}
NumberChar == {43, 45, 46, 69, 101} \cup 48 .. 57

Pairs(inside) ==
    {ps \in Seq(Text \X inside) :
       \A i, j \in DOMAIN ps : ps[i][1] = ps[j][1] => i = j}
Enclosing(inside) ==
    [lit : Literals] \cup [num : Seq(NumberChar) \ {<<>>}] \cup [str : Text]
      \cup [arr : Seq(inside)] \cup [obj : Pairs(inside)]
Nested[d \in 0 .. MaxDepth] == Enclosing(IF d = 0 THEN {} ELSE Nested[d - 1])

ASSUME CanonicalAssumption == MaxDepth \in Nat /\ Values \subseteq Nested[MaxDepth]

VARIABLES left, right

CanonicalInit == left \in Values /\ right \in Values

CanonicalSpec == CanonicalInit /\ [][FALSE]_<<left, right>>

\* One code unit, or a surrogate pair beyond the BMP.
code_units(c) ==
    IF c < 65536 THEN <<c>>
    ELSE <<55296 + ((c - 65536) \div 1024), 56320 + ((c - 65536) % 1024)>>

\* str::encode_utf16
encode_utf16(s) == FlattenSeq([n \in DOMAIN s |-> code_units(s[n])])

\* The loop of utf16_cmp over two iterators.
compare(x, y) ==
    LET differ == {n \in 1 .. Min({Len(x), Len(y)}) : x[n] # y[n]}
    IN  IF differ # {}
        THEN IF x[Min(differ)] < y[Min(differ)] THEN "less" ELSE "greater"
        ELSE IF Len(x) > Len(y) THEN "greater"
        ELSE IF Len(x) < Len(y) THEN "less" ELSE "equal"

\* Mutant: keys are compared as Rust strings are, by scalar values.
utf16_cmp_scalars(a, b) == compare(a, b)

utf16_cmp(a, b) == compare(encode_utf16(a), encode_utf16(b))

\* "\u" and four lower-case hexadecimal digits.
write_uescape(unit) ==
    LET hex(n) == IF n < 10 THEN 48 + n ELSE 87 + n
    IN  <<Backslash, 117, hex(unit \div 4096), hex((unit \div 256) % 16),
          hex((unit \div 16) % 16), hex(unit % 16)>>

\* Mutants: only control characters are escaped; all but them are.
escape_controls(c) == IF c < 32 THEN write_uescape(c) ELSE <<c>>
escape_visible(c) == IF c \in {Quote, Backslash} THEN <<Backslash, c>> ELSE <<c>>

escape(c) ==
    LET short == [x \in {8, 9, 10, 12, 13} |->
                    CASE x = 8 -> 98 [] x = 9 -> 116 [] x = 10 -> 110
                      [] x = 12 -> 102 [] x = 13 -> 114]
    IN  CASE c \in {Quote, Backslash} -> <<Backslash, c>>
          [] c \in DOMAIN short       -> <<Backslash, short[c]>>
          [] c < 32 /\ c \notin DOMAIN short -> write_uescape(c)
          [] OTHER                    -> <<c>>

write_string(s) ==
    <<Quote>> \o FlattenSeq([n \in DOMAIN s |-> escape(s[n])]) \o <<Quote>>

\* Mutant: members stay in the order of insertion.
sort_entries_not(pairs) == pairs

\* entries.sort_by: the keys are distinct, so they end up strictly ordered.
sort_entries(pairs) ==
    CHOOSE es \in [DOMAIN pairs -> Range(pairs)] :
      \A i, j \in DOMAIN pairs : i < j => utf16_cmp(es[i][1], es[j][1]) = "less"

\* Elements separated by commas.
CommaList(texts) ==
    FlattenSeq([n \in DOMAIN texts |-> IF n > 1 THEN <<44>> \o texts[n] ELSE texts[n]])

\* The text of v, given the texts of the values inside it.
write_value(v, written) ==
    CASE "lit" \in DOMAIN v -> v.lit
      [] "num" \in DOMAIN v -> v.num
      [] "str" \in DOMAIN v -> write_string(v.str)
      [] "arr" \in DOMAIN v ->
           <<91>> \o CommaList([n \in DOMAIN v.arr |-> written[v.arr[n]]]) \o <<93>>
      [] "obj" \in DOMAIN v ->
           LET entries == sort_entries(v.obj)
               member(e) == write_string(e[1]) \o <<58>> \o written[e[2]]
           IN  <<123>> \o CommaList([n \in DOMAIN entries |-> member(entries[n])]) \o <<125>>
Written[d \in 0 .. MaxDepth] ==
    [v \in Nested[d] |-> write_value(v, IF d = 0 THEN <<>> ELSE Written[d - 1])]

canonicalize(v) == Written[MaxDepth][v]

-----------------------------------------------------------------------------
(* Properties *)

\* What a JSON value means: an object is the set of its members.
meaning(v, meant) ==
    IF "arr" \in DOMAIN v THEN [arr |-> [n \in DOMAIN v.arr |-> meant[v.arr[n]]]]
    ELSE IF "obj" \in DOMAIN v
    THEN [obj |-> {<<v.obj[n][1], meant[v.obj[n][2]]>> : n \in DOMAIN v.obj}]
    ELSE v
Meant[d \in 0 .. MaxDepth] ==
    [v \in Nested[d] |-> meaning(v, IF d = 0 THEN <<>> ELSE Meant[d - 1])]
Meaning(v) == Meant[MaxDepth][v]

\* Two frames hash alike exactly when they carry the same JSON value: the
\* order in which a client writes its keys never matters, and no contents of
\* a string can imitate the text of another value.  A number is the text
\* serde_json prints for it: 1 and 1.0 are two values here, as to the code.
CanonicalIdentity ==
    canonicalize(left) = canonicalize(right) <=> Meaning(left) = Meaning(right)

\* RFC 8785's key order, told by scalar values: that of the scalars, except
\* that everything beyond the BMP comes before U+E000 and after what is
\* below.  The order is total, so sorting has one result.
Rank(c) == IF c < 57344 THEN c ELSE IF c >= 65536 THEN c - 8192 ELSE c + 1114112
KeyBefore(a, b) ==
    \/ \E n \in DOMAIN a \cap DOMAIN b :
         Rank(a[n]) < Rank(b[n]) /\ SubSeq(a, 1, n - 1) = SubSeq(b, 1, n - 1)
    \/ IsStrictPrefix(a, b)
KeysInRfcOrder ==
    "str" \in DOMAIN left /\ "str" \in DOMAIN right =>
      utf16_cmp(left.str, right.str) =
        IF KeyBefore(left.str, right.str) THEN "less"
        ELSE IF KeyBefore(right.str, left.str) THEN "greater" ELSE "equal"

\* No canonical text contains a newline or another control character, so a
\* hash never depends on how a line was framed.
CanonicalOneLine == \A n \in DOMAIN canonicalize(left) : canonicalize(left)[n] >= 32

=============================================================================
