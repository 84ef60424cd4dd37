---------------------------- MODULE CommandLine ----------------------------
(***************************************************************************)
(* What `acp` (crates/acp-cli/src/main.rs) makes of what the libraries     *)
(* return: exit codes, the figures of `acp inspect`.  `acp diff` is with   *)
(* Diverge.  Option parsing and layout are left out.                       *)
(***************************************************************************)
EXTENDS TraceFormat, SequencesExt

CONSTANT Ends   \* rows `acp inspect` shows of each end of a long trace

ASSUME CommandLineAssumption == Ends \in Nat \ {0}

\* main(): any error is printed and becomes exit code 2.
ErrorExit == 2

\* cmd_record: the code of acp_proxy::run, as a u8.
cmd_record(ok, code) == IF ok THEN Max({0, Min({code, 255})}) ELSE ErrorExit

\* cmd_replay: 0 if the engine returned Ok, whatever it emitted.
cmd_replay(ok) == IF ok THEN 0 ELSE ErrorExit

-----------------------------------------------------------------------------
count_dirs(events) ==
    [d \in Directions |-> Cardinality({k \in DOMAIN events : events[k].dir = d})]

\* Mutant: a trace is cut as soon as it is longer than one end.
TooLongEarly(events) == Len(events) > Ends

\* Longer traces than this are cut in the middle unless --full is given.
TooLong(events) == Len(events) > 2 * Ends

\* The figures and the table of `acp inspect`; count is the manifest's
\* event_count, an Option.
cmd_inspect(count, events, full) ==
    [event_count |-> IF count = <<>> THEN Len(events) ELSE count[1],
     dirs        |-> count_dirs(events),
     unique      |-> Cardinality({events[k].hash : k \in DOMAIN events}),
     shown       |-> IF full \/ ~TooLong(events) THEN events
                     ELSE SubSeq(events, 1, Ends)
                            \o SubSeq(events, Len(events) - Ends + 1, Len(events)),
     not_shown   |-> IF full \/ ~TooLong(events) THEN 0 ELSE Len(events) - 2 * Ends]

=============================================================================
