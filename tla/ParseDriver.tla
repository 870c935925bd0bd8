----------------------------- MODULE ParseDriver -----------------------------
(***************************************************************************)
(* parse(): the page is parsed on a worker thread with the ordinary        *)
(* recursion limit, and from the start with the deep one if the errors say *)
(* that a limit was met; without a worker it is parsed once, on the        *)
(* caller's stack.  What gather_paragraphs returns becomes the syntax tree *)
(* (parse_and_convert).                                                    *)
(*                                                                         *)
(* The two parses are RuleEngine at two limits, from RuleEngineProofs with *)
(* what is proved of them.  Left out: the re-split of bracket runs, the    *)
(* passes over the finished elements, and panics.                          *)
(***************************************************************************)
EXTENDS RuleGrammar, Integers, Sequences, FiniteSets, SequencesExt

CONSTANTS MaxTokens, MinTokens, \* as in RuleEngine
          DefaultDepth,         \* DEFAULT_MAX_RECURSION_DEPTH
          DeepDepth             \* DEEP_MAX_RECURSION_DEPTH

VARIABLES frames, notes, peak, failures, successes, walks, rejections,
          blockFailures, page,  \* as in RuleEngine
          driver,               \* whose parse it is
          outcome               \* ParseOutcome

Ordinary == INSTANCE RuleEngineProofs WITH MaxDepth <- DefaultDepth
Deep     == INSTANCE RuleEngineProofs WITH MaxDepth <- DeepDepth

ASSUME ParseDriverAssumption ==
    /\ Ordinary!RuleEngineAssumption
    /\ Deep!RuleEngineAssumption
    /\ DefaultDepth <= DeepDepth

parser == <<input, frames, notes, peak, failures, successes, walks, rejections,
            blockFailures, page>>
vars   == <<parser, driver, outcome>>

NoOutcome ==
    [status |-> "none", nodes |-> << >>, notes |-> << >>, errors |-> {},
     footnoteBlock |-> "own"]

Init == Ordinary!Init /\ driver = "start" /\ outcome = NoOutcome

-----------------------------------------------------------------------------

\* Mutated form: the footnotes registered before the error stay.
ConvertedKeepingNotes ==
    [status |-> IF page = "ok" THEN "tree" ELSE "text",
     nodes |-> IF page = "ok" THEN frames[1].nodes ELSE << >>,
     notes |-> notes,
     errors |-> IF page = "ok" THEN frames[1].errors ELSE {"depth"},
     footnoteBlock |-> IF page = "ok" /\ notes = << >> THEN "own" ELSE "needed"]

\* parse_and_convert; after a fatal error the text is the only element.
Converted ==
    IF page = "ok"
      THEN [status |-> "tree", nodes |-> frames[1].nodes, notes |-> notes,
            errors |-> frames[1].errors,
            footnoteBlock |-> IF notes = << >> THEN "own" ELSE "needed"]
      ELSE [NoOutcome EXCEPT !.status = "text", !.errors = {"depth"},
                             !.footnoteBlock = "needed"]

SpawnWorker ==
    /\ driver = "start"
    /\ driver' = "worker"
    /\ UNCHANGED <<parser, outcome>>

SpawnFails ==
    /\ driver = "start"
    /\ driver' = "inline"
    /\ UNCHANGED <<parser, outcome>>

ParseOrdinary ==
    /\ driver \in {"worker", "inline"} /\ page = "parsing"
    /\ Ordinary!Next
    /\ UNCHANGED <<driver, outcome>>

Parsed   == page # "parsing" /\ outcome.status = "none"
MetLimit == driver = "worker" /\ "depth" \in Converted.errors

\* Mutated form: the page is parsed with what the first parse has learnt.
NewParserRemembering ==
    /\ frames' = <<Deep!PageFrame>> /\ notes' = << >> /\ peak' = 0
    /\ UNCHANGED <<failures, successes, walks, rejections, blockFailures>>

\* Parser::new_with_recursion_limit: at the start, with nothing remembered.
NewParser ==
    /\ frames' = <<Deep!PageFrame>> /\ notes' = << >> /\ peak' = 0
    /\ failures' = << >> /\ successes' = << >> /\ walks' = << >>
    /\ rejections' = {} /\ blockFailures' = {}

\* Mutated form: again with the ordinary limit.
RetryOrdinary ==
    /\ Parsed /\ MetLimit
    /\ NewParser
    /\ page' = "parsing"
    /\ UNCHANGED <<input, driver, outcome>>

Retry ==
    /\ Parsed /\ MetLimit
    /\ NewParser
    /\ driver' = "deep"
    /\ page' = "parsing"
    /\ UNCHANGED <<input, outcome>>

ParseDeep ==
    /\ driver = "deep" /\ page = "parsing"
    /\ Deep!Next
    /\ UNCHANGED <<driver, outcome>>

\* Mutated form: an error of the page as a whole is not looked at.
ReturnFatal ==
    /\ Parsed /\ (MetLimit => page = "error")
    /\ outcome' = Converted
    /\ UNCHANGED <<parser, driver>>

Return ==
    /\ Parsed /\ ~MetLimit
    /\ outcome' = Converted
    /\ UNCHANGED <<parser, driver>>

Next ==
    \/ SpawnWorker \/ SpawnFails
    \/ ParseOrdinary \/ Retry \/ ParseDeep \/ Return

\* Neither parse waits for anything: the caller for its worker, which runs.
Spec == Init /\ [][Next]_vars /\ WF_vars(Next)

-----------------------------------------------------------------------------

\* The driver's own state, and the parser's at the limit of the parse under way.
TypeOK ==
    /\ driver \in {"start", "worker", "inline", "deep"}
    /\ outcome.status \in {"none", "tree", "text"}
    /\ IF driver = "deep" THEN Deep!TypeOK ELSE Ordinary!TypeOK

\* The stack is bounded by the limit of the parse under way: the worker's stack is
\* sized for the deep limit, and the caller's is never used beyond the ordinary one
\* (mod.rs:130-138).
StackFits ==
    IF driver = "deep" THEN Deep!StackBounded ELSE Ordinary!StackBounded

\* Footnotes and the references to them agree in what is returned, in number and
\* order, whether the page parsed or not and however often it was parsed
\* (mod.rs:357, 375).
FootnotesServed ==
    /\ Refers(outcome.nodes, outcome.notes, 1, Len(outcome.notes))
    /\ outcome.notes # << >> => outcome.footnoteBlock = "needed"

\* A page that fits the ordinary limit, and one that was parsed again and fits the
\* deep limit, is what a single parse without memos makes of it: neither the limits
\* nor the first parse leave a trace (mod.rs:117-127).
LimitsInvisible ==
    outcome.status # "none" =>
        \E ref \in {Deep!RefPage(input, DeepDepth)} :
            \/ ref.top <= DefaultDepth
            \/ driver = "deep" /\ ref.top <= DeepDepth
            => /\ outcome.status = "tree"
               /\ outcome.nodes = ref.nodes
               /\ outcome.notes = ref.notes
               /\ outcome.errors = ref.errors

\* A page is returned with a recursion error only if it does not fit the deep limit
\* or there was no worker (mod.rs:117-127; test/large.rs:86-106).
DepthReported ==
    outcome.status # "none" /\ "depth" \in outcome.errors /\ driver # "inline" =>
        Deep!RefPage(input, DeepDepth).top > DeepDepth

\* parse() returns.
Terminates == <>(outcome.status # "none")

=============================================================================
