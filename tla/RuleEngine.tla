----------------------------- MODULE RuleEngine -----------------------------
(***************************************************************************)
(* The rule engine: consume tries the rules of a token one after another,  *)
(* each attempt runs on a clone of the parser and is kept or undone        *)
(* (Rule::try_consume), and memos spare it attempts it has made before:    *)
(*                                                                         *)
(*   failures       rule_attempt_failures                                  *)
(*   successes      rule_attempt_successes                                 *)
(*   walks          body_walk_failures: body walks known to hit the end    *)
(*   rejections     partial_rejections                                     *)
(*   blockFailures  deterministic_block_failures, recursion_depth_failures *)
(*                                                                         *)
(* Backtracking is bounded by a recursion limit that is an error of its    *)
(* own, so what an attempt answers depends on the depth it starts at.  A   *)
(* memo entry records how deep its attempt went (its height) and may be    *)
(* used wherever that fits under the limit; an outcome that met the limit  *)
(* is pinned to its depth.                                                 *)
(*                                                                         *)
(* The rules and the page are RuleGrammar's.                               *)
(***************************************************************************)
EXTENDS RuleGrammar, Integers, Sequences, FiniteSets, SequencesExt

CONSTANTS MaxTokens, \* bound on the length of a page
          MaxDepth,  \* max_recursion_depth
          MinTokens  \* FAILED_ATTEMPT_MEMO_MIN_TOKENS

ASSUME RuleEngineAssumption ==
    /\ Page \in Rule
    /\ RulesOf \in [Token -> Seq(Rule)]
    /\ \A t \in Token : \A i \in DOMAIN RulesOf[t] : RulesOf[t][i] # Page
    /\ Shape \in [Rule -> {"page", "leaf", "span", "block", "group", "item", "note"}]
    /\ \A r \in Rule : Shape[r] = "page" <=> r = Page
    /\ \A r \in Gathered : r \in Rule /\ Shape[r] \in {"block", "group", "item", "note"}
    /\ \A r \in Rule : Closer[r] # "end"
    /\ "end" \notin Token
    /\ Breaks \subseteq Token /\ Breaks \cap NoteEnds = {}
    /\ MaxTokens \in Nat
    /\ MaxDepth \in Nat \ {0}
    /\ MinTokens \in Nat \ {0, 1}

VARIABLES frames,     \* the parser and its clones, each with its consume call
          notes,      \* the footnote registry
          peak,       \* peak_depth: deepest consume of the attempt under way
          failures, successes, walks, rejections, blockFailures,
          page        \* "parsing" until gather_paragraphs returns

memos == <<failures, successes, walks, rejections, blockFailures>>
vars  == <<input, frames, notes, peak, memos, page>>

ErrorKind == {"failed", "end", "partial", "depth"}
Accepts   == {"none", "item"}
Zones     == {"page", "note"}  \* in_footnote

Pos   == Nat \ {0}
Nodes == Seq([part : {"text", "leaf", "open", "close", "note"}, rule : Rule, at : Pos])
Note  == [at : Pos, nodes : Nodes]

Frame ==
    [rule : Rule, start : Pos, pos : Pos, depth : 0..MaxDepth,
     accepts : Accepts, acceptsAt : Nat, zone : Zones,
     nodes : Nodes,
     errors : SUBSET ErrorKind,       \* the errors a result carries along
     noteCount : Nat,                 \* get_mutable_state
     enclosing : Nat,                 \* enclosing_peak
     visited : SUBSET Pos,            \* walk_visited
     phase : {"body", "rules"},       \* outside or inside consume
     tried : Seq(ErrorKind)]          \* all_errors, one per rule tried

Top     == Last(frames)
Here    == Tok(Top.pos)
InBlock == Top.rule \in BlockRule

\* The innermost parser is now p; it has returned to its parent, now p.
Replaced(p) == [frames EXCEPT ![Len(frames)] = p]
Returned(p) == Append(SubSeq(frames, 1, Len(frames) - 2), p)

-----------------------------------------------------------------------------
(* Memo keys *)

\* rule_attempt_key; depth {} stands for None.
Key(r, p, pos) ==
    [rule |-> r, pos |-> pos, depth |-> {}, accepts |-> p.accepts,
     offset |-> IF p.acceptsAt = 0 THEN {} ELSE {p.acceptsAt - p.depth},
     zone |-> p.zone, ends |-> {}]

\* body_walk_key: the fingerprint tells the innermost body end boundary, and how
\* often each block is among its ancestors.
BodyEnds ==
    [inner |-> Top.rule,
     outer |-> [r \in BlockRule |->
                  Cardinality({k \in 1..(Len(frames) - 1) : frames[k].rule = r})]]

WalkKey(f, pos) == [Key(f.rule, f, pos) EXCEPT !.ends = {BodyEnds}]

Pinned(key, depth) == [key EXCEPT !.depth = {depth}]

\* The entry an attempt at this depth may use, if any.
Usable(memo, key, depth) ==
    IF key \in DOMAIN memo /\ depth + memo[key].height <= MaxDepth
      THEN {key}
      ELSE {Pinned(key, depth)} \cap DOMAIN memo

With(memo, keys, entry) ==
    [key \in keys \cup DOMAIN memo |-> IF key \in keys THEN entry ELSE memo[key]]

\* Mutated form: never pinned.
StoredPlain(key, depth, height) == key

\* The key of an outcome: pinned to its depth if it met the limit.
Stored(key, depth, height) ==
    IF depth + height > MaxDepth THEN Pinned(key, depth) ELSE key

Remember(memo, key, depth, entry) ==
    With(memo, {Stored(key, depth, entry.height)}, entry)

\* Mutated form: every token of the body, whatever element it belongs to.
RememberWalkEverywhere(f, top) ==
    LET height == top - f.depth
    IN  With(walks, {Stored(WalkKey(f, pos), f.depth, height) : pos \in f.start..f.pos},
             [height |-> height])

\* cache_body_walk_failure: every block opener the walk passed.
RememberWalk(f, top) ==
    LET height == top - f.depth
    IN  With(walks, {Stored(WalkKey(f, pos), f.depth, height) : pos \in f.visited},
             [height |-> height])

-----------------------------------------------------------------------------
(* The frames *)

PageFrame ==
    [rule |-> Page, start |-> 1, pos |-> 1, depth |-> 0, accepts |-> "none",
     acceptsAt |-> 0, zone |-> "page", nodes |-> << >>, errors |-> {},
     noteCount |-> 0, enclosing |-> 0, visited |-> {}, phase |-> "body",
     tried |-> << >>]

\* The clone that runs rule r, past the opener; a group's ParserWrap accepts
\* items at the depth of its body, a note's sets in_footnote.
Clone(p, r) ==
    [p EXCEPT !.rule = r, !.start = p.pos, !.pos = p.pos + 1,
              !.accepts = IF Shape[r] = "group" THEN "item" ELSE @,
              !.acceptsAt = IF Shape[r] = "group" THEN p.depth + 1 ELSE @,
              !.zone = IF Shape[r] = "note" THEN "note" ELSE @,
              !.nodes = << >>, !.errors = {}, !.noteCount = Len(notes),
              !.enclosing = peak, !.visited = {}, !.phase = "body",
              !.tried = << >>]

\* consume returns Ok: the failed rules' errors are dropped.
Consumed(p, to, nodes, errors) ==
    [p EXCEPT !.pos = to, !.depth = @ - 1, !.nodes = @ \o nodes,
              !.errors = @ \cup errors, !.phase = "body", !.tried = << >>]

\* A rule fails inside consume, which goes on to the next one.
Failed(p, error) == [p EXCEPT !.tried = Append(@, error)]

Init ==
    /\ \E n \in 0..MaxTokens : input \in [1..n -> Token]
    /\ frames = <<PageFrame>>
    /\ notes = << >>
    /\ peak = 0
    /\ failures = << >> /\ successes = << >>
    /\ walks = << >> /\ rejections = {} /\ blockFailures = {}
    /\ page = "parsing"

-----------------------------------------------------------------------------
(* How an attempt ends *)

\* BlockFailureMemoization::record_failure; depth {} stands for any.
BlockFailures(f, error, depth) ==
    blockFailures \cup
        CASE f.rule \in BlockRule /\ error = "end"   -> {<<f.rule, f.start, {}>>}
          [] f.rule \in BlockRule /\ error = "depth" -> {<<f.rule, f.start, {depth}>>}
          [] OTHER -> {}

\* The registry as it was when the attempt began (reset_mutable_state).
Restored(f) == SubSeq(notes, 1, f.noteCount)

\* Rule::try_consume's Err arm for the innermost attempt f, whose deepest
\* consume was at `top'.
Fail(f, error, top) ==
    LET p      == frames[Len(frames) - 1]
        key    == Key(f.rule, p, p.pos)
        height == top - p.depth
    IN  /\ Len(frames) > 1
        /\ failures' = IF f.pos - f.start >= MinTokens
                          THEN Remember(failures, key, p.depth,
                                        [height |-> height, error |-> error])
                          ELSE failures
        /\ blockFailures' = BlockFailures(f, error, p.depth)
        /\ notes' = Restored(f)
        /\ peak' = Larger(top, f.enclosing)
        /\ frames' = Returned(Failed(p, error))
        /\ UNCHANGED <<successes, rejections, page>>

\* The page has nobody to backtrack to.
FailPage ==
    /\ Len(frames) = 1
    /\ page' = "error"
    /\ UNCHANGED <<frames, notes, peak, memos>>

\* The elements of a finished rule, and the registry with what it registers.
Result(f) ==
    CASE Shape[f.rule] = "leaf" -> <<Node("leaf", f.rule, f.start)>>
      [] Shape[f.rule] = "note" -> <<Node("note", f.rule, f.start)>>
      [] OTHER -> <<Node("open", f.rule, f.start)>> \o f.nodes
                    \o <<Node("close", f.rule, f.pos)>>

Registered(f) ==
    IF Shape[f.rule] = "note"
      THEN Append(notes, [at |-> f.start, nodes |-> f.nodes]) ELSE notes

\* Mutated form: a span or block ends in front of its closer.
EndAtCloser(f) == f.pos

EndOf(f) == IF Shape[f.rule] = "leaf" THEN f.pos ELSE f.pos + 1

\* Mutated form: the warnings of the attempt are lost.
OutcomeWithoutErrors(f, p) ==
    [height |-> peak - p.depth, nodes |-> Result(f), errors |-> {},
     length |-> EndOf(f) - f.start]

\* RuleAttemptSuccess.
Outcome(f, p) ==
    [height |-> peak - p.depth, nodes |-> Result(f), errors |-> f.errors,
     length |-> EndOf(f) - f.start]

\* The body is complete: a leaf at once, any other at its closer.  A note in a
\* note never gets that far.
BodyCloses(f) ==
    /\ f.phase = "body"
    /\ f.rule # Page
    /\ \/ Shape[f.rule] = "leaf"
       \/ Tok(f.pos) = Closer[f.rule]

Nested(f) == Shape[f.rule] = "note" /\ frames[Len(frames) - 1].zone = "note"

CloseAccepted ==
    LET f == Top
        p == frames[Len(frames) - 1]
    IN  /\ BodyCloses(f) /\ ~Nested(f)
        /\ Shape[f.rule] = "item" => p.accepts = "item"
        /\ notes' = Registered(f)
        /\ successes' = IF f.rule \in BlockRule \/ Len(notes') # f.noteCount
                           THEN successes
                           ELSE Remember(successes, Key(f.rule, p, p.pos), p.depth,
                                         Outcome(f, p))
        /\ peak' = Larger(peak, f.enclosing)
        /\ frames' = Returned(Consumed(p, EndOf(f), Result(f), f.errors))
        /\ UNCHANGED <<input, failures, walks, rejections, blockFailures, page>>

\* check_partials refuses the element: the attempt is undone and the refusal
\* remembered.
CloseRejected ==
    LET f == Top
        p == frames[Len(frames) - 1]
    IN  /\ BodyCloses(f)
        /\ Shape[f.rule] = "item" /\ p.accepts # "item"
        /\ rejections' = rejections \cup {<<f.rule, p.rule, p.pos, p.accepts>>}
        /\ notes' = Restored(f)
        /\ peak' = Larger(peak, f.enclosing)
        /\ frames' = Returned(Failed(p, "partial"))
        /\ UNCHANGED <<input, failures, successes, walks, blockFailures, page>>

RefuseNested ==
    /\ Len(frames) > 1 /\ Top.phase = "body" /\ Nested(Top)
    /\ Fail(Top, "failed", peak)
    /\ UNCHANGED <<input, walks>>

\* The loop around consume is at a token its body has not to itself.
BodyGoesOn ==
    /\ page = "parsing"
    /\ Top.phase = "body"
    /\ Top.rule # Page => ~BodyCloses(Top) /\ ~Nested(Top)

\* An invalid condition of collect.
MeetBreak ==
    /\ BodyGoesOn
    /\ Shape[Top.rule] = "span" /\ Here \in Breaks
    /\ Fail(Top, "failed", peak)
    /\ UNCHANGED <<input, walks>>

\* at_ancestor_body_end_boundary: only the end of a footnote is hard.
AtNoteEnd == InBlock /\ Shape[Top.rule] # "note" /\ Top.zone = "note" /\ Here \in NoteEnds

MeetNoteEnd ==
    /\ BodyGoesOn
    /\ AtNoteEnd
    /\ Fail(Top, "failed", peak)
    /\ UNCHANGED <<input, walks>>

\* A body that is not gathered consumes breaks, and runs off the end.
Ungathered == InBlock /\ Top.rule \notin Gathered

MeetEnd ==
    /\ BodyGoesOn
    /\ Here = "end" /\ Top.rule # Page /\ ~Ungathered
    /\ walks' = RememberWalk(Top, peak)
    /\ Fail(Top, "end", peak)
    /\ UNCHANGED input

FinishPage ==
    /\ BodyGoesOn
    /\ Here = "end" /\ Top.rule = Page
    /\ page' = "ok"
    /\ UNCHANGED <<input, frames, notes, peak, memos>>

\* Mutated form: the break is not stepped over.
StepBreakInPlace ==
    /\ BodyGoesOn
    /\ Shape[Top.rule] # "span" /\ ~Ungathered /\ Here \in Breaks
    /\ frames' = Replaced(Top)
    /\ UNCHANGED <<input, notes, peak, memos, page>>

\* gather_paragraphs ends the paragraph and steps.
StepBreak ==
    /\ BodyGoesOn
    /\ Shape[Top.rule] # "span" /\ ~Ungathered /\ Here \in Breaks
    /\ frames' = Replaced([Top EXCEPT !.pos = @ + 1])
    /\ UNCHANGED <<input, notes, peak, memos, page>>

-----------------------------------------------------------------------------
(* Body walks *)

AtToken ==
    /\ BodyGoesOn
    /\ ~AtNoteEnd
    /\ Ungathered \/ Here \notin Breaks \cup {"end"}

\* gather_paragraphs asks before consuming a block opener that is not the
\* first token of its body.
AsksWalk ==
    /\ Top.rule \in Gathered
    /\ Top.pos > Top.start + 1
    /\ \E i \in DOMAIN Rules(Here) : Rules(Here)[i] \in BlockRule

WalkEntry == Usable(walks, WalkKey(Top, Top.pos), Top.depth)

\* body_walk_reaches_input_end: the body cannot close.
KnownWalk ==
    /\ AtToken /\ AsksWalk
    /\ \E key \in WalkEntry :
        LET top == Larger(peak, Top.depth + walks[key].height)
        IN  /\ walks' = RememberWalk(Top, top)
            /\ Fail([Top EXCEPT !.pos = Len(input) + 1], "end", top)
    /\ UNCHANGED input

-----------------------------------------------------------------------------
(* consume *)

Enters == AtToken /\ (AsksWalk => WalkEntry = {})

\* depth_increment refuses.
TooDeep ==
    /\ Enters
    /\ Top.depth = MaxDepth
    /\ Fail(Top, "depth", Larger(peak, MaxDepth + 1))
    /\ UNCHANGED <<input, walks>>

Consume ==
    /\ Enters
    /\ Top.depth < MaxDepth
    /\ peak' = Larger(peak, Top.depth + 1)
    /\ frames' = Replaced([Top EXCEPT !.depth = @ + 1, !.phase = "rules",
                              !.visited = IF AsksWalk THEN @ \cup {Top.pos} ELSE @])
    /\ UNCHANGED <<input, notes, memos, page>>

\* The next rule of the token.
Calling  == page = "parsing" /\ Top.phase = "rules"
Untried  == Len(Top.tried) < Len(Rules(Here))
NextRule == Rules(Here)[Len(Top.tried) + 1]

RejectionKey   == <<NextRule, Top.rule, Top.pos, Top.accepts>>
FailureEntry   == Usable(failures, Key(NextRule, Top, Top.pos), Top.depth)
SuccessEntry   == Usable(successes, Key(NextRule, Top, Top.pos), Top.depth)

RejectedBefore ==
    /\ Calling /\ Untried
    /\ RejectionKey \in rejections
    /\ frames' = Replaced(Failed(Top, "partial"))
    /\ UNCHANGED <<input, notes, peak, memos, page>>

FailedBefore ==
    /\ Calling /\ Untried
    /\ RejectionKey \notin rejections
    /\ \E key \in FailureEntry :
        /\ frames' = Replaced(Failed(Top, failures[key].error))
        /\ peak' = Larger(peak, Top.depth + failures[key].height)
    /\ UNCHANGED <<input, notes, memos, page>>

\* Partial elements come from block rules, whose successes are not remembered,
\* so check_partials has nothing to refuse here.
SucceededBefore ==
    /\ Calling /\ Untried
    /\ RejectionKey \notin rejections
    /\ FailureEntry = {}
    /\ \E key \in SuccessEntry :
        LET hit == successes[key]
        IN  /\ frames' = Replaced(Consumed(Top, Top.pos + hit.length,
                                           hit.nodes, hit.errors))
            /\ peak' = Larger(peak, Top.depth + hit.height)
    /\ UNCHANGED <<input, notes, memos, page>>

\* Nothing is remembered of the next rule's attempt.
Fresh ==
    /\ Calling /\ Untried
    /\ RejectionKey \notin rejections
    /\ FailureEntry = {} /\ SuccessEntry = {}

\* BlockFailureMemoization::cached_failure, at the head of the attempt.
EndedBefore   == <<NextRule, Top.pos, {}>> \in blockFailures
TooDeepBefore == <<NextRule, Top.pos, {Top.depth}>> \in blockFailures

BlockEndedBefore ==
    /\ Fresh
    /\ EndedBefore
    /\ frames' = Replaced(Failed(Top, "end"))
    /\ UNCHANGED <<input, notes, peak, memos, page>>

BlockTooDeepBefore ==
    /\ Fresh
    /\ ~EndedBefore /\ TooDeepBefore
    /\ frames' = Replaced(Failed(Top, "depth"))
    /\ peak' = Larger(peak, MaxDepth + 1)
    /\ UNCHANGED <<input, notes, memos, page>>

StartRule ==
    /\ Fresh
    /\ ~EndedBefore /\ ~TooDeepBefore
    /\ frames' = Append(frames, Clone(Top, NextRule))
    /\ peak' = Top.depth
    /\ UNCHANGED <<input, notes, memos, page>>

\* No rule matched and the last one tried met the recursion limit.
LastTooDeep ==
    /\ Calling /\ ~Untried
    /\ Top.tried # << >> /\ Last(Top.tried) = "depth"

FallbackTooDeep ==
    /\ LastTooDeep
    /\ Fail([Top EXCEPT !.pos = @ + 1], "depth", peak)
    /\ UNCHANGED <<input, walks>>

PageTooDeep ==
    /\ LastTooDeep
    /\ FailPage
    /\ UNCHANGED input

\* The null rule takes the end of input, and the step behind it fails.
RunOffEnd ==
    /\ Calling /\ Here = "end"
    /\ Fail(Top, "end", peak)
    /\ UNCHANGED <<input, walks>>

\* The token becomes text, and the errors of the rules tried are kept.
Fallback ==
    /\ Calling /\ ~Untried /\ Here # "end"
    /\ ~LastTooDeep
    /\ frames' = Replaced(Consumed(Top, Top.pos + 1,
                                   <<Node("text", Page, Top.pos)>>,
                                   ToSet(Top.tried)))
    /\ UNCHANGED <<input, notes, peak, memos, page>>

Next ==
    \/ CloseAccepted \/ CloseRejected \/ RefuseNested
    \/ MeetBreak \/ MeetNoteEnd \/ MeetEnd \/ FinishPage \/ StepBreak
    \/ KnownWalk \/ TooDeep \/ Consume
    \/ RejectedBefore \/ FailedBefore \/ SucceededBefore
    \/ BlockEndedBefore \/ BlockTooDeepBefore \/ StartRule
    \/ FallbackTooDeep \/ PageTooDeep \/ RunOffEnd \/ Fallback

Spec == Init /\ [][Next]_vars /\ WF_vars(Next)

-----------------------------------------------------------------------------

\* Types of the page, the parsers on the stack, the registry and the memos.
MemoKey ==
    [rule : Rule, pos : Pos, depth : {{}} \cup {{d} : d \in 0..MaxDepth},
     accepts : Accepts, offset : SUBSET Int, zone : Zones,
     ends : SUBSET [inner : Rule, outer : [BlockRule -> Nat]]]

FailureEntries == [height : Nat, error : ErrorKind]
WalkEntries    == [height : Nat]
SuccessEntries ==
    [height : Nat, nodes : Nodes, errors : SUBSET ErrorKind, length : Nat]

Memo(memo, entries) ==
    DOMAIN memo \subseteq MemoKey /\ \A key \in DOMAIN memo : memo[key] \in entries

TypeOK ==
    /\ input \in Seq(Token)
    /\ frames \in Seq(Frame) /\ Len(frames) > 0
    /\ notes \in Seq(Note)
    /\ peak \in Nat
    /\ Memo(failures, FailureEntries)
    /\ Memo(successes, SuccessEntries)
    /\ Memo(walks, WalkEntries)
    /\ blockFailures \subseteq BlockRule \X Pos \X SUBSET (0..MaxDepth)
    /\ page \in {"parsing", "ok", "error"}

\* The parsers on the stack are as deep as they are many: every consume that
\* was entered and not left accounts for one level, whatever way the ones
\* before it were left, and the limit bounds the stack.
StackBounded ==
    /\ Len(frames) <= MaxDepth + 1
    /\ \A k \in DOMAIN frames :
          frames[k].depth = IF frames[k].phase = "rules" THEN k ELSE k - 1
    /\ \A k \in 1..(Len(frames) - 1) : frames[k].phase = "rules"

\* A height is a difference of unsigned numbers, peak - self.depth, and a
\* memo hit adds one to a depth: the peak is never below the parser at work, and
\* no remembered height reaches more than the one refused level above the limit.
Fits(memo) ==
    \A key \in DOMAIN memo : \A d \in key.depth : d + memo[key].height <= MaxDepth + 1

HeightsFit ==
    /\ Top.depth <= peak /\ peak <= MaxDepth + 1
    /\ Fits(failures) /\ Fits(successes) /\ Fits(walks)

\* A page is parsed, or given up, after finitely many steps.
Terminates == <>(page # "parsing")

=============================================================================
