------------------------------ MODULE RuleMemos ------------------------------
(***************************************************************************)
(* What the memos of RuleEngine promise: that they change nothing.  The    *)
(* measure is RuleReference, the engine without memos.                     *)
(*                                                                         *)
(* Two memos break the promise, and the properties say where they can.     *)
(* deterministic_block_failures answers without the height of the attempt  *)
(* it spares, and whatever encloses the block: that can change any page.   *)
(* partial_rejections leaves the depth and the footnote out of its key,    *)
(* which decide why an attempt fails: that can change a page that meets    *)
(* the limit.                                                              *)
(***************************************************************************)
EXTENDS RuleEngine, RuleReference

\* A parser inside consume, where it tries rules.
Ctx(p) == [rule |-> p.rule, depth |-> p.depth, accepts |-> p.accepts,
           zone |-> p.zone, limit |-> MaxDepth]

\* The context of a memo key at a depth.
KeyCtx(key, depth) ==
    [rule |-> Page, depth |-> depth, accepts |-> key.accepts, zone |-> key.zone,
     limit |-> MaxDepth]

\* Outcome, elements and footnotes of the page.
OutcomeMatches(ref) ==
    /\ page = "ok" <=> RefWon(ref)
    /\ RefWon(ref) => Top.nodes = ref.nodes /\ notes = ref.notes

-----------------------------------------------------------------------------
(* Where the two memos have no part in it.                                  *)

\* Nothing was refused, and no block is known to fail, from pos on.
UnaskedFrom(pos) ==
    /\ \A r \in rejections : r[3] < pos
    /\ \A b \in blockFailures : b[2] < pos

\* The two memos are empty.
Unasked == rejections = {} /\ blockFailures = {}

\* Of the blocks known to fail none ran to the end of the page.
NoneEnded == \A b \in blockFailures : b[3] # {}

WithinLimit == RefPage(input, MaxDepth).top <= MaxDepth

\* What is read from pos on asks neither memo, or it is read on a page that keeps within
\* the limit, where no block is known to run to the end.
Comparable(pos, ref) ==
    \/ UnaskedFrom(pos)
    \/ NoneEnded /\ ref.top <= MaxDepth /\ WithinLimit

-----------------------------------------------------------------------------

\* The page with memos is the page without: the same outcome, elements, footnotes and,
\* if nothing was refused, warnings, where neither memo was asked and, on a page within
\* the limit, until a block is known to run to the end.
PageMatches ==
    page # "parsing" /\ (Unasked \/ (NoneEnded /\ WithinLimit)) =>
        LET ref == RefPage(input, MaxDepth)
        IN  /\ OutcomeMatches(ref)
            /\ RefWon(ref) => Top.errors = ref.errors \/ rejections # {}

\* The depths at which an entry may be used, as consume leaves them to a rule.
UsedAt(memo, key) ==
    IF key.depth = {} THEN {d \in 1..MaxDepth : d + memo[key].height <= MaxDepth}
                      ELSE key.depth

\* Whatever depth a remembered failure may be used at, the attempt it stands for, if it
\* is comparable, would fail there, and with the same error.
FailuresSound ==
    page # "parsing" =>
        \A key \in DOMAIN failures : \A depth \in UsedAt(failures, key) :
            LET ref == RefAttempt(input, key.rule, key.pos, KeyCtx(key, depth))
            IN  Comparable(key.pos + 1, ref) =>
                    /\ ~RefWon(ref)
                    /\ ref.error = failures[key].error \/ rejections # {}

\* Whatever depth a remembered success may be used at, the attempt it stands for, if it
\* is comparable, would succeed there with the same elements, warnings and tokens
\* consumed.
SuccessesSound ==
    page # "parsing" =>
        \A key \in DOMAIN successes : \A depth \in UsedAt(successes, key) :
            LET ref == RefAttempt(input, key.rule, key.pos, KeyCtx(key, depth))
            IN  Comparable(key.pos + 1, ref) =>
                    /\ RefWon(ref)
                    /\ ref.nodes = successes[key].nodes
                    /\ ref.errors = successes[key].errors \/ rejections # {}
                    /\ ref.to = key.pos + successes[key].length

\* A body known to run to the end of the input would, from here on, if that is
\* comparable, and never meet its closer.
WalksSound ==
    page = "parsing" /\ AtToken /\ AsksWalk /\ WalkEntry # {} =>
        LET ref == RefBody(input, Top.pos, Ctx(Top))
        IN  ref.top <= MaxDepth /\ Comparable(Top.pos, ref) =>
                ~RefWon(ref) /\ ref.error = "end"

\* The failures a block opener is known by do not depend on what encloses it.
BlockFailuresDeterministic ==
    Fresh /\ EndedBefore => ~RefWon(RefAttempt(input, NextRule, Top.pos, Ctx(Top)))

=============================================================================
