------------------------------ MODULE ScanMemos ------------------------------
(***************************************************************************)
(* What a parse remembers about scans that look ahead in its tokens: the   *)
(* delimiter closers and the formula's closer that do not come any more    *)
(* (closer_scan.rs), the first byte of a kind, the region of a link, the   *)
(* block heads in it and the labels that fail (unmatched_close_scan.rs).   *)
(* The rules ask at any position, in any order and in any context: they    *)
(* try, fail and are rolled back, and the memos are not.                   *)
(*                                                                         *)
(* Positions are positions of tokens.  A comment is one token.  0 stands   *)
(* for None.                                                               *)
(***************************************************************************)
EXTENDS Integers, Sequences, FiniteSets

CONSTANTS Delims, \* tokens that close an inline delimiter
          Names,  \* names of blocks
          Needle, \* the slots of forward searches
          Stops,  \* what each slot's search stops at
          Token,  \* tokens other than the end of the input
          KindOf, \* what the scans tell apart of a token
          NameOf, \* the name of a block's head or end, or of a link
          LabelFlags \* the states of a parser that a label's walk depends on

VARIABLES tokens, \* the tokens of the page; the last is the end of the input
          plain,  \* delimiter_absences[..].plain
          free,   \* delimiter_absences[..].context_free
          math,   \* math_absence
          walk,   \* a walk for a closer under way
          found,  \* the slots of forward searches
          region, \* link_region
          heads,  \* link_head_scans
          claims, \* the block heads that are claimed, and in which contexts
          labels  \* label_failures

vars == <<tokens, plain, free, math, walk, found, region, heads, claims, labels>>

Len0 == Len(tokens)
Kind(i) == IF i = Len0 THEN "end" ELSE KindOf[tokens[i]]

\* The contexts of a walk: which block ends fail, and whether any can.
Contexts == [rejects : SUBSET Names, blocks : {"matter", "pass"}]
Sound(c) == c.blocks = "pass" => c.rejects = {}

\* rule_attempt_context; in context "none" outcomes of probes must not be shared.
Probes == {"here", "there"}

Proof == [start : Nat, break : Nat]
NoProof == [start |-> 0, break |-> 0]
NoWalk == [for |-> "none"]

ASSUME ScanMemosAssumption ==
    /\ Stops \in [Needle -> SUBSET STRING]
    /\ KindOf \in [Token -> STRING \ {"end"}]
    /\ Token \subseteq DOMAIN NameOf
    /\ LabelFlags \subseteq SUBSET {"cell", "triple"}
    /\ Delims \cap {"end", "break", "open", "close", "link"} = {}

Least(S) == IF S = {} THEN 0 ELSE CHOOSE i \in S : \A j \in S : i <= j

-----------------------------------------------------------------------------
(* Closers that do not come any more. *)

\* A remembered walk answers for every later start.
Covers(proof, s) == proof.start # 0 /\ proof.start <= s

\* delimiter_close_absent, and the context-free answer where it may be used.
Replays(d, s, c) ==
    IF Covers(plain[d], s) THEN {plain[d]}
    ELSE IF c.blocks = "pass" /\ Covers(free[d], s) THEN {free[d]}
    ELSE {}

\* "walk": the scan must run.
DelimiterAnswer(d, s, c) ==
    IF Replays(d, s, c) = {} THEN "walk"
    ELSE IF \E p \in Replays(d, s, c) : s <= p.break THEN "failed"
    ELSE "end"

\* record_absence keeps the earliest start.
Recorded(memo, d, proof) ==
    IF memo[d].start = 0 \/ proof.start < memo[d].start
      THEN [memo EXCEPT ![d] = proof] ELSE memo

\* validate_reachable_close, in a context where nothing is known from here on.
AskDelimiter(d, s, c) ==
    /\ walk = NoWalk
    /\ DelimiterAnswer(d, s, c) = "walk"
    /\ walk' = [for |-> "delimiter", closer |-> d, start |-> s, at |-> s, context |-> c,
                open |-> << >>, paired |-> 0, break |-> 0]
    /\ UNCHANGED <<tokens, plain, free, math, found, region, heads, claims, labels>>

Walking(kinds) ==
    /\ walk.for = "delimiter"
    /\ Kind(walk.at) \in kinds
    /\ UNCHANGED <<tokens, math, found, region, heads, claims, labels>>

BlockTokens == {"open", "link", "close"}
BlocksMatter == walk.context.blocks = "matter"

\* What a walk that meets its closer returns is not remembered.
WalkCloser ==
    /\ Walking({walk.closer})
    /\ walk' = NoWalk
    /\ UNCHANGED <<plain, free>>

WalkBreak ==
    /\ Walking({"break"})
    /\ walk' = [walk EXCEPT !.at = @ + 1, !.break = walk.at]
    /\ UNCHANGED <<plain, free>>

WalkBlockStart ==
    /\ Walking({"open", "link"}) /\ BlocksMatter
    /\ walk' = [walk EXCEPT !.at = @ + 1, !.paired = 1,
                            !.open = IF NameOf[tokens[walk.at]] \in Names
                                       THEN Append(@, NameOf[tokens[walk.at]]) ELSE @]
    /\ UNCHANGED <<plain, free>>

\* A block end closes the last opener of its name seen on the way; without one it
\* may be the end of the body the rule is in.
WalkBlockEnd ==
    /\ Walking({"close"}) /\ BlocksMatter
    /\ LET name == NameOf[tokens[walk.at]]
           openers == {i \in DOMAIN walk.open : walk.open[i] = name}
       IN  IF openers = {} /\ name \in walk.context.rejects THEN walk' = NoWalk
           ELSE walk' = [walk EXCEPT
                    !.at = @ + 1, !.paired = 1,
                    !.open = IF openers = {} THEN @
                             ELSE SubSeq(@, 1, (CHOOSE i \in openers :
                                                  \A j \in openers : j <= i) - 1)]
    /\ UNCHANGED <<plain, free>>

WalkPast ==
    /\ walk.for = "delimiter"
    /\ Kind(walk.at) \notin {"end", "break", walk.closer}
    /\ Kind(walk.at) \in BlockTokens => ~BlocksMatter
    /\ walk' = [walk EXCEPT !.at = @ + 1]
    /\ UNCHANGED <<tokens, plain, free, math, found, region, heads, claims, labels>>

\* Mutated form: a walk that paired blocks is remembered.
WalkedEnd ==
    /\ Walking({"end"})
    /\ LET proof == [start |-> walk.start, break |-> walk.break]
       IN  /\ plain' = IF BlocksMatter THEN Recorded(plain, walk.closer, proof) ELSE plain
           /\ free' = IF ~BlocksMatter THEN Recorded(free, walk.closer, proof) ELSE free
    /\ walk' = NoWalk

\* Only what holds for the tokens alone is remembered.
WalkEnd ==
    /\ Walking({"end"})
    /\ LET proof == [start |-> walk.start, break |-> walk.break]
       IN  /\ plain' = IF BlocksMatter /\ walk.paired = 0
                         THEN Recorded(plain, walk.closer, proof) ELSE plain
           /\ free' = IF ~BlocksMatter THEN Recorded(free, walk.closer, proof) ELSE free
    /\ walk' = NoWalk

MathAbsent(s) == math # 0 /\ math <= s

\* collect_wikidot_math_source
AskMath(s) ==
    /\ walk = NoWalk
    /\ ~MathAbsent(s)
    /\ walk' = [for |-> "math", start |-> s, at |-> s, jumped |-> 0]
    /\ UNCHANGED <<tokens, plain, free, math, found, region, heads, claims, labels>>

WalkingMath(kinds) ==
    /\ walk.for = "math"
    /\ Kind(walk.at) \in kinds
    /\ UNCHANGED <<tokens, plain, free, found, region, heads, claims, labels>>

MathStop ==
    /\ WalkingMath({"math", "break"})
    /\ walk' = NoWalk
    /\ UNCHANGED math

\* A comment or raw text: where it ends, if it ends, depends on more than tokens.
MathJump ==
    /\ WalkingMath({"raw"})
    /\ \E to \in (walk.at + 1)..Len0 :
          walk' = [walk EXCEPT !.at = to, !.jumped = 1]
    /\ UNCHANGED math

MathPast ==
    /\ walk.for = "math"
    /\ Kind(walk.at) \notin {"math", "break", "raw", "end"}
    /\ walk' = [walk EXCEPT !.at = @ + 1]
    /\ UNCHANGED <<tokens, plain, free, math, found, region, heads, claims, labels>>

MathEnd ==
    /\ WalkingMath({"end"})
    /\ math' = IF walk.jumped = 0 /\ (math = 0 \/ walk.start < math)
                 THEN walk.start ELSE math
    /\ walk' = NoWalk

-----------------------------------------------------------------------------
(* Forward searches on the text. *)

FirstOf(kinds, s) == Least({i \in s..Len0 : Kind(i) \in kinds})

NotSearched == [from |-> 0, at |-> 0]

\* find_forward: the last search answers as long as it began before and did not find
\* anything before.
Searched(k, s) ==
    /\ found[k].from # 0 /\ found[k].from <= s
    /\ found[k].at = 0 \/ found[k].at >= s

Find(k, s) ==
    /\ walk = NoWalk
    /\ ~Searched(k, s)
    /\ found' = [found EXCEPT ![k] = [from |-> s, at |-> FirstOf(Stops[k], s)]]
    /\ UNCHANGED <<tokens, plain, free, math, walk, region, heads, claims, labels>>

\* end_block_link_region_end: to the end of the line, or to the bracket behind a
\* blank.
RegionEnd(s) ==
    LET Ends(i) == \/ Kind(i) \in {"break", "end"}
                   \/ Kind(i) = "rbr" /\ \E j \in s..(i - 1) : Kind(j) = "blank"
    IN  Least({i \in s..Len0 : Ends(i)})

\* Mutated form: a blank on the way does not matter.
RegionKnownAny(s) == region.from # 0 /\ region.from <= s /\ s <= region.at

RegionKnown(s) ==
    /\ region.from # 0 /\ region.from <= s /\ s <= region.at
    /\ \A i \in region.from..(s - 1) : Kind(i) \notin {"blank", "comment"}

\* cached_end_block_link_region narrows the entry it uses.
AskRegion(s) ==
    /\ walk = NoWalk
    /\ region' = [from |-> s, at |-> IF RegionKnown(s) THEN region.at ELSE RegionEnd(s)]
    /\ UNCHANGED <<tokens, plain, free, math, walk, found, heads, claims, labels>>

-----------------------------------------------------------------------------
(* Block heads in the region of a link. *)

HeadsIn(s, e) == {i \in s..(e - 1) : Kind(i) = "open"}
Claimed(s, e, c) == Least({i \in HeadsIn(s, e) : <<i, c>> \in claims})

\* head_scan_answer
Known(scan, s) ==
    IF s < scan.from THEN "scan"
    ELSE IF scan.head = 0 THEN "no"
    ELSE IF s <= scan.head THEN "yes" ELSE "scan"

\* end_block_link_head_outcome: the scan of this context answers if there is one, or
\* else one that saw no head at all.
HeadAnswer(s, e, c) ==
    IF <<e, c>> \in DOMAIN heads THEN Known(heads[<<e, c>>], s)
    ELSE IF <<e, "none">> \in DOMAIN heads THEN Known(heads[<<e, "none">>], s)
    ELSE "scan"

\* What probes claim in context "none" is not kept; that there is no head is.
ScanHeads(s, e, c) ==
    /\ walk = NoWalk
    /\ HeadAnswer(s, e, c) = "scan"
    /\ LET saw == HeadsIn(s, e) # {}
           key == <<e, IF saw THEN c ELSE "none">>
           scan == [from |-> s, head |-> IF saw THEN Claimed(s, e, c) ELSE 0]
       IN  IF saw /\ c = "none" THEN UNCHANGED heads
           ELSE heads' = [k \in DOMAIN heads \cup {key} |-> IF k = key THEN scan ELSE heads[k]]
    /\ UNCHANGED <<tokens, plain, free, math, walk, found, region, claims, labels>>

-----------------------------------------------------------------------------
(* Labels of links. *)

LabelFails(i, f) ==
    \/ Kind(i) \in {"break", "end"}
    \/ Kind(i) = "column" /\ "cell" \in f
    \/ Kind(i) = "rlink" /\ "triple" \in f

LabelEnds(i, f) == Kind(i) \in {"rbr", "rlink"} \/ LabelFails(i, f)

\* collect_wikidot_label, where no boundary is in force.
LabelStop(s, f) == Least({i \in s..Len0 : <<i, f>> \in labels \/ LabelEnds(i, f)})

\* Every token of a walk that fails is the start of one that does.
FailedFrom(s, f) ==
    LET stop == LabelStop(s, f)
    IN  IF <<stop, f>> \in labels \/ LabelFails(stop, f)
          THEN {<<i, f>> : i \in s..stop} ELSE {}

AskLabel(s, f) ==
    /\ walk = NoWalk
    /\ labels' = labels \cup FailedFrom(s, f)
    /\ UNCHANGED <<tokens, plain, free, math, walk, found, region, heads, claims>>

-----------------------------------------------------------------------------

Init ==
    /\ tokens \in Seq(Token \cup {"end"}) /\ tokens # << >>
    /\ \A i \in 1..(Len0 - 1) : tokens[i] \in Token
    /\ plain = [d \in Delims |-> NoProof]
    /\ free = [d \in Delims |-> NoProof]
    /\ math = 0
    /\ walk = NoWalk
    /\ found = [k \in Needle |-> NotSearched]
    /\ region = NotSearched
    /\ heads = << >>
    /\ claims \in SUBSET ({i \in DOMAIN tokens : Kind(i) = "open"} \X Probes)
    /\ labels = {}

DelimiterStep ==
    \/ \E d \in Delims, s \in DOMAIN tokens, c \in Contexts :
          Sound(c) /\ AskDelimiter(d, s, c)
    \/ WalkCloser \/ WalkBreak \/ WalkBlockStart \/ WalkBlockEnd \/ WalkPast \/ WalkEnd

MathStep ==
    \/ \E s \in DOMAIN tokens : AskMath(s)
    \/ MathStop \/ MathJump \/ MathPast \/ MathEnd

FindStep == \E k \in Needle, s \in DOMAIN tokens : Find(k, s)
RegionStep == \E s \in DOMAIN tokens : AskRegion(s)
HeadStep == \E s \in DOMAIN tokens, c \in Probes \cup {"none"} : ScanHeads(s, RegionEnd(s), c)
LabelStep == \E s \in DOMAIN tokens, f \in LabelFlags : AskLabel(s, f)

Next ==
    \/ DelimiterStep \/ MathStep
    \/ FindStep \/ RegionStep \/ HeadStep \/ LabelStep

Spec == Init /\ [][Next]_vars

-----------------------------------------------------------------------------
(* What is remembered, against the tokens. *)

\* Every answer of a forward search and of a link's region is what a new scan would
\* say.  A remembered scan for block heads says what a scan in the same context would, and
\* nothing about heads where outcomes must not be shared; a label remembered to fail
\* fails at the first token that ends it.
LinkMemosFresh ==
    /\ \A k \in Needle, s \in DOMAIN tokens :
          Searched(k, s) => found[k].at = FirstOf(Stops[k], s)
    /\ \A s \in DOMAIN tokens : RegionKnown(s) => region.at = RegionEnd(s)
    /\ \A s \in DOMAIN tokens, c \in Probes \cup {"none"} :
          LET e == RegionEnd(s)
              answer == HeadAnswer(s, e, c)
          IN  /\ answer = "yes" => c # "none" /\ Claimed(s, e, c) # 0
              /\ answer = "no" => IF c = "none" THEN HeadsIn(s, e) = {}
                                  ELSE Claimed(s, e, c) = 0
    /\ \A l \in labels :
          LabelFails(Least({i \in l[1]..Len0 : LabelEnds(i, l[2])}), l[2])

\* A walk for this closer would pass every token up to the end.
PassesAll(d, s, c) ==
    \A i \in s..Len0 : /\ Kind(i) # d
                       /\ c.blocks = "matter" => Kind(i) \notin BlockTokens

\* An answer without a walk is given only where a walk, whatever block ends fail in its
\* context, would reach the end of the input, and with the error it would end in.
DelimiterAnswersFresh ==
    \A d \in Delims, s \in DOMAIN tokens, c \in Contexts :
        Sound(c) /\ DelimiterAnswer(d, s, c) # "walk" =>
            /\ PassesAll(d, s, c)
            /\ DelimiterAnswer(d, s, c) =
                  IF \E i \in s..Len0 : Kind(i) = "break" THEN "failed" ELSE "end"

\* Whatever was asked before, in whatever order and contexts, an answer without a walk
\* is the one the walk would give: no closer and the same error, and for formulas the
\* end of the input over plain tokens; and what is remembered of links is what a new scan
\* would say.
ScansFresh ==
    /\ LinkMemosFresh
    /\ DelimiterAnswersFresh
    /\ \A s \in DOMAIN tokens :
          MathAbsent(s) => FirstOf({"math", "break", "raw", "end"}, s) = Len0

=============================================================================
