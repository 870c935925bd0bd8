------------------------------ MODULE Includes ------------------------------
(***************************************************************************)
(* include(): the include blocks of a page are found, their pages asked of *)
(* the caller's Includer in one call, and put in place of the blocks from  *)
(* the last to the first.                                                  *)
(*                                                                         *)
(* A text is a sequence of tokens, an offset the number of tokens before   *)
(* it.  Each token stands for characters no boundary of the scanner falls  *)
(* inside of:                                                              *)
(*                                                                         *)
(*   inc  "[[include "    gt  ">"     pg  "name "  (a page or a word)      *)
(*   end  "]]"            nl  "\n"    op  "[[ "    (stray brackets)        *)
(*   cm   "[!--"          ce  "--]"                                        *)
(*                                                                         *)
(* Left out: arguments and their values, the targets PageRef::parse_include *)
(* refuses (an include without a target is refused in their stead), "\r".  *)
(***************************************************************************)
EXTENDS Integers, Sequences, FiniteSets, SequencesExt

CONSTANTS Texts,  \* the texts to include into
          Page,   \* what an included page holds
          NoPage  \* what no_such_include answers

Token == {"inc", "gt", "pg", "end", "nl", "op", "cm", "ce"}

ASSUME IncludesAssumption ==
    /\ Texts \subseteq Seq(Token)
    /\ Page \in Seq(Token)
    /\ NoPage \in Seq(Token)

VARIABLES text,       \* input
          pageSyntax, \* settings.enable_page_syntax
          cursor,     \* search_start
          match,      \* the opener found last: its line and its marker
          blockText,  \* the tokens parse_include_block is given, and where they are
          includes,   \* ranges and includes: the blocks to replace
          consumed,   \* consumed_quoted_ranges: the blocks to drop
          edits,      \* replacements, by start
          left,       \* how many of them are still to be made
          output,     \* the text edited so far
          pages,      \* the pages replaced so far
          status      \* what include() is at, or how it returned

found   == <<includes, consumed>>
input   == <<text, pageSyntax>>
results == <<output, pages>>
includesVars ==
    <<input, cursor, match, blockText, found, edits, left, results, status>>

-----------------------------------------------------------------------------
(* Text and lines *)

Least(S) == CHOOSE i \in S : \A j \in S : i <= j

\* Is the token at position i of s an include_end: "]]" before a newline or the end?
EndsBlock(s, i) == s[i] = "end" /\ (i = Len(s) \/ s[i + 1] = "nl")

\* find_include_end: the offsets after the terminators from an offset on.
Terminators(s, from) == {i \in (from + 1)..Len(s) : EndsBlock(s, i)}

LineStart(at) == at = 0 \/ text[at] = "nl"

Quotes(from, to) == \A i \in (from + 1)..to : text[i] = "gt"

\* INCLUDE_REGEX: at a line start, tight quotes and an opener (the marker).
Markers(at) ==
    {m \in at..(Len(text) - 1) :
        LineStart(at) /\ Quotes(at, m) /\ text[m + 1] = "inc"}

Matches == {at \in cursor..(Len(text) - 1) : Markers(at) # {}}

-----------------------------------------------------------------------------
(* parse_include_block on a text that starts with an opener *)

\* The first position from i on that does not hold t.
Past(t, s, i) == Least({j \in i..(Len(s) + 1) : j = Len(s) + 1 \/ s[j] # t})

\* Is position j of s in a complete comment that starts at i or later?
Commented(s, i, j) ==
    \E c \in i..j : /\ s[c] = "cm" /\ \A m \in c..(j - 1) : s[m] # "ce"
                    /\ \E k \in j..Len(s) : s[k] = "ce"

\* Newlines and complete comments after stray brackets.
Spaced(s, i) ==
    Least({j \in i..(Len(s) + 1) :
              j = Len(s) + 1 \/ (s[j] # "nl" /\ ~Commented(s, i, j))})

Holds(s, i, t) == i <= Len(s) /\ s[i] = t

\* Where the target is: a run of ">" and a name that ends in a space.
TargetFrom(s) == Past("nl", s, 2)
TargetTo(s)   == LET i == Past("gt", s, TargetFrom(s))
                 IN  IF Holds(s, i, "pg") THEN i ELSE i - 1
Target(s)     == SubSeq(s, TargetFrom(s), TargetTo(s))

\* Where the arguments start, if white space follows the target, or else the end.
TailFrom(s) ==
    LET next == TargetTo(s) + 1
        tail == Past("nl", s, next)
    IN  IF Holds(s, tail, "op") THEN Spaced(s, tail + 1) ELSE tail

HasTail(s) == s[TargetTo(s)] = "pg" \/ Holds(s, TargetTo(s) + 1, "nl")

\* scan_include_arguments refuses a comment that does not end in the arguments.
Unfinished(s, from, to) ==
    \E i \in from..to : s[i] = "cm" /\ \A j \in i..to : s[j] # "ce"

\* The position of the terminator, if s is an include block.
BlockEnds(s) ==
    LET tail == Terminators(s, TailFrom(s) - 1)
    IN  IF Target(s) = << >> THEN {}
        ELSE IF HasTail(s)
          THEN {i \in tail : /\ \A j \in tail : i <= j
                             /\ ~Unfinished(s, TailFrom(s), i - 1)}
        ELSE Terminators(s, 1) \cap {TargetTo(s) + 1}

-----------------------------------------------------------------------------
(* parse_quoted_include *)

\* Mutated form: any line goes on.
AnyLine(at, depth) == TRUE

\* strip_quote_prefix accepts the line at an offset.
Prefixed(at, depth) == at + depth <= Len(text) /\ Quotes(at, at + depth)

\* normalize_and_parse takes lines until one is not quoted or the bound is reached.
RegionEnd(start, depth, bound) ==
    Least({e \in (start + 1)..Len(text) :
              \/ e = Len(text)
              \/ LineStart(e) /\ (e >= bound \/ ~Prefixed(e, depth))})

\* The positions it keeps: all but the quote prefixes.
Kept(start, depth, bound) ==
    {k \in (start + 1)..RegionEnd(start, depth, bound) :
        \A at \in start..(k - 1) : LineStart(at) => k > at + depth}

Rank(K, k) == Cardinality({j \in K : j <= k})

\* original_offset
Original(K, i) == {k \in K : Rank(K, k) = i}

Normalized(K) ==
    [i \in 1..Cardinality(K) |-> text[CHOOSE k \in Original(K, i) : TRUE]]

-----------------------------------------------------------------------------
(* The scan *)

\* Nothing is scanned.
Unscanned ==
    /\ cursor = 0 /\ match = [start |-> 0, marker |-> 0]
    /\ blockText = [kept |-> {}, tokens |-> << >>]
    /\ includes = << >> /\ consumed = << >>
    /\ edits = << >> /\ left = 0
    /\ output = text /\ pages = << >>
    /\ status = "scanning"

IncludesInit == text \in Texts /\ pageSyntax \in BOOLEAN /\ Unscanned

Scanning == status = "scanning" /\ pageSyntax

\* include() returns its input when the page syntax is off.
Disabled ==
    /\ status = "scanning" /\ ~pageSyntax
    /\ status' = "done"
    /\ UNCHANGED <<input, cursor, match, blockText, found, edits, left, results>>

\* INCLUDE_REGEX.find_at
FindOpener ==
    /\ Scanning /\ Matches # {}
    /\ \E at \in {Least(Matches)} :
        match' = [start |-> at, marker |-> Least(Markers(at))]
    /\ status' = "matched"
    /\ UNCHANGED <<input, cursor, blockText, found, edits, left, results>>

Start     == match.start
Marker    == match.marker
Candidate == Least(Terminators(text, Marker + 1))

Bounded  == status = "matched" /\ Terminators(text, Marker + 1) # {}
Unquoted == Marker = Start

\* No terminator after an opener: the rest of the text is skipped.
SkipRest ==
    /\ status = "matched" /\ ~Bounded
    /\ cursor' = Len(text)
    /\ status' = "scanning"
    /\ UNCHANGED <<input, match, blockText, found, edits, left, results>>

\* The ends of the block in the text.
Ends == UNION {Original(blockText.kept, i) : i \in BlockEnds(blockText.tokens)}

\* What an opener's block is parsed from: the text from the opener on; for a quoted
\* opener its lines up to the first terminator, and if that is no block the whole
\* quoted region.
Take(kept, tokens, then) ==
    /\ blockText' = [kept |-> kept, tokens |-> tokens]
    /\ status' = then
    /\ UNCHANGED <<input, cursor, match, found, edits, left, results>>

TakeQuoted(bound, then) ==
    \E K \in {Kept(Start, Marker - Start, bound)} : Take(K, Normalized(K), then)

TakePlain ==
    /\ Bounded /\ Unquoted
    /\ Take((Start + 1)..Len(text), SubSeq(text, Start + 1, Len(text)), "plain")

TakeLines == Bounded /\ ~Unquoted /\ TakeQuoted(Candidate, "lines")

TakeRegion ==
    /\ status = "lines" /\ Ends = {}
    /\ TakeQuoted(Len(text), "region")

Scanned == /\ status' = "scanning"
           /\ UNCHANGED <<input, match, blockText, edits, left, results>>

Include(e) ==
    includes' = Append(includes,
        [start |-> Start, end |-> e, page |-> Target(blockText.tokens)])

\* Mutated form: the search resumes after the opener.
FoundPlainInside ==
    /\ status = "plain"
    /\ \E e \in Ends : Include(e) /\ cursor' = Marker + 1
    /\ Scanned /\ UNCHANGED consumed

FoundPlain ==
    /\ status = "plain"
    /\ \E e \in Ends : Include(e) /\ cursor' = e
    /\ Scanned /\ UNCHANGED consumed

FoundQuoted ==
    /\ status \in {"lines", "region"}
    /\ \E e \in Ends :
        /\ consumed' = Append(consumed, [start |-> Start, end |-> e])
        /\ cursor' = e
    /\ Scanned /\ UNCHANGED includes

\* What follows the opener is not a block: the search resumes at the terminator.
Refused == status \in {"plain", "region"} /\ Ends = {}

\* Mutated form: nothing after it is looked at.
NotABlockStop ==
    /\ Refused
    /\ cursor' = Len(text)
    /\ Scanned /\ UNCHANGED found

\* Mutated form: the search resumes at the opener.
NotABlockAgain ==
    /\ Refused
    /\ cursor' = Start
    /\ Scanned /\ UNCHANGED found

NotABlock ==
    /\ Refused
    /\ cursor' = Candidate
    /\ Scanned /\ UNCHANGED found

-----------------------------------------------------------------------------
(* The Includer's answer *)

\* What the includer may say of a page it was asked for: its content, an empty
\* content, that it does not exist, or another page.
Answer == {"text", "empty", "missing", "other"}

Asked == Scanning /\ Matches = {}

Answered == UNCHANGED <<input, cursor, match, blockText, found, results>>

\* include_pages fails.
FetchFails ==
    /\ Asked /\ status' = "failed"
    /\ Answered /\ UNCHANGED <<edits, left>>

Edit(range, page, answer) ==
    [start |-> range.start, end |-> range.end, page |-> page, answer |-> answer]

Edits(answers) ==
    {Edit(includes[i], includes[i].page, answers[i]) : i \in DOMAIN answers}
        \cup {Edit(consumed[i], << >>, "quoted") : i \in DOMAIN consumed}

\* Mutated form: the quoted ranges stay after the others.
Unordered(S, n) ==
    {f \in [1..n -> S] :
        \A i, j \in 1..n :
            i < j => \/ f[i].answer # "quoted" /\ f[j].answer = "quoted"
                     \/ /\ (f[i].answer = "quoted") = (f[j].answer = "quoted")
                        /\ f[i].start < f[j].start}

\* sort_unstable_by_key: the n edits of S by start.
Ordered(S, n) ==
    {f \in [1..n -> S] : \A i, j \in 1..n : i < j => f[i].start < f[j].start}

Substitutes(answers) ==
    /\ left' = Len(answers) + Len(consumed)
    /\ edits' \in Ordered(Edits(answers), left')
    /\ status' = "substituting"
    /\ Answered

\* include_pages answers with another number of pages.
FetchMiscounts ==
    /\ Asked /\ status' = "invalid"
    /\ Answered /\ UNCHANGED <<edits, left>>

FetchAnswers ==
    /\ Asked
    /\ \E answers \in [DOMAIN includes -> Answer] : Substitutes(answers)

-----------------------------------------------------------------------------
(* substitute_replacements *)

This == edits[left]

\* The page on lines of its own, unless it is empty.
Separated(edit, with) ==
    IF with = << >> THEN with
    ELSE (IF edit.start > 0 THEN <<"nl">> ELSE << >>) \o with
             \o (IF edit.end < Len(text) THEN <<"nl">> ELSE << >>)

\* Mutated form: an inclusive range.
ReplacedInclusive(edit, with) ==
    SubSeq(output, 1, edit.start) \o with
        \o SubSeq(output, edit.end + 2, Len(output))

\* replace_range, on the text edited so far.
Replaced(edit, with) ==
    SubSeq(output, 1, edit.start) \o with
        \o SubSeq(output, edit.end + 1, Len(output))

Substituting == status = "substituting" /\ left > 0

Substituted == UNCHANGED <<input, cursor, match, blockText, found, edits>>

DropQuoted ==
    /\ Substituting /\ This.answer = "quoted"
    /\ output' = Replaced(This, << >>)
    /\ left' = left - 1
    /\ Substituted /\ UNCHANGED <<pages, status>>

OtherPage ==
    /\ Substituting /\ This.answer = "other"
    /\ status' = "invalid"
    /\ Substituted /\ UNCHANGED <<left, output, pages>>

NoSuchIncludeFails ==
    /\ Substituting /\ This.answer = "missing"
    /\ status' = "failed"
    /\ Substituted /\ UNCHANGED <<left, output, pages>>

With(answer) ==
    CASE answer = "text"    -> Page
      [] answer = "missing" -> NoPage
      [] answer = "empty"   -> << >>

IncludePage ==
    /\ Substituting /\ This.answer \in {"text", "empty", "missing"}
    /\ output' = Replaced(This, Separated(This, With(This.answer)))
    /\ pages' = Append(pages, This.page)
    /\ left' = left - 1
    /\ Substituted /\ UNCHANGED status

Finish ==
    /\ status = "substituting" /\ left = 0
    /\ status' = "done"
    /\ pages' = Reverse(pages)
    /\ Substituted /\ UNCHANGED <<left, output>>

-----------------------------------------------------------------------------

IncludesNext ==
    \/ Disabled
    \/ FindOpener \/ SkipRest \/ TakePlain \/ TakeLines \/ TakeRegion
    \/ FoundPlain \/ FoundQuoted \/ NotABlock
    \/ FetchFails \/ FetchMiscounts \/ FetchAnswers
    \/ DropQuoted \/ OtherPage \/ NoSuchIncludeFails \/ IncludePage \/ Finish

\* include() runs on until it returns.
IncludesSpec == IncludesInit /\ [][IncludesNext]_includesVars /\ WF_includesVars(IncludesNext)

-----------------------------------------------------------------------------
(* Properties *)

Quote == [start : Nat, end : Nat]
Block == [start : Nat, end : Nat, page : Seq(Token)]
Replacement ==
    [start : Nat, end : Nat, page : Seq(Token), answer : Answer \cup {"quoted"}]

\* The state is well formed, and the search never leaves the text.
IncludesTypeOK ==
    /\ text \in Seq(Token) /\ output \in Seq(Token)
    /\ pageSyntax \in BOOLEAN
    /\ cursor \in 0..Len(text) /\ match \in [start : Nat, marker : Nat]
    /\ blockText \in [kept : SUBSET (1..Len(text)), tokens : Seq(Token)]
    /\ includes \in Seq(Block) /\ consumed \in Seq(Quote)
    /\ edits \in Seq(Replacement) /\ left \in 0..Len(edits)
    /\ pages \in Seq(Seq(Token))
    /\ status \in {"scanning", "matched", "plain", "lines", "region",
                  "substituting", "done", "failed", "invalid"}

\* Two ranges share no text.
Apart(r, q) == r.end <= q.start \/ q.end <= r.start

\* The ranges to be edited are within the text and no two of them overlap, although
\* an include may hold the opener of another one in its arguments (mod.rs:125-135).
RangesApart ==
    /\ \A i \in DOMAIN includes : includes[i].start < includes[i].end
                                 /\ includes[i].end <= Len(text)
    /\ \A i \in DOMAIN consumed : consumed[i].start < consumed[i].end
                                 /\ consumed[i].end <= Len(text)
    /\ \A i, j \in DOMAIN includes : i # j => Apart(includes[i], includes[j])
    /\ \A i, j \in DOMAIN consumed : i # j => Apart(consumed[i], consumed[j])
    /\ \A i \in DOMAIN includes : \A j \in DOMAIN consumed :
          Apart(includes[i], consumed[j])

\* The ranges were found in the input and are applied to a text that changes: up to
\* the end of every range still to be replaced the two are the same
\* (substitute_replacements goes from the last to the first).
PrefixUntouched ==
    status = "substituting" =>
        \A n \in 1..left :
            /\ edits[n].end <= Len(output)
            /\ SubSeq(output, 1, edits[n].end) = SubSeq(text, 1, edits[n].end)

\* The parse of an opener at an offset, on its own.
MarkerAt(at) == Least(Markers(at))
ParsesAt(at) == \E s \in {SubSeq(text, at + 1, Len(text))} : BlockEnds(s) # {}
StopsAt(at)  == Terminators(text, MarkerAt(at) + 1)

Covers(range, at) == range.start <= at /\ at < range.end

Edited == {includes[i] : i \in DOMAIN includes} \cup {consumed[i] : i \in DOMAIN consumed}

\* A quoted include is dropped with lines that are quoted as deep as it is, and
\* with nothing after its terminator (quoted.rs:87-124).
QuotedLinesOnly ==
    \A i \in DOMAIN consumed :
        LET r     == consumed[i]
            depth == MarkerAt(r.start) - r.start
        IN  /\ EndsBlock(text, r.end)
            /\ \A at \in r.start..(r.end - 1) :
                 LineStart(at) => at + depth < r.end /\ Quotes(at, at + depth)

\* An include that is one by itself is replaced, or is part of a range, or comes
\* before the terminator of an opener that is not one (or has none) and goes down
\* with it (mod.rs:100-104, 131-134).
Accounted(at) ==
    \/ \E r \in Edited : Covers(r, at)
    \/ \E h \in 0..(at - 1) :
        /\ Markers(h) # {}
        /\ ~\E r \in Edited : Covers(r, h)
        /\ \A k \in StopsAt(h) : \E j \in StopsAt(h) : j <= k /\ at < j

NoneLost ==
    Asked =>
        \A at \in 0..(Len(text) - 1) :
            (at \in Markers(at) /\ ParsesAt(at)) => Accounted(at)

\* What goes is no more than the includes, and no include stays.
IncludesExact == QuotedLinesOnly /\ NoneLost

\* What a text becomes, token by token: each include its page on lines of its own,
\* each quoted include nothing, everything else itself.
Separators(range) ==
    <<IF range.start = 0 THEN << >> ELSE <<"nl">>,
      IF range.end = Len(text) THEN << >> ELSE <<"nl">> >>

Printed(n) ==
    \/ edits[n].answer = "text" /\ Page # << >>
    \/ edits[n].answer = "missing" /\ NoPage # << >>

Becomes(k) ==
    LET showing == {n \in DOMAIN edits : edits[n].start = k - 1 /\ Printed(n)}
    IN  IF showing # {}
          THEN LET n == CHOOSE n \in showing : TRUE
                   with == IF edits[n].answer = "text" THEN Page ELSE NoPage
               IN  Separators(edits[n])[1] \o with \o Separators(edits[n])[2]
        ELSE IF \E r \in Edited : Covers(r, k - 1) THEN << >>
        ELSE <<text[k]>>

\* The parts of a text from the one at i on, put together.
From(parts) ==
    LET from[i \in 1..(Len(parts) + 1)] ==
            IF i > Len(parts) THEN << >> ELSE parts[i] \o from[i + 1]
    IN  from

Parts == [k \in 1..Len(text) |-> Becomes(k)]

\* include() succeeds only on one answer for every include, of the page asked for.
\* It then returns the text with every block replaced where it was, once, and the
\* includes of included pages left alone; or the text itself, without page syntax.
\* The pages it returns are those of the includes replaced, in the order of the text
\* (they are collected from the last to the first).
OutputMatches ==
    status = "done" =>
        /\ output = IF pageSyntax THEN From(Parts)[1]
                                  ELSE text
        /\ pageSyntax =>
            /\ Len(edits) = Len(includes) + Len(consumed)
            /\ \A n \in DOMAIN edits : edits[n].answer # "other"
            /\ pages = [i \in DOMAIN includes |-> includes[i].page]

=============================================================================
