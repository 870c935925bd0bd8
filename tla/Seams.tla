-------------------------------- MODULE Seams --------------------------------
(***************************************************************************)
(* Typography around conditional content (preproc/typography.rs,           *)
(* delayed/seam.rs) in Layout::Wikidot: before a page is parsed it is not  *)
(* known which [[iftags]] are shown, so the preprocessor defers what may   *)
(* join across one; when the parser has dropped the hidden ones and left   *)
(* seams where tags were, the texts around a seam are put together and     *)
(* what was deferred is done.                                              *)
(*                                                                         *)
(* A source is a sequence of characters and tags: "hidden" is a whole      *)
(* conditional that is not shown, "if" and "endif" are the tags of one     *)
(* that is.  "nl" is a line break within a paragraph.  Characters that no  *)
(* replacement knows are "x".  Digits, commas and dashes, and the places   *)
(* where typography does not apply (links, formulas, attributes, code) are *)
(* left out.                                                               *)
(***************************************************************************)
EXTENDS Integers, Sequences, FiniteSets, SequencesExt, FiniteSetsExt

Single == [open |-> <<"lq">>, close |-> <<"rq">>, as |-> <<"lsquo", "rsquo">>]
Double == [open |-> <<"lq", "lq">>, close |-> <<"rq", "rq">>, as |-> <<"ldquo", "rdquo">>]
Quotes == <<Double, Single>>
Dots == {<<".", ".", ".">>, <<".", " ", ".", " ", ".">>}

-----------------------------------------------------------------------------
(* Ranges of a text and replacements in it. *)

Span(first, last) == [first |-> first, last |-> last]
SpanSize(r) == r.last - r.first + 1
Overlap(r, s) == r.first <= s.last /\ s.first <= r.last

StartsWith(s, i, p) == i + Len(p) - 1 <= Len(s) /\ SubSeq(s, i, i + Len(p) - 1) = p

\* The longest runs of some characters.
RunFrom(s, i, chars) ==
    Span(i, Max({j \in i..Len(s) : \A k \in i..j : s[k] \in chars}))
Runs(s, chars) ==
    {RunFrom(s, i, chars) : i \in {i \in DOMAIN s : /\ s[i] \in chars
                                                    /\ i = 1 \/ s[i - 1] \notin chars}}

\* What a pattern of a pair of quotes matches, from the left, the nearest closer.
RECURSIVE Surrounded(_, _, _)
Surrounded(s, q, i) ==
    LET opens  == {k \in i..Len(s) : StartsWith(s, k, q.open)}
        closes == {k \in (Min(opens) + Len(q.open))..Len(s) : StartsWith(s, k, q.close)}
    IN  IF opens = {} \/ closes = {} THEN {}
        ELSE {Span(Min(opens), Min(closes) + Len(q.close) - 1)}
             \cup Surrounded(s, q, Min(closes) + Len(q.close))

RECURSIVE Ellipses(_, _)
Ellipses(s, i) ==
    IF i > Len(s) THEN {}
    ELSE IF \E p \in Dots : StartsWith(s, i, p)
      THEN LET p == CHOOSE p \in Dots : StartsWith(s, i, p)
           IN  {Span(i, i + Len(p) - 1)} \cup Ellipses(s, i + Len(p))
    ELSE Ellipses(s, i + 1)

Edit(r, as) == [first |-> r.first, last |-> r.last, as |-> as]
QuoteEdits(m, q) ==
    {Edit(Span(m.first, m.first + Len(q.open) - 1), q.as[1]),
     Edit(Span(m.last - Len(q.close) + 1, m.last), q.as[2])}
\* Two by two from the left.
PairEdits(r, as) ==
    {Edit(Span(r.first + 2 * k, r.first + 2 * k + 1), as) : k \in 0..(SpanSize(r) \div 2 - 1)}

Edited(s, edits) ==
    FlattenSeq([i \in DOMAIN s |->
        IF \E e \in edits : e.first = i
          THEN <<(CHOOSE e \in edits : e.first = i).as>>
          ELSE IF \E e \in edits : e.first <= i /\ i <= e.last THEN << >> ELSE <<s[i]>>])

-----------------------------------------------------------------------------
(* Before the page is parsed: substitute_wikidot_impl. *)

\* The tags of conditionals that are closed.
Paired_(s) ==
    LET Read(a, i) ==
            CASE s[i] = "hidden" -> [a EXCEPT !.paired = @ \cup {i}]
              [] s[i] = "if" -> [a EXCEPT !.open = Append(@, i)]
              [] s[i] = "endif" /\ a.open # << >> ->
                    [open |-> Front(a.open), paired |-> a.paired \cup {i, Last(a.open)}]
              [] OTHER -> a
    IN  FoldLeftDomain(Read, [open |-> << >>, paired |-> {}], s).paired

HasClosedConditional(s, r) ==
    \/ \E i \in r.first..r.last : s[i] = "hidden"
    \/ \E i, j \in r.first..r.last : i < j /\ s[i] = "if" /\ s[j] = "endif"

QuotesReplaced(s, q) ==
    Edited(s, UNION {QuoteEdits(m, q) :
                        m \in {m \in Surrounded(s, q, 1) : ~HasClosedConditional(s, m)}})

\* A run right behind the tag of a closed conditional waits for what comes before the
\* conditional.
Deferred(s, r, defer) == defer /\ (r.first - 1) \in Paired_(s)

AnglesReplaced(s, defer) ==
    LET left  == {r \in Runs(s, {"<"}) : ~Deferred(s, r, defer)}
        right == {r \in Runs(s, {">"}) :
                    ~Deferred(s, r, defer) /\ r.first > 1 /\ s[r.first - 1] # "nl"}
    IN  Edited(s, UNION ({PairEdits(r, "laquo") : r \in left}
                         \cup {PairEdits(r, "raquo") : r \in right}))

EllipsesReplaced(s, defer) ==
    LET waiting == {r \in Runs(s, {".", " "}) : Deferred(s, r, defer)}
    IN  Edited(s, {Edit(m, "hellip") :
                    m \in {m \in Ellipses(s, 1) : \A r \in waiting : ~Overlap(m, r)}})

Substituted(s, defer) ==
    EllipsesReplaced(AnglesReplaced(FoldLeft(QuotesReplaced, s, Quotes), defer), defer)

-----------------------------------------------------------------------------
(* When the page is parsed: wikidot_seam_edits and flush_group, on the characters s of  *)
(* a group of texts with seams behind the first k, k in seams.                          *)

Crosses(r, seams) == \E k \in seams : r.first <= k /\ k < r.last
\* Mutated form: a seam at the edge of a run is not one that touches it.
TouchesInside(r, seams) == \E k \in seams : r.first <= k /\ k < r.last
Touches(r, seams) == \E k \in seams : r.first - 1 <= k /\ k <= r.last

\* Each kind of quote takes the pairs that cross a seam and that none before took.
SeamQuotes(s, seams) ==
    LET Take(taken, q) ==
            taken \cup {[first |-> m.first, last |-> m.last, q |-> q] :
                          m \in {m \in Surrounded(s, q, 1) :
                                   Crosses(m, seams) /\ \A t \in taken : ~Overlap(t, m)}}
    IN  UNION {QuoteEdits(m, m.q) : m \in FoldLeft(Take, {}, Quotes)}

SeamLefts(s, seams) ==
    UNION {PairEdits(r, "laquo") : r \in {r \in Runs(s, {"<"}) : Touches(r, seams)}}

RightTouched(r, seams) ==
    IF r.first = 1 THEN \E k \in seams : k < r.last ELSE Touches(r, seams)
SeamRights(s, seams) ==
    UNION {PairEdits(r, "raquo") : r \in {r \in Runs(s, {">"}) : RightTouched(r, seams)}}

SeamEllipses(s, seams) ==
    {Edit(m, "hellip") :
        m \in {m \in Ellipses(s, 1) :
                 \E r \in Runs(s, {".", " "}) : Overlap(r, m) /\ Touches(r, seams)}}

SeamSpaces(s, seams) ==
    {Edit(r, " ") : r \in {r \in Runs(s, {" "}) : SpanSize(r) >= 2 /\ Crosses(r, seams)}}

SeamEdits(s, seams) ==
    UNION {SeamQuotes(s, seams), SeamLefts(s, seams), SeamRights(s, seams),
           SeamEllipses(s, seams), SeamSpaces(s, seams)}

\* A group is what is between two line breaks: characters and seams.
IsSeam(e) == e = "seam"
Characters(group) == SelectSeq(group, LAMBDA e : ~IsSeam(e))
SeamsOf(group) ==
    {Len(Characters(SubSeq(group, 1, i - 1))) : i \in {i \in DOMAIN group : IsSeam(group[i])}}
OnlySeams(group) == group # << >> /\ Characters(group) = << >>
Flushed(group) ==
    LET s == Characters(group)
    IN  IF SeamsOf(group) = {} THEN s ELSE Edited(s, SeamEdits(s, SeamsOf(group)))

EndsInBreak(out) == out # << >> /\ Last(out) = "nl"

\* A line that held nothing but what is hidden leaves no empty line.
Rewritten(elements) ==
    LET Read(a, e) ==
            IF e # "nl" THEN [a EXCEPT !.group = Append(@, e)]
            ELSE LET out == a.out \o Flushed(a.group)
                 IN  [group |-> << >>,
                      out |-> IF OnlySeams(a.group) /\ EndsInBreak(out)
                                THEN out ELSE Append(out, "nl")]
        end == FoldLeft(Read, [group |-> << >>, out |-> << >>], elements)
        all == end.out \o Flushed(end.group)
    IN  IF OnlySeams(end.group) /\ EndsInBreak(all) THEN Front(all) ELSE all

\* What the parser makes of a text: a seam for a hidden conditional, one for each tag of
\* a shown one around its body, and the tags of others as text.
Parsed(s) == [i \in DOMAIN s |-> IF i \in Paired_(s) THEN "seam" ELSE s[i]]

Shown(s) ==
    Rewritten(Parsed(Substituted(s, TRUE)))

=============================================================================
