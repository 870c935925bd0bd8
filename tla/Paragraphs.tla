------------------------------ MODULE Paragraphs ------------------------------
(***************************************************************************)
(* The gathering of elements into paragraphs (paragraph/stack.rs), as      *)
(* gather_paragraphs feeds it: elements that may stand in a paragraph      *)
(* collect in the run at work, the others end it.  What a run becomes, a   *)
(* paragraph or bare elements, is decided by marks set on the way.  The    *)
(* layout of Wikidot has more of them, drops blanks, and lets a footnote   *)
(* after a blank line go back into the paragraph before it.                *)
(*                                                                         *)
(* An element has a kind, and a number if it is content.  Lists, tables,   *)
(* tabs, collapsibles, definition lists and partial blocks, which set      *)
(* marks of their own, are not modelled; "block" is any other element that *)
(* may not stand in a paragraph, "div" a div or a block of code.           *)
(***************************************************************************)
EXTENDS Integers, Sequences, FiniteSets, SequencesExt, FiniteSetsExt

CONSTANTS Inputs,      \* sets of inputs, one of which a behaviour draws from
          MostInputs,
          ReopenedBatch \* may several elements at once come where a footnote reopens?

VARIABLES layout, \* "wikidot" or "wikijump"
          inputs, \* what this behaviour draws from
          gathered,  \* ParagraphStack
          given,  \* what has been pushed, but blanks: its kind and its chunk
          breaks, \* how many paragraph breaks there were
          line,   \* "start", "middle", or after a div: "ends", "goes on"
          phase   \* how many inputs there were, or -1 when it is finished

paragraphVars == <<layout, inputs, gathered, given, breaks, line, phase>>

Kinds == {"text", "foot", "seam", "image", "aligned", "html", "block", "div"}
Wikidot == layout = "wikidot"
Nowhere == 0

Element(kind, number) == [kind |-> kind, number |-> number, of |-> << >>]
Break == Element("break", 0)
Space == Element("space", 0)    \* Text(" "), read or inserted
Newline == Element("newline", 0) \* Text("\n")
Lead == Element("lead", 0)      \* Text("\n\n")
Paragraph(run) == [kind |-> "paragraph", number |-> 0, of |-> run]

KindAt(q, i) == IF i \in DOMAIN q THEN q[i].kind ELSE "none"
LastKind(q) == KindAt(q, Len(q))

\* rposition of what is no suppression seam.
LastVisible(q) == Max({0} \cup {i \in DOMAIN q : q[i].kind # "seam"})

NoRun(s) == s.current = << >>
CurrentEmpty(s) == NoRun(s) /\ ~s.control

-----------------------------------------------------------------------------
(* Steps of the operations, each from a stack to a stack. *)

\* In the layout of Wikidot all trailing spaces go, in the other one only the last.
TrimTrailingSpace(s) ==
    LET spaces == {i \in DOMAIN s.current :
                      /\ s.current[i].kind = "space"
                      /\ \A j \in (i + 1)..Len(s.current) :
                            s.current[j].kind \in {"space", "seam"}}
        gone == IF Wikidot \/ spaces = {} THEN spaces ELSE {Max(spaces)}
        kept == SelectSeq([i \in DOMAIN s.current |-> i], LAMBDA i : i \notin gone)
    IN  [s EXCEPT !.current = [k \in DOMAIN kept |-> s.current[kept[k]]]]

PopLineBreak(s) ==
    LET c == LastVisible(s.current)  f == LastVisible(s.finished)
    IN  IF KindAt(s.current, c) = "break"
          THEN [s EXCEPT !.current = RemoveAt(@, c)]
        ELSE IF Wikidot /\ NoRun(s) /\ KindAt(s.finished, f) = "break"
          THEN [s EXCEPT !.finished = RemoveAt(@, f)]
        ELSE s

RemoveImageSeparator(s) ==
    [s EXCEPT !.image = Nowhere,
              !.finished = IF KindAt(@, s.image) = "newline" THEN RemoveAt(@, s.image) ELSE @]

\* The separator behind an aligned image stays only where bare elements follow.
SettleImage(s) ==
    IF s.image = Nowhere \/ NoRun(s) THEN s
    ELSE IF s.unwrapped THEN [s EXCEPT !.image = Nowhere] ELSE RemoveImageSeparator(s)

\* Seams come before the line breaks the run ends with.
FlushSeams(s) ==
    LET at == Max({0} \cup {i \in DOMAIN s.current : s.current[i].kind # "break"})
    IN  IF NoRun(s)
          THEN [s EXCEPT !.finished = @ \o s.seams, !.seams = << >>]
          ELSE [s EXCEPT !.current = SubSeq(@, 1, at) \o s.seams
                                        \o SubSeq(@, at + 1, Len(@)),
                         !.seams = << >>]

FinishRun(s) ==
    IF s.unwrapped
      THEN [s EXCEPT !.finished = @ \o s.current, !.current = << >>]
      ELSE \* build_paragraph
           LET t == TrimTrailingSpace(s)
           IN  IF NoRun(t) THEN t
               ELSE [t EXCEPT !.finished = Append(@, Paragraph(t.current)), !.current = << >>]

\* Mutated form: the next run stays bare too.
EndParagraphMarked(s) ==
    LET t == FinishRun(FlushSeams(SettleImage(s)))
    IN  [t EXCEPT !.control = FALSE, !.gap = FALSE, !.afterBlock = FALSE,
                  !.reopen = @ /\ Len(t.finished) = Len(s.finished)]

EndParagraph(s) ==
    LET t == FinishRun(FlushSeams(SettleImage(s)))
    IN  [t EXCEPT !.unwrapped = FALSE, !.control = FALSE, !.gap = FALSE,
                  !.afterBlock = FALSE,
                  !.reopen = @ /\ Len(t.finished) = Len(s.finished)]

EndParagraphAtBreak(s) ==
    LET imageBefore == /\ Wikidot /\ NoRun(s) /\ s.image = Nowhere
                       /\ LastKind(s.finished) = "aligned"
        t == [EndParagraph(s) EXCEPT !.reopen =
                 Wikidot /\ LastKind(EndParagraph(s).finished) = "paragraph"]
    IN  IF s.unwrapped /\ ~NoRun(s)
          THEN [t EXCEPT !.finished = Append(@, IF s.afterBlock THEN Newline ELSE Space),
                         !.gap = TRUE]
        ELSE IF imageBefore
          THEN [t EXCEPT !.finished = Append(@, Newline), !.image = Len(t.finished) + 1]
        ELSE t

-----------------------------------------------------------------------------
(* push_element. *)

\* A footnote takes the place of the line break before it, and after a blank line goes
\* back into the paragraph before it.
AtFootnote(s) == IF Wikidot THEN [s EXCEPT !.current =
                                    IF KindAt(@, LastVisible(@)) = "break"
                                      THEN RemoveAt(@, LastVisible(@)) ELSE @]
                            ELSE s

\* Mutated form: seams that wait are not taken along.
ReopenedBare(s, e) ==
    [s EXCEPT !.reopen = FALSE, !.finished = Front(@),
              !.current = Append(Last(s.finished).of, e)]

Reopened(s, e) ==
    [s EXCEPT !.reopen = FALSE, !.seams = << >>, !.finished = Front(@),
              !.current = Append(Last(s.finished).of \o s.seams, e)]

TakeSeams(s, e, safe) ==
    IF e.kind = "break" THEN s
    ELSE IF safe \/ ~NoRun(s) THEN [s EXCEPT !.current = @ \o s.seams, !.seams = << >>]
    ELSE [s EXCEPT !.finished = @ \o s.seams, !.seams = << >>]

PushImage(s, e) ==
    LET leads == Wikidot /\ s.finished = << >> /\ ~NoRun(s) /\ KindAt(s.current, 1) # "lead"
        run == IF leads THEN <<Lead>> \o s.current ELSE s.current
    IN  [s EXCEPT !.finished = IF s.gap /\ LastKind(@) = "space" THEN Front(@) ELSE @,
                  !.gap = FALSE, !.current = Append(run, e), !.unwrapped = TRUE]

SpaceDropped(s) ==
    /\ Wikidot
    /\ (\A i \in DOMAIN s.current : s.current[i].kind = "seam")
          \/ LastKind(s.current) \in {"space", "break"}

PushSafe(s, e) ==
    IF e.kind = "space" /\ SpaceDropped(s) THEN s
    ELSE LET t == IF e.kind = "break" THEN TrimTrailingSpace(s) ELSE s
         IN  [t EXCEPT !.current = Append(@, e)]

Bare(s, e) == [s EXCEPT !.finished = Append(@, e)]

PushBy(s, e, safe) ==
    CASE e.kind = "html" /\ Wikidot -> [EndParagraph(s) EXCEPT !.current = Append(@, e)]
      [] e.kind = "aligned" ->
            Bare(EndParagraph(IF Wikidot /\ ~NoRun(s) THEN PopLineBreak(s) ELSE s), e)
      [] e.kind = "image" -> PushImage(s, e)
      [] OTHER -> IF safe THEN PushSafe(s, e) ELSE Bare(EndParagraph(s), e)

PushElement(s, e, safe) ==
    LET a == IF e.kind = "foot" THEN AtFootnote(s) ELSE s
        b == TakeSeams([a EXCEPT !.reopen = FALSE], e, safe)
        c == IF b.image # Nowhere /\ (e.kind = "aligned" \/ ~safe)
               THEN RemoveImageSeparator(b) ELSE b
    IN  IF a.reopen /\ e.kind = "foot" THEN Reopened(a, e) ELSE PushBy(c, e, safe)

\* push_element of gather_paragraphs: a run does not begin with a line break, but the
\* one behind a div begins a run that stays bare.
BreakFollowsBlock(s) == Wikidot /\ CurrentEmpty(s) /\ LastKind(s.finished) = "div"

Pushed(s, e, safe) ==
    IF ~(e.kind = "break" /\ safe /\ CurrentEmpty(s)) THEN PushElement(s, e, safe)
    ELSE IF BreakFollowsBlock(s)
      THEN PushElement([s EXCEPT !.unwrapped = TRUE, !.afterBlock = TRUE], e, safe)
    ELSE s

\* push_paragraph_safe_elements; no batch here begins with a line break.
PushBatch(s, es) == [s EXCEPT !.current = @ \o s.seams \o es, !.seams = << >>]

\* mark_wikidot_continued_block_boundary, mark_wikidot_same_line_div_residual.
ContinuedBefore(s) ==
    IF Wikidot /\ ~NoRun(s)
      THEN [s EXCEPT !.current = Append(@, Newline), !.unwrapped = TRUE] ELSE s
ResidualBehind(s) ==
    IF Wikidot THEN [s EXCEPT !.current = Append(@, Newline), !.unwrapped = TRUE,
                              !.afterBlock = TRUE]
               ELSE s

-----------------------------------------------------------------------------
(* What gather_paragraphs does with what it reads. *)

Layouts == {"wikidot", "wikijump"}

ParagraphInit ==
    /\ layout \in Layouts
    /\ inputs \in Inputs \cup {{}}
    /\ gathered = [current |-> << >>, finished |-> << >>, seams |-> << >>, unwrapped |-> FALSE,
                afterBlock |-> FALSE, gap |-> FALSE, image |-> Nowhere, control |-> FALSE,
                reopen |-> FALSE]
    /\ given = << >> /\ breaks = 0 /\ line = "middle" /\ phase = 0

Reads(input) ==
    /\ input \in inputs
    /\ phase \in 0..(MostInputs - 1)
    /\ phase' = phase + 1
    /\ UNCHANGED <<layout, inputs>>

Gives(kinds) ==
    given' = given \o [k \in DOMAIN kinds |-> [kind |-> kinds[k], chunk |-> breaks]]
Numbered(n, kind) == Element(kind, Len(given) + n)

ReadElement(kind) ==
    /\ Reads(kind) /\ kind \in Kinds \ {"seam", "div"} /\ line # "ends"
    /\ gathered' = Pushed(gathered, Numbered(1, kind), kind \notin {"html", "block"})
    /\ Gives(<<kind>>) /\ line' = "middle" /\ UNCHANGED breaks

ReadDiv ==
    /\ Reads("div") /\ line # "ends"
    /\ \E goesOn \in BOOLEAN, start \in {gathered} :
          LET before == IF line = "start" THEN start ELSE ContinuedBefore(start)
              after == Pushed(before, Numbered(1, "div"), FALSE)
          IN  /\ gathered' = IF goesOn THEN ResidualBehind(after) ELSE after
              /\ line' = IF goesOn THEN "goes on" ELSE "ends"
    /\ Gives(<<"div">>) /\ UNCHANGED breaks

\* defer_suppression_seams: a seam waits for the element behind it.
ReadSeam ==
    /\ Reads("seam") /\ line # "ends"
    /\ gathered' = [gathered EXCEPT !.seams = Append(@, Numbered(1, "seam"))]
    /\ Gives(<<"seam">>) /\ line' = "middle" /\ UNCHANGED breaks

ReadBlank ==
    /\ line # "ends"
    /\ \/ /\ Reads("space") /\ gathered' = Pushed(gathered, Space, TRUE) /\ line' = "middle"
       \/ /\ Reads("break") /\ line = "middle"
          /\ gathered' = Pushed(gathered, Break, TRUE) /\ line' = "start"
    /\ UNCHANGED <<given, breaks>>

ReadLineEnd ==
    /\ Reads("break") /\ line = "ends"
    /\ gathered' = Pushed(gathered, Break, TRUE)
    /\ line' = "start" /\ UNCHANGED <<given, breaks>>

ReadParagraphBreak ==
    /\ Reads("paragraph") /\ line \in {"middle", "ends"}
    /\ gathered' = EndParagraphAtBreak(gathered)
    /\ breaks' = breaks + 1 /\ line' = "start" /\ UNCHANGED given

\* Several elements that may stand in a paragraph, and several that may not.
ReadBatch ==
    /\ Reads("batch") /\ line # "ends"
    /\ gathered.reopen => ReopenedBatch
    /\ \E kinds \in {<<"text", "text">>, <<"foot", "text">>} :
          /\ gathered' = PushBatch(gathered, [k \in 1..2 |-> Numbered(k, kinds[k])])
          /\ Gives(kinds)
    /\ line' = "middle" /\ UNCHANGED breaks

ReadBlocks ==
    /\ Reads("blocks") /\ line # "ends"
    /\ gathered' = Pushed(Pushed(gathered, Numbered(1, "block"), FALSE),
                          Numbered(2, "text"), FALSE)
    /\ Gives(<<"block", "text">>) /\ line' = "middle" /\ UNCHANGED breaks

\* A rule that leaves nothing, and what it leaves may not stand in a paragraph.
ReadNothing ==
    /\ Reads("nothing") /\ line # "ends"
    /\ gathered' = [gathered EXCEPT !.unwrapped = @ \/ ~NoRun(gathered)]
    /\ Gives(<<"nothing">>) /\ line' = "middle" /\ UNCHANGED breaks

ReadDiscardedControl ==
    /\ Reads("control") /\ line # "ends"
    /\ gathered' = [gathered EXCEPT !.control = Wikidot]
    /\ line' = "middle" /\ UNCHANGED <<given, breaks>>

\* In a body of quoted lines, a line without a word; such a body ends at a blank line.
ReadQuotedBlank ==
    /\ Reads("quoted") /\ line = "start" /\ Wikidot
    /\ gathered' = EndParagraph(PopLineBreak(gathered))
    /\ Gives(<<"nothing">>) /\ UNCHANGED <<breaks, line>>

Quoted == "quoted" \in inputs

\* into_result.
Finish ==
    /\ phase >= 0
    /\ gathered' = RemoveImageSeparator(EndParagraph(
                   IF Quoted THEN PopLineBreak(gathered) ELSE gathered))
    /\ phase' = -1 /\ UNCHANGED <<layout, inputs, given, breaks, line>>

ParagraphNext ==
    \/ \E kind \in Kinds : ReadElement(kind)
    \/ ReadDiv \/ ReadSeam \/ ReadBlank \/ ReadLineEnd \/ ReadParagraphBreak
    \/ ReadBatch \/ ReadBlocks \/ ReadNothing \/ ReadDiscardedControl
    \/ ReadQuotedBlank \/ Finish

ParagraphSpec == ParagraphInit /\ [][ParagraphNext]_paragraphVars

-----------------------------------------------------------------------------
(* What the page must be. *)

Spread(q) ==
    FlattenSeq([i \in DOMAIN q |-> IF q[i].kind = "paragraph" THEN q[i].of ELSE <<q[i]>>])
Content(q) == SelectSeq(Spread(q), LAMBDA e : e.number > 0)

\* Whatever the order of elements, breaks and marks, every element that was pushed is in
\* the page once, in its place, and is what it was: what a rule gives "is appended to the
\* final list" (docs/Philosophy.md).
EveryElementKept ==
    LET kept == Content(gathered.finished \o gathered.current \o gathered.seams)
        real == SelectSeq([i \in DOMAIN given |-> i], LAMBDA i : given[i].kind # "nothing")
    IN  /\ [k \in DOMAIN kept |-> kept[k].number] = real
        /\ \A k \in DOMAIN kept : kept[k].kind = given[kept[k].number].kind

\* Every blank line between two elements is before a footnote that went back.
Joined(a, b) ==
    \A c \in (given[a].chunk + 1)..given[b].chunk :
        LET behind == {i \in DOMAIN given : given[i].chunk >= c /\ given[i].kind # "seam"}
        IN  Wikidot /\ behind # {} /\ given[Min(behind)].kind = "foot"

NumbersIn(q) == {e.number : e \in Range(q)} \ {0}

\* What keeps text out of a paragraph.
Reason(i) ==
    \E j \in DOMAIN given :
        /\ Joined(Min({i, j}), Max({i, j}))
        /\ given[j].kind \in {"image", "nothing", "block"} \/ (given[j].kind = "div" /\ Wikidot)

\* Elements of a paragraph have no blank line between them, but before a footnote that
\* went back, and nothing is in one that may not be; one of blanks alone takes a control
\* that left no element.  Text is bare only for a reason: in its run there is an image, a
\* block, or a rule that left nothing.  And the place kept for the separator behind an
\* aligned image is where it is, whatever has been removed or put before it.
ParagraphsWellDivided ==
    /\ \A p \in Range(gathered.finished) : p.kind = "paragraph" =>
          /\ \A e \in Range(p.of) :
                e.kind \notin {"paragraph", "aligned", "image", "block", "div"}
          /\ \A a, b \in NumbersIn(p.of) : a < b => Joined(a, b)
          /\ Wikidot /\ NumbersIn(p.of) = {} => "control" \in inputs
    /\ \A e \in Range(gathered.finished) : e.kind \in {"text", "foot"} => Reason(e.number)
    /\ gathered.image # Nowhere =>
          /\ KindAt(gathered.finished, gathered.image) = "newline"
          /\ KindAt(gathered.finished, gathered.image - 1) = "aligned"

=============================================================================
