---------------------------- MODULE MCAlgorithms ----------------------------
(***************************************************************************)
(* What looks ahead in a page or answers from memory, on all short inputs: *)
(* ScanMemos, CodeSpans, InlinePairs, NestPairs, IncludeArguments, the     *)
(* stack that gathers Paragraphs, the rendering of Citations, the          *)
(* evaluation of Expressions and the typography around Seams.  They share  *)
(* no state, so a behaviour is about one of them, on inputs of the tokens  *)
(* it tells apart.                                                         *)
(***************************************************************************)
EXTENDS ScanMemos, CodeSpans, InlinePairs, NestPairs, IncludeArguments,
        Paragraphs, Citations, Expressions, Seams

VARIABLES asked, \* what the behaviour is about
          page,  \* the page whose inline markers are paired
          typed, \* the text with conditionals
          expr,  \* the expression of a parser function
          lenient \* WikidotZeroOperatorPolicy::ReplaceOperationWithZero

MCKindOf == [bold |-> "bold", break |-> "break", text |-> "text",
             math |-> "math", raw |-> "raw", rbr |-> "rbr", rlink |-> "rlink",
             blank |-> "blank", comment |-> "comment", column |-> "column",
             div |-> "open", linktab |-> "link",
             enddiv |-> "close", endtab |-> "close"]
MCNameOf == [t \in DOMAIN MCKindOf |->
                CASE t \in {"div", "enddiv"} -> "div"
                  [] t \in {"linktab", "endtab"} -> "tab" [] OTHER -> "-"]
MCToken == DOMAIN MCKindOf

\* Tokens that each kind of scan tells apart.
Alphabet ==
    [delimiter |-> {"bold", "break", "div", "enddiv", "endtab", "linktab"},
     math |-> {"math", "break", "raw", "text"},
     find |-> {"rbr", "break", "text"},
     region |-> {"rbr", "blank", "comment", "break", "text"},
     heads |-> {"rbr", "blank", "div", "text"},
     labels |-> {"rbr", "rlink", "column", "break", "text"}]

Longest == [delimiter |-> 3, math |-> 4, find |-> 4, region |-> 4, heads |-> 3,
            labels |-> 3]

PagesOf(k) == {Append(p, "end") : p \in BoundedSeq(Alphabet[k], Longest[k])}
MCLabelFlags == {{}, {"cell"}, {"triple"}}
MCStops == [bracket |-> {"rbr"}, line |-> {"break", "rbr"}]

\* Parts of a source with code blocks.
Words == {<<"nl", "[[", "code", "]]">>, <<"nl", "[[", "code", "sp">>, <<"[[", "code", "]]">>,
          <<"[[", "/", "code", "]]">>, <<"[[", "/", "code", "]]", "x">>,
          <<"[[", "/", "code", "]]", "sp">>}
Sources == {FlattenSeq(w) : w \in BoundedSeq(Words, 5)}

\* Tokens of pages with inline markers, and how many.
Inline == {<<{"**", "//", "x", "sp"}, 6>>, <<{"**", "--", "//", "sp"}, 5>>,
              <<{"{{", "}}", "**", "}"}, 5>>, <<{"##", "|", "x", "--"}, 6>>,
              <<{"**", "//", "para", "link"}, 6>>, <<{"**", "//", "note", "image"}, 5>>,
              <<{"**", "list", "endlist", "block"}, 5>>}
MCColors == {<<"x">>, <<"x", "x">>}
MarkerPages == UNION {{Append(p, "end") : p \in BoundedSeq(a[1], a[2])} : a \in Inline}

MCReferenceName == [a \in {"$a", "$b"} |-> IF a = "$a" THEN <<"a">> ELSE <<"b">>]
Keys == {<<"a">>, <<"b">>, <<"$a">>}
Values == {<< >>, <<"a">>, <<"$a">>, <<"$b">>, <<"$a", "$b">>, <<"$b", "x", "$b">>}
RawArguments == BoundedSeq([key : Keys, value : Values], 3)

Nests == BoundedSeq({"head", "close"}, 7)

\* Tokens of expressions, and how many.
Arithmetic == {<<{"0", "2", "-", "+", "<"}, 5>>, <<{"2", "+", "-", "*", "^"}, 5>>,
               <<{"1", "(", ")", "+", "!"}, 6>>, <<{"0", "1", "/", "||", "%", "&&"}, 5>>,
               <<{"min", "abs", "(", ")", ",", "2"}, 6>>,
               <<{"x", "null", "true", "(", ")", "=="}, 5>>}
MCExpressions == UNION {BoundedSeq(a[1], a[2]) : a \in Arithmetic}

\* Characters and tags around conditionals, and how many; one conditional is shown.
Typed == {<<{"<", "x", "hidden", "if", "endif"}, 5>>, <<{">", "x", "hidden", "if", "endif"}, 5>>,
          <<{">", "<", ".", "hidden"}, 5>>, <<{".", " ", "x", "hidden"}, 6>>,
          <<{".", " ", "nl", "if", "endif"}, 5>>, <<{"x", " ", "nl", "hidden"}, 5>>,
          <<{"lq", "rq", "x", "hidden"}, 6>>, <<{"lq", "rq", "if", "endif"}, 6>>}
TypedPages == {p \in UNION {BoundedSeq(a[1], a[2]) : a \in Typed} :
                 Cardinality({i \in DOMAIN p : p[i] = "if"}) <= 1}

Nothing == source = << >> /\ page = << >> /\ raw = << >> /\ events = << >>
NoExpression == expr = << >> /\ lenient = FALSE
MCInputs == {{"text", "foot", "seam", "break", "paragraph", "batch"},
             {"text", "foot", "image", "aligned", "paragraph", "break"},
             {"text", "div", "foot", "break", "paragraph"},
             {"text", "html", "blocks", "space", "nothing", "paragraph"},
             {"text", "quoted", "break", "control", "aligned", "div"}}

\* Bibliographies by the calls that make them, of one page.
Contents == {<< >>, <<Cite("b")>>, <<Cite("a"), Cite("b")>>, <<At_("foot", 1)>>,
             <<At_("foot", 2), Plain_("notes")>>}
Call(how, label, contents) == [how |-> how, label |-> label, contents |-> contents]
Calls == {Call("add", l, c) : l \in CiteLabels, c \in Contents}
         \cup {Call("nested", l, <<Cite("a")>>) : l \in CiteLabels}
         \cup {Call("residual", "-", <<Plain_("block")>>), Call("next", "-", << >>)}

Called(bs, c) ==
    CASE c.how = "next" -> Append(bs, NewBibliography)
      [] c.how = "add" ->
            [bs EXCEPT ![Len(bs)] = WithEntry(@, "plain", c.label, c.contents)]
      [] c.how = "nested" -> [bs EXCEPT ![Len(bs)] = WithNested(@, c.label, c.contents)]
      [] c.how = "residual" -> [bs EXCEPT ![Len(bs)] = WithResidual(@, c.contents)]

\* Footnotes are referred to once, in an entry or in the page.
Noted(calls, n) == {k \in DOMAIN calls : At_("foot", n) \in Range(calls[k].contents)}
CallRuns == {calls \in BoundedSeq(Calls, 3) :
                /\ \E k \in DOMAIN calls : calls[k].how = "add"
                /\ \A n \in {1, 2} : Cardinality(Noted(calls, n)) <= 1}
MCNotes == <<<<Cite("a"), Cite("b")>>, <<Plain_("block"), Cite("b")>>>>

PageWith(calls) ==
    <<Cite("a"), Cite("b")>>
    \o SelectSeq([n \in 1..2 |-> At_("foot", n)], LAMBDA e : Noted(calls, e.index) = {})
    \o [k \in DOMAIN bibliographies |-> At_("entries", k)] \o <<Plain_("notes"), Cite("a")>>

Cited ==
    \E calls \in CallRuns :
        /\ legacy \in {l \in BOOLEAN : l \/ \A k \in DOMAIN calls : calls[k].how # "nested"}
        /\ bibliographies = FoldLeft(Called, <<NewBibliography>>, calls)
        /\ footnotes = MCNotes
        /\ body = PageWith(calls)

NoParagraphs == inputs = {} /\ layout = "wikidot"
NoCitations == legacy = FALSE /\ bibliographies = << >> /\ footnotes = << >> /\ body = << >>

MCInit ==
    /\ \/ /\ asked \in DOMAIN Alphabet /\ tokens \in PagesOf(asked)
          /\ Nothing /\ NoParagraphs /\ NoCitations /\ NoExpression
       \/ /\ asked = "code" /\ source \in Sources /\ tokens = <<"end">> /\ page = << >>
          /\ raw = << >> /\ events = << >> /\ NoParagraphs /\ NoCitations /\ NoExpression
       \/ /\ asked = "markers" /\ page \in MarkerPages /\ tokens = <<"end">>
          /\ source = << >> /\ raw = << >> /\ events = << >>
          /\ NoParagraphs /\ NoCitations /\ NoExpression
       \/ /\ asked = "seams" /\ typed \in TypedPages /\ tokens = <<"end">>
          /\ Nothing /\ NoParagraphs /\ NoCitations /\ NoExpression
       \/ /\ asked = "nest" /\ events \in Nests /\ tokens = <<"end">> /\ source = << >>
          /\ page = << >> /\ raw = << >> /\ NoParagraphs /\ NoCitations /\ NoExpression
       \/ /\ asked = "arguments" /\ raw \in RawArguments /\ tokens = <<"end">>
          /\ source = << >> /\ page = << >> /\ events = << >>
          /\ NoParagraphs /\ NoCitations /\ NoExpression
       \/ /\ asked = "paragraphs" /\ inputs \in Inputs /\ layout \in Layouts
          /\ tokens = <<"end">> /\ Nothing /\ NoCitations /\ NoExpression
       \/ /\ asked = "citations" /\ Cited /\ tokens = <<"end">>
          /\ Nothing /\ NoParagraphs /\ NoExpression
       \/ /\ asked = "expression" /\ expr \in MCExpressions /\ lenient \in BOOLEAN
          /\ tokens = <<"end">> /\ Nothing /\ NoParagraphs /\ NoCitations
    /\ asked # "seams" => typed = << >>
    /\ Init /\ CodeInit /\ NestInit /\ ArgumentsInit /\ ParagraphInit /\ CitationInit

MemoStep ==
    \/ asked = "delimiter" /\ DelimiterStep
    \/ asked = "math" /\ MathStep
    \/ asked = "find" /\ FindStep
    \/ asked = "region" /\ RegionStep
    \/ asked = "heads" /\ HeadStep
    \/ asked = "labels" /\ LabelStep

MCNext ==
    /\ UNCHANGED <<asked, page, typed, expr, lenient>>
    /\ \/ /\ MemoStep
          /\ UNCHANGED <<codeVars, nestVars, argumentVars, paragraphVars, citationVars>>
       \/ /\ asked = "code" /\ CodeNext
          /\ UNCHANGED <<vars, nestVars, argumentVars, paragraphVars, citationVars>>
       \/ /\ asked = "nest" /\ NestNext
          /\ UNCHANGED <<vars, codeVars, argumentVars, paragraphVars, citationVars>>
       \/ /\ asked = "arguments" /\ ArgumentsNext
          /\ UNCHANGED <<vars, codeVars, nestVars, paragraphVars, citationVars>>
       \/ /\ asked = "paragraphs" /\ ParagraphNext
          /\ UNCHANGED <<vars, codeVars, nestVars, argumentVars, citationVars>>
       \/ /\ asked = "citations" /\ CitationNext
          /\ UNCHANGED <<vars, codeVars, nestVars, argumentVars, paragraphVars>>

MCSpec ==
    /\ MCInit
    /\ [][MCNext]_<<vars, codeVars, nestVars, argumentVars, paragraphVars,
                  citationVars, asked, page, typed, expr, lenient>>

-----------------------------------------------------------------------------
(* The walk of validate_reachable_close over all the tokens from s on. *)

LastOpener(open, name) == CHOOSE i \in DOMAIN open :
    open[i] = name /\ \A j \in (i + 1)..Len(open) : open[j] # name

Stepped(a, t, d, c) ==
    CASE t = "end" -> [a EXCEPT !.out = IF a.broken THEN "failed" ELSE "end"]
      [] KindOf[t] = d -> [a EXCEPT !.out = "closed"]
      [] KindOf[t] = "break" -> [a EXCEPT !.broken = TRUE]
      [] KindOf[t] \in {"open", "link"} /\ c.blocks = "matter" ->
            IF NameOf[t] \in Names THEN [a EXCEPT !.open = Append(@, NameOf[t])] ELSE a
      [] KindOf[t] = "close" /\ c.blocks = "matter" ->
            IF Contains(a.open, NameOf[t])
              THEN [a EXCEPT !.open = SubSeq(@, 1, LastOpener(@, NameOf[t]) - 1)]
              ELSE IF NameOf[t] \in c.rejects THEN [a EXCEPT !.out = "rejected"] ELSE a
      [] OTHER -> a

Walked(p, d, s, c) ==
    FoldLeft(LAMBDA a, t : IF a.out # "none" THEN a ELSE Stepped(a, t, d, c),
             [out |-> "none", broken |-> FALSE, open |-> << >>],
             SubSeq(p, s, Len(p))).out

\* What DelimiterAnswersFresh says of a walk that passes all tokens is how it ends.
ASSUME WalksEnd ==
    \A p \in PagesOf("delimiter"), d \in Delims, c \in Contexts :
        \A s \in {s \in DOMAIN p : Sound(c) /\ \A i \in s..(Len(p) - 1) :
                                      /\ KindOf[p[i]] # d
                                      /\ c.blocks = "matter" => KindOf[p[i]] \notin BlockTokens} :
            Walked(p, d, s, c) =
                IF \E i \in s..(Len(p) - 1) : KindOf[p[i]] = "break" THEN "failed" ELSE "end"

-----------------------------------------------------------------------------
(* The pattern of a symmetric marker M: nothing or a body that begins and ends with no  *)
(* space between two Ms, ungreedy and first fit, over the text v that is visible.       *)

Pattern(v, m) ==
    LET Text(i) == page[v[i]]
        Body(i, j) == j > i + 1 /\ Text(i + 1) # "sp" /\ Text(j - 1) # "sp"
        Closers(i) == {j \in (i + 1)..Len(v) : Text(j) = m /\ Body(i, j)}
        From[i \in 1..(Len(v) + 1)] ==
            IF i > Len(v) THEN NoScan
            ELSE IF Text(i) # m THEN From[i + 1]
            ELSE IF m # "--" /\ i < Len(v) /\ Text(i + 1) = m
              THEN Removed(From[i + 2], {v[i], v[i + 1]})
            ELSE IF Closers(i) = {} THEN From[i + 1]
            ELSE Paired(From[Min(Closers(i)) + 1], v[i], v[Min(Closers(i))], m)
    IN  From[1]

Chunks == {<<a, b>> \in (1..Len(page)) \X (1..Len(page)) :
              /\ a <= b /\ \A i \in a..b : page[i] \notin Barriers
              /\ a = 1 \/ page[a - 1] \in Barriers
              /\ page[b + 1] \in Barriers}

\* Whatever the rules before took out of a chunk, a symmetric rule finds the pairs its
\* pattern finds in the text that is left.
PairsMatchPatterns ==
    \A ch \in Chunks, m \in Range(BeforeMono) \cup Range(AfterMono) :
        LET chunk == ch[1]..ch[2]
        IN  \A s \in {NoScan, Symmetric(page, chunk, NoScan, "**")} :
               Symmetric(page, chunk, s, m) =
                   Merged(s, Pattern(Sorted(chunk \ s.removed), m))

Crossing(pairs) == \E p, q \in pairs :
    p.open < q.open /\ q.open < p.close /\ p.close < q.close

\* The events the roles stand for are well formed: every construct opens and closes in
\* turn, never across a block, a blank line or an opaque token.  The test for pairs that
\* cross is exact, and where they do, in a chunk the scan can see through, every marker
\* has a role but an empty strong pair before a footnote.
RolesExact ==
    \A roles \in {MarkerRoles(page)} :
        LET Marks(k, m) == {i \in DOMAIN roles : roles[i] = [mark |-> m, kind |-> k]}
            Balanced(k) ==
                /\ Cardinality(Marks(k, "open")) = Cardinality(Marks(k, "close"))
                /\ \A i \in Marks(k, "open") : \E j \in Marks(k, "close") :
                      /\ j > i
                      /\ \A x \in i..j : page[x] \notin Barriers \cup Opaque
                      /\ \A x \in (i + 1)..(j - 1) :
                            x \notin Marks(k, "open") \cup Marks(k, "close")
            Flat(chunk, scan) ==
                /\ PairsInterleave(scan.done.pairs) = Crossing(scan.done.pairs)
                /\ Crossing(scan.done.pairs) /\ (\A i \in chunk : page[i] \notin Opaque) =>
                      \A i \in MarkersIn(page, chunk) :
                         i \in DOMAIN roles \/ page[Max(chunk) + 1] = "note"
        IN  /\ \A k \in Markers : Balanced(k)
            /\ \A ch \in Chunks : \A scan \in {ScanOf(page, ch[1]..ch[2])} :
                  Flat(ch[1]..ch[2], scan)

-----------------------------------------------------------------------------
\* The evaluator gives an expression the value that it means, by precedence and
\* associativity alone; of what is no expression, divides by zero under the strict policy
\* or passes a limit, it leaves as text what breaks off, or passes the limit with its last
\* token, where no operator that asks for an operand is reading, and shows an error for
\* the rest (evaluate, operator_rhs).
ExpressionsExact == asked = "expression" => ExpressionExact(expr, lenient)

\* "Invalid or resource-bounded expressions remain literal" (parser_functions/mod.rs:52).
LimitsStayLiteral == asked = "expression" => StaysLiteral(expr, lenient)

-----------------------------------------------------------------------------
(* A page with conditionals reads as if it had only what is shown of them.  The        *)
(* differences are known: a space where a seam lies within spaces, quotes of a line    *)
(* that begins with them, and lines that are hidden as a whole.                        *)

Visible(p) == SelectSeq([i \in DOMAIN p |-> i], LAMBDA i : i \notin Paired_(p))
SeamLines(p) ==
    LET borders == {0, Len(p) + 1} \cup {i \in DOMAIN p : p[i] = "nl"}
        ends    == SetToSortSeq(borders, <)
    IN  [n \in 1..(Len(ends) - 1) |-> SubSeq(Parsed(p), ends[n] + 1, ends[n + 1] - 1)]

\* Spaces on both sides of a seam are one.
Closed_(s, seams) ==
    LET wide == {r \in Runs(s, {" "}) : Crosses(r, seams)}
    IN  Edited(s, {Edit(r, "wide") : r \in wide})
Narrowed(s) == [i \in DOMAIN s |-> IF s[i] = "wide" THEN " " ELSE s[i]]

\* Two > begin a quoted line only if there is no seam before the last of them.
Quoted_(s, seams) ==
    \E r \in Runs(s, {">"}) : r.first = 1 /\ \A k \in seams : k >= r.last
WantedLine(row) ==
    LET s == Closed_(Characters(row), SeamsOf(row))
    IN  Narrowed(IF Quoted_(Characters(row), SeamsOf(row)) THEN Substituted(s, FALSE)
                 ELSE Tail(Substituted(<<"x">> \o s, FALSE)))

WantedText(p) ==
    LET rows == SeamLines(p)
        kept == SelectSeq([n \in DOMAIN rows |-> n],
                          LAMBDA k : k = 1 \/ ~OnlySeams(rows[k]))
    IN  Tail(FlattenSeq([k \in DOMAIN kept |-> <<"nl">> \o WantedLine(rows[kept[k]])]))

\* No quote is opened within another, and the two characters of a double quote are
\* written together.
PlainQuotes(p) ==
    LET v == Visible(p)
        s == [k \in DOMAIN v |-> p[v[k]]]
        Together(i) == i \in 1..(Len(v) - 1) /\ v[i + 1] = v[i] + 1 /\ s[i] = s[i + 1]
    IN  \A m \in Surrounded(s, Single, 1) :
            LET opened == {k \in m.first..m.last : s[k] = "lq"}
            IN  \/ opened = {m.first}
                \/ opened = {m.first, m.first + 1} /\ Together(m.first) /\ Together(m.last)

\* What is shown around conditionals is what the page would show if it had been written
\* without the tags and the hidden parts, and no replacement at a seam touches another
\* (seam_equivalence.rs; quotes within quotes are left out).
SeamsTransparent ==
    asked = "seams" =>
        /\ PlainQuotes(typed) => Shown(typed) = WantedText(typed)
        /\ \A row \in Range(SeamLines(Substituted(typed, TRUE))) :
              LET edits == SeamEdits(Characters(row), SeamsOf(row))
              IN  \A e, f \in edits : e = f \/ ~Overlap(e, f)

=============================================================================
