------------------------------ MODULE CodeSpans ------------------------------
(***************************************************************************)
(* The code blocks of a source, found before the page is parsed            *)
(* (wikidot_code.rs, candidates): the openers that own their line are      *)
(* paired with the closers that end a block, and each pair notes how many  *)
(* closers its body holds, so that the rule for code blocks, which reads   *)
(* tokens and knows nothing of openers, can skip that many.  Two monotone  *)
(* memos answer for the scan: whether only blanks precede a position on    *)
(* its line, and where the next closing bracket is.                        *)
(*                                                                         *)
(* The source is a sequence of units: "[[", "/", "code", "]]", blanks,     *)
(* line breaks and other text.  0 stands for None.                         *)
(***************************************************************************)
EXTENDS Integers, Sequences, FiniteSets

CONSTANT Unit

ASSUME CodeSpansAssumption == {"[[", "/", "code", "]]", "sp", "nl"} \subseteq Unit

VARIABLES source,
          cursor,   \* where the scan looks for the next "[["
          stack,    \* the openers that have no closer yet
          output,   \* the candidates, by opener
          lines,    \* LineOwnership
          brackets  \* CloseBracketCursor

codeVars == <<source, cursor, stack, output, lines, brackets>>

Blank == {"sp", "nl"}
Size == Len(source)
Unit_(i) == IF i \in 1..Size THEN source[i] ELSE "end"
Earliest(S) == IF S = {} THEN 0 ELSE CHOOSE i \in S : \A j \in S : i <= j
NextBracket(p) == Earliest({i \in p..Size : source[i] = "]]"})
NextMarker(p) == Earliest({i \in p..Size : source[i] = "[["})

\* has_physical_line_ownership: only blanks between the last line break and here.
Owned(p) == \A i \in 1..(p - 1) :
    (\A j \in i..(p - 1) : source[j] # "nl") => source[i] = "sp"

-----------------------------------------------------------------------------
(* The memos. *)

\* next_at: a position before the one scanned from is answered directly.
BracketAnswer(b, p) ==
    IF p < b.from THEN NextBracket(p)
    ELSE IF b.found >= p THEN b.found
    ELSE IF b.found = 0 /\ b.from # 0 THEN 0
    ELSE NextBracket(p)

BracketAsked(b, p) ==
    IF p < b.from \/ b.found >= p \/ (b.found = 0 /\ b.from # 0) THEN b
    ELSE [from |-> p, found |-> NextBracket(p)]

\* Mutated form: a line break does not give the line back.
LineAskedOnce(l, p) ==
    [upto |-> p, clean |-> l.clean /\ \A i \in l.upto..(p - 1) : source[i] \in Blank]

\* LineOwnership::at scans on from where it was.
LineAsked(l, p) ==
    LET breaks == {i \in l.upto..(p - 1) : source[i] = "nl"}
        from == IF breaks = {} THEN l.upto
                ELSE 1 + CHOOSE i \in breaks : \A j \in breaks : j <= i
    IN  [upto |-> p, clean |-> /\ breaks # {} \/ l.clean
                               /\ \A i \in from..(p - 1) : source[i] = "sp"]

-----------------------------------------------------------------------------
(* Markers. *)

\* code_closer_marker_end
CloserEnd(m, b) ==
    LET e == BracketAnswer(b, m + 2)
    IN  IF Unit_(m + 1) = "/" /\ e # 0 /\ SubSeq(source, m + 2, e - 1) = <<"code">>
          THEN e + 1 ELSE 0

AfterCloser(m, b) == IF Unit_(m + 1) = "/" THEN BracketAsked(b, m + 2) ELSE b

\* code_closer_terminates
Terminates(p) == Unit_(p) \in Blank \cup {"end"}

\* code_opener_end_checked
OpenerEnd(m, l, b) ==
    LET e == BracketAnswer(b, m + 1)
    IN  IF l.clean /\ e # 0 /\ Unit_(m + 1) = "code" /\ (e = m + 2 \/ Unit_(m + 2) \in Blank)
          THEN e + 1 ELSE 0

AfterOpener(m, l, b) == IF l.clean THEN BracketAsked(b, m + 1) ELSE b

Candidate(open, closer, skip) ==
    [body |-> open.body, closer |-> closer, skip |-> skip]

Top == stack[Len(stack)]
Popped == SubSeq(stack, 1, Len(stack) - 1)

\* Mutated form: the closers nested deeper are forgotten.
ClosedOne(opens, closer, nested) ==
    IF opens = << >> THEN opens
    ELSE [opens EXCEPT ![Len(opens)].nested = @ + 1, ![Len(opens)].fallback = closer]

\* The block below counts the closers of the one that is closed.
Closed(opens, closer, nested) ==
    IF opens = << >> THEN opens
    ELSE [opens EXCEPT ![Len(opens)].nested = @ + nested, ![Len(opens)].fallback = closer]

\* A closer ends the innermost open block; one that is not followed by a blank is text.
TakeCloser ==
    /\ \E m \in {NextMarker(cursor)} \ {0} :
          LET past == CloserEnd(m, brackets)
          IN  /\ past # 0
              /\ cursor' = past
              /\ brackets' = AfterCloser(m, brackets)
              /\ IF Terminates(past) /\ stack # << >>
                   THEN /\ output' = [o \in DOMAIN output \cup {Top.opener} |->
                                        IF o = Top.opener THEN Candidate(Top, m, Top.nested)
                                        ELSE output[o]]
                        /\ stack' = Closed(Popped, m, 1 + Top.nested)
                   ELSE UNCHANGED <<output, stack>>
    /\ UNCHANGED <<source, lines>>

TakeOpener ==
    /\ \E m \in {NextMarker(cursor)} \ {0} :
          LET asked == LineAsked(lines, m)
              past == OpenerEnd(m, asked, AfterCloser(m, brackets))
          IN  /\ CloserEnd(m, brackets) = 0
              /\ past # 0
              /\ cursor' = past
              /\ lines' = asked
              /\ brackets' = AfterOpener(m, asked, AfterCloser(m, brackets))
              /\ stack' = Append(stack, [opener |-> m, body |-> past,
                                         nested |-> 0, fallback |-> 0])
    /\ UNCHANGED <<source, output>>

PassMarker ==
    /\ \E m \in {NextMarker(cursor)} \ {0} :
          LET asked == LineAsked(lines, m)
          IN  /\ CloserEnd(m, brackets) = 0
              /\ OpenerEnd(m, asked, AfterCloser(m, brackets)) = 0
              /\ cursor' = m + 1
              /\ lines' = asked
              /\ brackets' = AfterOpener(m, asked, AfterCloser(m, brackets))
    /\ UNCHANGED <<source, stack, output>>

\* At the end, an opener left open takes the last closer that ended a block in it.
DrainOpener ==
    /\ NextMarker(cursor) = 0
    /\ stack # << >>
    /\ IF Top.fallback = 0 THEN output' = output /\ stack' = Popped
       ELSE /\ output' = [o \in DOMAIN output \cup {Top.opener} |->
                            IF o = Top.opener
                              THEN Candidate(Top, Top.fallback, Top.nested - 1)
                            ELSE output[o]]
            /\ stack' = Closed(Popped, Top.fallback, Top.nested)
    /\ UNCHANGED <<source, cursor, lines, brackets>>

CodeInit ==
    /\ source \in Seq(Unit)
    /\ cursor = 1
    /\ stack = << >>
    /\ output = << >>
    /\ lines = [upto |-> 1, clean |-> TRUE]
    /\ brackets = [from |-> 0, found |-> 0]

CodeNext == TakeCloser \/ TakeOpener \/ PassMarker \/ DrainOpener

Found == NextMarker(cursor) = 0 /\ stack = << >>

\* active_ranges: the candidates that do not begin inside an earlier active one.
Active ==
    LET Taken[m \in 0..Size] ==
            /\ m \in DOMAIN output
            /\ \A o \in 1..(m - 1) : Taken[o] => output[o].closer + 3 < m
    IN  {m \in DOMAIN output : Taken[m]}

\* get_body_text_after_skipping_end_blocks: the rule reads on to a closer that ends a
\* block, and skips the number of them it was told to; what opens does not matter.
ClosersIn(from, to) ==
    {i \in from..to : /\ <<Unit_(i), Unit_(i + 1), Unit_(i + 2), Unit_(i + 3)>>
                            = <<"[[", "/", "code", "]]">>
                      /\ Terminates(i + 4)}
ReadTo(c) ==
    LET Ends(i) == Cardinality(ClosersIn(c.body, i - 1)) = c.skip
    IN  Earliest({i \in ClosersIn(c.body, Size) : Ends(i)})

-----------------------------------------------------------------------------

\* The memos say what a scan of the source from its beginning would say: whether only
\* blanks precede a position on its line (LineOwnership), and where the next closing
\* bracket is (CloseBracketCursor), whichever marker asks.
CodeMemosFresh ==
    /\ lines.clean = Owned(lines.upto)
    /\ lines.upto <= cursor
    /\ \A p \in cursor..Size : BracketAnswer(brackets, p) = NextBracket(p)

-----------------------------------------------------------------------------
(* The pairing, from the whole source. *)

CodeHead(m) ==
    /\ Unit_(m) = "[[" /\ Unit_(m + 1) = "code"
    /\ Unit_(m + 2) \in Blank \cup {"]]"}
    /\ NextBracket(m) # 0

\* The openers: code heads that begin their line and do not lie in another's head.
Openers ==
    LET Opens[m \in 0..Size] ==
            /\ m # 0 /\ CodeHead(m) /\ Owned(m)
            /\ \A o \in 1..(m - 1) : Opens[o] => NextBracket(o) < m
    IN  {m \in 1..Size : Opens[m]}

InHeads(openers) == UNION {o..NextBracket(o) : o \in openers}

\* An opener takes the first closer up to which closers and openers balance; without
\* one, the last closer after it.
Pairing(openers, closers) ==
    LET Opened(o, c) == Cardinality(openers \cap (o..c))
        Ended(o, c) == Cardinality(closers \cap (o..c))
        Balanced(o) == Earliest({c \in closers : c > o /\ Opened(o, c) = Ended(o, c)})
        Last == CHOOSE c \in closers : \A d \in closers : d <= c
        End(o) == IF Balanced(o) # 0 THEN Balanced(o) ELSE Last
    IN  [o \in {p \in openers : \E c \in closers : c > p} |->
            [body |-> NextBracket(o) + 1, closer |-> End(o), skip |-> Ended(o, End(o)) - 1]]

\* The candidates are exactly the pairs of that definition, however they nest, are left
\* open or share a closer.  A code block that is not inside another is read up to its
\* closer by a rule that only counts closers - if no head in its body holds one.  On the
\* way, what is remembered of the line and of the next bracket is so.
CandidatesExact ==
    /\ CodeMemosFresh
    /\ Found =>
          LET openers == Openers
              heads == InHeads(openers)
          IN  /\ output = Pairing(openers, ClosersIn(1, Size) \ heads)
              /\ \A o \in Active :
                    (heads \cap ClosersIn(output[o].body, output[o].closer) = {}) =>
                        ReadTo(output[o]) = output[o].closer

=============================================================================
