----------------------------- MODULE MCIncludes -----------------------------
(***************************************************************************)
(* Includes on texts put together from lines, against what the text should *)
(* become.                                                                 *)
(***************************************************************************)
EXTENDS Includes

CONSTANTS Lines,    \* the lines texts are made of
          MaxLines  \* bound on the lines of a text

Joined(lines) == FlattenSeq(lines)

MCTexts == {Joined(lines) : lines \in UNION {[1..n -> Lines] : n \in 0..MaxLines}}

\* An included page that holds an include itself.
MCPage   == <<"inc", "pg", "end">>
MCNoPage == <<"pg">>

PlainLine    == <<"inc", "pg", "end", "nl">>
Quoted   == <<"gt", "inc", "pg", "end", "nl">>
Pageless == <<"inc", "end", "nl">>
OpenLine   == <<"inc", "pg", "nl">>
Deep     == <<"gt", "gt", "inc", "pg", "nl">>
Closed   == <<"gt", "pg", "end", "nl">>
DeepEnd  == <<"gt", "gt", "gt", "end">>
Hides    == <<"gt", "inc", "gt", "nl", "gt", "op", "cm", "end", "nl">>
Shows    == <<"gt", "ce", "end", "nl">>
Comments == <<"inc", "pg", "cm", "end", "nl">>
Word     == <<"pg", "nl">>
Unended  == <<"inc", "gt", "end">>
Rest     == <<"pg">>

\* Blocks, whole, without a page and unfinished, quoted and not, quotes of several
\* lines and depths, terminators inside comments, and lines that run on.
MCLines == {PlainLine, Quoted, Pageless, OpenLine, Deep, Closed, DeepEnd, Hides, Shows,
            Comments, Word, Unended, Rest}

=============================================================================
